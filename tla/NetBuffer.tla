----------------------------- MODULE NetBuffer ------------------------------
(***************************************************************************)
(* The receive buffer of class NetMode (net/net.hpp, net/net_core.cpp),    *)
(* which the server and the client both inherit.  Frame() takes at most    *)
(* one datagram off the socket and stores it; a tick pops the newest       *)
(* stored message, handles it and frees its payload.  Both run on the main *)
(* thread, one after the other, so each is one action.                     *)
(*                                                                         *)
(* Frame() stores datagrams whatever its owner does; only an owner in      *)
(* SERVER_RUNNING, CLIENT_CONNECTING or CLIENT_CONNECTED pops them.  A     *)
(* client comes to such a state and leaves it again any number of times.   *)
(*                                                                         *)
(* A message is its type and the pointer to its payload.  Bytes, sequence  *)
(* numbers (written, never read) and addresses are left out.               *)
(***************************************************************************)
EXTENDS Integers, Sequences, FiniteSets

CONSTANTS
    NET_BUFFER_SIZE,    \* slots of netBuffer (64 in the code)
    MsgTypes,           \* message types that pass the validity checks
    Payloads,           \* addresses that new uint8_t[] can return
    NULL,               \* the payload pointer of a header-only message
    Uninit,             \* what a slot holds before its first use
    MaxArrivals         \* model bound: datagrams that arrive in a behaviour

ASSUME NetBufferAssumption ==
    /\ NET_BUFFER_SIZE \in Nat \ {0}
    /\ NULL \notin Payloads
    /\ MaxArrivals \in Nat

Slots == 0 .. NET_BUFFER_SIZE - 1

Message == [type : MsgTypes, data : Payloads \cup {NULL}]

VARIABLES
    netBuffer,      \* the slots
    netBufferPtr,   \* index of the newest message, -1 when there is none
    heap,           \* payload blocks allocated and not freed
    lost,           \* blocks whose message was thrown away without freeing it
    leakedDgrams,   \* NET_Datagram objects returned by SDL and never destroyed
    arrived,        \* datagrams received so far
    ticking         \* whether the owner is in a state that ticks the network

vars == <<netBuffer, netBufferPtr, heap, lost, leakedDgrams, arrived, ticking>>

\* A server ticks from its first frame on, a client is yet to connect.
Init ==
    /\ netBuffer = [i \in Slots |-> Uninit]
    /\ netBufferPtr = -1
    /\ heap = {}
    /\ lost = {}
    /\ leakedDgrams = 0
    /\ arrived = 0
    /\ ticking \in BOOLEAN

-----------------------------------------------------------------------------
\* The payloads, if any, of a message and of the messages in a set of slots.
PayloadOf(m) == {m.data} \ {NULL}
PayloadsIn(S) == {netBuffer[i].data : i \in S} \ {NULL}

\* The slots that hold a message not yet handed out.
Buffered == 0 .. netBufferPtr

Arrive == arrived < MaxArrivals /\ arrived' = arrived + 1

\* A datagram that is too short, or has a wrong magic number, an excessive
\* size or an unknown type: the function returns before it owns anything but
\* the datagram, which it does not destroy.
RejectDatagram ==
    /\ Arrive
    /\ leakedDgrams' = leakedDgrams + 1
    /\ UNCHANGED <<netBuffer, netBufferPtr, heap, lost>>

\* A valid datagram is copied into a fresh block and stored on top.
StoreDatagram(m) ==
    /\ Arrive
    /\ m.data \notin heap
    /\ netBufferPtr + 1 < NET_BUFFER_SIZE
    /\ netBufferPtr' = netBufferPtr + 1
    /\ netBuffer' = [netBuffer EXCEPT ![netBufferPtr + 1] = m]
    /\ heap' = heap \cup PayloadOf(m)
    /\ UNCHANGED <<lost, leakedDgrams>>

\* (mutant) The overflow branch resets the index to its initial value.
OverflowBuffer_RestartsEmpty(m) ==
    /\ Arrive
    /\ m.data \notin heap
    /\ netBufferPtr + 1 >= NET_BUFFER_SIZE
    /\ netBufferPtr' = -1
    /\ heap' = heap \cup PayloadOf(m)
    /\ lost' = lost \cup PayloadOf(m) \cup PayloadsIn(Slots \ {0})
    /\ leakedDgrams' = leakedDgrams + 1
    /\ UNCHANGED netBuffer

\* (mutant) The overflow branch falls through and stores at the restarted index.
OverflowBuffer_StoresAtZero(m) ==
    /\ Arrive
    /\ m.data \notin heap
    /\ netBufferPtr + 1 >= NET_BUFFER_SIZE
    /\ netBufferPtr' = 0
    /\ netBuffer' = [netBuffer EXCEPT ![0] = m]
    /\ heap' = heap \cup PayloadOf(m)
    /\ lost' = lost \cup PayloadsIn(Slots)
    /\ UNCHANGED leakedDgrams

\* A valid datagram when every slot is taken: the index restarts at 0, so
\* only the oldest message survives, and the early return forgets the new
\* message and its datagram.
OverflowBuffer(m) ==
    /\ Arrive
    /\ m.data \notin heap
    /\ netBufferPtr + 1 >= NET_BUFFER_SIZE
    /\ netBufferPtr' = 0
    /\ heap' = heap \cup PayloadOf(m)
    /\ lost' = lost \cup PayloadOf(m) \cup PayloadsIn(Slots \ {0})
    /\ leakedDgrams' = leakedDgrams + 1
    /\ UNCHANGED netBuffer

\* GetAllIncomingMessages with a datagram on the socket.  Without one it
\* changes nothing.
GetAllIncomingMessages ==
    /\ \/ RejectDatagram
       \/ \E m \in Message : StoreDatagram(m) \/ OverflowBuffer(m)
    /\ UNCHANGED ticking

\* (mutant) The emptiness test treats index 0 as empty.
GetMessage_MissesSlotZero ==
    /\ netBufferPtr > 0
    /\ netBufferPtr' = netBufferPtr - 1

\* (mutant) The index is lowered only when it is the last one.
GetMessage_KeepsIndex ==
    /\ netBufferPtr >= 0
    /\ netBufferPtr' = IF netBufferPtr = 0 THEN -1 ELSE netBufferPtr

\* GetMessage hands out the newest message in place, in the slot that is now
\* just above the top; the slot keeps its contents.
GetMessage ==
    /\ netBufferPtr >= 0
    /\ netBufferPtr' = netBufferPtr - 1

\* A tick that handles the message and ends in DoneMessage.
HandleMessage ==
    /\ GetMessage
    /\ heap' = heap \ PayloadOf(netBuffer[netBufferPtr])
    /\ UNCHANGED <<netBuffer, lost, leakedDgrams, arrived>>

\* A tick whose handler returns without DoneMessage: the server does so for
\* a packet from an address it does not know, the client when it is told that
\* the server shuts down.
AbandonMessage ==
    /\ GetMessage
    /\ lost' = lost \cup PayloadOf(netBuffer[netBufferPtr])
    /\ UNCHANGED <<netBuffer, heap, leakedDgrams, arrived>>

\* A tick that finds a message.  The message may take the owner out of the
\* ticking states: a client that is refused, or told of the shutdown.
Tick ==
    /\ ticking
    /\ HandleMessage \/ AbandonMessage
    /\ ticking' \in BOOLEAN

\* The owner changes its state without taking a message off the buffer: the
\* server's address is resolved, the user connects anew, either shuts down.
ChangeState ==
    /\ ticking' = ~ticking
    /\ UNCHANGED <<netBuffer, netBufferPtr, heap, lost, leakedDgrams, arrived>>

Next == GetAllIncomingMessages \/ Tick \/ ChangeState

\* Engine_Run ticks at a fixed rate for as long as the program runs, but the
\* buffer is owed a tick only while its owner stays in a ticking state.
Fairness == WF_vars(Tick)

Spec == Init /\ [][Next]_vars /\ Fairness

-----------------------------------------------------------------------------
\* The index stays inside the array, and every slot at or below it has been
\* written (GetMessage never returns a slot still uninitialised).
TypeOK ==
    /\ netBuffer \in [Slots -> Message \cup {Uninit}]
    /\ netBufferPtr \in -1 .. NET_BUFFER_SIZE - 1
    /\ \A i \in Buffered : netBuffer[i] \in Message
    /\ heap \subseteq Payloads
    /\ lost \subseteq Payloads
    /\ leakedDgrams \in 0 .. arrived
    /\ arrived \in 0 .. MaxArrivals
    /\ ticking \in BOOLEAN

\* DoneMessage of any buffered message deletes a live block, and no other
\* buffered message points to it: no double free and no use after free can
\* come out of the buffer, although every popped slot keeps its old pointer.
BufferedPayloadsOwned ==
    \A i \in Buffered : netBuffer[i].data # NULL =>
        /\ netBuffer[i].data \in heap
        /\ \A j \in Buffered \ {i} : netBuffer[j].data # netBuffer[i].data

\* Every allocated block either still has its message in the buffer or was
\* lost at one of the two places that throw a message away, never both: the
\* overflow branch and the early return are the only leaks.
PayloadsAccounted ==
    /\ heap = PayloadsIn(Buffered) \cup lost
    /\ PayloadsIn(Buffered) \cap lost = {}

\* Array, index and in-place use of the slots behave as the bounded stack of
\* module MessageStack, which is popped while the owner ticks.
Stack == INSTANCE MessageStack WITH
    Capacity <- NET_BUFFER_SIZE,
    stack <- [i \in 1 .. netBufferPtr + 1 |-> netBuffer[i - 1]],
    popping <- ticking

ImplementsStack == Stack!StackSpec

\* However full the buffer was, an owner that stays in a ticking state empties
\* it for good once datagrams stop arriving.  One that leaves those states
\* keeps what is stored, and handles it first thing if it ever comes back.
DrainsWhenQuiet == <>[]ticking => <>[](netBufferPtr = -1)
=============================================================================
