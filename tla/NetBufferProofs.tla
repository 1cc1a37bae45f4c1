--------------------------- MODULE NetBufferProofs ---------------------------
(***************************************************************************)
(* Theorems about NetBuffer, for every buffer size, every set of message   *)
(* types and every set of payload addresses.                               *)
(***************************************************************************)
EXTENDS NetBuffer, TLAPS

\* The inductive invariant: who owns a payload matters for the accounting,
\* and neither is inductive without the type invariant's "every buffered
\* slot holds a message".
IInv == TypeOK /\ BufferedPayloadsOwned /\ PayloadsAccounted

\* The index and the slots keep their types through every operation.
THEOREM TypeCorrect == Spec => []TypeOK
<1> USE NetBufferAssumption DEF TypeOK, Slots, Message, Buffered, PayloadOf
<1>1. Init => TypeOK
  BY DEF Init
<1>2. TypeOK /\ [Next]_vars => TypeOK'
  <2> SUFFICES ASSUME TypeOK, [Next]_vars PROVE TypeOK'
    OBVIOUS
  <2>1. ASSUME RejectDatagram, UNCHANGED ticking PROVE TypeOK'
    BY <2>1 DEF RejectDatagram, Arrive
  <2>2. ASSUME NEW m \in Message, StoreDatagram(m), UNCHANGED ticking
        PROVE  TypeOK'
    BY <2>2 DEF StoreDatagram, Arrive
  <2>3. ASSUME NEW m \in Message, OverflowBuffer(m), UNCHANGED ticking
        PROVE  TypeOK'
    <3>1. /\ netBuffer[0] \in Message
          /\ PayloadsIn(Slots \ {0}) \subseteq Payloads
          /\ PayloadOf(m) \subseteq Payloads
      BY <2>3 DEF OverflowBuffer, PayloadsIn
    <3>2. heap' \subseteq Payloads /\ lost' \subseteq Payloads
      BY <2>3, <3>1 DEF OverflowBuffer
    <3>3. \A i \in Buffered' : netBuffer'[i] \in Message
      BY <2>3, <3>1 DEF OverflowBuffer
    <3>4. /\ netBuffer' = netBuffer
          /\ netBufferPtr' = 0
          /\ arrived < MaxArrivals /\ arrived' = arrived + 1
          /\ leakedDgrams' = leakedDgrams + 1
          /\ ticking' = ticking
      BY <2>3 DEF OverflowBuffer, Arrive
    <3>5. QED
      BY <3>2, <3>3, <3>4
  <2>4. ASSUME HandleMessage, ticking' \in BOOLEAN PROVE TypeOK'
    BY <2>4 DEF HandleMessage, GetMessage
  <2>5. ASSUME AbandonMessage, ticking' \in BOOLEAN PROVE TypeOK'
    BY <2>5 DEF AbandonMessage, GetMessage
  <2>6. CASE ChangeState
    BY <2>6 DEF ChangeState
  <2>7. CASE UNCHANGED vars
    BY <2>7 DEF vars
  <2>8. QED
    BY <2>1, <2>2, <2>3, <2>4, <2>5, <2>6, <2>7
    DEF Next, GetAllIncomingMessages, Tick
<1>3. QED
  BY <1>1, <1>2, PTL DEF Spec

-----------------------------------------------------------------------------
\* Storing a message adds exactly its payload to the buffered ones.
LEMMA StoreKeepsOwnership ==
  ASSUME IInv, TypeOK', NEW m \in Message, StoreDatagram(m)
  PROVE  BufferedPayloadsOwned' /\ PayloadsAccounted'
<1> USE DEF IInv, TypeOK, Slots, Message
<1>1. /\ Buffered' = Buffered \cup {netBufferPtr + 1}
      /\ netBufferPtr + 1 \notin Buffered
      /\ netBufferPtr + 1 \in Slots
  BY DEF StoreDatagram, Buffered
<1>2. /\ \A i \in Buffered : netBuffer'[i] = netBuffer[i]
      /\ netBuffer'[netBufferPtr + 1] = m
  BY <1>1 DEF StoreDatagram, Buffered
<1>3. PayloadsIn(Buffered)' = PayloadsIn(Buffered) \cup PayloadOf(m)
  BY <1>1, <1>2 DEF PayloadsIn, PayloadOf
<1>4. /\ m.data \notin heap
      /\ heap' = heap \cup PayloadOf(m)
      /\ lost' = lost
  BY DEF StoreDatagram
<1>5. BufferedPayloadsOwned'
  BY <1>1, <1>2, <1>4 DEF BufferedPayloadsOwned, PayloadOf
<1>6. PayloadsAccounted'
  BY <1>3, <1>4 DEF PayloadsAccounted, PayloadOf
<1>7. QED
  BY <1>5, <1>6

\* The overflow branch keeps slot 0 and accounts for everything else.
LEMMA OverflowKeepsOwnership ==
  ASSUME IInv, TypeOK', NEW m \in Message, OverflowBuffer(m)
  PROVE  BufferedPayloadsOwned' /\ PayloadsAccounted'
<1> USE DEF IInv, TypeOK, Slots, Message
<1>1. /\ Buffered = Slots
      /\ Buffered' = {0}
      /\ 0 \in Slots
      /\ netBuffer' = netBuffer
  BY NetBufferAssumption DEF OverflowBuffer, Buffered
<1>2. /\ m.data \notin heap
      /\ heap' = heap \cup PayloadOf(m)
      /\ lost' = lost \cup PayloadOf(m) \cup PayloadsIn(Slots \ {0})
  BY DEF OverflowBuffer
<1>3. /\ PayloadsIn(Buffered)' = PayloadOf(netBuffer[0])
      /\ PayloadsIn(Buffered) = PayloadsIn(Slots \ {0}) \cup PayloadOf(netBuffer[0])
  BY <1>1 DEF PayloadsIn, PayloadOf
<1>4. PayloadOf(netBuffer[0]) \cap PayloadsIn(Slots \ {0}) = {}
  BY <1>1 DEF BufferedPayloadsOwned, PayloadsIn, PayloadOf
<1>5. BufferedPayloadsOwned'
  BY <1>1, <1>2 DEF BufferedPayloadsOwned
<1>6. PayloadOf(netBuffer[0]) \cap PayloadOf(m) = {}
  BY <1>2, <1>3 DEF PayloadsAccounted, PayloadOf
<1>7. PayloadsAccounted'
  <2> DEFINE first == PayloadOf(netBuffer[0])
             rest == PayloadsIn(Slots \ {0})
  <2>1. /\ heap = rest \cup first \cup lost
        /\ (rest \cup first) \cap lost = {}
    BY <1>3 DEF PayloadsAccounted
  <2>2. first \cap rest = {} /\ first \cap PayloadOf(m) = {}
    BY <1>4, <1>6
  <2>3. PayloadsIn(Buffered)' = first
    BY <1>3
  <2>4. heap' = heap \cup PayloadOf(m) /\ lost' = lost \cup PayloadOf(m) \cup rest
    BY <1>2
  <2> HIDE DEF first, rest
  <2>5. heap' = first \cup lost'
    BY <2>1, <2>4
  <2>6. first \cap lost' = {}
    BY <2>1, <2>2, <2>4
  <2>7. QED
    BY <2>3, <2>5, <2>6 DEF PayloadsAccounted
<1>8. QED
  BY <1>5, <1>7

\* Popping a message removes exactly its payload from the buffered ones.
LEMMA PopRemovesPayload ==
  ASSUME IInv, GetMessage, netBuffer' = netBuffer
  PROVE  /\ Buffered' \subseteq Buffered
         /\ PayloadsIn(Buffered)' =
              PayloadsIn(Buffered) \ PayloadOf(netBuffer[netBufferPtr])
         /\ PayloadOf(netBuffer[netBufferPtr]) \subseteq PayloadsIn(Buffered)
         /\ \A i \in Buffered' :
              netBuffer[i].data \notin PayloadOf(netBuffer[netBufferPtr])
<1> USE DEF IInv, TypeOK, Slots
<1>1. /\ Buffered' = Buffered \ {netBufferPtr}
      /\ netBufferPtr \in Buffered
  BY DEF GetMessage, Buffered
<1>2. \A i \in Buffered' :
        netBuffer[i].data \notin PayloadOf(netBuffer[netBufferPtr])
  BY <1>1 DEF BufferedPayloadsOwned, PayloadOf
<1>3. QED
  BY <1>1, <1>2 DEF PayloadsIn, PayloadOf

\* IInv is inductive.
LEMMA OwnershipInductive == IInv /\ [Next]_vars /\ TypeOK' => IInv'
<1> SUFFICES ASSUME IInv, [Next]_vars, TypeOK'
             PROVE  BufferedPayloadsOwned' /\ PayloadsAccounted'
  BY DEF IInv
<1>1. CASE RejectDatagram
  BY <1>1 DEF RejectDatagram, IInv, BufferedPayloadsOwned, PayloadsAccounted,
              Buffered, PayloadsIn
<1>2. ASSUME NEW m \in Message, StoreDatagram(m)
      PROVE  BufferedPayloadsOwned' /\ PayloadsAccounted'
  BY <1>2, StoreKeepsOwnership
<1>3. ASSUME NEW m \in Message, OverflowBuffer(m)
      PROVE  BufferedPayloadsOwned' /\ PayloadsAccounted'
  BY <1>3, OverflowKeepsOwnership
<1>4. CASE HandleMessage
  <2>1. GetMessage /\ netBuffer' = netBuffer /\ lost' = lost
    BY <1>4 DEF HandleMessage
  <2>2. heap' = heap \ PayloadOf(netBuffer[netBufferPtr])
    BY <1>4 DEF HandleMessage
  <2>3. BufferedPayloadsOwned'
    BY <2>1, <2>2, PopRemovesPayload DEF IInv, BufferedPayloadsOwned
  <2>4. PayloadsAccounted'
    BY <2>1, <2>2, PopRemovesPayload DEF IInv, PayloadsAccounted
  <2>5. QED
    BY <2>3, <2>4
<1>5. CASE AbandonMessage
  <2>1. GetMessage /\ netBuffer' = netBuffer /\ heap' = heap
    BY <1>5 DEF AbandonMessage
  <2>2. lost' = lost \cup PayloadOf(netBuffer[netBufferPtr])
    BY <1>5 DEF AbandonMessage
  <2>3. BufferedPayloadsOwned'
    BY <2>1, PopRemovesPayload DEF IInv, BufferedPayloadsOwned
  <2>4. PayloadsAccounted'
    BY <2>1, <2>2, PopRemovesPayload DEF IInv, PayloadsAccounted
  <2>5. QED
    BY <2>3, <2>4
<1>6. CASE ChangeState \/ UNCHANGED vars
  BY <1>6 DEF ChangeState, vars, IInv, BufferedPayloadsOwned,
              PayloadsAccounted, Buffered, PayloadsIn
<1>7. QED
  BY <1>1, <1>2, <1>3, <1>4, <1>5, <1>6 DEF Next, GetAllIncomingMessages, Tick

\* Nothing is buffered, allocated or lost at the start.
LEMMA OwnershipInit == Init => BufferedPayloadsOwned /\ PayloadsAccounted
<1> SUFFICES ASSUME Init PROVE BufferedPayloadsOwned /\ PayloadsAccounted
  OBVIOUS
<1>1. Buffered = {}
  BY DEF Init, Buffered
<1>2. QED
  BY <1>1 DEF Init, BufferedPayloadsOwned, PayloadsAccounted, PayloadsIn

\* Every payload a handler can reach through the buffer is live and reached
\* from one slot only: DoneMessage (net_core.cpp:132) never double-frees.
THEOREM OwnershipCorrect == Spec => []BufferedPayloadsOwned
<1>1. Init => BufferedPayloadsOwned /\ PayloadsAccounted
  BY OwnershipInit
<1>2. IInv /\ [Next]_vars /\ TypeOK' => IInv'
  BY OwnershipInductive
<1>3. QED
  BY <1>1, <1>2, TypeCorrect, PTL DEF Spec, IInv

\* The only payloads ever leaked are those of the two branches that throw a
\* message away (net_core.cpp:106-111 and server_core.cpp:191-195).
THEOREM AccountingCorrect == Spec => []PayloadsAccounted
<1>1. Init => BufferedPayloadsOwned /\ PayloadsAccounted
  BY OwnershipInit
<1>2. IInv /\ [Next]_vars /\ TypeOK' => IInv'
  BY OwnershipInductive
<1>3. QED
  BY <1>1, <1>2, TypeCorrect, PTL DEF Spec, IInv

-----------------------------------------------------------------------------
\* The abstract stack that the slots 0 .. netBufferPtr stand for.
Stacked == [i \in 1 .. netBufferPtr + 1 |-> netBuffer[i - 1]]

\* It is a sequence of messages.
LEMMA StackedType ==
  ASSUME TypeOK
  PROVE  /\ Stacked \in Seq(Message)
         /\ Len(Stacked) = netBufferPtr + 1
<1>1. netBufferPtr + 1 \in Nat
  BY NetBufferAssumption DEF TypeOK
<1>2. \A i \in 1 .. netBufferPtr + 1 : netBuffer[i - 1] \in Message
  BY <1>1 DEF TypeOK, Buffered
<1>3. QED
  BY <1>1, <1>2 DEF Stacked

\* Storing in slot netBufferPtr + 1 pushes.
LEMMA StorePushes ==
  ASSUME TypeOK, TypeOK', NEW m \in Message, StoreDatagram(m)
  PROVE  Len(Stacked) < NET_BUFFER_SIZE /\ Stacked' = Append(Stacked, m)
<1>1. netBufferPtr + 1 \in Nat /\ netBufferPtr + 1 < NET_BUFFER_SIZE
  BY NetBufferAssumption DEF TypeOK, StoreDatagram
<1>2. /\ netBufferPtr' = netBufferPtr + 1
      /\ netBuffer' = [netBuffer EXCEPT ![netBufferPtr + 1] = m]
      /\ netBuffer \in [Slots -> Message \cup {Uninit}]
  BY DEF StoreDatagram, TypeOK
<1>3. \A i \in 1 .. netBufferPtr + 1 : netBuffer'[i - 1] = netBuffer[i - 1]
  BY <1>1, <1>2, NetBufferAssumption DEF Slots
<1>4. netBuffer'[netBufferPtr + 1] = m
  BY <1>1, <1>2, NetBufferAssumption DEF Slots
<1>5. Len(Stacked) = netBufferPtr + 1 /\ Stacked \in Seq(Message)
  BY StackedType
<1>6. Len(Stacked') = netBufferPtr + 2 /\ Stacked' \in Seq(Message)
  <2>1. netBufferPtr' + 1 = netBufferPtr + 2 /\ netBufferPtr + 2 \in Nat
    BY <1>1, <1>2, NetBufferAssumption DEF TypeOK
  <2>2. \A i \in 1 .. netBufferPtr + 2 : netBuffer'[i - 1] \in Message
    <3>1. \A i \in 0 .. netBufferPtr' : netBuffer'[i] \in Message
      BY DEF TypeOK, Buffered
    <3>2. netBufferPtr' = netBufferPtr + 1 /\ netBufferPtr \in Int
      BY <1>2, NetBufferAssumption DEF TypeOK
    <3>3. QED
      BY <3>1, <3>2
  <2>3. Stacked' = [i \in 1 .. netBufferPtr + 2 |-> netBuffer'[i - 1]]
    BY <2>1 DEF Stacked
  <2>4. QED
    BY <2>1, <2>2, <2>3
<1>7. QED
  BY <1>1, <1>2, <1>3, <1>4, <1>5, <1>6 DEF Stacked

\* Restarting the index at 0 leaves the oldest message.
LEMMA OverflowTruncates ==
  ASSUME TypeOK, NEW m \in Message, OverflowBuffer(m)
  PROVE  /\ Len(Stacked) = NET_BUFFER_SIZE
         /\ Stacked' = SubSeq(Stacked, 1, 1)
<1>1. netBufferPtr + 1 = NET_BUFFER_SIZE /\ NET_BUFFER_SIZE \in Nat \ {0}
  BY NetBufferAssumption DEF TypeOK, OverflowBuffer
<1>2. netBufferPtr' = 0 /\ netBuffer' = netBuffer
  BY DEF OverflowBuffer
<1>3. Len(Stacked) = netBufferPtr + 1 /\ Stacked \in Seq(Message)
  BY StackedType
<1>4. Stacked' = [i \in 1 .. 1 |-> netBuffer[i - 1]]
  BY <1>2 DEF Stacked
<1>5. QED
  BY <1>1, <1>3, <1>4 DEF Stacked

\* Lowering the index drops the newest message.
LEMMA GetPops ==
  ASSUME TypeOK, GetMessage, netBuffer' = netBuffer
  PROVE  /\ Stacked # <<>>
         /\ Stacked' = SubSeq(Stacked, 1, Len(Stacked) - 1)
<1>1. netBufferPtr \in Nat /\ netBufferPtr' + 1 = netBufferPtr
  BY NetBufferAssumption DEF TypeOK, GetMessage
<1>2. Len(Stacked) = netBufferPtr + 1 /\ Stacked \in Seq(Message)
  BY StackedType
<1>3. Stacked' = [i \in 1 .. netBufferPtr |-> netBuffer[i - 1]]
  BY <1>1 DEF Stacked
<1>4. QED
  BY <1>1, <1>2, <1>3 DEF Stacked

\* The array, its index and the in-place handling of messages implement the
\* bounded stack: newest first, down to the oldest on overflow, and popped by
\* an owner that ticks the network only.
THEOREM ImplementsStackSafety == Spec => Stack!StackSafety
<1>1. Init => Stack!StackInit
  <2> SUFFICES ASSUME Init PROVE Stacked = <<>>
    BY DEF Init, Stack!StackInit, Stacked
  <2>1. netBufferPtr + 1 = 0
    BY DEF Init
  <2>2. QED
    BY <2>1 DEF Stacked
<1>2. TypeOK /\ TypeOK' /\ [Next]_vars => [Stack!StackNext]_<<Stacked, ticking>>
  <2> SUFFICES ASSUME TypeOK, TypeOK', [Next]_vars
               PROVE  [Stack!StackNext]_<<Stacked, ticking>>
    OBVIOUS
  <2>1. ASSUME RejectDatagram, UNCHANGED ticking
        PROVE  UNCHANGED <<Stacked, ticking>>
    BY <2>1 DEF RejectDatagram, Stacked
  <2>2. ASSUME NEW m \in Message, StoreDatagram(m), UNCHANGED ticking
        PROVE  Stack!StackNext
    BY <2>2, StorePushes DEF Stack!StackNext, Stack!Push, Stacked
  <2>3. ASSUME NEW m \in Message, OverflowBuffer(m), UNCHANGED ticking
        PROVE  Stack!StackNext
    BY <2>3, OverflowTruncates DEF Stack!StackNext, Stack!Overflow, Stacked
  <2>4. CASE Tick
    <3>1. /\ GetMessage /\ netBuffer' = netBuffer
          /\ ticking /\ ticking' \in BOOLEAN
      BY <2>4 DEF Tick, HandleMessage, AbandonMessage
    <3>2. QED
      BY <3>1, GetPops DEF Stack!StackNext, Stack!Pop, Stacked
  <2>5. CASE ChangeState
    BY <2>5 DEF ChangeState, Stack!StackNext, Stack!Turn, Stacked
  <2>6. CASE UNCHANGED vars
    BY <2>6 DEF vars, Stacked
  <2>7. QED
    BY <2>1, <2>2, <2>3, <2>4, <2>5, <2>6 DEF Next, GetAllIncomingMessages
<1>3. QED
  BY <1>1, <1>2, TypeCorrect, PTL
  DEF Spec, Stack!StackSafety, Stack!stackVars, Stacked
=============================================================================
