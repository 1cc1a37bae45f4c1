---------------------------- MODULE ServerProofs -----------------------------
(***************************************************************************)
(* Theorems about Server, for every array length, chunk size, world size,  *)
(* set of peers and set of object addresses.                               *)
(***************************************************************************)
EXTENDS Server, FiniteSetTheorems, TLAPS

-----------------------------------------------------------------------------
(* The operators *)

\* Touching objects never ends in anything but a heap fault.
LEMMA OutcomesType ==
  /\ \A S : Outcomes(S) \subseteq {"none", "heap"}
  /\ \A c : BroadcastOutcomes(c) \subseteq {"none", "heap"}
BY DEF Outcomes, BroadcastOutcomes

\* A chunk is a natural number of bytes and, from a progress inside the
\* world, ends inside the world.
LEMMA ChunkSizeType ==
  ASSUME NEW o \in Object
  PROVE  /\ ChunkSize(o) \in Nat
         /\ o.progress <= WorldBytes => o.progress + ChunkSize(o) <= WorldBytes
BY ServerAssumption DEF ChunkSize, Object

\* An object in a used slot is an object.
LEMMA UsedObject ==
  ASSUME ServerTypeOK, NEW i \in Used
  PROVE  /\ i \in Slots
         /\ clients[i] \in Ptrs
         /\ Obj(i) \in Object
BY DEF ServerTypeOK, Used, Obj

\* The effect of sending a chunk on the heap.
LEMMA SendChunkHeap ==
  ASSUME ServerTypeOK, NEW i \in Used, ClientSendWorldChunk(i)
  PROVE  /\ heap' \in [Ptrs -> Object]
         /\ DownloadConsistent => DownloadConsistent'
<1> DEFINE o == Obj(i)
           done == o.progress + ChunkSize(o)
           o2 == [o EXCEPT !.progress = done,
                           !.phase = IF done >= WorldBytes THEN "LETS_GO" ELSE @]
<1>1. clients[i] \in Ptrs /\ o \in Object
  BY UsedObject
<1>2. heap' = [heap EXCEPT ![clients[i]] = o2]
  BY DEF ClientSendWorldChunk
<1>3. /\ done \in Nat /\ o.progress \in Nat /\ o.progress <= done
      /\ o.progress <= WorldBytes => done <= WorldBytes
  BY <1>1, ChunkSizeType DEF Object
<1> HIDE DEF done
<1>4. /\ o2 \in Object
      /\ o2.progress = done
      /\ o2.phase = "LETS_GO" => done >= WorldBytes \/ o.phase = "LETS_GO"
  BY <1>1, <1>3 DEF Object, Phases
<1>5. heap' \in [Ptrs -> Object]
  BY <1>2, <1>4, <1>1 DEF ServerTypeOK
<1>6. ASSUME DownloadConsistent PROVE DownloadConsistent'
  <2>1. o.progress \in Nat /\ o.progress <= WorldBytes
    BY <1>1, <1>6 DEF DownloadConsistent, Obj, Object
  <2>2. o.phase = "LETS_GO" => o.progress = WorldBytes
    BY <1>1, <1>6 DEF DownloadConsistent, Obj
  <2>3. /\ o2.progress <= WorldBytes
        /\ o2.phase = "LETS_GO" => o2.progress = WorldBytes
    BY <1>3, <1>4, <2>1, <2>2, ServerAssumption
  <2>4. /\ heap'[clients[i]] = o2
        /\ \A p \in Ptrs \ {clients[i]} : heap'[p] = heap[p]
    BY <1>1, <1>2 DEF ServerTypeOK
  <2>5. QED
    BY <1>6, <2>3, <2>4 DEF DownloadConsistent
<1>7. QED
  BY <1>5, <1>6

\* The effect of ClientRemove on the roster and the heap.
LEMMA RemoveType ==
  ASSUME ServerTypeOK, NEW c \in Ptrs, NEW also, ClientRemove(c, also)
  PROVE  /\ clients' \in [Slots -> Ptrs \cup {NULL}]
         /\ numClients' \in 0 .. MAX_CLIENTS
         /\ heap' \in [Ptrs -> Object]
         /\ fault' \in {"none", "heap"}
<1> USE ServerAssumption DEF ServerTypeOK
<1>1. fault' \in {"none", "heap"}
  BY OutcomesType DEF ClientRemove
<1>2. CASE numClients = 0
  BY <1>1, <1>2 DEF ClientRemove
<1>3. CASE numClients # 0
  <2>1. heap' = [heap EXCEPT ![c].live = FALSE]
    BY <1>3 DEF ClientRemove
  <2>2. heap' \in [Ptrs -> Object]
    BY <2>1 DEF Object
  <2>3. clients' \in [Slots -> Ptrs \cup {NULL}] /\ numClients' \in 0 .. MAX_CLIENTS
    BY <1>3 DEF ClientRemove, ClearedSlots, Slots
  <2>4. QED
    BY <1>1, <2>2, <2>3
<1>4. QED
  BY <1>2, <1>3

-----------------------------------------------------------------------------
(* Type correctness *)

\* What each kind of message step does to the typed variables.
LEMMA HelloType ==
  ASSUME ServerTypeOK, NEW m \in Hello, ClientNew(m)
  PROVE  ServerTypeOK'
<1> USE ServerAssumption DEF ServerTypeOK
<1>1. m.from \in Peers /\ m.username \in Usernames
  BY DEF Hello
<1>2. CASE RejectHello(m)
  <2>1. fault' \in {"none", "heap"}
    BY <1>2, OutcomesType DEF RejectHello
  <2>2. QED
    BY <1>2, <2>1 DEF RejectHello, MessageTurn
<1>3. CASE AcceptHello(m)
  <2>1. PICK p \in {q \in Ptrs : ~heap[q].live}, garbled \in BOOLEAN :
          /\ clients' = [clients EXCEPT ![numClients] = p]
          /\ heap' = [heap EXCEPT ![p] = NewObject(m.from)]
          /\ fault' \in BroadcastOutcomes(p)
    BY <1>3 DEF AcceptHello
  <2>2. fault' \in {"none", "heap"}
    BY <2>1, OutcomesType
  <2>3. NewObject(m.from) \in Object
    BY <1>1 DEF NewObject, Object, Phases
  <2>4. heap' \in [Ptrs -> Object] /\ clients' \in [Slots -> Ptrs \cup {NULL}]
    BY <2>1, <2>3
  <2>5. numClients' \in 0 .. MAX_CLIENTS
    BY <1>3 DEF AcceptHello, Slots
  <2>6. members' \subseteq Peers
        /\ admitted' \subseteq Peers
    BY <1>1, <1>3 DEF AcceptHello
  <2>7. QED
    BY <1>3, <2>2, <2>4, <2>5, <2>6 DEF AcceptHello, MessageTurn
<1>4. CASE OverrunSlots(m)
  BY <1>4 DEF OverrunSlots, MessageTurn
<1>5. QED
  BY <1>2, <1>3, <1>4 DEF ClientNew

LEMMA RequestType ==
  ASSUME ServerTypeOK, NEW m \in Request, IgnoreRequest(m) \/ ClientMessage(m)
  PROVE  ServerTypeOK'
<1> USE ServerAssumption DEF ServerTypeOK
<1>1. MembersAfter(m) \subseteq Peers
  BY DEF MembersAfter
<1>2. CASE IgnoreRequest(m)
  <2>1. fault' \in {"none", "heap"}
    BY <1>2, OutcomesType DEF IgnoreRequest
  <2>2. QED
    BY <1>1, <1>2, <2>1 DEF IgnoreRequest, MessageTurn
<1>3. CASE ClientMessage(m)
  <2>1. PICK i \in Slots :
          /\ IsFirst(i, SlotsOf(AddrOf[m.from]))
          /\ IF m.type = "WORLD_DOWNLOAD_START"
             THEN ClientStartWorldDownload(clients[i])
             ELSE ClientRemove(clients[i], {})
    BY <1>3 DEF ClientMessage
  <2>2. clients[i] \in Ptrs
    BY <2>1, UsedObject DEF IsFirst, SlotsOf
  <2>3. /\ clients' \in [Slots -> Ptrs \cup {NULL}]
        /\ numClients' \in 0 .. MAX_CLIENTS
        /\ heap' \in [Ptrs -> Object]
        /\ fault' \in {"none", "heap"}
    <3>1. CASE m.type = "WORLD_DOWNLOAD_START"
      <4>1. ClientStartWorldDownload(clients[i])
        BY <2>1, <3>1
      <4>2. fault' \in {"none", "heap"}
        BY <4>1, OutcomesType DEF ClientStartWorldDownload
      <4>3. heap' \in [Ptrs -> Object]
        <5>1. heap' = [heap EXCEPT ![clients[i]].phase = "DOWNLOADING"]
          BY <4>1 DEF ClientStartWorldDownload
        <5>2. heap[clients[i]] \in Object
          BY <2>2
        <5>3. [heap[clients[i]] EXCEPT !.phase = "DOWNLOADING"] \in Object
          BY <5>2 DEF Object, Phases
        <5>4. heap' = [heap EXCEPT ![clients[i]] = [heap[clients[i]] EXCEPT !.phase = "DOWNLOADING"]]
          BY <5>1
        <5>5. QED
          BY <5>3, <5>4
      <4>4. QED
        BY <4>1, <4>2, <4>3 DEF ClientStartWorldDownload
    <3>2. CASE m.type # "WORLD_DOWNLOAD_START"
      BY <2>1, <2>2, <3>2, RemoveType
    <3>3. QED
      BY <3>1, <3>2
  <2>4. QED
    BY <1>1, <1>3, <2>3 DEF ClientMessage, MessageTurn
<1>4. QED
  BY <1>2, <1>3

LEMMA DownloadType == ASSUME ServerTypeOK, TickDownloads PROVE ServerTypeOK'
<1> USE ServerAssumption DEF ServerTypeOK
<1>1. fault' \in {"none", "heap"}
  BY OutcomesType DEF TickDownloads
<1>2. heap' \in [Ptrs -> Object]
  BY SendChunkHeap DEF TickDownloads
<1>3. slot' \in 0 .. MAX_CLIENTS
  BY DEF TickDownloads
<1>4. QED
  BY <1>1, <1>2, <1>3 DEF TickDownloads

LEMMA ShutdownType == ASSUME ServerTypeOK, ShutdownSlot PROVE ServerTypeOK'
<1> USE ServerAssumption DEF ServerTypeOK
<1>1. slot' \in 0 .. MAX_CLIENTS
  BY DEF ShutdownSlot
<1>2. CASE slot \in Used
  <2>1. clients[slot] \in Ptrs /\ ClientRemove(clients[slot], {Bye(Obj(slot).peer)})
    BY <1>2, UsedObject DEF ShutdownSlot
  <2>2. /\ clients' \in [Slots -> Ptrs \cup {NULL}]
        /\ numClients' \in 0 .. MAX_CLIENTS
        /\ heap' \in [Ptrs -> Object]
        /\ fault' \in {"none", "heap"}
    BY <2>1, RemoveType
  <2>3. members' \subseteq Peers
    BY <1>2 DEF ShutdownSlot
  <2>4. QED
    BY <1>1, <2>2, <2>3 DEF ShutdownSlot
<1>3. CASE slot \notin Used
  BY <1>1, <1>3 DEF ShutdownSlot
<1>4. QED
  BY <1>2, <1>3

LEMMA TypeInit == ServerInit => ServerTypeOK
BY ServerAssumption
DEF ServerInit, ServerTypeOK, NoObject, Object, Phases, Slots

LEMMA TypeInductive == ServerTypeOK /\ [ServerNext]_serverVars => ServerTypeOK'
<1> SUFFICES ASSUME ServerTypeOK, [ServerNext]_serverVars PROVE ServerTypeOK'
  OBVIOUS
<1>1. CASE TickDownloads
  BY <1>1, DownloadType
<1>2. CASE NoMessage
  BY <1>2, ServerAssumption DEF NoMessage, MessageTurn, ServerTypeOK
<1>3. ASSUME NEW m \in Hello \cup Request, Receive(m) PROVE ServerTypeOK'
  BY <1>3, HelloType, RequestType DEF Receive
<1>4. ASSUME NEW n \in ConsoleMaxPlayers, SetMaxPlayers(n) PROVE ServerTypeOK'
  BY <1>4 DEF SetMaxPlayers, ServerTypeOK
<1>5. CASE BeginShutdown
  BY <1>5 DEF BeginShutdown, ServerTypeOK
<1>6. CASE ShutdownSlot
  BY <1>6, ShutdownType
<1>7. CASE FinishShutdown
  BY <1>7 DEF FinishShutdown, ServerTypeOK
<1>8. CASE UNCHANGED serverVars
  BY <1>8 DEF serverVars, ServerTypeOK
<1>9. QED
  BY <1>1, <1>2, <1>3, <1>4, <1>5, <1>6, <1>7, <1>8 DEF ServerNext

\* Every variable keeps its type; in particular numClients and the loop
\* index never leave 0 .. MAX_CLIENTS, whatever limit the console sets.
THEOREM TypeCorrect == ServerSpec => []ServerTypeOK
BY TypeInit, TypeInductive, PTL DEF ServerSpec

-----------------------------------------------------------------------------
(* The slots in use and the downloads *)

\* SlotsBelowCount needs no more than the types: log in fills the slot at
\* numClients, removal clears the one below it.
LEMMA RemoveKeepsSlots ==
  ASSUME ServerTypeOK, SlotsBelowCount, NEW c \in Ptrs, NEW also, ClientRemove(c, also)
  PROVE  SlotsBelowCount'
<1> USE ServerAssumption DEF ServerTypeOK, SlotsBelowCount, Slots
<1>1. CASE numClients = 0
  BY <1>1 DEF ClientRemove
<1>2. CASE numClients # 0
  <2>1. /\ clients' = [clients EXCEPT ![numClients - 1] = NULL]
        /\ numClients' = numClients - 1
    BY <1>2 DEF ClientRemove, ClearedSlots
  <2>2. QED
    BY <1>2, <2>1
<1>3. QED
  BY <1>1, <1>2

\* No removal touches the progress of a download.
LEMMA RemoveKeepsDownloads ==
  ASSUME ServerTypeOK, DownloadConsistent, NEW c \in Ptrs, NEW also,
         ClientRemove(c, also)
  PROVE  DownloadConsistent'
<1>1. CASE numClients = 0
  BY <1>1 DEF ClientRemove, DownloadConsistent
<1>2. CASE numClients # 0
  <2>1. heap' = [heap EXCEPT ![c].live = FALSE]
    BY <1>2 DEF ClientRemove
  <2>2. \A p \in Ptrs : /\ heap'[p].progress = heap[p].progress
                        /\ heap'[p].phase = heap[p].phase
    BY <2>1 DEF ServerTypeOK, Object
  <2>3. QED
    BY <2>2 DEF DownloadConsistent
<1>3. QED
  BY <1>1, <1>2

\* Accepting a client extends the used slots by one and adds an object whose
\* download has not begun.
LEMMA AcceptKeepsInvariants ==
  ASSUME ServerTypeOK, SlotsBelowCount, DownloadConsistent,
         NEW m \in Hello, AcceptHello(m)
  PROVE  SlotsBelowCount' /\ DownloadConsistent'
<1>1. PICK p \in Ptrs : /\ clients' = [clients EXCEPT ![numClients] = p]
                        /\ heap' = [heap EXCEPT ![p] = NewObject(m.from)]
  BY DEF AcceptHello
<1>2. numClients \in Slots /\ numClients' = numClients + 1 /\ p # NULL
  BY ServerAssumption DEF AcceptHello
<1>3. SlotsBelowCount'
  BY <1>1, <1>2, ServerAssumption DEF ServerTypeOK, SlotsBelowCount, Slots
<1>4. DownloadConsistent'
  BY <1>1, ServerAssumption DEF ServerTypeOK, DownloadConsistent, NewObject
<1>5. QED
  BY <1>3, <1>4

Inv == SlotsBelowCount /\ DownloadConsistent

LEMMA RequestKeepsInv ==
  ASSUME ServerTypeOK, Inv, NEW m \in Request, IgnoreRequest(m) \/ ClientMessage(m)
  PROVE  Inv'
<1>1. CASE IgnoreRequest(m)
  BY <1>1 DEF IgnoreRequest, Inv, SlotsBelowCount, DownloadConsistent
<1>2. CASE ClientMessage(m)
  <2>1. PICK i \in Slots :
          /\ IsFirst(i, SlotsOf(AddrOf[m.from]))
          /\ IF m.type = "WORLD_DOWNLOAD_START"
             THEN ClientStartWorldDownload(clients[i])
             ELSE ClientRemove(clients[i], {})
    BY <1>2 DEF ClientMessage
  <2>2. clients[i] \in Ptrs
    BY <2>1, UsedObject DEF IsFirst, SlotsOf
  <2>3. CASE m.type = "WORLD_DOWNLOAD_START"
    <3>1. /\ heap' = [heap EXCEPT ![clients[i]].phase = "DOWNLOADING"]
          /\ clients' = clients /\ numClients' = numClients
      BY <2>1, <2>3 DEF ClientStartWorldDownload
    <3>2. \A p \in Ptrs : /\ heap'[p].progress = heap[p].progress
                          /\ heap'[p].phase \in {heap[p].phase, "DOWNLOADING"}
      BY <3>1 DEF ServerTypeOK, Object
    <3>3. DownloadConsistent'
      BY <3>2 DEF Inv, DownloadConsistent
    <3>4. QED
      BY <3>1, <3>3 DEF Inv, SlotsBelowCount
  <2>4. CASE m.type # "WORLD_DOWNLOAD_START"
    BY <2>1, <2>2, <2>4, RemoveKeepsSlots, RemoveKeepsDownloads DEF Inv
  <2>5. QED
    BY <2>3, <2>4
<1>3. QED
  BY <1>1, <1>2

LEMMA InvInductive == ServerTypeOK /\ Inv /\ [ServerNext]_serverVars => Inv'
<1> SUFFICES ASSUME ServerTypeOK, Inv, [ServerNext]_serverVars PROVE Inv'
  OBVIOUS
<1>1. CASE TickDownloads
  <2>1. clients' = clients /\ numClients' = numClients
    BY <1>1 DEF TickDownloads
  <2>2. DownloadConsistent'
    BY <1>1, SendChunkHeap DEF TickDownloads, Inv, DownloadConsistent
  <2>3. QED
    BY <2>1, <2>2 DEF Inv, SlotsBelowCount
<1>2. ASSUME NEW m \in Hello \cup Request, Receive(m) PROVE Inv'
  <2>1. CASE m \in Hello /\ AcceptHello(m)
    BY <2>1, AcceptKeepsInvariants DEF Inv
  <2>2. CASE RejectHello(m) \/ OverrunSlots(m)
    BY <2>2 DEF RejectHello, OverrunSlots, Inv, SlotsBelowCount,
                DownloadConsistent
  <2>3. CASE m \in Request /\ (IgnoreRequest(m) \/ ClientMessage(m))
    BY <2>3, RequestKeepsInv
  <2>4. QED
    BY <1>2, <2>1, <2>2, <2>3 DEF Receive, ClientNew
<1>3. CASE ShutdownSlot
  <2>1. CASE slot \in Used
    <3>1. clients[slot] \in Ptrs /\ ClientRemove(clients[slot], {Bye(Obj(slot).peer)})
      BY <1>3, <2>1, UsedObject DEF ShutdownSlot
    <3>2. QED
      BY <3>1, RemoveKeepsSlots, RemoveKeepsDownloads DEF Inv
  <2>2. CASE slot \notin Used
    BY <1>3, <2>2 DEF ShutdownSlot, Inv, SlotsBelowCount, DownloadConsistent
  <2>3. QED
    BY <2>1, <2>2
<1>4. CASE \/ NoMessage \/ BeginShutdown \/ FinishShutdown \/ UNCHANGED serverVars
           \/ \E n \in ConsoleMaxPlayers : SetMaxPlayers(n)
  BY <1>4 DEF NoMessage, BeginShutdown, FinishShutdown, SetMaxPlayers, serverVars,
              Inv, SlotsBelowCount, DownloadConsistent
<1>5. QED
  BY <1>1, <1>2, <1>3, <1>4 DEF ServerNext

LEMMA InvInit == ServerInit => Inv
BY ServerAssumption
DEF ServerInit, Inv, SlotsBelowCount, DownloadConsistent, NoObject, Slots

\* The slots in use are the first numClients ones, always: the loops over
\* clients[] and the next log in agree on who is where.
THEOREM SlotsCorrect == ServerSpec => []SlotsBelowCount
<1>1. ServerInit => Inv
  BY InvInit
<1>2. ServerTypeOK /\ Inv /\ [ServerNext]_serverVars => Inv'
  BY InvInductive
<1>3. Inv => SlotsBelowCount
  BY DEF Inv
<1>4. QED
  BY <1>1, <1>2, <1>3, TypeCorrect, PTL DEF ServerSpec

\* No download leaves the world or finishes early (server_core.cpp:67-100).
THEOREM DownloadsCorrect == ServerSpec => []DownloadConsistent
<1>1. ServerInit => Inv
  BY InvInit
<1>2. ServerTypeOK /\ Inv /\ [ServerNext]_serverVars => Inv'
  BY InvInductive
<1>3. Inv => DownloadConsistent
  BY DEF Inv
<1>4. QED
  BY <1>1, <1>2, <1>3, TypeCorrect, PTL DEF ServerSpec

\* The client in a slot stays the same for as long as the slot is in use.
LEMMA SameInSlot ==
  ASSUME ServerTypeOK, SlotsBelowCount, [ServerNext]_serverVars, NEW i \in Slots,
         i \in Used, i \in Used'
  PROVE  clients'[i] = clients[i]
<1> USE ServerAssumption DEF Used
<1>1. ASSUME NEW c, NEW also, ClientRemove(c, also) PROVE clients'[i] = clients[i]
  BY <1>1 DEF ClientRemove, ClearedSlots, ServerTypeOK, Slots
<1>2. ASSUME NEW m \in Hello, AcceptHello(m) PROVE clients'[i] = clients[i]
  BY <1>2 DEF AcceptHello, ServerTypeOK, SlotsBelowCount, Slots
<1>3. ASSUME NEW m \in Hello \cup Request, Receive(m) PROVE clients'[i] = clients[i]
  BY <1>1, <1>2, <1>3
  DEF Receive, ClientNew, RejectHello, OverrunSlots, IgnoreRequest,
      ClientMessage, ClientStartWorldDownload
<1>4. CASE ShutdownSlot
  BY <1>1, <1>4 DEF ShutdownSlot
<1>5. CASE \/ TickDownloads \/ NoMessage \/ BeginShutdown \/ FinishShutdown
           \/ UNCHANGED serverVars \/ \E n \in ConsoleMaxPlayers : SetMaxPlayers(n)
  BY <1>5 DEF TickDownloads, NoMessage, BeginShutdown, FinishShutdown,
              SetMaxPlayers, serverVars
<1>6. QED
  BY <1>3, <1>4, <1>5 DEF ServerNext

\* A slot in use is never given to another client before it was emptied.
THEOREM SlotsNotOverwritten == ServerSpec => NoSlotOverwritten
<1>1. ServerTypeOK /\ SlotsBelowCount /\ [ServerNext]_serverVars
        => [\A i \in Slots : clients[i] # NULL
               => clients'[i] \in {clients[i], NULL}]_serverVars
  BY SameInSlot DEF Used
<1>2. QED
  BY <1>1, TypeCorrect, SlotsCorrect, PTL DEF ServerSpec, NoSlotOverwritten

\* clients[] is written out of bounds only under a limit that the console
\* set and that does not fit the array; CapyNet_Init sees to the others.
THEOREM OverrunCorrect == ServerSpec => []OverrunOnlyByConsole
<1>1. ServerInit => OverrunOnlyByConsole
  BY DEF ServerInit, OverrunOnlyByConsole
<1>2. ASSUME ServerTypeOK, OverrunOnlyByConsole, [ServerNext]_serverVars
      PROVE  OverrunOnlyByConsole'
  <2>1. ASSUME NEW m \in Hello, OverrunSlots(m) PROVE OverrunOnlyByConsole'
    <3>1. netMaxPlayers \in Int /\ netMaxPlayers > MAX_CLIENTS
      BY <1>2, <2>1, ServerAssumption
      DEF OverrunSlots, HelloStatus, ServerTypeOK, Slots, InitialLimit
    <3>2. netMaxPlayers \in ConsoleMaxPlayers
      BY <1>2, <3>1, ServerAssumption DEF ServerTypeOK, InitialLimit
    <3>3. QED
      BY <2>1, <3>1, <3>2 DEF OverrunSlots, OverrunOnlyByConsole
  <2>2. ASSUME NEW m \in Hello \cup Request, Receive(m)
        PROVE  OverrunOnlyByConsole'
    <3>1. fault' # "slots" \/ (m \in Hello /\ OverrunSlots(m))
      BY <2>2, OutcomesType
      DEF Receive, ClientNew, RejectHello, AcceptHello, IgnoreRequest,
          ClientMessage, ClientStartWorldDownload, ClientRemove
    <3>2. QED
      BY <2>1, <3>1 DEF OverrunOnlyByConsole
  <2>3. CASE TickDownloads
    BY <2>3, OutcomesType DEF TickDownloads, OverrunOnlyByConsole
  <2>4. CASE ShutdownSlot
    BY <1>2, <2>4, OutcomesType
    DEF ShutdownSlot, ClientRemove, OverrunOnlyByConsole
  <2>5. CASE \E n \in ConsoleMaxPlayers : SetMaxPlayers(n)
    BY <2>5 DEF SetMaxPlayers, Running, OverrunOnlyByConsole
  <2>6. CASE \/ NoMessage \/ BeginShutdown \/ FinishShutdown \/ UNCHANGED serverVars
    BY <1>2, <2>6 DEF NoMessage, BeginShutdown, FinishShutdown, serverVars,
                      OverrunOnlyByConsole
  <2>7. QED
    BY <1>2, <2>2, <2>3, <2>4, <2>5, <2>6 DEF ServerNext
<1>3. QED
  BY <1>1, <1>2, TypeCorrect, PTL DEF ServerSpec
-----------------------------------------------------------------------------
(* A server that takes one client *)

\* The limit is one, as given and for whatever the console sets; no two peers
\* share an address.
TakesOne == InitialLimit <= 1 /\ \A n \in ConsoleMaxPlayers : n <= 1
OwnAddresses == \A p, q \in Peers : AddrOf[p] = AddrOf[q] => p = q

\* No more than the first slot is ever in use, by a live object.
OneInv ==
    /\ ServerTypeOK /\ SlotsBelowCount
    /\ numClients <= 1
    /\ \A i \in Used : Obj(i).live /\ Obj(i).peer \in Peers
    /\ NoHeapFault

\* Its peer is the member.
MemberInv ==
    Running =>
        /\ numClients = 0 => members = {}
        /\ numClients = 1 => members = {Obj(0).peer}

LEMMA OneUsed ==
  ASSUME OneInv
  PROVE  /\ numClients \in {0, 1}
         /\ numClients = 0 => Used = {}
         /\ numClients = 1 => Used = {0} /\ 0 \in Slots /\ clients[0] \in Ptrs
<1>1. numClients \in {0, 1}
  BY ServerAssumption DEF OneInv, ServerTypeOK
<1>2. 0 \in Slots /\ \A i \in Slots : i \in Nat
  BY ServerAssumption DEF Slots
<1>3. \A i \in Slots : i \in Used <=> i < numClients
  BY DEF OneInv, SlotsBelowCount, Used
<1>4. numClients = 0 => Used = {}
  BY <1>2, <1>3 DEF Used
<1>5. numClients = 1 => Used = {0}
  BY <1>2, <1>3 DEF Used
<1>6. numClients = 1 => clients[0] \in Ptrs
  BY <1>2, <1>5, UsedObject DEF OneInv
<1>7. QED
  BY <1>1, <1>2, <1>4, <1>5, <1>6

\* The objects are live, and nobody is told of the only client.
LEMMA OneHarmless ==
  ASSUME OneInv
  PROVE  /\ \A S \in SUBSET Used : Outcomes(S) = {"none"}
         /\ numClients = 0 => \A c : BroadcastOutcomes(c) = {"none"}
         /\ numClients = 1 => BroadcastOutcomes(clients[0]) = {"none"}
<1>1. \A S \in SUBSET Used : Outcomes(S) = {"none"}
  BY DEF OneInv, Outcomes
<1>2. Cardinality({}) = 0
  BY FS_EmptySet
<1>3. numClients = 0 => \A c : Recipients(c) = {}
  BY OneUsed DEF Recipients
<1>4. numClients = 1 => Recipients(clients[0]) = {}
  BY OneUsed DEF Recipients
<1>5. QED
  BY <1>1, <1>2, <1>3, <1>4 DEF BroadcastOutcomes

\* The slots and what matters of the objects are the same.
LEMMA SameClients ==
  ASSUME OneInv, ServerTypeOK', UNCHANGED <<clients, numClients>>, fault' # "heap",
         \A i \in Used : heap'[clients[i]].live = Obj(i).live
                       /\ heap'[clients[i]].peer = Obj(i).peer
  PROVE  /\ OneInv'
         /\ MemberInv /\ members' = members /\ (Running' => Running) => MemberInv'
<1>1. Used' = Used /\ \A i \in Used : Obj(i)'.live = Obj(i).live /\ Obj(i)'.peer = Obj(i).peer
  BY DEF Used, Obj
<1>2. OneInv'
  BY <1>1 DEF OneInv, SlotsBelowCount, NoHeapFault
<1>3. ASSUME MemberInv, members' = members, Running' => Running PROVE MemberInv'
  BY <1>1, <1>3, OneUsed DEF MemberInv
<1>4. QED
  BY <1>2, <1>3

\* The only client is removed.
LEMMA RemoveOne ==
  ASSUME OneInv, ServerTypeOK', NEW i \in Used, NEW also, ClientRemove(clients[i], also)
  PROVE  OneInv' /\ i = 0 /\ numClients = 1 /\ numClients' = 0
<1>1. i = 0 /\ numClients = 1 /\ Used = {0}
  BY OneUsed
<1>2. numClients' = 0 /\ fault' = "none"
  BY <1>1, OneHarmless DEF ClientRemove
<1>3. clients[i] \in Ptrs
  BY UsedObject DEF OneInv
<1>4. SlotsBelowCount'
  BY <1>3, RemoveKeepsSlots DEF OneInv
<1>5. Used' = {}
  BY <1>2, <1>4, ServerAssumption DEF SlotsBelowCount, Used, Slots
<1>6. QED
  BY <1>1, <1>2, <1>4, <1>5 DEF OneInv, NoHeapFault

LEMMA HelloKeepsOne ==
  ASSUME OneInv, netMaxPlayers <= 1, ServerTypeOK', NEW m \in Hello, ClientNew(m)
  PROVE  OneInv' /\ (MemberInv => MemberInv')
<1>1. CASE RejectHello(m)
  <2>1. fault' = "none" /\ UNCHANGED <<sState, clients, numClients, heap, members>>
    BY <1>1, OneHarmless DEF RejectHello
  <2>2. Running' => Running
    BY <1>1, <2>1 DEF RejectHello, MessageTurn, Running
  <2>3. QED
    BY <2>1, <2>2, SameClients DEF Obj
<1>2. CASE OverrunSlots(m)
  <2>1. fault' = "slots" /\ UNCHANGED <<sState, clients, numClients, heap, members>>
    BY <1>2 DEF OverrunSlots
  <2>2. ~Running'
    BY <2>1 DEF Running
  <2>3. QED
    BY <2>1, <2>2, SameClients DEF Obj, MemberInv
<1>3. CASE AcceptHello(m)
  <2>1. PICK p \in Ptrs :
          /\ clients' = [clients EXCEPT ![numClients] = p]
          /\ heap' = [heap EXCEPT ![p] = NewObject(m.from)]
          /\ fault' \in BroadcastOutcomes(p)
    BY <1>3 DEF AcceptHello
  <2>2. /\ numClients' = numClients + 1 /\ members' = members \cup {m.from}
        /\ HelloStatus(m) = "OK" /\ Running /\ m.from \in Peers
    BY <1>3 DEF AcceptHello, MessageTurn, Hello
  <2>3. numClients = 0
    <3>1. ~(numClients >= netMaxPlayers)
      BY <2>2 DEF HelloStatus
    <3>2. netMaxPlayers \in Int
      <4>1. InitialLimit \in Int
        BY ServerAssumption DEF InitialLimit
      <4>2. QED
        BY <4>1, ServerAssumption DEF OneInv, ServerTypeOK
    <3>3. QED
      BY <3>1, <3>2, OneUsed
  <2>4. fault' = "none"
    BY <2>1, <2>3, OneHarmless
  <2>5. 0 \in Slots /\ p # NULL
    BY ServerAssumption DEF Slots
  <2>6. /\ clients'[0] = p
        /\ heap'[p] = NewObject(m.from)
    BY <2>1, <2>3, <2>5 DEF OneInv, ServerTypeOK
  <2>7. SlotsBelowCount' /\ Used' = {0}
    <3>1. \A i \in Slots : i \in Nat /\ clients'[i] = IF i = 0 THEN p ELSE clients[i]
      BY <2>1, <2>3, ServerAssumption DEF OneInv, ServerTypeOK, Slots
    <3>2. \A i \in Slots : clients[i] = NULL
      BY <2>3, <3>1 DEF OneInv, SlotsBelowCount
    <3>3. QED
      BY <2>2, <2>3, <2>5, <3>1, <3>2 DEF SlotsBelowCount, Used
  <2>8. Obj(0)' = NewObject(m.from)
    BY <2>6 DEF Obj
  <2>9. OneInv'
    BY <2>2, <2>3, <2>4, <2>7, <2>8 DEF OneInv, NoHeapFault, NewObject
  <2>10. MemberInv => MemberInv'
    BY <2>2, <2>3, <2>8 DEF MemberInv, NewObject
  <2>11. QED
    BY <2>9, <2>10
<1>4. QED
  BY <1>1, <1>2, <1>3 DEF ClientNew

LEMMA RequestKeepsOne ==
  ASSUME OneInv, ServerTypeOK', NEW m \in Request, IgnoreRequest(m) \/ ClientMessage(m)
  PROVE  OneInv' /\ (OwnAddresses /\ MemberInv => MemberInv')
<1>1. Running /\ m.from \in Peers
  BY DEF IgnoreRequest, ClientMessage, MessageTurn, Request
<1>2. CASE IgnoreRequest(m)
  <2>1. /\ fault' = "none" /\ UNCHANGED <<sState, clients, numClients, heap>>
        /\ members' = MembersAfter(m)
    BY <1>2, OneHarmless DEF IgnoreRequest
  <2>2. ASSUME MemberInv PROVE members' = members
    <3>1. \A i \in Used : Obj(i).peer # m.from
      BY <1>2 DEF IgnoreRequest, SlotsOf, SlotAddr
    <3>2. m.from \notin members
      BY <1>1, <2>2, <3>1, OneUsed DEF MemberInv
    <3>3. QED
      BY <2>1, <3>2 DEF MembersAfter
  <2>3. QED
    BY <1>1, <2>1, <2>2, SameClients DEF Obj
<1>3. CASE ClientMessage(m)
  <2>1. PICK i \in Slots :
          /\ IsFirst(i, SlotsOf(AddrOf[m.from]))
          /\ IF m.type = "WORLD_DOWNLOAD_START"
             THEN ClientStartWorldDownload(clients[i])
             ELSE ClientRemove(clients[i], {})
    BY <1>3 DEF ClientMessage
  <2>2. i \in Used /\ SlotAddr(i) = AddrOf[m.from] /\ clients[i] \in Ptrs
    BY <2>1, UsedObject DEF IsFirst, SlotsOf, OneInv
  <2>3. sState' = sState /\ members' = MembersAfter(m)
    BY <1>3 DEF ClientMessage
  <2>4. CASE m.type = "WORLD_DOWNLOAD_START"
    <3>1. /\ heap' = [heap EXCEPT ![clients[i]].phase = "DOWNLOADING"]
          /\ fault' = "none" /\ UNCHANGED <<clients, numClients>>
      BY <2>1, <2>4, OneHarmless DEF ClientStartWorldDownload
    <3>2. \A j \in Used : heap'[clients[j]].live = Obj(j).live
                        /\ heap'[clients[j]].peer = Obj(j).peer
      BY <2>2, <3>1, UsedObject DEF OneInv, ServerTypeOK, Obj, Object
    <3>3. QED
      BY <1>1, <2>3, <2>4, <3>1, <3>2, SameClients DEF MembersAfter
  <2>5. CASE m.type # "WORLD_DOWNLOAD_START"
    <3>1. OneInv' /\ i = 0 /\ numClients = 1 /\ numClients' = 0
      BY <2>1, <2>2, <2>5, RemoveOne
    <3>2. members' = members \ {m.from}
      BY <2>3, <2>5 DEF MembersAfter, Request
    <3>3. ASSUME OwnAddresses, MemberInv PROVE members' = {}
      <4>1. members = {Obj(0).peer} /\ Obj(0).peer \in Peers
        BY <1>1, <2>2, <3>1, <3>3 DEF MemberInv, OneInv
      <4>2. Obj(0).peer = m.from
        BY <1>1, <2>2, <3>1, <3>3, <4>1 DEF OwnAddresses, SlotAddr
      <4>3. QED
        BY <3>2, <4>1, <4>2
    <3>4. QED
      BY <3>1, <3>3 DEF MemberInv
  <2>6. QED
    BY <2>4, <2>5
<1>4. QED
  BY <1>2, <1>3

LEMMA TurnKeepsOne ==
  ASSUME OneInv, ServerTypeOK', TickDownloads \/ ShutdownSlot
  PROVE  OneInv' /\ (MemberInv => MemberInv')
<1>1. CASE TickDownloads
  <2>1. /\ fault' = "none" /\ Running
        /\ UNCHANGED <<sState, clients, numClients, members>>
    BY <1>1, OneHarmless DEF TickDownloads
  <2>2. \A j \in Used : heap'[clients[j]].live = Obj(j).live
                      /\ heap'[clients[j]].peer = Obj(j).peer
    <3>1. CASE slot \in Used /\ ClientSendWorldChunk(slot)
      <4>1. Obj(slot) \in Object /\ clients[slot] \in Ptrs
        BY <3>1, UsedObject DEF OneInv
      <4> DEFINE o == Obj(slot)
                 done == o.progress + ChunkSize(o)
                 o2 == [o EXCEPT !.progress = done,
                                 !.phase = IF done >= WorldBytes THEN "LETS_GO" ELSE @]
      <4>2. heap' = [heap EXCEPT ![clients[slot]] = o2]
        BY <3>1 DEF ClientSendWorldChunk
      <4>3. o2.live = o.live /\ o2.peer = o.peer
        BY <4>1 DEF Object
      <4> HIDE DEF o2
      <4>4. heap'[clients[slot]] = o2
        BY <4>1, <4>2 DEF OneInv, ServerTypeOK
      <4>5. \A j \in Used : j = slot
        BY <3>1, OneUsed
      <4>6. QED
        BY <4>3, <4>4, <4>5
    <3>2. CASE heap' = heap
      BY <3>2 DEF Obj
    <3>3. QED
      BY <1>1, <3>1, <3>2 DEF TickDownloads
  <2>3. QED
    BY <2>1, <2>2, SameClients
<1>2. CASE ShutdownSlot
  <2>1. ~Running'
    BY <1>2 DEF ShutdownSlot, Running
  <2>2. CASE slot \in Used
    BY <1>2, <2>1, <2>2, RemoveOne DEF ShutdownSlot, MemberInv
  <2>3. CASE slot \notin Used
    <3>1. UNCHANGED <<clients, numClients, heap, fault>>
      BY <1>2, <2>3 DEF ShutdownSlot
    <3>2. QED
      BY <2>1, <3>1, SameClients DEF Obj, OneInv, NoHeapFault, MemberInv
  <2>4. QED
    BY <2>2, <2>3
<1>3. QED
  BY <1>1, <1>2

LEMMA OneInductive ==
  ASSUME TakesOne, OneInv, [ServerNext]_serverVars
  PROVE  OneInv' /\ (OwnAddresses /\ MemberInv => MemberInv')
<1>1. ServerTypeOK'
  BY TypeInductive DEF OneInv
<1>2. netMaxPlayers <= 1
  BY DEF TakesOne, OneInv, ServerTypeOK
<1>3. CASE TickDownloads \/ ShutdownSlot
  BY <1>1, <1>3, TurnKeepsOne
<1>4. ASSUME NEW m \in Hello \cup Request, Receive(m)
      PROVE  OneInv' /\ (OwnAddresses /\ MemberInv => MemberInv')
  <2>1. CASE m \in Hello /\ ClientNew(m)
    BY <1>1, <1>2, <2>1, HelloKeepsOne
  <2>2. CASE m \in Request /\ (IgnoreRequest(m) \/ ClientMessage(m))
    BY <1>1, <2>2, RequestKeepsOne
  <2>3. QED
    BY <1>4, <2>1, <2>2 DEF Receive
<1>5. CASE \/ NoMessage \/ BeginShutdown \/ FinishShutdown \/ UNCHANGED serverVars
           \/ \E n \in ConsoleMaxPlayers : SetMaxPlayers(n)
  <2>1. /\ UNCHANGED <<clients, numClients, heap, fault, members>>
        /\ Running' => Running
    BY <1>5 DEF NoMessage, BeginShutdown, FinishShutdown, SetMaxPlayers, serverVars, Running
  <2>2. QED
    BY <1>1, <2>1, SameClients DEF Obj, OneInv, NoHeapFault
<1>6. QED
  BY <1>3, <1>4, <1>5 DEF ServerNext

LEMMA OneInit == ServerInit => OneInv /\ MemberInv
<1> SUFFICES ASSUME ServerInit PROVE OneInv /\ MemberInv
  OBVIOUS
<1>1. ServerTypeOK /\ SlotsBelowCount
  BY TypeInit, InvInit DEF Inv
<1>2. Used = {}
  BY DEF ServerInit, Used
<1>3. QED
  BY <1>1, <1>2 DEF ServerInit, OneInv, NoHeapFault, MemberInv

\* A server with a limit of one, whatever arrives in whatever order: no step
\* touches a freed object or payload.  With a limit of two, ClientRemove of the
\* first client clears the slot of the second and leaves a freed object in the
\* first (server_auth.cpp:81-95).
THEOREM NoHeapFaultCorrect ==
  ASSUME TakesOne
  PROVE  ServerSpec => []NoHeapFault
<1>1. ServerInit => OneInv
  BY OneInit
<1>2. OneInv /\ [ServerNext]_serverVars => OneInv'
  BY OneInductive
<1>3. OneInv => NoHeapFault
  BY DEF OneInv
<1>4. QED
  BY <1>1, <1>2, <1>3, PTL DEF ServerSpec

\* If besides every peer has an address of its own: the slot holds the live
\* object of the member, and there is one exactly while there is a member.
THEOREM RosterCorrect ==
  ASSUME TakesOne, OwnAddresses
  PROVE  ServerSpec => []RosterExact
<1>1. ServerInit => OneInv /\ MemberInv
  BY OneInit
<1>2. OneInv /\ MemberInv /\ [ServerNext]_serverVars => OneInv' /\ MemberInv'
  BY OneInductive
<1>3. OneInv /\ MemberInv => RosterExact
  BY OneUsed DEF OneInv, MemberInv, RosterExact
<1>4. QED
  BY <1>1, <1>2, <1>3, PTL DEF ServerSpec
-----------------------------------------------------------------------------
(* The way of a download *)

\* What a download in slot i has left: bytes to send and, until the next of
\* them go out, turns of the loop of TickDownloads and of the message after it.
BytesLeft(i) == WorldBytes - Obj(i).progress
TurnsUntil(i) == IF slot <= i THEN i - slot ELSE MAX_CLIENTS + 1 - slot + i

Advances(i) ==
    /\ BytesLeft(i) \in Nat /\ TurnsUntil(i) \in Nat
    /\ BytesLeft(i)' <= BytesLeft(i)
    /\ BytesLeft(i)' = BytesLeft(i) =>
         TurnsUntil(i)' = IF slot' = slot THEN TurnsUntil(i) ELSE TurnsUntil(i) - 1

DownloadsAdvance == \A i \in Slots : Downloading(i) /\ Downloading(i)' => Advances(i)

\* Nothing but a chunk changes the progress of an object that is downloading
\* before and after a step: a new Client starts with its hello.
LEMMA ProgressOfMessage ==
  ASSUME ServerTypeOK, NEW m \in Hello \cup Request, Receive(m), NEW p \in Ptrs,
         heap'[p].phase = "DOWNLOADING"
  PROVE  heap'[p].progress = heap[p].progress
<1>1. CASE heap' = heap
  BY <1>1
<1>2. ASSUME NEW k \in Hello, AcceptHello(k) PROVE heap'[p].progress = heap[p].progress
  <2>1. PICK q \in Ptrs : heap' = [heap EXCEPT ![q] = NewObject(k.from)]
    BY <1>2 DEF AcceptHello
  <2>2. p # q
    BY <2>1 DEF ServerTypeOK, NewObject
  <2>3. QED
    BY <2>1, <2>2 DEF ServerTypeOK
<1>3. ASSUME NEW c \in Ptrs, ClientStartWorldDownload(c) \/ ClientRemove(c, {})
      PROVE  heap'[p].progress = heap[p].progress
  <2>1. \/ heap' = [heap EXCEPT ![c].phase = "DOWNLOADING"]
        \/ heap' = [heap EXCEPT ![c].live = FALSE]
        \/ heap' = heap
    BY <1>3 DEF ClientStartWorldDownload, ClientRemove
  <2>2. QED
    BY <2>1 DEF ServerTypeOK, Object
<1>4. CASE m \in Request /\ ClientMessage(m)
  <2>1. PICK i \in Slots :
          /\ IsFirst(i, SlotsOf(AddrOf[m.from]))
          /\ IF m.type = "WORLD_DOWNLOAD_START"
             THEN ClientStartWorldDownload(clients[i])
             ELSE ClientRemove(clients[i], {})
    BY <1>4 DEF ClientMessage
  <2>2. clients[i] \in Ptrs
    BY <2>1, UsedObject DEF IsFirst, SlotsOf
  <2>3. QED
    BY <1>3, <2>1, <2>2
<1>5. QED
  BY <1>1, <1>2, <1>4 DEF Receive, ClientNew, RejectHello, OverrunSlots, IgnoreRequest

\* A turn of the loop sends the chunk of its own slot, which no download
\* survives without bytes that are now fewer.
LEMMA ProgressOfTurn ==
  ASSUME ServerTypeOK, DownloadConsistent, TickDownloads, NEW p \in Ptrs,
         heap'[p].phase = "DOWNLOADING"
  PROVE  /\ heap'[p].progress \in Nat /\ heap'[p].progress <= WorldBytes
         /\ heap'[p].progress >= heap[p].progress
         /\ heap[p].phase = "DOWNLOADING" /\ slot \in Used /\ clients[slot] = p
              => heap'[p].progress > heap[p].progress
<1>1. heap[p] \in Object /\ heap[p].progress \in Nat /\ heap[p].progress <= WorldBytes
  BY DEF ServerTypeOK, DownloadConsistent, Object
<1>2. CASE slot \in Used /\ Obj(slot).phase = "DOWNLOADING"
  <2> DEFINE o == Obj(slot)
             done == o.progress + ChunkSize(o)
             o2 == [o EXCEPT !.progress = done,
                             !.phase = IF done >= WorldBytes THEN "LETS_GO" ELSE @]
  <2>1. clients[slot] \in Ptrs /\ o \in Object
    BY <1>2, UsedObject
  <2>2. heap' = [heap EXCEPT ![clients[slot]] = o2]
    BY <1>2 DEF TickDownloads, ClientSendWorldChunk
  <2>3. CASE p = clients[slot]
    <3>1. heap'[p] = o2 /\ o = heap[p]
      BY <2>1, <2>2, <2>3 DEF ServerTypeOK, Obj
    <3>2. o.progress \in Nat /\ o.progress <= WorldBytes /\ ChunkSize(o) \in Nat
      BY <1>1, <2>1, <3>1, ChunkSizeType
    <3>3. ~(done >= WorldBytes)
      BY <2>1, <3>1 DEF Object
    <3>4. ChunkSize(o) > 0 /\ done < WorldBytes
      BY <3>2, <3>3, ServerAssumption DEF ChunkSize
    <3>5. o2.progress = done
      BY <2>1 DEF Object
    <3>6. heap'[p].progress = heap[p].progress + ChunkSize(o)
      BY <3>1, <3>5
    <3>7. /\ heap[p].progress \in Nat /\ ChunkSize(o) \in Nat /\ ChunkSize(o) > 0
          /\ heap[p].progress + ChunkSize(o) < WorldBytes
      BY <3>1, <3>2, <3>4
    <3> HIDE DEF o2, o
    <3>8. QED
      BY <3>6, <3>7, ServerAssumption
  <2>4. CASE p # clients[slot]
    <3>1. heap'[p] = heap[p]
      BY <2>2, <2>4 DEF ServerTypeOK
    <3>2. QED
      BY <1>1, <2>4, <3>1
  <2>5. QED
    BY <2>3, <2>4
<1>3. CASE ~(slot \in Used /\ Obj(slot).phase = "DOWNLOADING")
  <2>1. heap' = heap
    BY <1>3 DEF TickDownloads
  <2>2. QED
    BY <1>1, <1>3, <2>1 DEF Obj
<1>4. QED
  BY <1>2, <1>3

\* The order of the turns: each step of the loop is one turn nearer to every
\* slot but its own, and so is the message that starts the next round.
LEMMA TurnsPass ==
  ASSUME slot \in 0 .. MAX_CLIENTS, NEW i \in Slots
  PROVE  /\ TurnsUntil(i) \in Nat
         /\ slot' = slot => TurnsUntil(i)' = TurnsUntil(i)
         /\ slot # i /\ slot' = slot + 1 => TurnsUntil(i)' = TurnsUntil(i) - 1
         /\ slot = MAX_CLIENTS /\ slot' = 0 => TurnsUntil(i)' = TurnsUntil(i) - 1
         /\ slot = MAX_CLIENTS => slot # 0
BY ServerAssumption DEF TurnsUntil, Slots

LEMMA AdvanceStep ==
  ASSUME ServerTypeOK, Inv, [ServerNext]_serverVars, NEW i \in Slots,
         Downloading(i), Downloading(i)'
  PROVE  Advances(i)
<1> DEFINE p == clients[i]
<1>1. p \in Ptrs /\ clients'[i] = p
  BY UsedObject, SameInSlot DEF Downloading, Inv
<1>2. Obj(i) = heap[p] /\ Obj(i)' = heap'[p]
  BY <1>1 DEF Obj
<1>3. /\ heap[p].phase = "DOWNLOADING" /\ heap'[p].phase = "DOWNLOADING"
      /\ Running /\ Running' /\ i \in Used
  BY <1>2 DEF Downloading
<1> HIDE DEF p
<1>4. heap[p] \in Object /\ heap[p].progress \in Nat /\ heap[p].progress <= WorldBytes
  BY <1>1 DEF ServerTypeOK, Inv, DownloadConsistent, Object
<1>5. slot \in 0 .. MAX_CLIENTS /\ MAX_CLIENTS \in Nat \ {0} /\ WorldBytes \in Nat
  BY ServerAssumption DEF ServerTypeOK
<1>6. BytesLeft(i) = WorldBytes - heap[p].progress
      /\ BytesLeft(i)' = WorldBytes - heap'[p].progress
  BY <1>2 DEF BytesLeft
<1>7. CASE TickDownloads
  <2>1. /\ heap'[p].progress \in Nat /\ heap'[p].progress <= WorldBytes
        /\ heap'[p].progress >= heap[p].progress
        /\ slot = i => heap'[p].progress > heap[p].progress
    BY <1>1, <1>3, <1>7, ProgressOfTurn DEF Inv, p
  <2>2. slot' = slot + 1
    BY <1>7 DEF TickDownloads
  <2>3. slot # i => TurnsUntil(i)' = TurnsUntil(i) - 1
    BY <1>5, <2>2, TurnsPass
  <2>4. TurnsUntil(i) \in Nat
    BY <1>5, TurnsPass
  <2>5. BytesLeft(i) \in Nat /\ BytesLeft(i)' <= BytesLeft(i)
        /\ (slot = i => BytesLeft(i)' # BytesLeft(i))
    BY <1>4, <1>5, <1>6, <2>1
  <2>6. slot' # slot
    BY <1>5, <2>2
  <2>7. QED
    BY <2>3, <2>4, <2>5, <2>6 DEF Advances
<1>8. CASE /\ heap'[p].progress = heap[p].progress
           /\ slot' = slot \/ (slot = MAX_CLIENTS /\ slot' = 0)
  <2>1. BytesLeft(i) \in Nat /\ BytesLeft(i)' <= BytesLeft(i)
    BY <1>4, <1>5, <1>6, <1>8
  <2>2. /\ TurnsUntil(i) \in Nat
        /\ TurnsUntil(i)' = IF slot' = slot THEN TurnsUntil(i) ELSE TurnsUntil(i) - 1
    BY <1>5, <1>8, TurnsPass
  <2>3. QED
    BY <2>1, <2>2 DEF Advances
<1>9. ASSUME NEW m \in Hello \cup Request, Receive(m)
      PROVE  heap'[p].progress = heap[p].progress /\ slot = MAX_CLIENTS /\ slot' = 0
  <2>1. heap'[p].progress = heap[p].progress
    BY <1>1, <1>3, <1>9, ProgressOfMessage
  <2>2. MessageTurn
    BY <1>9 DEF Receive, ClientNew, RejectHello, AcceptHello, OverrunSlots,
                IgnoreRequest, ClientMessage
  <2>3. QED
    BY <2>1, <2>2 DEF MessageTurn
<1>10. CASE \/ NoMessage \/ BeginShutdown \/ FinishShutdown
            \/ UNCHANGED serverVars \/ \E n \in ConsoleMaxPlayers : SetMaxPlayers(n)
  <2>1. heap' = heap
    BY <1>10 DEF NoMessage, BeginShutdown, FinishShutdown, SetMaxPlayers, serverVars
  <2>2. slot' = slot \/ (slot = MAX_CLIENTS /\ slot' = 0)
    BY <1>10 DEF NoMessage, MessageTurn, BeginShutdown, FinishShutdown,
                 SetMaxPlayers, serverVars
  <2>3. QED
    BY <1>8, <2>1, <2>2
<1>11. ~ShutdownSlot
  BY <1>3 DEF ShutdownSlot, Running
<1>12. QED
  BY <1>7, <1>8, <1>9, <1>10, <1>11 DEF ServerNext

\* What DownloadFinishes rests on: from one chunk of a download to the next
\* (server_core.cpp:67-100) every step that moves the loop or takes a message
\* brings its slot's turn one step nearer, no message moves it away or undoes
\* a byte, and a turn of its own sends bytes or ends it.  So a download ends
\* after finitely many turns, whoever logs in, restarts or leaves meanwhile.
THEOREM DownloadsAdvanceAlways == ServerSpec => [][DownloadsAdvance]_serverVars
<1>1. ServerTypeOK /\ Inv /\ [ServerNext]_serverVars => [DownloadsAdvance]_serverVars
  BY AdvanceStep DEF DownloadsAdvance
<1>2. ServerInit => Inv
  BY InvInit
<1>3. ServerTypeOK /\ Inv /\ [ServerNext]_serverVars => Inv'
  BY InvInductive
<1>4. QED
  BY <1>1, <1>2, <1>3, TypeCorrect, PTL DEF ServerSpec
-----------------------------------------------------------------------------
(* Several clients, for as long as nobody leaves *)

\* The steps of a server whose peers only come, ask for the world and stay.
StayNext ==
    \/ TickDownloads
    \/ NoMessage
    \/ \E m \in Hello \cup {r \in Request : r.type # "DISCONNECT"} : Receive(m)
    \/ \E n \in ConsoleMaxPlayers : SetMaxPlayers(n)
    \/ BeginShutdown
    \/ ShutdownSlot
    \/ FinishShutdown

StayInv == ServerTypeOK /\ Inv /\ RosterExact

\* The roster is the same when the slots are, and the objects in them but for
\* their downloads.
LEMMA SameRoster ==
  ASSUME RosterExact, members' = members, clients' = clients, Running' => Running,
         \A i \in Used : heap'[clients[i]].live = Obj(i).live
                       /\ heap'[clients[i]].peer = Obj(i).peer
  PROVE  RosterExact'
<1>1. Used' = Used /\ \A i \in Used : Obj(i)'.live = Obj(i).live /\ Obj(i)'.peer = Obj(i).peer
  BY DEF Used, Obj
<1>2. QED
  BY <1>1 DEF RosterExact

\* A new client gets a block and a slot of its own.
LEMMA RosterGrows ==
  ASSUME StayInv, NEW m \in Hello, AcceptHello(m)
  PROVE  RosterExact'
<1>1. PICK p \in {q \in Ptrs : ~heap[q].live} :
        /\ clients' = [clients EXCEPT ![numClients] = p]
        /\ heap' = [heap EXCEPT ![p] = NewObject(m.from)]
  BY DEF AcceptHello
<1>2. Running /\ numClients \in Slots /\ members' = members \cup {m.from}
  BY DEF AcceptHello, MessageTurn
<1>3. numClients \notin Used /\ p # NULL
  BY <1>2, ServerAssumption DEF StayInv, Inv, ServerTypeOK, SlotsBelowCount, Used, Slots
<1>4. /\ \A p2 \in members : \E i \in Used : Obj(i).live /\ Obj(i).peer = p2
      /\ \A i \in Used : Obj(i).live /\ Obj(i).peer \in members
  BY <1>2 DEF StayInv, RosterExact
<1>5. Used' = Used \cup {numClients}
  BY <1>1, <1>2, <1>3 DEF StayInv, ServerTypeOK, Used
<1>6. \A i \in Used : Obj(i)' = Obj(i)
  <2>1. \A i \in Used : i \in Slots /\ i # numClients /\ clients[i] \in Ptrs /\ clients[i] # p
    BY <1>1, <1>3, <1>4, UsedObject DEF StayInv, Obj
  <2>2. QED
    BY <1>1, <2>1 DEF StayInv, ServerTypeOK, Obj
<1>7. heap'[clients'[numClients]] = NewObject(m.from)
  BY <1>1, <1>2 DEF StayInv, ServerTypeOK, Obj
<1>8. heap'[clients'[numClients]].live /\ heap'[clients'[numClients]].peer = m.from
  BY <1>7 DEF NewObject
<1>9. \A i \in Used' : Obj(i)'.live /\ Obj(i)'.peer \in members'
  BY <1>2, <1>4, <1>5, <1>6, <1>8 DEF Obj
<1>10. \A q \in members' : \E i \in Used' : Obj(i)'.live /\ Obj(i)'.peer = q
  BY <1>2, <1>4, <1>5, <1>6, <1>8 DEF Obj
<1>11. QED
  BY <1>9, <1>10 DEF RosterExact

\* A request that is not a goodbye leaves the objects but for a download.
LEMMA RosterStays ==
  ASSUME StayInv, NEW m \in Request, m.type # "DISCONNECT",
         IgnoreRequest(m) \/ ClientMessage(m)
  PROVE  RosterExact'
<1>1. /\ m.type = "WORLD_DOWNLOAD_START" /\ Running
      /\ sState' = sState /\ members' = members
  BY DEF Request, IgnoreRequest, ClientMessage, MessageTurn, MembersAfter
<1>2. CASE IgnoreRequest(m)
  BY <1>1, <1>2, SameRoster DEF IgnoreRequest, StayInv, Obj
<1>3. CASE ClientMessage(m)
  <2>1. PICK i \in Slots : /\ IsFirst(i, SlotsOf(AddrOf[m.from]))
                           /\ ClientStartWorldDownload(clients[i])
    BY <1>1, <1>3 DEF ClientMessage
  <2>2. clients[i] \in Ptrs
    BY <2>1, UsedObject DEF IsFirst, SlotsOf, StayInv
  <2>3. heap' = [heap EXCEPT ![clients[i]].phase = "DOWNLOADING"] /\ clients' = clients
    BY <2>1 DEF ClientStartWorldDownload
  <2>4. \A j \in Used : heap'[clients[j]].live = Obj(j).live
                      /\ heap'[clients[j]].peer = Obj(j).peer
    BY <2>2, <2>3, UsedObject DEF StayInv, ServerTypeOK, Obj, Object
  <2>5. QED
    BY <1>1, <2>3, <2>4, SameRoster DEF StayInv
<1>4. QED
  BY <1>2, <1>3

\* A chunk touches no more of an object than its download.
LEMMA RosterDownloads ==
  ASSUME StayInv, TickDownloads
  PROVE  RosterExact'
<1>1. Running /\ UNCHANGED <<sState, clients, members>>
  BY DEF TickDownloads
<1>2. CASE slot \in Used /\ ClientSendWorldChunk(slot)
  <2> DEFINE o == Obj(slot)
             done == o.progress + ChunkSize(o)
             o2 == [o EXCEPT !.progress = done,
                             !.phase = IF done >= WorldBytes THEN "LETS_GO" ELSE @]
  <2>1. clients[slot] \in Ptrs /\ o \in Object
    BY <1>2, UsedObject DEF StayInv
  <2>2. heap' = [heap EXCEPT ![clients[slot]] = o2]
    BY <1>2 DEF ClientSendWorldChunk
  <2>3. o2.live = o.live /\ o2.peer = o.peer
    BY <2>1 DEF Object
  <2> HIDE DEF o2
  <2>4. \A j \in Used : heap'[clients[j]].live = Obj(j).live
                      /\ heap'[clients[j]].peer = Obj(j).peer
    <3>1. ASSUME NEW j \in Used
          PROVE  heap'[clients[j]] = IF clients[j] = clients[slot] THEN o2 ELSE Obj(j)
      BY <2>1, <2>2, UsedObject DEF StayInv, ServerTypeOK, Obj
    <3>2. QED
      BY <2>3, <3>1 DEF Obj
  <2>5. QED
    BY <1>1, <2>4, SameRoster DEF StayInv
<1>3. CASE heap' = heap
  BY <1>1, <1>3, SameRoster DEF StayInv, Obj
<1>4. QED
  BY <1>2, <1>3 DEF TickDownloads

\* A server of any length and limit, whoever shares an address with whom: for
\* as long as nobody leaves and the server runs, the slots hold live objects
\* of members and each member has one.  So it takes a departure to lose a
\* client: ClientNew and the downloads never do (server_auth.cpp:18-79).
THEOREM RosterWhileNobodyLeaves ==
  ServerInit /\ [][StayNext]_serverVars => []RosterExact
<1>1. ServerInit => StayInv
  <2>1. ASSUME ServerInit PROVE RosterExact
    BY <2>1 DEF ServerInit, RosterExact, Used
  <2>2. QED
    BY <2>1, TypeInit, InvInit DEF StayInv
<1>2. ASSUME StayInv, [StayNext]_serverVars PROVE StayInv'
  <2>1. ServerTypeOK' /\ Inv'
    <3>1. [ServerNext]_serverVars
      BY <1>2 DEF StayNext, ServerNext
    <3>2. ServerTypeOK'
      BY <1>2, <3>1, TypeInductive DEF StayInv
    <3>3. Inv'
      BY <1>2, <3>1, InvInductive DEF StayInv
    <3>4. QED
      BY <3>2, <3>3
  <2>2. ASSUME NEW m \in Hello \cup {r \in Request : r.type # "DISCONNECT"}, Receive(m)
        PROVE  RosterExact'
    <3>1. CASE m \in Hello /\ AcceptHello(m)
      BY <1>2, <3>1, RosterGrows
    <3>2. CASE RejectHello(m) \/ OverrunSlots(m)
      <4>1. UNCHANGED <<sState, clients, heap, members>> /\ Running
        BY <3>2 DEF RejectHello, OverrunSlots, MessageTurn
      <4>2. QED
        BY <1>2, <4>1, SameRoster DEF StayInv, Obj
    <3>3. CASE m \in Request /\ m.type # "DISCONNECT" /\ (IgnoreRequest(m) \/ ClientMessage(m))
      BY <1>2, <3>3, RosterStays
    <3>4. m \in Request => m.type # "DISCONNECT"
      BY DEF Hello, Request
    <3>5. QED
      BY <2>2, <3>1, <3>2, <3>3, <3>4 DEF Receive, ClientNew
  <2>3. ASSUME TickDownloads PROVE RosterExact'
    BY <1>2, <2>3, RosterDownloads
  <2>4. ASSUME ShutdownSlot PROVE RosterExact'
    BY <2>4 DEF ShutdownSlot, RosterExact, Running
  <2>5. ASSUME \/ NoMessage \/ BeginShutdown \/ FinishShutdown
               \/ UNCHANGED serverVars \/ \E n \in ConsoleMaxPlayers : SetMaxPlayers(n)
        PROVE  RosterExact'
    <3>1. UNCHANGED <<clients, heap, members>> /\ (Running' => Running)
      BY <2>5 DEF NoMessage, BeginShutdown, FinishShutdown, SetMaxPlayers, serverVars,
                  Running
    <3>2. QED
      BY <1>2, <3>1, SameRoster DEF StayInv, Obj
  <2>6. RosterExact'
    BY <1>2, <2>2, <2>3, <2>4, <2>5 DEF StayNext
  <2>7. QED
    BY <2>1, <2>6 DEF StayInv
<1>3. StayInv => RosterExact
  BY DEF StayInv
<1>4. QED
  BY <1>1, <1>2, <1>3, PTL
=============================================================================
