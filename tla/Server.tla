------------------------------- MODULE Server -------------------------------
(***************************************************************************)
(* The server (net/server): who is connected, which slot of clients[] each *)
(* connection occupies, how far each world download has come, and what the *)
(* handlers send.                                                          *)
(*                                                                         *)
(* The server runs on the main thread.  A tick first sends one chunk of    *)
(* the world to every downloading client (TickDownloads: one step per      *)
(* slot) and then handles at most one message; console commands and the    *)
(* shutdown come between ticks.  Messages from the peers arrive in any     *)
(* order and any number of times, as UDP and the last-in first-out buffer  *)
(* of module NetBuffer make them.                                          *)
(*                                                                         *)
(* Client objects live on the C++ heap.  A freed object keeps its          *)
(* contents until its block is reused, and a step that touches one either  *)
(* goes on with what it finds there or ends in a heap fault.               *)
(***************************************************************************)
EXTENDS Integers, FiniteSets

CONSTANTS
    MAX_CLIENTS,        \* length of clients[] (32 in the code)
    MAX_PACKET_SIZE,    \* bytes in a full world chunk (1400)
    WorldBytes,         \* world.GetSizeInBytes()
    Peers,              \* client processes: an IP address and a port each
    Addrs,              \* IP addresses, also as strings
    AddrOf,             \* the address of each peer
    Usernames,          \* what a hello can carry as user name
    Ptrs,               \* addresses that new Client() can return
    NULL,
    NetMaxPlayers,      \* netMaxPlayers on the command line
    ConsoleMaxPlayers   \* values the console may set netMaxPlayers to

ASSUME ServerAssumption ==
    /\ MAX_CLIENTS \in Nat \ {0}
    /\ MAX_PACKET_SIZE \in Nat \ {0}
    /\ WorldBytes \in Nat \ {0}
    /\ AddrOf \in [Peers -> Addrs]
    /\ NULL \notin Ptrs /\ NULL \notin Peers
    /\ NetMaxPlayers \in Int
    /\ ConsoleMaxPlayers \subseteq Int

Slots == 0 .. MAX_CLIENTS - 1

VARIABLES
    sState,         \* Server::state
    clients,        \* the slots
    numClients,
    heap,           \* the Client objects, live and freed
    netMaxPlayers,  \* the cvar
    slot,           \* loop index of TickDownloads and of Shutdown
    fault,          \* undefined behaviour that ended the run
    sent,           \* the messages the last step sent
    admitted,       \* history: peers that were sent an OK hello
    members         \* history: admitted peers that neither left nor were told
                    \* of the shutdown

serverVars == <<sState, clients, numClients, heap, netMaxPlayers, slot, fault,
                sent, admitted, members>>

-----------------------------------------------------------------------------
(* Messages *)

\* From a client: the hello (is its protocol version current?), the request
\* to start the world download, and the goodbye.
Hello == [type : {"HELLO"}, from : Peers, current : BOOLEAN,
          username : Usernames]

Request == [type : {"WORLD_DOWNLOAD_START", "DISCONNECT"}, from : Peers]

\* To a client.  An RPC names a client (by the string of its address) and
\* "intact" says whether its payload is the one written.
HelloOk(p) == [to |-> p, type |-> "SERVER_HELLO", status |-> "OK"]
MapHeader(p) == [to |-> p, type |-> "WORLD_DOWNLOAD_START", bytes |-> WorldBytes]
Chunk(p, from, n) ==
    [to |-> p, type |-> "WORLD_DOWNLOAD_PACKET", offset |-> from, size |-> n]
Rpc(p, kind, a, ok) == [to |-> p, type |-> kind, about |-> a, intact |-> ok]
Bye(p) == [to |-> p, type |-> "SERVER_SHUTDOWN"]

-----------------------------------------------------------------------------
(* Client objects and slots *)

Phases == {"HELLO", "DOWNLOADING", "LETS_GO"}

Object == [live : BOOLEAN, peer : Peers \cup {NULL}, phase : Phases,
           progress : Nat]

NoObject == [live |-> FALSE, peer |-> NULL, phase |-> "HELLO", progress |-> 0]

NewObject(p) == [live |-> TRUE, peer |-> p, phase |-> "HELLO", progress |-> 0]

Used == {i \in Slots : clients[i] # NULL}

Obj(i) == heap[clients[i]]

\* The address of the client in a slot, which is also its name.
SlotAddr(i) == AddrOf[Obj(i).peer]

\* The slots whose client has the address, whatever its port.  ClientByIp
\* returns the client in the first of them.
SlotsOf(a) == {i \in Used : SlotAddr(i) = a}

IsFirst(i, S) == i \in S /\ \A j \in S : i <= j

\* A name is an address, so a hello from a known address is a duplicate
\* only if its user name spells a known address as well.
ClientIsNew(m) == SlotsOf(AddrOf[m.from]) = {} \/ SlotsOf(m.username) = {}

\* What touching the objects in a set of slots can lead to.
Outcomes(S) ==
    IF \E i \in S : ~Obj(i).live THEN {"none", "heap"} ELSE {"none"}

\* SendMessageToAll.  Each send frees the payload all of them share, so from
\* the second recipient on the payload may have changed (garbled) and is
\* freed once more, which may be fatal.
Recipients(exclude) == {i \in Used : clients[i] # exclude}

ToAll(kind, a, exclude, garbled) ==
    LET R == Recipients(exclude)
    IN  {Rpc(Obj(i).peer, kind, a, IsFirst(i, R) \/ ~garbled) : i \in R}

BroadcastOutcomes(exclude) ==
    IF Cardinality(Recipients(exclude)) > 1
    THEN {"none", "heap"}
    ELSE Outcomes(Used)

-----------------------------------------------------------------------------
\* (mutant) The limit is taken as given.
InitialLimit_Unclamped == NetMaxPlayers

\* CapyNet_Init replaces a limit of zero or above the array's length.
InitialLimit ==
    IF NetMaxPlayers = 0 \/ NetMaxPlayers > MAX_CLIENTS
    THEN MAX_CLIENTS
    ELSE NetMaxPlayers

\* After Server::Init.  The code leaves numClients uninitialised; the model
\* starts where the fresh block the server is allocated in is zero.
ServerInit ==
    /\ sState = "RUNNING"
    /\ clients = [i \in Slots |-> NULL]
    /\ numClients = 0
    /\ heap = [p \in Ptrs |-> NoObject]
    /\ netMaxPlayers = InitialLimit
    /\ slot = 0
    /\ fault = "none"
    /\ sent = {}
    /\ admitted = {}
    /\ members = {}

Running == sState = "RUNNING" /\ fault = "none"

-----------------------------------------------------------------------------
(* World download *)

\* (mutant) The last chunk is as large as the others.
ChunkSize_AlwaysFull(o) == MAX_PACKET_SIZE

\* The bytes of the next chunk; the difference is unsigned in the code, so a
\* progress beyond the end would ask for a full chunk.
ChunkSize(o) ==
    IF WorldBytes - o.progress \in 0 .. MAX_PACKET_SIZE - 1
    THEN WorldBytes - o.progress
    ELSE MAX_PACKET_SIZE

\* (mutant) The download is over only once it is past the end.
ClientSendWorldChunk_PastEnd(i) ==
    LET o == Obj(i)
        done == o.progress + ChunkSize(o)
    IN  /\ sent' = {Chunk(o.peer, o.progress, ChunkSize(o))}
        /\ heap' = [heap EXCEPT ![clients[i]] =
                      [o EXCEPT !.progress = done,
                                !.phase = IF done > WorldBytes
                                          THEN "LETS_GO" ELSE @]]

\* ClientSendWorldChunk, for the client in slot i.
ClientSendWorldChunk(i) ==
    LET o == Obj(i)
        done == o.progress + ChunkSize(o)
    IN  /\ sent' = {Chunk(o.peer, o.progress, ChunkSize(o))}
        /\ heap' = [heap EXCEPT ![clients[i]] =
                      [o EXCEPT !.progress = done,
                                !.phase = IF done >= WorldBytes
                                          THEN "LETS_GO" ELSE @]]

\* One iteration of the loop of TickDownloads.
TickDownloads ==
    /\ Running
    /\ slot < MAX_CLIENTS
    /\ slot' = slot + 1
    /\ IF slot \in Used /\ Obj(slot).phase = "DOWNLOADING"
       THEN ClientSendWorldChunk(slot)
       ELSE sent' = {} /\ UNCHANGED heap
    /\ fault' \in Outcomes({slot} \cap Used)
    /\ UNCHANGED <<sState, clients, numClients, netMaxPlayers, admitted,
                   members>>

\* The second half of the tick: one message, or none.
MessageTurn ==
    /\ Running
    /\ slot = MAX_CLIENTS
    /\ slot' = 0

NoMessage ==
    /\ MessageTurn
    /\ sent' = {}
    /\ UNCHANGED <<sState, clients, numClients, heap, netMaxPlayers, fault,
                   admitted, members>>

-----------------------------------------------------------------------------
(* Log in *)

\* (mutant) One client too many is let in.
HelloStatus_OneTooMany(m) ==
    IF numClients > netMaxPlayers THEN "TOO_MANY"
    ELSE IF ~ClientIsNew(m) THEN "DUPLICATE_CLIENT"
    ELSE IF ~m.current THEN "INVALID_VERSION"
    ELSE "OK"

\* The last check that fails decides the status.
HelloStatus(m) ==
    IF numClients >= netMaxPlayers THEN "TOO_MANY"
    ELSE IF ~ClientIsNew(m) THEN "DUPLICATE_CLIENT"
    ELSE IF ~m.current THEN "INVALID_VERSION"
    ELSE "OK"

\* A rejected hello is answered with nothing at all.
RejectHello(m) ==
    /\ MessageTurn
    /\ HelloStatus(m) # "OK"
    /\ sent' = {}
    /\ fault' \in Outcomes(Used)
    /\ UNCHANGED <<sState, clients, numClients, heap, netMaxPlayers, admitted,
                   members>>

\* An accepted one takes the slot after the last, is answered, and announced
\* to the other clients.
AcceptHello(m) ==
    /\ MessageTurn
    /\ HelloStatus(m) = "OK"
    /\ numClients \in Slots
    /\ \E p \in {q \in Ptrs : ~heap[q].live}, garbled \in BOOLEAN :
        /\ clients' = [clients EXCEPT ![numClients] = p]
        /\ heap' = [heap EXCEPT ![p] = NewObject(m.from)]
        /\ sent' = {HelloOk(m.from)}
                   \cup ToAll("CLIENT_CREATE", AddrOf[m.from], p, garbled)
        /\ fault' \in BroadcastOutcomes(p)
    /\ numClients' = numClients + 1
    /\ admitted' = admitted \cup {m.from}
    /\ members' = members \cup {m.from}
    /\ UNCHANGED <<sState, netMaxPlayers>>

\* The same when the limit has been raised past the array: clients[] is
\* written out of bounds.
OverrunSlots(m) ==
    /\ MessageTurn
    /\ HelloStatus(m) = "OK"
    /\ numClients \notin Slots
    /\ fault' = "slots"
    /\ sent' = {}
    /\ UNCHANGED <<sState, clients, numClients, heap, netMaxPlayers, admitted,
                   members>>

ClientNew(m) == RejectHello(m) \/ AcceptHello(m) \/ OverrunSlots(m)

-----------------------------------------------------------------------------
(* Requests of connected clients *)

\* ClientStartWorldDownload: the download goes on from where it was.
ClientStartWorldDownload(c) ==
    /\ sent' = {MapHeader(heap[c].peer)}
    /\ heap' = [heap EXCEPT ![c].phase = "DOWNLOADING"]
    /\ fault' \in Outcomes(Used)
    /\ UNCHANGED <<clients, numClients>>

\* (mutant) The removed client's own slot is cleared.
ClearedSlots_OwnSlot(c) ==
    [i \in Slots |-> IF clients[i] = c THEN NULL ELSE clients[i]]

\* (mutant) The count is taken for the index of the last slot.
ClearedSlots_PastLast(c) ==
    IF numClients \in Slots THEN [clients EXCEPT ![numClients] = NULL] ELSE clients

\* ClientRemove clears the last slot in use, whichever slot c is in.
ClearedSlots(c) == [clients EXCEPT ![numClients - 1] = NULL]

\* ClientRemove: tell the others, free the object, clear a slot.  The sends
\* in "also" went out before.  Deleting a freed object is a double free.
ClientRemove(c, also) ==
    /\ \E garbled \in BOOLEAN :
        sent' = also \cup ToAll("CLIENT_DELETE", AddrOf[heap[c].peer], c, garbled)
    /\ IF numClients = 0
       THEN UNCHANGED <<clients, numClients, heap>>
       ELSE /\ heap' = [heap EXCEPT ![c].live = FALSE]
            /\ clients' = ClearedSlots(c)
            /\ numClients' = numClients - 1
    /\ fault' \in BroadcastOutcomes(c)

\* The sender of a goodbye is gone, whatever the server makes of it.
MembersAfter(m) ==
    IF m.type = "DISCONNECT" THEN members \ {m.from} ELSE members

\* A request from an address without a client is ignored.
IgnoreRequest(m) ==
    /\ MessageTurn
    /\ SlotsOf(AddrOf[m.from]) = {}
    /\ sent' = {}
    /\ fault' \in Outcomes(Used)
    /\ members' = MembersAfter(m)
    /\ UNCHANGED <<sState, clients, numClients, heap, netMaxPlayers, admitted>>

\* Otherwise it is taken for one of the first client with that address.
ClientMessage(m) ==
    /\ MessageTurn
    /\ \E i \in Slots :
        /\ IsFirst(i, SlotsOf(AddrOf[m.from]))
        /\ IF m.type = "WORLD_DOWNLOAD_START"
           THEN ClientStartWorldDownload(clients[i])
           ELSE ClientRemove(clients[i], {})
    /\ members' = MembersAfter(m)
    /\ UNCHANGED <<sState, netMaxPlayers, admitted>>

-----------------------------------------------------------------------------
(* Console and shutdown: between two ticks *)

SetMaxPlayers(n) ==
    /\ Running
    /\ slot = 0
    /\ netMaxPlayers' = n
    /\ sent' = {}
    /\ UNCHANGED <<sState, clients, numClients, heap, slot, fault, admitted,
                   members>>

\* Shutdown, called by Engine_Shutdown when the program ends and by the
\* console command.
BeginShutdown ==
    /\ Running
    /\ slot = 0
    /\ sState' = "SHUTTING_DOWN"
    /\ sent' = {}
    /\ UNCHANGED <<clients, numClients, heap, netMaxPlayers, slot, fault,
                   admitted, members>>

\* One iteration of its loop: the client is told, then removed, which also
\* clears the last slot that the loop has yet to reach.
ShutdownSlot ==
    /\ sState = "SHUTTING_DOWN"
    /\ fault = "none"
    /\ slot < MAX_CLIENTS
    /\ slot' = slot + 1
    /\ IF slot \in Used
       THEN /\ ClientRemove(clients[slot], {Bye(Obj(slot).peer)})
            /\ members' = members \ {Obj(slot).peer}
       ELSE sent' = {} /\ UNCHANGED <<clients, numClients, heap, fault, members>>
    /\ UNCHANGED <<sState, netMaxPlayers, admitted>>

\* The socket is destroyed.
FinishShutdown ==
    /\ sState = "SHUTTING_DOWN"
    /\ fault = "none"
    /\ slot = MAX_CLIENTS
    /\ sState' = "DEAD"
    /\ sent' = {}
    /\ UNCHANGED <<clients, numClients, heap, netMaxPlayers, slot, fault,
                   admitted, members>>

-----------------------------------------------------------------------------
\* A peer asks for the world only after an OK hello; any peer may say hello
\* or quit, also one that was never let in.
Receive(m) ==
    \/ m \in Hello /\ ClientNew(m)
    \/ m \in Request /\ (m.type = "WORLD_DOWNLOAD_START" => m.from \in admitted)
       /\ (IgnoreRequest(m) \/ ClientMessage(m))

ServerNext ==
    \/ TickDownloads
    \/ NoMessage
    \/ \E m \in Hello \cup Request : Receive(m)
    \/ \E n \in ConsoleMaxPlayers : SetMaxPlayers(n)
    \/ BeginShutdown
    \/ ShutdownSlot
    \/ FinishShutdown

\* Engine_Run keeps ticking while the server runs, and a tick without a
\* message ends all the same; Shutdown runs to its end.
ServerFairness ==
    /\ WF_serverVars(TickDownloads)
    /\ WF_serverVars(NoMessage)
    /\ WF_serverVars(ShutdownSlot)
    /\ WF_serverVars(FinishShutdown)

ServerSpec == ServerInit /\ [][ServerNext]_serverVars /\ ServerFairness

-----------------------------------------------------------------------------
(* Properties *)

\* Types; the number of clients fits the array, the loop index too.
ServerTypeOK ==
    /\ sState \in {"RUNNING", "SHUTTING_DOWN", "DEAD"}
    /\ clients \in [Slots -> Ptrs \cup {NULL}]
    /\ numClients \in 0 .. MAX_CLIENTS
    /\ heap \in [Ptrs -> Object]
    /\ netMaxPlayers \in ConsoleMaxPlayers \cup {InitialLimit}
    /\ slot \in 0 .. MAX_CLIENTS
    /\ fault \in {"none", "heap", "slots"}
    /\ admitted \subseteq Peers
    /\ members \subseteq Peers

\* The slots in use are exactly the first numClients: the next log in takes
\* a free slot and the loops over clients[] see every slot that counts.
\* ClientRemove keeps this up by clearing the last slot instead of its own.
SlotsBelowCount == \A i \in Slots : clients[i] # NULL <=> i < numClients

\* No download runs past the end of the world (the unsigned difference in
\* ClientSendWorldChunk never wraps), and the server takes a download for
\* finished only when all of the world was sent, whatever starts, restarts,
\* removals and reuses of Client objects came before.
DownloadConsistent ==
    \A p \in Ptrs :
        /\ heap[p].progress <= WorldBytes
        /\ heap[p].phase = "LETS_GO" => heap[p].progress = WorldBytes

\* ClientNew writes past the end of clients[] only once the console has set a
\* limit above its length: the limits of the command line never lead there.
OverrunOnlyByConsole ==
    fault = "slots" =>
        netMaxPlayers > MAX_CLIENTS /\ netMaxPlayers \in ConsoleMaxPlayers

\* No step replaces the client in a slot by another one: a slot is emptied
\* before it is given away.
NoSlotOverwritten ==
    [][\A i \in Slots : clients[i] # NULL => clients'[i] \in {clients[i], NULL}]_serverVars

Downloading(i) == Running /\ i \in Used /\ Obj(i).phase = "DOWNLOADING"

\* A download in a slot ends, by being finished, with its client, or with
\* the server.
DownloadFinishes == \A i \in Slots : Downloading(i) ~> ~Downloading(i)

-----------------------------------------------------------------------------
(* Properties of a server that takes one client; with more, each fails (the
   last one in a run of its own). *)

\* While the server runs, the slots hold the live objects of the members and
\* nothing else: nobody is forgotten, and nobody who left is still there.
RosterExact ==
    Running =>
        /\ \A p \in members : \E i \in Used : Obj(i).live /\ Obj(i).peer = p
        /\ \A i \in Used : Obj(i).live /\ Obj(i).peer \in members

\* No step touches a freed Client object or payload.
NoHeapFault == fault # "heap"

\* "NETMSG_SERVER_SHUTDOWN, sent when the server is shutting down"
\* (docs/changes.txt:22): a dead server has told every member.
ShutdownReachesAll == sState = "DEAD" => members = {}
=============================================================================
