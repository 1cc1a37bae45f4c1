------------------------------- MODULE Client -------------------------------
(***************************************************************************)
(* One client (net/client): it resolves the server's address, says hello,  *)
(* downloads the world and is connected.  A tick handles at most one       *)
(* message of the receive buffer, and it does not look at what the message *)
(* is before it takes it: in a phase that waits for nothing it is thrown   *)
(* away, and the phase that waits for the map header takes any message for *)
(* one.                                                                    *)
(*                                                                         *)
(* World bytes are abstracted to where they came from: byte i of the       *)
(* server's world is the number i.  The list of other players that RPCs    *)
(* maintain once the client is connected is module PlayerList.             *)
(***************************************************************************)
EXTENDS Integers

CONSTANTS
    Me,             \* this client
    ServerMsgs,     \* the messages a server can send it
    GarbageSizes,   \* world sizes that the bytes of another message can spell
    NoMsg,          \* a tick without a message
    Unset           \* a byte of the world that was not received

ASSUME ClientAssumption ==
    /\ GarbageSizes \subseteq Nat
    /\ NoMsg \notin ServerMsgs
    /\ Unset \notin Nat
    /\ \A m \in ServerMsgs :
        /\ m.type = "WORLD_DOWNLOAD_START" => m.bytes \in Nat
        /\ m.type = "WORLD_DOWNLOAD_PACKET" => m.offset \in Nat /\ m.size \in Nat

VARIABLES
    cState,         \* Client::state
    phase,          \* Client::connectPhase
    progress,       \* Client::downloadProgress
    worldBytes,     \* world.GetSizeInBytes(), the size of tileData
    tiles,          \* the bytes of tileData
    socket,         \* "open" or "destroyed"
    exited,         \* Engine_Shutdown has run
    cFault,         \* undefined behaviour that ended the run
    out             \* the messages the last step sent to the server

clientVars == <<cState, phase, progress, worldBytes, tiles, socket, exited,
                cFault, out>>

world == <<progress, worldBytes, tiles>>
process == <<socket, exited, cFault>>

\* Messages to the server, as module Server receives them.
HelloMsg(u) == [type |-> "HELLO", from |-> Me, current |-> TRUE, username |-> u]
StartMsg == [type |-> "WORLD_DOWNLOAD_START", from |-> Me]
DisconnectMsg == [type |-> "DISCONNECT", from |-> Me]

CONSTANT PlayerName     \* the cvar playerName, the user name in the hello

-----------------------------------------------------------------------------
\* After Engine_Init: Client::Init opened the socket, Client::Connect looked
\* the address up, which can fail at once.
ClientInit ==
    /\ cState \in {"RESOLVING_ADDRESS", "FATAL"}
    /\ phase = "HELLO"
    /\ progress = 0
    /\ worldBytes = 0
    /\ tiles = [i \in {} |-> Unset]
    /\ socket = "open"
    /\ exited = FALSE
    /\ cFault = "none"
    /\ out = {}

Alive == ~exited /\ cFault = "none"

\* Tick while the address is being resolved.
ResolveAddress ==
    /\ Alive
    /\ cState = "RESOLVING_ADDRESS"
    /\ cState' \in {"CONNECTING", "FATAL"}
    /\ out' = {}
    /\ UNCHANGED <<phase, world, process>>

\* TickNetwork pops its message first, whatever the phase.
Connecting(p) == Alive /\ cState = "CONNECTING" /\ phase = p

OfType(m, t) == m # NoMsg /\ m.type = t

\* Anything but the notice that the server shuts down, which is looked for
\* before all else.
Ordinary(m) == ~OfType(m, "SERVER_SHUTDOWN")

SendHello(m) ==
    /\ Connecting("HELLO")
    /\ Ordinary(m)
    /\ phase' = "HELLO_SENT"
    /\ out' = {HelloMsg(PlayerName)}
    /\ UNCHANGED <<cState, world, process>>

\* There is no second hello: without an answer the client waits for good.
AwaitHello(m) ==
    /\ Connecting("HELLO_SENT")
    /\ Ordinary(m)
    /\ IF OfType(m, "SERVER_HELLO")
       THEN IF m.status = "OK"
            THEN phase' = "DOWNLOAD_WORLD" /\ UNCHANGED cState
            ELSE cState' = "UNCONNECTED" /\ UNCHANGED phase
       ELSE UNCHANGED <<cState, phase>>
    /\ out' = {}
    /\ UNCHANGED <<world, process>>

RequestWorld(m) ==
    /\ Connecting("DOWNLOAD_WORLD")
    /\ Ordinary(m)
    /\ phase' = "DOWNLOAD_WORLD_SENT"
    /\ out' = {StartMsg}
    /\ UNCHANGED <<cState, world, process>>

\* The size that the client reads from a message it takes for the header.
SizesReadFrom(m) ==
    IF m.type = "WORLD_DOWNLOAD_START" THEN {m.bytes} ELSE GarbageSizes

\* Reading a name, two integers and a size from another message runs past
\* its payload, and the size may be one that cannot be allocated.
HeaderOutcomes(m) == {"none"} \cup IF OfType(m, "WORLD_DOWNLOAD_START") THEN {} ELSE {"header"}

\* The first message to come is taken for the header, and tileData is
\* allocated with the size read from it.
AwaitHeader(m) ==
    /\ Connecting("DOWNLOAD_WORLD_SENT")
    /\ Ordinary(m)
    /\ out' = {}
    /\ IF m = NoMsg
       THEN UNCHANGED <<phase, world, cFault>>
       ELSE /\ phase' = "DOWNLOADING_WORLD"
            /\ \E n \in SizesReadFrom(m) :
                /\ worldBytes' = n
                /\ tiles' = [i \in 0 .. n - 1 |-> Unset]
            /\ cFault' \in HeaderOutcomes(m)
            /\ UNCHANGED progress
    /\ UNCHANGED <<cState, socket, exited>>

\* (mutant) Each chunk is written at the start of the world.
WithChunk_AtStart(m) ==
    [i \in DOMAIN tiles |-> IF i < m.size THEN m.offset + i ELSE tiles[i]]

\* tileData after the chunk m was copied to the current progress: the chunk
\* does not say where it belongs.
WithChunk(m) ==
    [i \in DOMAIN tiles |->
        IF i \in progress .. progress + m.size - 1
        THEN m.offset + (i - progress) ELSE tiles[i]]

\* (mutant) The end is reached only when it is passed.
DownloadDone_PastEnd(m) == progress + m.size > worldBytes

DownloadDone(m) == progress + m.size >= worldBytes

\* ConnectDownloadWorldChunk; a chunk that does not fit is written past the
\* end of tileData, which may be fatal or go unnoticed.
DownloadChunk(m) ==
    /\ Connecting("DOWNLOADING_WORLD")
    /\ Ordinary(m)
    /\ out' = {}
    /\ IF OfType(m, "WORLD_DOWNLOAD_PACKET")
       THEN /\ tiles' = WithChunk(m)
            /\ progress' = progress + m.size
            /\ phase' = IF DownloadDone(m) THEN "LETS_GO" ELSE phase
            /\ cFault' \in IF progress + m.size > worldBytes
                          THEN {"none", "overrun"} ELSE {"none"}
       ELSE UNCHANGED <<tiles, progress, phase, cFault>>
    /\ UNCHANGED <<cState, worldBytes, socket, exited>>

EnterGame(m) ==
    /\ Connecting("LETS_GO")
    /\ Ordinary(m)
    /\ cState' = "CONNECTED"
    /\ out' = {}
    /\ UNCHANGED <<phase, world, process>>

\* Only RPCs count, and they do not touch this state.
Play(m) ==
    /\ Alive
    /\ cState = "CONNECTED"
    /\ Ordinary(m)
    /\ out' = {}
    /\ UNCHANGED <<cState, phase, world, process>>

\* The server's notice is answered with a disconnect, connected or not.
ServerGone(m) ==
    /\ Alive
    /\ cState \in {"CONNECTING", "CONNECTED"}
    /\ ~Ordinary(m)
    /\ cState' = "DISCONNECTED"
    /\ out' = {DisconnectMsg}
    /\ UNCHANGED <<phase, world, process>>

\* TickNetwork with the message m, or none.
TickNetwork(m) ==
    \/ SendHello(m)
    \/ AwaitHello(m)
    \/ RequestWorld(m)
    \/ AwaitHeader(m)
    \/ DownloadChunk(m)
    \/ EnterGame(m)
    \/ Play(m)
    \/ ServerGone(m)

-----------------------------------------------------------------------------
\* (mutant) Only a client in the game says goodbye.
Shutdown_OnlyConnected ==
    /\ out' = IF cState = "CONNECTED" THEN {DisconnectMsg} ELSE {}
    /\ cFault' \in IF socket = "destroyed" THEN {"none", "socket"} ELSE {"none"}
    /\ socket' = "destroyed"
    /\ cState' = "DEAD"
    /\ UNCHANGED <<phase, world>>

\* Client::Shutdown: says goodbye if there is anybody to say it to and
\* destroys the socket, without asking whether it already did.
Shutdown ==
    /\ out' = IF cState \in {"CONNECTING", "CONNECTED"} THEN {DisconnectMsg} ELSE {}
    /\ cFault' \in IF socket = "destroyed" THEN {"none", "socket"} ELSE {"none"}
    /\ socket' = "destroyed"
    /\ cState' = "DEAD"
    /\ UNCHANGED <<phase, world>>

\* Tick in a state of failure; the engine goes on running.
TickFatal == Alive /\ cState = "FATAL" /\ Shutdown /\ UNCHANGED exited

\* (mutant) The engine goes on running.
Quit_KeepsRunning == Alive /\ UNCHANGED exited /\ Shutdown

\* Engine_Shutdown, when the window is closed.
Quit == Alive /\ exited' = TRUE /\ Shutdown

\* Frame receives from the socket in every state, DEAD included.
PollDestroyedSocket ==
    /\ Alive
    /\ socket = "destroyed"
    /\ cFault' = "socket"
    /\ out' = {}
    /\ UNCHANGED <<cState, phase, world, socket, exited>>

ClientNext ==
    \/ ResolveAddress
    \/ \E m \in ServerMsgs \cup {NoMsg} : TickNetwork(m)
    \/ TickFatal
    \/ Quit
    \/ PollDestroyedSocket

ClientSpec == ClientInit /\ [][ClientNext]_clientVars

-----------------------------------------------------------------------------
ClientStates == {"UNCONNECTED", "RESOLVING_ADDRESS", "CONNECTING", "CONNECTED",
                 "DISCONNECTED", "DEAD", "FATAL"}

PhaseOrder == <<"HELLO", "HELLO_SENT", "DOWNLOAD_WORLD", "DOWNLOAD_WORLD_SENT",
                "DOWNLOADING_WORLD", "LETS_GO">>

\* Types; tileData is as long as the world is said to be.
ClientTypeOK ==
    /\ cState \in ClientStates
    /\ \E k \in 1 .. 6 : phase = PhaseOrder[k]
    /\ progress \in Nat
    /\ worldBytes \in Nat
    /\ tiles \in [0 .. worldBytes - 1 -> Nat \cup {Unset}]
    /\ socket \in {"open", "destroyed"}
    /\ exited \in BOOLEAN
    /\ cFault \in {"none", "header", "overrun", "socket"}

\* Whatever messages arrive in whatever order, a client that is in the game
\* shows a world every byte of which it has received.
InGameComplete ==
    cState = "CONNECTED" => \A i \in 0 .. worldBytes - 1 : tiles[i] # Unset
=============================================================================
