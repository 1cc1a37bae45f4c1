------------------------------- MODULE Session -------------------------------
(***************************************************************************)
(* A server and one of its clients, joined by the network, while other     *)
(* peers (guests) come and go.  The client is module Client and the server *)
(* module Server, both of which this module extends; a step here is a step *)
(* of one of them that takes the message it handles, if any, from the      *)
(* other's side and puts what it sends there.                              *)
(*                                                                         *)
(* toServer and toClient hold what was sent and is not yet handled,        *)
(* whether on the wire or in the receive buffer.  On an "ordered" network  *)
(* they are handled in the order they were sent in and none is lost.  On a *)
(* "lossy" one any may be lost, and any may overtake the others: the       *)
(* receive buffer alone, which is last-in first-out, does that to messages *)
(* that arrive within a tick of the receiver.                              *)
(***************************************************************************)
EXTENDS Client, Server, Sequences, SequencesExt

CONSTANT Networks       \* what the network may be

VARIABLES
    network,        \* "ordered" or "lossy"
    toServer,       \* messages on their way to the server
    toClient,       \* messages on their way to the client
    guestsDone      \* what the guests have said: each says a thing once

\* What a server sends to the client.
MsgsOfServer ==
    {HelloOk(Me), MapHeader(Me), Bye(Me)}
    \cup {Chunk(Me, o, n) : o \in 0 .. WorldBytes, n \in 1 .. MAX_PACKET_SIZE}
    \cup {Rpc(Me, k, a, ok) : k \in {"CLIENT_CREATE", "CLIENT_DELETE"},
                                a \in Addrs, ok \in BOOLEAN}

ASSUME SessionAssumption ==
    /\ Me \in Peers /\ PlayerName \in Usernames
    /\ ServerMsgs = MsgsOfServer
    /\ Networks \subseteq {"ordered", "lossy"}

sessionVars == <<serverVars, clientVars, network, toServer, toClient, guestsDone>>

SessionInit ==
    /\ ServerInit
    /\ ClientInit
    /\ network \in Networks
    /\ toServer = <<>>
    /\ toClient = <<>>
    /\ guestsDone = {}

-----------------------------------------------------------------------------
(* Network *)

\* The messages that can be handled next.
Deliverable(queue) == IF network = "lossy" THEN DOMAIN queue ELSE DOMAIN queue \cap {1}

\* After the messages in a set were sent, in some order.
Extended(queue, msgs) == {queue \o s : s \in SetToSeqs(msgs)}

ServerSends == toClient' \in Extended(toClient, {m \in sent' : m.to = Me})

-----------------------------------------------------------------------------
(* Server *)

ServerHandles ==
    \E i \in Deliverable(toServer) :
        /\ Receive(toServer[i])
        /\ toServer' = RemoveAt(toServer, i)
        /\ ServerSends
        /\ UNCHANGED <<clientVars, network, guestsDone>>

\* A chunk for everybody who is downloading.
ServerDownloads ==
    /\ TickDownloads
    /\ ServerSends
    /\ UNCHANGED <<clientVars, network, toServer, guestsDone>>

\* A tick that finds no message: those on their way are still on the wire.
ServerIdles ==
    /\ NoMessage
    /\ UNCHANGED <<clientVars, network, toServer, toClient, guestsDone>>

ServerShutsDown ==
    /\ BeginShutdown \/ ShutdownSlot \/ FinishShutdown
    /\ ServerSends
    /\ UNCHANGED <<clientVars, network, toServer, guestsDone>>

-----------------------------------------------------------------------------
(* Client *)

ClientSends == toServer' \in Extended(toServer, out')

\* A dead server has no socket: what is sent to it is gone, and what it
\* sent before still arrives.
ClientHandles ==
    \E i \in Deliverable(toClient) :
        /\ TickNetwork(toClient[i])
        /\ toClient' = RemoveAt(toClient, i)
        /\ ClientSends
        /\ UNCHANGED <<serverVars, network, guestsDone>>

ClientTicks ==
    /\ ResolveAddress \/ TickNetwork(NoMsg)
    /\ ClientSends
    /\ UNCHANGED <<serverVars, network, toClient, guestsDone>>

ClientStops ==
    /\ Quit \/ TickFatal \/ PollDestroyedSocket
    /\ ClientSends
    /\ UNCHANGED <<serverVars, network, toClient, guestsDone>>

-----------------------------------------------------------------------------
(* Guests and losses *)

Goodbye(p) == [type |-> "DISCONNECT", from |-> p]

\* A guest may say hello and goodbye, once each and not in the other order;
\* its download is none of the client's.
GuestMsgs ==
    {[type |-> "HELLO", from |-> p, current |-> TRUE, username |-> PlayerName] :
        p \in Peers \ {Me}}
    \cup {Goodbye(p) : p \in Peers \ {Me}}

GuestSends ==
    \E m \in GuestMsgs \ guestsDone :
        /\ m.type = "HELLO" => Goodbye(m.from) \notin guestsDone
        /\ toServer' = Append(toServer, m)
        /\ guestsDone' = guestsDone \cup {m}
        /\ UNCHANGED <<serverVars, clientVars, network, toClient>>

LoseMessage ==
    /\ network = "lossy"
    /\ \/ \E i \in DOMAIN toServer : toServer' = RemoveAt(toServer, i) /\ UNCHANGED toClient
       \/ \E i \in DOMAIN toClient : toClient' = RemoveAt(toClient, i) /\ UNCHANGED toServer
    /\ UNCHANGED <<serverVars, clientVars, network, guestsDone>>

SessionNext ==
    \/ ServerHandles
    \/ ServerDownloads
    \/ ServerIdles
    \/ ServerShutsDown
    \/ ClientHandles
    \/ ClientTicks
    \/ ClientStops
    \/ GuestSends
    \/ LoseMessage

\* Both programs keep ticking.  A message that was not lost is handled in
\* the end, although the server may tick any number of times before.
SessionFairness ==
    /\ WF_sessionVars(ServerDownloads)
    /\ WF_sessionVars(ServerIdles)
    /\ SF_sessionVars(ServerHandles)
    /\ WF_sessionVars(ClientHandles)
    /\ WF_sessionVars(ClientTicks)

SessionSpec == SessionInit /\ [][SessionNext]_sessionVars /\ SessionFairness

-----------------------------------------------------------------------------
(* Properties *)

InGame == cState = "CONNECTED" /\ ~exited

Ordered == network = "ordered"

\* "replicated from server to client" (net.hpp:245): who is in the game
\* has the server's world, each byte where it belongs.  What reordering and
\* loss do to it: whoever got in after a true header has every byte exactly
\* once, wherever it is.
WorldReplicated ==
    InGame =>
        IF Ordered
        THEN worldBytes = WorldBytes /\ \A i \in DOMAIN tiles : tiles[i] = i
        ELSE worldBytes = WorldBytes =>
                {tiles[i] : i \in DOMAIN tiles} = 0 .. WorldBytes - 1

\* The client never has more of the world than the server takes it to have,
\* in any order of the messages and with any of them lost; in order, it is in
\* the game only when the server takes its download for finished.
ServerAhead ==
    (Running /\ Alive /\ cState \in {"CONNECTING", "CONNECTED"} /\ progress > 0) =>
        \E i \in Used :
            /\ Obj(i).peer = Me /\ progress <= Obj(i).progress
            /\ Ordered /\ InGame => Obj(i).phase = "LETS_GO"

\* In order, the download writes no byte past the end of the client's
\* tileData and reads the header from a header.
NoDownloadFault == Ordered => cFault \notin {"header", "overrun"}

\* Who has quit: the client, and the guests that said so.
Gone ==
    {p \in Peers \ {Me} : Goodbye(p) \in guestsDone}
    \cup IF cState \in {"DISCONNECTED", "DEAD"} THEN {Me} ELSE {}

\* Nobody stays on the server without being there: who has a slot is still
\* running, or its goodbye is on the way.  Only in order: a goodbye that
\* overtakes the hello leaves a client that never goes (TickNetwork ignores
\* it, server_core.cpp:191).
NoGhosts ==
    Ordered /\ Running =>
        \A i \in Used :
            Obj(i).peer \in Gone =>
                \E k \in DOMAIN toServer : toServer[k] = Goodbye(Obj(i).peer)

\* Nothing stands in the way: both run, and nobody is on the way out.
Undisturbed ==
    /\ sState = "RUNNING" /\ fault = "none"
    /\ ~exited /\ cFault = "none" /\ cState # "FATAL"

\* Its hello was handled and not accepted; the server does not say so.
TurnedAway ==
    /\ phase = "HELLO_SENT" /\ Me \notin admitted
    /\ \A k \in DOMAIN toServer : ~(toServer[k].type = "HELLO" /\ toServer[k].from = Me)

\* "If the server is there, you will see the world" (docs/readme.txt:22):
\* while both run, a client that found the server gets into the game, if no
\* message is lost or overtaken, and waits for ever only if it was turned away
\* (server_auth.cpp:78).
Joins == (Ordered /\ cState = "CONNECTING") ~> (InGame \/ TurnedAway \/ ~Undisturbed)

\* In order, the slot of a client that quit is free again in the end, at
\* whatever point of its log in or download it was (TickNetwork,
\* server_core.cpp:111).
SlotsFreed ==
    \A p \in Peers :
        (Ordered /\ p \in Gone) ~> (~Running \/ \A i \in Used : Obj(i).peer # p)

\* A socket is used once destroyed only by a client that did not find the
\* server: whoever has said hello destroys it once and is done
\* (client_core.cpp:150, 174).
SocketUsedUp == cFault = "socket" => phase = "HELLO" /\ Me \notin admitted
=============================================================================
