---------------------------- MODULE SessionProofs ----------------------------
(***************************************************************************)
(* Theorems about Client, for every set of server messages, and about      *)
(* Session, for every world, chunk size and set of guests: first what a    *)
(* client has of its world whatever messages it gets, then what the client *)
(* and a server that takes one client are to each other.                   *)
(***************************************************************************)
EXTENDS Session, ServerProofs, SequenceTheorems

-----------------------------------------------------------------------------
(* The client *)

ConnectPhases == {PhaseOrder[k] : k \in 1 .. 6}

\* PhaseOrder written out.
LEMMA PhasesAre ==
    ConnectPhases = {"HELLO", "HELLO_SENT", "DOWNLOAD_WORLD", "DOWNLOAD_WORLD_SENT",
              "DOWNLOADING_WORLD", "LETS_GO"}
<1>1. 1 .. 6 = {1, 2, 3, 4, 5, 6}
  OBVIOUS
<1> QED
  BY <1>1 DEF ConnectPhases, PhaseOrder

\* The strengthening of InGameComplete: nothing is downloaded before the
\* header, the bytes below the progress have been received, and only the
\* last phase, which needs them all, leads into the game.
DownloadInv ==
    /\ ClientTypeOK
    /\ progress > 0 => phase \in {"DOWNLOADING_WORLD", "LETS_GO"}
    /\ \A i \in 0 .. worldBytes - 1 : i < progress => tiles[i] # Unset
    /\ phase = "LETS_GO" => progress >= worldBytes
    /\ cState = "CONNECTED" => phase = "LETS_GO"

\* A chunk fills the bytes from the progress on.
LEMMA ChunkFills ==
    ASSUME DownloadInv,
           NEW m \in ServerMsgs, m.type = "WORLD_DOWNLOAD_PACKET",
           tiles' = WithChunk(m),
           progress' = progress + m.size,
           worldBytes' = worldBytes
    PROVE  /\ progress' \in Nat
           /\ tiles' \in [0 .. worldBytes - 1 -> Nat \cup {Unset}]
           /\ \A i \in 0 .. worldBytes - 1 : i < progress' => tiles'[i] # Unset
<1>1. m.offset \in Nat /\ m.size \in Nat
  BY ClientAssumption
<1>2. DOMAIN tiles = 0 .. worldBytes - 1 /\ progress \in Nat /\ worldBytes \in Nat
  BY DEF DownloadInv, ClientTypeOK
<1>3. ASSUME NEW i \in 0 .. worldBytes - 1
      PROVE  /\ tiles'[i] \in Nat \cup {Unset}
             /\ i < progress' => tiles'[i] # Unset
  <2>1. tiles'[i] = IF i \in progress .. progress + m.size - 1
                    THEN m.offset + (i - progress) ELSE tiles[i]
    BY <1>2 DEF WithChunk
  <2>2. CASE i \in progress .. progress + m.size - 1
    <3>1. m.offset + (i - progress) \in Nat
      BY <1>1, <1>2, <2>2
    <3> QED
      BY <2>1, <2>2, <3>1, ClientAssumption
  <2>3. CASE i \notin progress .. progress + m.size - 1
    <3>1. i < progress' => i < progress
      BY <1>1, <1>2, <2>3
    <3>2. tiles[i] \in Nat \cup {Unset} /\ (i < progress => tiles[i] # Unset)
      BY DEF DownloadInv, ClientTypeOK
    <3> QED
      BY <2>1, <2>3, <3>1, <3>2
  <2> QED
    BY <2>2, <2>3
<1>4. tiles' \in [0 .. worldBytes - 1 -> Nat \cup {Unset}]
  <2>1. tiles' = [i \in 0 .. worldBytes - 1 |-> tiles'[i]]
    BY <1>2 DEF WithChunk
  <2> QED
    BY <1>3, <2>1
<1> QED
  BY <1>1, <1>2, <1>3, <1>4

LEMMA ClientInitOK == ClientInit => DownloadInv
<1> SUFFICES ASSUME ClientInit PROVE DownloadInv
  OBVIOUS
<1>1. \E k \in 1 .. 6 : phase = PhaseOrder[k]
  BY PhasesAre DEF ClientInit, ConnectPhases
<1>2. tiles \in [0 .. worldBytes - 1 -> Nat \cup {Unset}]
  <2>1. 0 .. worldBytes - 1 = {}
    BY DEF ClientInit
  <2> QED
    BY <2>1 DEF ClientInit
<1>3. ClientTypeOK
  BY <1>1, <1>2 DEF ClientInit, ClientTypeOK, ClientStates
<1>4. progress = 0 /\ worldBytes = 0 /\ phase = "HELLO" /\ cState # "CONNECTED"
  BY DEF ClientInit
<1>5. 0 .. worldBytes - 1 = {}
  BY <1>4
<1> QED
  BY <1>3, <1>4, <1>5 DEF DownloadInv

\* The steps that leave the world alone.
LEMMA QuietSteps ==
    ASSUME DownloadInv,
           UNCHANGED world,
           cState' \in ClientStates,
           phase' \in ConnectPhases,
           socket' \in {"open", "destroyed"},
           exited' \in BOOLEAN,
           cFault' \in {"none", "header", "overrun", "socket"},
           progress > 0 => phase' \in {"DOWNLOADING_WORLD", "LETS_GO"},
           phase' = "LETS_GO" => phase = "LETS_GO",
           cState' = "CONNECTED" => phase' = "LETS_GO"
    PROVE  DownloadInv'
<1>1. \E k \in 1 .. 6 : phase' = PhaseOrder[k]
  BY DEF ConnectPhases
<1> QED
  BY <1>1 DEF DownloadInv, ClientTypeOK, world

LEMMA ClientNextOK == DownloadInv /\ [ClientNext]_clientVars => DownloadInv'
<1> SUFFICES ASSUME DownloadInv, [ClientNext]_clientVars
             PROVE  DownloadInv'
  OBVIOUS
<1>0. phase \in ConnectPhases /\ cState \in ClientStates
  BY DEF DownloadInv, ClientTypeOK, ConnectPhases
<1>1. CASE ResolveAddress
  BY <1>0, <1>1, QuietSteps
  DEF ResolveAddress, DownloadInv, ClientTypeOK, ClientStates, world, process
<1>2. ASSUME NEW m \in ServerMsgs \cup {NoMsg}, TickNetwork(m)
      PROVE  DownloadInv'
  <2>1. CASE SendHello(m) \/ AwaitHello(m) \/ RequestWorld(m)
    BY <1>0, <2>1, QuietSteps, PhasesAre
    DEF SendHello, AwaitHello, RequestWorld, Connecting, DownloadInv,
        ClientTypeOK, ClientStates, world, process
  <2>2. CASE AwaitHeader(m)
    <3>1. CASE m = NoMsg
      BY <1>0, <2>2, <3>1, QuietSteps
      DEF AwaitHeader, Connecting, DownloadInv, ClientTypeOK, world
    <3>2. CASE m # NoMsg
      <4>1. PICK n \in SizesReadFrom(m) :
              worldBytes' = n /\ tiles' = [i \in 0 .. n - 1 |-> Unset]
        BY <2>2, <3>2 DEF AwaitHeader
      <4>2. n \in Nat
        BY <3>2, ClientAssumption DEF SizesReadFrom
      <4>3. progress' = progress /\ progress = 0
        BY <2>2, <3>2, PhasesAre DEF AwaitHeader, Connecting, DownloadInv, ClientTypeOK
      <4>4. \E k \in 1 .. 6 : phase' = PhaseOrder[k]
        BY <2>2, <3>2, PhasesAre DEF AwaitHeader, ConnectPhases
      <4>5. cFault' \in {"none", "header"}
        BY <2>2, <3>2 DEF AwaitHeader, HeaderOutcomes
      <4> QED
        BY <2>2, <3>2, <4>1, <4>2, <4>3, <4>4, <4>5
        DEF AwaitHeader, Connecting, DownloadInv, ClientTypeOK, ClientStates
    <3> QED
      BY <3>1, <3>2
  <2>3. CASE DownloadChunk(m)
    <3>1. CASE OfType(m, "WORLD_DOWNLOAD_PACKET")
      <4>1. m \in ServerMsgs /\ m.type = "WORLD_DOWNLOAD_PACKET"
        BY <3>1 DEF OfType
      <4>2. /\ tiles' = WithChunk(m)
            /\ progress' = progress + m.size
            /\ phase' = IF DownloadDone(m) THEN "LETS_GO" ELSE phase
            /\ cFault' \in {"none", "overrun"}
            /\ phase = "DOWNLOADING_WORLD" /\ cState = "CONNECTING"
            /\ UNCHANGED <<cState, worldBytes, socket, exited>>
        BY <2>3, <3>1 DEF DownloadChunk, Connecting
      <4>3. /\ progress' \in Nat
            /\ tiles' \in [0 .. worldBytes - 1 -> Nat \cup {Unset}]
            /\ \A i \in 0 .. worldBytes - 1 : i < progress' => tiles'[i] # Unset
        BY <4>1, <4>2, ChunkFills
      <4>4. phase' = "LETS_GO" => progress' >= worldBytes'
        BY <4>2 DEF DownloadDone
      <4>5. \E k \in 1 .. 6 : phase' = PhaseOrder[k]
        BY <4>2, PhasesAre DEF ConnectPhases
      <4> QED
        BY <4>2, <4>3, <4>4, <4>5 DEF DownloadInv, ClientTypeOK, ClientStates
    <3>2. CASE ~OfType(m, "WORLD_DOWNLOAD_PACKET")
      BY <1>0, <2>3, <3>2, QuietSteps
      DEF DownloadChunk, Connecting, DownloadInv, ClientTypeOK, world
    <3> QED
      BY <3>1, <3>2
  <2>4. CASE EnterGame(m) \/ Play(m) \/ ServerGone(m)
    BY <1>0, <2>4, QuietSteps
    DEF EnterGame, Play, ServerGone, Connecting, DownloadInv, ClientTypeOK,
        ClientStates, world, process
  <2> QED
    BY <1>2, <2>1, <2>2, <2>3, <2>4 DEF TickNetwork
<1>3. CASE TickFatal \/ Quit
  BY <1>0, <1>3, QuietSteps
  DEF TickFatal, Quit, Shutdown, DownloadInv, ClientTypeOK, ClientStates, world
<1>4. CASE PollDestroyedSocket
  BY <1>0, <1>4, QuietSteps
  DEF PollDestroyedSocket, DownloadInv, ClientTypeOK, world
<1>5. CASE UNCHANGED clientVars
  BY <1>0, <1>5, QuietSteps
  DEF clientVars, DownloadInv, ClientTypeOK, world
<1> QED
  BY <1>1, <1>2, <1>3, <1>4, <1>5 DEF ClientNext

\* ClientTypeOK for every set of messages: tileData is always as long as the
\* world is said to be.
THEOREM ClientTypeCorrect == ClientSpec => []ClientTypeOK
<1>1. DownloadInv => ClientTypeOK
  BY DEF DownloadInv
<1> QED
  BY <1>1, ClientInitOK, ClientNextOK, PTL DEF ClientSpec

\* InGameComplete for every set of messages: no order, loss or repetition of
\* messages brings a client into a game with a byte of the world missing.
THEOREM InGameCorrect == ClientSpec => []InGameComplete
<1>1. DownloadInv => InGameComplete
  BY DEF DownloadInv, InGameComplete, ClientTypeOK
<1> QED
  BY <1>1, ClientInitOK, ClientNextOK, PTL DEF ClientSpec
-----------------------------------------------------------------------------
(* The session of a server that takes one client *)

\* A message is on the way; it is not on the way twice.
In(m, queue) == \E k \in DOMAIN queue : queue[k] = m
Once(m, queue) == \A j, k \in DOMAIN queue : queue[j] = m /\ queue[k] = m => j = k

HelloOf(p) == [type |-> "HELLO", from |-> p, current |-> TRUE, username |-> PlayerName]

\* What is ever on the way: no RPC to the only client.
ToServer == {HelloOf(p) : p \in Peers} \cup {Goodbye(p) : p \in Peers} \cup {StartMsg}

Chunks == {Chunk(Me, o, n) : o \in 0 .. WorldBytes, n \in 1 .. MAX_PACKET_SIZE}

ToMe == {HelloOk(Me), MapHeader(Me), Bye(Me)} \cup Chunks

\* A peer, the client, is in the slot.
Holds(p) == numClients = 1 /\ Obj(0).peer = p
MeIn == Holds(Me)

\* The server has not got the client's request for the world.
Early ==
    \/ phase \in {"HELLO", "HELLO_SENT", "DOWNLOAD_WORLD"}
    \/ In(StartMsg, toServer)

\* What is on the way to the server: the client says each thing once.
UpInv ==
    /\ toServer \in Seq(ToServer)
    /\ Once(HelloOf(Me), toServer) /\ Once(StartMsg, toServer)
    /\ In(HelloOf(Me), toServer) => phase = "HELLO_SENT" /\ Me \notin admitted
    /\ In(StartMsg, toServer) => phase \notin {"HELLO", "HELLO_SENT", "DOWNLOAD_WORLD"}
    /\ cState \in {"RESOLVING_ADDRESS", "FATAL", "CONNECTING", "CONNECTED"} =>
            ~In(Goodbye(Me), toServer)

\* How far the log in is on either side.
StageInv ==
    /\ cState # "UNCONNECTED"
    /\ cState \in {"RESOLVING_ADDRESS", "FATAL"} => phase = "HELLO"
    /\ phase = "HELLO" => Me \notin admitted
    /\ phase \notin {"HELLO", "HELLO_SENT"} => Me \in admitted
    /\ MeIn =>
        /\ Me \in admitted
        /\ Early => Obj(0).phase = "HELLO"
        /\ Obj(0).phase = "HELLO" => Obj(0).progress = 0
        /\ Obj(0).phase = "DOWNLOADING" => Obj(0).progress < WorldBytes
        /\ Obj(0).phase = "LETS_GO" => Obj(0).progress = WorldBytes
    /\ Running /\ Me \in admitted /\ cState \in {"CONNECTING", "CONNECTED"} => MeIn

\* What is on the way to the client.
DownInv ==
    /\ toClient \in Seq(ToMe)
    /\ Me \notin admitted => toClient = <<>>
    /\ Once(HelloOk(Me), toClient)
    /\ In(HelloOk(Me), toClient) => phase = "HELLO_SENT"
    /\ Early => \A k \in DOMAIN toClient : toClient[k] \in {HelloOk(Me), Bye(Me)}

\* The bytes of the world in a message.
Bytes(m) ==
    IF m.type = "WORLD_DOWNLOAD_PACKET" THEN m.offset .. m.offset + m.size - 1 ELSE {}

\* No byte is on the way twice, and none that the server has not sent.
BytesInv ==
    /\ \A j, k \in DOMAIN toClient : j # k => Bytes(toClient[j]) \cap Bytes(toClient[k]) = {}
    /\ \A k \in DOMAIN toClient :
        /\ Bytes(toClient[k]) \subseteq 0 .. WorldBytes - 1
        /\ MeIn => Bytes(toClient[k]) \subseteq 0 .. Obj(0).progress - 1

\* The bytes that were received are as many as the progress says, and none is
\* received or on the way twice.
ReceivedBytes(R) ==
    /\ Cardinality(R) = progress
    /\ MeIn => R \subseteq 0 .. Obj(0).progress - 1
    /\ \A k \in DOMAIN toClient : R \cap Bytes(toClient[k]) = {}
    /\ worldBytes = WorldBytes => R = {tiles[i] : i \in 0 .. progress - 1}

ReceivedInv == \E R \in SUBSET (0 .. WorldBytes - 1) : ReceivedBytes(R)

\* How far the download is where a message begins and where it ends, to the
\* client, and to the server: -2 before the hello, -1 before the header.
At(m) == IF m.type = "SERVER_HELLO" THEN -2
         ELSE IF m.type = "WORLD_DOWNLOAD_START" THEN -1 ELSE m.offset

After(m) == IF m.type = "SERVER_HELLO" THEN -1
            ELSE IF m.type = "WORLD_DOWNLOAD_START" THEN 0 ELSE m.offset + m.size

ClientAt == IF phase \in {"HELLO", "HELLO_SENT"} THEN -2
            ELSE IF phase \in {"DOWNLOAD_WORLD", "DOWNLOAD_WORLD_SENT"} THEN -1
            ELSE progress

ServerAt == IF Obj(0).phase = "HELLO" THEN -1 ELSE Obj(0).progress

\* In order, each message on the way begins where the one before it ends,
\* the first where the client is, and the server is where the last one ends.
OrderInv ==
    Ordered =>
        /\ \A k \in DOMAIN toClient :
            toClient[k] = Bye(Me) => k = Len(toClient) /\ ~MeIn /\ ~Running
        /\ \A k \in DOMAIN toClient :
            toClient[k] # Bye(Me) =>
                At(toClient[k]) = IF k = 1 THEN ClientAt ELSE After(toClient[k - 1])
        /\ MeIn => ServerAt = IF toClient = <<>> THEN ClientAt
                              ELSE After(toClient[Len(toClient)])

\* In order, what was received is the beginning of the world.
PrefixInv ==
    Ordered =>
        /\ phase \in {"DOWNLOADING_WORLD", "LETS_GO"} => worldBytes = WorldBytes
        /\ \A i \in 0 .. worldBytes - 1 : i < progress => tiles[i] = i
        /\ cFault \notin {"header", "overrun"}

\* In order, whoever is gone is followed by its goodbye.
GhostInv ==
    /\ guestsDone \subseteq GuestMsgs
    /\ Ordered =>
        \A p \in Gone :
            /\ \A k \in DOMAIN toServer :
                toServer[k] = HelloOf(p) =>
                    \E j \in DOMAIN toServer : k < j /\ toServer[j] = Goodbye(p)
            /\ Running /\ Holds(p) => In(Goodbye(p), toServer)

-----------------------------------------------------------------------------
(* Queues *)

\* What is left of a queue when the message at i is taken out of it.
LEMMA Removed ==
  ASSUME NEW T, NEW q \in Seq(T), NEW i \in DOMAIN q, NEW r, r = RemoveAt(q, i)
  PROVE  /\ r \in Seq(T) /\ Len(r) = Len(q) - 1
         /\ \A j \in DOMAIN r : /\ j < i => j \in DOMAIN q /\ r[j] = q[j]
                                /\ j >= i => j + 1 \in DOMAIN q /\ r[j] = q[j + 1]
<1>1. Len(q) \in Nat /\ DOMAIN q = 1 .. Len(q) /\ \A k \in 1 .. Len(q) : q[k] \in T
  BY ElementOfSeq, LenProperties
<1> DEFINE a == SubSeq(q, 1, i - 1)
           b == SubSeq(q, i + 1, Len(q))
<1>2. /\ a \in Seq(T) /\ Len(a) = i - 1
      /\ \A j \in 1 .. i - 1 : a[j] = q[j]
  <2>1. 1 \in Int /\ i - 1 \in Int /\ \A j \in 1 .. i - 1 : q[j] \in T
    BY <1>1
  <2>2. /\ a \in Seq(T) /\ Len(a) = IF 1 <= i - 1 THEN i - 1 - 1 + 1 ELSE 0
        /\ \A j \in 1 .. i - 1 - 1 + 1 : a[j] = q[1 + j - 1]
    BY <2>1, SubSeqProperties
  <2>3. QED
    BY <1>1, <2>2
<1>3. /\ b \in Seq(T) /\ Len(b) = Len(q) - i
      /\ \A j \in 1 .. Len(q) - i : b[j] = q[i + j]
  <2>1. i + 1 \in Int /\ Len(q) \in Int /\ \A j \in i + 1 .. Len(q) : q[j] \in T
    BY <1>1
  <2>2. /\ b \in Seq(T) /\ Len(b) = IF i + 1 <= Len(q) THEN Len(q) - (i + 1) + 1 ELSE 0
        /\ \A j \in 1 .. Len(q) - (i + 1) + 1 : b[j] = q[(i + 1) + j - 1]
    BY <2>1, SubSeqProperties
  <2>3. i \in Nat /\ Len(q) \in Nat /\ i <= Len(q) /\ Len(q) - (i + 1) + 1 = Len(q) - i
    BY <1>1
  <2>4. Len(b) = Len(q) - i
    BY <2>2, <2>3
  <2>5. ASSUME NEW j \in 1 .. Len(q) - i PROVE b[j] = q[i + j]
    <3>1. (i + 1) + j - 1 = i + j
      BY <2>3
    <3>2. b[j] = q[(i + 1) + j - 1]
      BY <2>2, <2>3
    <3>3. QED
      BY <3>1, <3>2
  <2>6. QED
    BY <2>2, <2>4, <2>5
<1>4. r = a \o b
  BY DEF RemoveAt
<1> HIDE DEF a, b
<1>5. /\ r \in Seq(T) /\ Len(r) = Len(a) + Len(b)
      /\ \A j \in 1 .. Len(a) + Len(b) : r[j] = IF j <= Len(a) THEN a[j] ELSE b[j - Len(a)]
  <2>1. a \in Seq(T) /\ b \in Seq(T)
    BY <1>2, <1>3
  <2>2. /\ a \o b \in Seq(T) /\ Len(a \o b) = Len(a) + Len(b)
        /\ \A j \in 1 .. Len(a) + Len(b) : (a \o b)[j] = IF j <= Len(a) THEN a[j] ELSE b[j - Len(a)]
    BY <2>1, ConcatProperties, Zenon
  <2>3. QED
    BY <1>4, <2>2
<1>6. DOMAIN r = 1 .. Len(q) - 1 /\ Len(r) = Len(q) - 1
  BY <1>1, <1>2, <1>3, <1>5, LenProperties
<1>7. ASSUME NEW j \in DOMAIN r, j < i PROVE j \in DOMAIN q /\ r[j] = q[j]
  <2>1. /\ Len(a) \in Nat /\ Len(b) \in Nat /\ Len(q) \in Nat /\ i \in 1 .. Len(q)
        /\ Len(a) = i - 1 /\ Len(b) = Len(q) - i
    BY <1>1, <1>2, <1>3
  <2>2. /\ j \in 1 .. Len(a) + Len(b) /\ j <= Len(a) /\ j \in 1 .. i - 1 /\ j \in 1 .. Len(q)
    BY <1>6, <1>7, <2>1
  <2>3. r[j] = a[j] /\ a[j] = q[j]
    BY <1>2, <1>5, <2>2
  <2>4. QED
    BY <1>1, <2>2, <2>3
<1>8. ASSUME NEW j \in DOMAIN r, j >= i PROVE j + 1 \in DOMAIN q /\ r[j] = q[j + 1]
  <2>1. j \in 1 .. Len(a) + Len(b) /\ ~(j <= Len(a)) /\ j - Len(a) \in 1 .. Len(q) - i
    <3>1. /\ Len(a) \in Nat /\ Len(b) \in Nat /\ Len(q) \in Nat /\ i \in 1 .. Len(q)
          /\ Len(a) = i - 1 /\ Len(b) = Len(q) - i
      BY <1>1, <1>2, <1>3
    <3>2. j \in 1 .. Len(q) - 1
      BY <1>6
    <3>3. QED
      BY <1>8, <3>1, <3>2
  <2>2. r[j] = b[j - Len(a)]
    BY <1>5, <2>1
  <2>3. b[j - Len(a)] = q[i + (j - Len(a))]
    BY <1>3, <2>1
  <2>4. i + (j - Len(a)) = j + 1
    BY <1>1, <1>2, <1>6
  <2>5. QED
    BY <1>1, <1>6, <2>2, <2>3, <2>4
<1>9. QED
  BY <1>5, <1>6, <1>7, <1>8

\* Each message that is left was at a place of its own, and not at i.
LEMMA RemovedFrom ==
  ASSUME NEW T, NEW q \in Seq(T), NEW i \in DOMAIN q, NEW r, r = RemoveAt(q, i)
  PROVE  \A j, k \in DOMAIN r :
            \E u, v \in DOMAIN q \ {i} : /\ r[j] = q[u] /\ r[k] = q[v]
                                         /\ j # k => u # v
<1> DEFINE from(j) == IF j < i THEN j ELSE j + 1
<1>1. /\ DOMAIN q \subseteq Nat /\ DOMAIN r \subseteq Nat
  BY Removed, LenProperties
<1>2. \A j \in DOMAIN r : from(j) \in DOMAIN q \ {i} /\ r[j] = q[from(j)]
  <2> SUFFICES ASSUME NEW j \in DOMAIN r
               PROVE  from(j) \in DOMAIN q \ {i} /\ r[j] = q[from(j)]
    OBVIOUS
  <2>1. /\ j < i => j \in DOMAIN q /\ r[j] = q[j]
        /\ j >= i => j + 1 \in DOMAIN q /\ r[j] = q[j + 1]
    BY Removed
  <2>2. j \in Nat /\ i \in Nat
    BY <1>1
  <2>3. QED
    BY <2>1, <2>2
<1>3. \A j, k \in DOMAIN r : j # k => from(j) # from(k)
  BY <1>1
<1>4. QED
  BY <1>2, <1>3

LEMMA RemovedMessages ==
  ASSUME NEW T, NEW q \in Seq(T), NEW i \in DOMAIN q, NEW r, r = RemoveAt(q, i)
  PROVE  /\ r \in Seq(T)
         /\ \A m : In(m, r) => In(m, q)
         /\ \A m : Once(m, q) => Once(m, r)
         /\ Once(q[i], q) => ~In(q[i], r)
<1>1. r \in Seq(T)
  BY Removed
<1>2. \A j, k \in DOMAIN r :
        \E u, v \in DOMAIN q \ {i} : r[j] = q[u] /\ r[k] = q[v] /\ (j # k => u # v)
  BY RemovedFrom
<1>3. \A m : In(m, r) => In(m, q)
  BY <1>2 DEF In
<1>4. \A m : Once(m, q) => Once(m, r)
  BY <1>2 DEF Once
<1>5. Once(q[i], q) => ~In(q[i], r)
  BY <1>2 DEF Once, In
<1>6. QED
  BY <1>1, <1>3, <1>4, <1>5

LEMMA AppendedMessages ==
  ASSUME NEW T, NEW q \in Seq(T), NEW x \in T
  PROVE  /\ Append(q, x) \in Seq(T)
         /\ \A m : In(m, Append(q, x)) <=> In(m, q) \/ m = x
         /\ \A m : Once(m, q) /\ (m = x => ~In(m, q)) => Once(m, Append(q, x))
<1> DEFINE r == Append(q, x)
<1>1. /\ r \in Seq(T) /\ Len(q) \in Nat /\ DOMAIN q = 1 .. Len(q)
      /\ DOMAIN r = 1 .. Len(q) + 1
      /\ \A k \in 1 .. Len(q) : r[k] = q[k]
      /\ r[Len(q) + 1] = x
  BY AppendProperties, LenProperties
<1> HIDE DEF r
<1>2. \A k \in DOMAIN r : k \in DOMAIN q \/ k = Len(q) + 1
  BY <1>1
<1>3. Len(q) + 1 \in DOMAIN r /\ \A k \in DOMAIN q : k \in DOMAIN r
  BY <1>1
<1>4. \A m : In(m, r) <=> In(m, q) \/ m = x
  BY <1>1, <1>2, <1>3 DEF In
<1>5. \A m : Once(m, q) /\ (m = x => ~In(m, q)) => Once(m, r)
  BY <1>1, <1>2, <1>3 DEF In, Once
<1>6. QED
  BY <1>1, <1>4, <1>5 DEF r

\* No message was sent, or one.
LEMMA ExtendedQueue ==
  ASSUME NEW T, NEW q \in Seq(T)
  PROVE  /\ Extended(q, {}) = {q}
         /\ \A m \in T : Extended(q, {m}) = {Append(q, m)}
<1>1. SetToSeqs({}) = {<<>>}
  <2>1. Cardinality({}) = 0 /\ 1 .. 0 = {}
    BY FS_EmptySet
  <2>2. <<>> \in [1 .. 0 -> {}]
    BY <2>1
  <2>3. ASSUME NEW f \in [1 .. 0 -> {}] PROVE f = <<>>
    <3>1. f \in Seq({})
      BY SeqDef, 0 \in Nat
    <3>2. Len(f) = 0
      BY <3>1, LenProperties
    <3>3. QED
      BY <3>1, <3>2, EmptySeq
  <2>4. SetToSeqs({}) = {f \in [1 .. 0 -> {}] : \A i, j \in 1 .. 0 : i # j => f[i] # f[j]}
    BY <2>1 DEF SetToSeqs
  <2>5. \A f \in [1 .. 0 -> {}] : \A i, j \in 1 .. 0 : i # j => f[i] # f[j]
    BY <2>1
  <2>6. QED
    BY <2>2, <2>3, <2>4, <2>5
<1>2. ASSUME NEW m \in T PROVE SetToSeqs({m}) = {<<m>>}
  <2>1. Cardinality({m}) = 1
    BY FS_Singleton
  <2>2. 1 .. 1 = {1}
    OBVIOUS
  <2>3. \A f : f \in [1 .. 1 -> {m}] <=> f = <<m>>
    BY <2>2
  <2>4. \A f : \A i, j \in 1 .. 1 : i # j => f[i] # f[j]
    BY <2>2
  <2>5. SetToSeqs({m}) = {f \in [1 .. 1 -> {m}] : \A i, j \in 1 .. 1 : i # j => f[i] # f[j]}
    BY <2>1 DEF SetToSeqs
  <2>6. QED
    BY <2>3, <2>4, <2>5
<1>3. Extended(q, {}) = {q}
  BY <1>1, ConcatEmptySeq DEF Extended
<1>4. ASSUME NEW m \in T PROVE Extended(q, {m}) = {Append(q, m)}
  <2>1. Extended(q, {m}) = {q \o <<m>>}
    BY <1>2 DEF Extended
  <2>2. q \o <<m>> = Append(q, m)
    BY AppendIsConcat
  <2>3. QED
    BY <2>1, <2>2
<1>5. QED
  BY <1>3, <1>4

-----------------------------------------------------------------------------
(* What a step of the server is to the client *)

\* Nothing.
KeepsMe ==
    /\ MeIn' <=> MeIn
    /\ MeIn => Obj(0)' = Obj(0)
    /\ toClient' = toClient

LetsMeIn ==
    /\ Running /\ MeIn' /\ Obj(0)'.phase = "HELLO" /\ Obj(0)'.progress = 0
    /\ toClient' = Append(toClient, HelloOk(Me))

StartsMe ==
    /\ MeIn /\ MeIn'
    /\ Obj(0)'.phase = "DOWNLOADING" /\ Obj(0)'.progress = Obj(0).progress
    /\ toClient' = Append(toClient, MapHeader(Me))

RemovesMe == MeIn /\ ~MeIn' /\ toClient' = toClient

SendsChunk ==
    LET done == Obj(0).progress + ChunkSize(Obj(0))
    IN  /\ MeIn /\ MeIn' /\ Obj(0).phase = "DOWNLOADING"
        /\ toClient' = Append(toClient, Chunk(Me, Obj(0).progress, ChunkSize(Obj(0))))
        /\ Obj(0)'.progress = done
        /\ Obj(0)'.phase = IF done >= WorldBytes THEN "LETS_GO" ELSE "DOWNLOADING"

TellsMe ==
    /\ MeIn /\ ~MeIn' /\ ~Running
    /\ toClient' = Append(toClient, Bye(Me))

\* What handling the message m is to the client.
Handled(m) ==
    /\ Running' => Running
    /\ \/ KeepsMe /\ (Me \in admitted' <=> Me \in admitted)
       \/ m = HelloOf(Me) /\ LetsMeIn /\ Me \in admitted'
       \/ m = StartMsg /\ StartsMe /\ (Me \in admitted' <=> Me \in admitted)
       \/ m = Goodbye(Me) /\ RemovesMe /\ (Me \in admitted' <=> Me \in admitted)

\* And what a step without a message is.
Turned ==
    /\ Running' => Running
    /\ KeepsMe \/ SendsChunk \/ TellsMe
    /\ admitted' = admitted

\* Only Goodbye empties a slot while the server runs, and only Hello fills it.
HoldsAfter(m) ==
    \A p : Holds(p)' => m = HelloOf(p) \/ (Holds(p) /\ m # Goodbye(p))

\* Messages are different.
LEMMA MessagesDiffer ==
  /\ \A p, q : HelloOf(p) # Goodbye(q) /\ HelloOf(p) # StartMsg /\ Goodbye(p) # StartMsg
  /\ \A p, q : (HelloOf(p) = HelloOf(q) => p = q) /\ (Goodbye(p) = Goodbye(q) => p = q)
  /\ HelloMsg(PlayerName) = HelloOf(Me) /\ DisconnectMsg = Goodbye(Me)
<1>1. \A p : HelloOf(p).type = "HELLO" /\ HelloOf(p).from = p
  BY DEF HelloOf
<1>2. \A p : Goodbye(p).type = "DISCONNECT" /\ Goodbye(p).from = p
  BY DEF Goodbye
<1>3. StartMsg.type = "WORLD_DOWNLOAD_START"
  BY DEF StartMsg
<1>4. HelloMsg(PlayerName) = HelloOf(Me) /\ DisconnectMsg = Goodbye(Me)
  BY DEF HelloMsg, HelloOf, DisconnectMsg, Goodbye
<1>5. QED
  BY <1>1, <1>2, <1>3, <1>4

\* What the queue to the client becomes if one message is sent, or none.
LEMMA ServerSent ==
  ASSUME NEW T, toClient \in Seq(T), ServerSends, NEW m \in T
  PROVE  /\ (\A x \in sent' : x.to # Me) => toClient' = toClient
         /\ sent' = {m} /\ m.to = Me => toClient' = Append(toClient, m)
<1>1. toClient' \in Extended(toClient, {x \in sent' : x.to = Me})
  BY DEF ServerSends
<1>2. ASSUME \A x \in sent' : x.to # Me PROVE toClient' = toClient
  <2>1. {x \in sent' : x.to = Me} = {}
    BY <1>2
  <2>2. Extended(toClient, {}) = {toClient}
    BY ExtendedQueue
  <2>3. QED
    BY <1>1, <2>1, <2>2
<1>3. ASSUME sent' = {m}, m.to = Me PROVE toClient' = Append(toClient, m)
  <2>1. {x \in sent' : x.to = Me} = {m}
    BY <1>3
  <2>2. Extended(toClient, {m}) = {Append(toClient, m)}
    BY ExtendedQueue
  <2>3. QED
    BY <1>1, <2>1, <2>2
<1>4. QED
  BY <1>2, <1>3

\* The slot and its object are the same: so is who holds it.
LEMMA SameSlot ==
  ASSUME UNCHANGED <<clients, numClients, heap>>
  PROVE  Obj(0)' = Obj(0) /\ \A p : Holds(p)' <=> Holds(p)
BY DEF Obj, Holds

\* The server handles a hello.
LEMMA HelloHandled ==
  ASSUME OneInv, netMaxPlayers <= 1, toClient \in Seq(ToMe), ServerSends,
         NEW p \in Peers, ClientNew(HelloOf(p))
  PROVE  Handled(HelloOf(p)) /\ HoldsAfter(HelloOf(p))
<1> DEFINE m == HelloOf(p)
<1>1. m.from = p
  BY DEF HelloOf
<1>2. \A q : m # Goodbye(q)
  BY MessagesDiffer
<1>3. CASE RejectHello(m) \/ OverrunSlots(m)
  <2>1. /\ UNCHANGED <<clients, numClients, heap, admitted>> /\ Running /\ sent' = {}
    BY <1>3 DEF RejectHello, OverrunSlots, MessageTurn
  <2>2. toClient' = toClient
    BY <2>1, ServerSent DEF ToMe
  <2>3. QED
    BY <1>2, <2>1, <2>2, SameSlot DEF Handled, KeepsMe, MeIn, HoldsAfter
<1>4. CASE AcceptHello(m)
  <2>1. PICK c \in Ptrs, garbled \in BOOLEAN :
          /\ clients' = [clients EXCEPT ![numClients] = c]
          /\ heap' = [heap EXCEPT ![c] = NewObject(p)]
          /\ sent' = {HelloOk(p)} \cup ToAll("CLIENT_CREATE", AddrOf[p], c, garbled)
    BY <1>1, <1>4 DEF AcceptHello
  <2>2. /\ numClients' = numClients + 1 /\ admitted' = admitted \cup {p}
        /\ HelloStatus(m) = "OK" /\ Running
    BY <1>1, <1>4 DEF AcceptHello, MessageTurn
  <2>3. numClients = 0
    <3>1. ~(numClients >= netMaxPlayers)
      BY <2>2 DEF HelloStatus
    <3>2. netMaxPlayers \in Int
      <4>1. InitialLimit \in Int
        BY ServerAssumption DEF InitialLimit
      <4>2. QED
        BY <4>1, ServerAssumption DEF OneInv, ServerTypeOK
    <3>3. QED
      BY <3>1, <3>2, OneUsed
  <2>4. sent' = {HelloOk(p)}
    BY <2>1, <2>3, OneUsed DEF ToAll, Recipients
  <2>5. 0 \in Slots
    BY ServerAssumption DEF Slots
  <2>6. Obj(0)' = NewObject(p) /\ numClients' = 1
    BY <2>1, <2>2, <2>3, <2>5 DEF OneInv, ServerTypeOK, Obj
  <2>7. \A q : Holds(q)' <=> q = p
    BY <2>6 DEF Holds, NewObject
  <2>8. ~MeIn
    BY <2>3 DEF MeIn, Holds
  <2>9. HelloOk(p).to = p
    BY DEF HelloOk
  <2>10. CASE p = Me
    <3>1. toClient' = Append(toClient, HelloOk(Me))
      BY <2>4, <2>9, <2>10, ServerSent DEF ToMe
    <3>2. QED
      BY <2>2, <2>6, <2>7, <2>10, <3>1 DEF Handled, LetsMeIn, MeIn, HoldsAfter, NewObject
  <2>11. CASE p # Me
    <3>1. toClient' = toClient
      BY <2>4, <2>9, <2>11, ServerSent DEF ToMe
    <3>2. QED
      BY <2>2, <2>7, <2>8, <2>11, <3>1 DEF Handled, KeepsMe, MeIn, HoldsAfter
  <2>12. QED
    BY <2>10, <2>11
<1>5. QED
  BY <1>3, <1>4 DEF ClientNew

\* The server handles a request: for a client, it is that of the sender.
LEMMA RequestHandled ==
  ASSUME OneInv, OneInv', OwnAddresses, toClient \in Seq(ToMe), ServerSends,
         NEW p \in Peers, NEW m \in {Goodbye(p), StartMsg}, m.from = p,
         IgnoreRequest(m) \/ ClientMessage(m)
  PROVE  Handled(m) /\ HoldsAfter(m)
<1>1. CASE IgnoreRequest(m)
  <2>1. /\ UNCHANGED <<clients, numClients, heap, admitted>> /\ Running /\ sent' = {}
        /\ SlotsOf(AddrOf[p]) = {}
    BY <1>1 DEF IgnoreRequest, MessageTurn
  <2>2. toClient' = toClient
    BY <2>1, ServerSent DEF ToMe
  <2>3. ~Holds(p)
    BY <2>1, OneUsed DEF SlotsOf, SlotAddr, Holds
  <2>4. \A q : m = Goodbye(q) => q = p
    BY MessagesDiffer
  <2>5. QED
    BY <2>1, <2>2, <2>3, <2>4, SameSlot DEF Handled, KeepsMe, MeIn, HoldsAfter
<1>2. CASE ClientMessage(m)
  <2>1. PICK i \in Slots :
          /\ IsFirst(i, SlotsOf(AddrOf[p]))
          /\ IF m.type = "WORLD_DOWNLOAD_START"
             THEN ClientStartWorldDownload(clients[i])
             ELSE ClientRemove(clients[i], {})
    BY <1>2 DEF ClientMessage
  <2>2. i \in Used /\ SlotAddr(i) = AddrOf[p]
    BY <2>1 DEF IsFirst, SlotsOf
  <2>3. i = 0 /\ numClients = 1 /\ Used = {0} /\ clients[0] \in Ptrs
    BY <2>2, OneUsed
  <2>4. Holds(p)
    <3>1. Obj(0).peer \in Peers
      BY <2>3 DEF OneInv
    <3>2. QED
      BY <2>2, <2>3, <3>1 DEF OwnAddresses, SlotAddr, Holds
  <2>5. Running /\ admitted' = admitted
    BY <1>2 DEF ClientMessage, MessageTurn
  <2>6. \A q : Holds(q) <=> q = p
    BY <2>4 DEF Holds
  <2>7. CASE m = StartMsg
    <3>1. ClientStartWorldDownload(clients[0]) /\ p = Me
      BY <2>1, <2>3, <2>7 DEF StartMsg
    <3>2. /\ sent' = {MapHeader(Me)} /\ heap' = [heap EXCEPT ![clients[0]].phase = "DOWNLOADING"]
          /\ UNCHANGED <<clients, numClients>>
      BY <2>4, <3>1 DEF ClientStartWorldDownload, Holds, Obj
    <3>3. Obj(0)' = [Obj(0) EXCEPT !.phase = "DOWNLOADING"] /\ Obj(0) \in Object
      BY <2>3, <3>2, UsedObject DEF Obj, OneInv, ServerTypeOK
    <3>4. /\ Obj(0)'.phase = "DOWNLOADING" /\ Obj(0)'.progress = Obj(0).progress
          /\ Obj(0)'.peer = Obj(0).peer
      BY <3>3 DEF Object
    <3>5. toClient' = Append(toClient, MapHeader(Me))
      BY <3>2, ServerSent DEF ToMe, MapHeader
    <3>6. \A q : Holds(q)' <=> Holds(q)
      BY <3>2, <3>4 DEF Holds
    <3>7. \A q : m # Goodbye(q)
      BY <2>7, MessagesDiffer
    <3>8. QED
      BY <2>4, <2>5, <2>7, <3>1, <3>4, <3>5, <3>6, <3>7 DEF Handled, StartsMe, MeIn, HoldsAfter
  <2>8. CASE m = Goodbye(p)
    <3>1. ClientRemove(clients[0], {})
      BY <2>1, <2>3, <2>8 DEF Goodbye
    <3>2. numClients' = 0
      BY <2>2, <2>3, <3>1, RemoveOne DEF OneInv
    <3>3. \A x \in sent' : FALSE
      BY <2>3, <3>1, OneUsed DEF ClientRemove, ToAll, Recipients
    <3>4. toClient' = toClient
      BY <3>3, ServerSent DEF ToMe
    <3>5. \A q : ~Holds(q)'
      BY <3>2 DEF Holds
    <3>6. QED
      BY <2>5, <2>6, <2>8, <3>4, <3>5 DEF Handled, KeepsMe, RemovesMe, MeIn, HoldsAfter
  <2>9. QED
    BY <2>7, <2>8
<1>3. QED
  BY <1>1, <1>2

LEMMA MessageHandled ==
  ASSUME OneInv, OneInv', netMaxPlayers <= 1, OwnAddresses, toClient \in Seq(ToMe),
         ServerSends, NEW m \in ToServer, Receive(m)
  PROVE  Handled(m) /\ HoldsAfter(m)
<1>1. CASE \E p \in Peers : m = HelloOf(p)
  <2>1. PICK p \in Peers : m = HelloOf(p)
    BY <1>1
  <2>2. m \notin Request
    BY <2>1 DEF HelloOf, Request
  <2>3. QED
    BY <2>1, <2>2, HelloHandled DEF Receive
<1>2. CASE (\E p \in Peers : m = Goodbye(p)) \/ m = StartMsg
  <2>1. PICK p \in Peers : m \in {Goodbye(p), StartMsg} /\ m.from = p
    BY <1>2, SessionAssumption DEF Goodbye, StartMsg
  <2>2. m \notin Hello
    BY <2>1 DEF Goodbye, StartMsg, Hello
  <2>3. QED
    BY <2>1, <2>2, RequestHandled DEF Receive
<1>3. QED
  BY <1>1, <1>2 DEF ToServer

\* A chunk is not empty and ends within the world.
LEMMA ChunkFits ==
  ASSUME OneInv, MeIn, Obj(0).progress < WorldBytes
  PROVE  /\ Obj(0).progress \in 0 .. WorldBytes - 1
         /\ ChunkSize(Obj(0)) \in 1 .. MAX_PACKET_SIZE
         /\ Obj(0).progress + ChunkSize(Obj(0)) <= WorldBytes
<1>1. Obj(0) \in Object
  BY OneUsed, UsedObject DEF MeIn, Holds, OneInv
<1>2. Obj(0).progress \in 0 .. WorldBytes - 1
  BY <1>1, ServerAssumption DEF Object
<1>3. QED
  BY <1>1, <1>2, ServerAssumption DEF ChunkSize

\* The server ticks or shuts down.
LEMMA ServerTurned ==
  ASSUME OneInv, OneInv', toClient \in Seq(ToMe), StageInv, DownloadConsistent,
         ServerDownloads \/ ServerIdles \/ ServerShutsDown
  PROVE  Turned /\ \A p : Holds(p)' => Holds(p)
<1>1. CASE ServerIdles
  BY <1>1, SameSlot DEF ServerIdles, NoMessage, MessageTurn, Turned, KeepsMe, MeIn
<1>2. CASE ServerDownloads
  <2>1. TickDownloads /\ ServerSends /\ Running /\ admitted' = admitted
        /\ UNCHANGED <<clients, numClients>>
    BY <1>2 DEF ServerDownloads, TickDownloads
  <2>2. CASE slot \in Used /\ Obj(slot).phase = "DOWNLOADING"
    <3>1. slot = 0 /\ numClients = 1 /\ Used = {0} /\ Obj(0) \in Object /\ clients[0] \in Ptrs
      BY <2>2, OneUsed, UsedObject DEF OneInv
    <3>2. ClientSendWorldChunk(0)
      BY <2>1, <2>2, <3>1 DEF TickDownloads
    <3> DEFINE o == Obj(0)
               done == o.progress + ChunkSize(o)
               o2 == [o EXCEPT !.progress = done,
                               !.phase = IF done >= WorldBytes THEN "LETS_GO" ELSE @]
               sends == Chunk(o.peer, o.progress, ChunkSize(o))
    <3>3. heap' = [heap EXCEPT ![clients[0]] = o2] /\ sent' = {sends}
      BY <3>2 DEF ClientSendWorldChunk
    <3>4. /\ o2.peer = o.peer /\ o2.progress = done
          /\ o2.phase = IF done >= WorldBytes THEN "LETS_GO" ELSE "DOWNLOADING"
      BY <2>2, <3>1 DEF Object
    <3> HIDE DEF o2
    <3>5. Obj(0)' = o2
      BY <2>1, <3>1, <3>3 DEF Obj, OneInv, ServerTypeOK
    <3>6. \A p : Holds(p)' <=> Holds(p)
      BY <2>1, <3>4, <3>5 DEF Holds
    <3>7. sends.to = o.peer
      BY DEF Chunk
    <3>8. CASE MeIn
      <4>1. o.progress < WorldBytes /\ o.peer = Me
        BY <2>2, <3>1, <3>8 DEF StageInv, MeIn, Holds
      <4>2. o.progress \in 0 .. WorldBytes /\ ChunkSize(o) \in 1 .. MAX_PACKET_SIZE
        <5>1. Obj(0).progress < WorldBytes
          BY <4>1
        <5>2. /\ Obj(0).progress \in 0 .. WorldBytes - 1
              /\ ChunkSize(Obj(0)) \in 1 .. MAX_PACKET_SIZE
          BY <3>8, <5>1, ChunkFits
        <5>3. QED
          BY <5>2, ServerAssumption
      <4>3. sends \in ToMe
        BY <4>1, <4>2 DEF ToMe, Chunks
      <4>4. toClient' = Append(toClient, sends)
        BY <2>1, <3>3, <3>7, <4>1, <4>3, ServerSent
      <4>5. SendsChunk
        BY <2>2, <3>1, <3>4, <3>5, <3>6, <3>8, <4>1, <4>4 DEF SendsChunk, MeIn
      <4>6. QED
        BY <2>1, <3>6, <4>5 DEF Turned
    <3>9. CASE ~MeIn
      <4>1. o.peer # Me
        BY <3>1, <3>9 DEF MeIn, Holds
      <4>2. toClient' = toClient
        BY <2>1, <3>3, <3>7, <4>1, ServerSent DEF ToMe
      <4>3. QED
        BY <2>1, <3>6, <3>9, <4>2 DEF Turned, KeepsMe, MeIn
    <3>10. QED
      BY <3>8, <3>9
  <2>3. CASE ~(slot \in Used /\ Obj(slot).phase = "DOWNLOADING")
    <3>1. sent' = {} /\ heap' = heap
      BY <2>1, <2>3 DEF TickDownloads
    <3>2. toClient' = toClient
      BY <2>1, <3>1, ServerSent DEF ToMe
    <3>3. QED
      BY <2>1, <3>1, <3>2, SameSlot DEF Turned, KeepsMe, MeIn
  <2>4. QED
    BY <2>2, <2>3
<1>3. CASE ServerShutsDown
  <2>1. ServerSends
    BY <1>3 DEF ServerShutsDown
  <2>2. CASE BeginShutdown \/ FinishShutdown \/ (ShutdownSlot /\ slot \notin Used)
    <3>1. /\ UNCHANGED <<clients, numClients, heap, admitted>> /\ ~Running' /\ sent' = {}
      BY <2>2 DEF BeginShutdown, FinishShutdown, ShutdownSlot, Running
    <3>2. toClient' = toClient
      BY <2>1, <3>1, ServerSent DEF ToMe
    <3>3. QED
      BY <3>1, <3>2, SameSlot DEF Turned, KeepsMe, MeIn
  <2>3. CASE ShutdownSlot /\ slot \in Used
    <3>1. slot = 0 /\ numClients = 1 /\ Used = {0} /\ clients[0] \in Ptrs
      BY <2>3, OneUsed
    <3>2. /\ ClientRemove(clients[0], {Bye(Obj(0).peer)}) /\ admitted' = admitted
          /\ ~Running /\ ~Running'
      BY <2>3, <3>1 DEF ShutdownSlot, Running
    <3>3. numClients' = 0
      BY <3>1, <3>2, RemoveOne DEF OneInv
    <3>4. sent' = {Bye(Obj(0).peer)}
      BY <3>1, <3>2, OneUsed DEF ClientRemove, ToAll, Recipients
    <3>5. \A q : ~Holds(q)'
      BY <3>3 DEF Holds
    <3>6. CASE MeIn
      <4>1. toClient' = Append(toClient, Bye(Me))
        BY <2>1, <3>4, <3>6, ServerSent DEF ToMe, MeIn, Holds, Bye
      <4>2. QED
        BY <3>2, <3>5, <3>6, <4>1 DEF Turned, TellsMe, MeIn
    <3>7. CASE ~MeIn
      <4>1. Obj(0).peer # Me /\ Bye(Obj(0).peer).to = Obj(0).peer
        BY <3>1, <3>7 DEF MeIn, Holds, Bye
      <4>2. toClient' = toClient
        BY <2>1, <3>4, <4>1, ServerSent DEF ToMe
      <4>3. QED
        BY <3>2, <3>5, <3>7, <4>2 DEF Turned, KeepsMe, MeIn
    <3>8. QED
      BY <3>6, <3>7
  <2>4. QED
    BY <1>3, <2>2, <2>3 DEF ServerShutsDown
<1>4. QED
  BY <1>1, <1>2, <1>3

-----------------------------------------------------------------------------
(* What a step of the client is to the two of them *)

\* The client takes a message from its queue, or none is there.
Takes(m) ==
    \/ m = NoMsg /\ toClient' = toClient
    \/ \E i \in Deliverable(toClient) : m = toClient[i] /\ toClient' = RemoveAt(toClient, i)

Says(m) == toServer' = Append(toServer, m)

\* How a step changes the stage of the log in and what it sends.
StageMoves(m) ==
    \/ /\ UNCHANGED <<phase, toServer>>
       /\ \/ cState' = cState
          \/ cState' = "DEAD" /\ cState \notin {"CONNECTING", "CONNECTED"}
          \/ cState = "RESOLVING_ADDRESS" /\ cState' \in {"CONNECTING", "FATAL"}
          \/ cState = "CONNECTING" /\ cState' = "CONNECTED"
    \/ /\ phase = "HELLO" /\ phase' = "HELLO_SENT" /\ Says(HelloOf(Me))
       /\ cState = "CONNECTING" /\ UNCHANGED cState
    \/ /\ phase = "HELLO_SENT" /\ phase' = "DOWNLOAD_WORLD" /\ m = HelloOk(Me)
       /\ UNCHANGED <<cState, toServer>>
    \/ /\ phase = "DOWNLOAD_WORLD" /\ phase' = "DOWNLOAD_WORLD_SENT" /\ Says(StartMsg)
       /\ UNCHANGED cState
    \/ /\ phase = "DOWNLOAD_WORLD_SENT" /\ phase' = "DOWNLOADING_WORLD"
       /\ UNCHANGED <<cState, toServer>>
    \/ /\ phase = "DOWNLOADING_WORLD" /\ phase' = "LETS_GO"
       /\ UNCHANGED <<cState, toServer>>
    \/ /\ cState \in {"CONNECTING", "CONNECTED"} /\ cState' \in {"DISCONNECTED", "DEAD"}
       /\ Says(Goodbye(Me)) /\ UNCHANGED phase

\* The client's messages are of the kinds that are on the way.
LEMMA MessageKinds ==
  /\ HelloOf(Me) \in ToServer /\ StartMsg \in ToServer /\ Goodbye(Me) \in ToServer
  /\ ToMe \subseteq ServerMsgs /\ NoMsg \notin ToMe
  /\ \A m \in ToMe :
        /\ m.type = "SERVER_HELLO" <=> m = HelloOk(Me)
        /\ m.type = "WORLD_DOWNLOAD_START" <=> m = MapHeader(Me)
        /\ m.type = "SERVER_SHUTDOWN" <=> m = Bye(Me)
        /\ m.type = "WORLD_DOWNLOAD_PACKET" <=> m \in Chunks
  /\ \A m \in ToMe : m \in {HelloOk(Me), MapHeader(Me), Bye(Me)} \/ m \in Chunks
<1>1. HelloOf(Me) \in ToServer /\ StartMsg \in ToServer /\ Goodbye(Me) \in ToServer
  BY SessionAssumption DEF ToServer
<1>2. ToMe \subseteq ServerMsgs
  BY SessionAssumption DEF ToMe, Chunks, MsgsOfServer
<1>3. NoMsg \notin ToMe
  BY <1>2, ClientAssumption
<1>4. /\ HelloOk(Me).type = "SERVER_HELLO" /\ MapHeader(Me).type = "WORLD_DOWNLOAD_START"
      /\ Bye(Me).type = "SERVER_SHUTDOWN"
  BY DEF HelloOk, MapHeader, Bye
<1>5. \A m \in Chunks : m.type = "WORLD_DOWNLOAD_PACKET"
  BY DEF Chunks, Chunk
<1>6. \A m \in ToMe : m \in {HelloOk(Me), MapHeader(Me), Bye(Me)} \/ m \in Chunks
  BY DEF ToMe
<1>7. QED
  BY <1>1, <1>2, <1>3, <1>4, <1>5, <1>6

LEMMA ClientSaid ==
  ASSUME toServer \in Seq(ToServer), ClientSends
  PROVE  /\ out' = {} => toServer' = toServer
         /\ \A m \in ToServer : out' = {m} => Says(m)
<1>1. toServer' \in Extended(toServer, out')
  BY DEF ClientSends
<1>2. Extended(toServer, {}) = {toServer}
  BY ExtendedQueue
<1>3. \A m \in ToServer : Extended(toServer, {m}) = {Append(toServer, m)}
  BY ExtendedQueue
<1>4. QED
  BY <1>1, <1>2, <1>3 DEF Says

\* A step with a message, or without one.
LEMMA TickMoves ==
  ASSUME toServer \in Seq(ToServer), NEW m \in ToMe \cup {NoMsg}, TickNetwork(m), ClientSends
  PROVE  StageMoves(m)
<1>1. /\ out' = {} => toServer' = toServer
      /\ out' = {HelloOf(Me)} => Says(HelloOf(Me))
      /\ out' = {StartMsg} => Says(StartMsg)
      /\ out' = {Goodbye(Me)} => Says(Goodbye(Me))
  BY ClientSaid, MessageKinds
<1>2. CASE SendHello(m)
  BY <1>1, <1>2, MessagesDiffer DEF SendHello, Connecting, StageMoves
<1>3. CASE AwaitHello(m)
  <2>1. OfType(m, "SERVER_HELLO") => m = HelloOk(Me) /\ m.status = "OK"
    BY MessageKinds DEF OfType, HelloOk
  <2>2. QED
    BY <1>1, <1>3, <2>1 DEF AwaitHello, Connecting, StageMoves
<1>4. CASE RequestWorld(m)
  BY <1>1, <1>4 DEF RequestWorld, Connecting, StageMoves
<1>5. CASE AwaitHeader(m)
  BY <1>1, <1>5 DEF AwaitHeader, Connecting, StageMoves
<1>6. CASE DownloadChunk(m)
  BY <1>1, <1>6 DEF DownloadChunk, Connecting, StageMoves
<1>7. CASE EnterGame(m) \/ Play(m)
  BY <1>1, <1>7 DEF EnterGame, Play, Connecting, StageMoves
<1>8. CASE ServerGone(m)
  BY <1>1, <1>8, MessagesDiffer DEF ServerGone, StageMoves
<1>9. QED
  BY <1>2, <1>3, <1>4, <1>5, <1>6, <1>7, <1>8 DEF TickNetwork

\* The other steps of the client.
LEMMA StopMoves ==
  ASSUME toServer \in Seq(ToServer), ClientSends,
         ResolveAddress \/ Quit \/ TickFatal \/ PollDestroyedSocket
  PROVE  StageMoves(NoMsg)
<1>1. /\ out' = {} => toServer' = toServer
      /\ out' = {Goodbye(Me)} => Says(Goodbye(Me))
  BY ClientSaid, MessageKinds
<1>2. CASE ResolveAddress \/ PollDestroyedSocket
  BY <1>1, <1>2 DEF ResolveAddress, PollDestroyedSocket, StageMoves
<1>3. CASE Quit \/ TickFatal
  BY <1>1, <1>3, MessagesDiffer DEF Quit, TickFatal, Shutdown, StageMoves
<1>4. QED
  BY <1>2, <1>3

-----------------------------------------------------------------------------
(* The log in *)

LinkInv == UpInv /\ StageInv /\ DownInv

\* Nothing but the client changes, and a message may be taken out.
LEMMA SameServer ==
  ASSUME UNCHANGED serverVars
  PROVE  /\ MeIn' <=> MeIn
         /\ Obj(0)' = Obj(0) /\ (Running' <=> Running) /\ admitted' = admitted
         /\ \A p : Holds(p)' <=> Holds(p)
BY DEF serverVars, MeIn, Holds, Obj, Running

\* What is left of the messages to the client when some are gone.
LEMMA DownTaken ==
  ASSUME toClient \in Seq(ToMe), NEW i \in DOMAIN toClient, toClient' = RemoveAt(toClient, i)
  PROVE  /\ toClient' \in Seq(ToMe)
         /\ toClient # <<>>
         /\ toClient[i] \in ToMe /\ In(toClient[i], toClient)
         /\ \A m : In(m, toClient') => In(m, toClient)
         /\ \A m : Once(m, toClient) => Once(m, toClient')
         /\ Once(toClient[i], toClient) => ~In(toClient[i], toClient')
         /\ \A k \in DOMAIN toClient' : \E j \in DOMAIN toClient : toClient'[k] = toClient[j]
<1>1. /\ toClient' \in Seq(ToMe)
      /\ \A m : In(m, toClient') => In(m, toClient)
      /\ \A m : Once(m, toClient) => Once(m, toClient')
      /\ Once(toClient[i], toClient) => ~In(toClient[i], toClient')
  BY RemovedMessages
<1>2. toClient # <<>> /\ toClient[i] \in ToMe
  BY ElementOfSeq, LenProperties, EmptySeq
<1>3. In(toClient[i], toClient)
  BY DEF In
<1>4. \A k \in DOMAIN toClient' : \E j \in DOMAIN toClient : toClient'[k] = toClient[j]
  BY <1>1 DEF In
<1>5. QED
  BY <1>1, <1>2, <1>3, <1>4

\* What the messages to the client are when one is sent.
LEMMA DownAppended ==
  ASSUME toClient \in Seq(ToMe), NEW x \in ToMe, toClient' = Append(toClient, x)
  PROVE  /\ toClient' \in Seq(ToMe)
         /\ \A y : In(y, toClient') <=> In(y, toClient) \/ y = x
         /\ \A y : Once(y, toClient) /\ (y = x => ~In(y, toClient)) => Once(y, toClient')
BY AppendedMessages

\* The client takes a message or sends one.
LEMMA ClientKeepsLink ==
  ASSUME LinkInv, ClientTypeOK, NEW m, Takes(m), StageMoves(m), UNCHANGED serverVars
  PROVE  LinkInv'
<1>1. /\ MeIn' <=> MeIn
      /\ Obj(0)' = Obj(0) /\ (Running' <=> Running) /\ admitted' = admitted
  BY SameServer
<1>2. toServer \in Seq(ToServer) /\ toClient \in Seq(ToMe)
  BY DEF LinkInv, UpInv, DownInv
<1>3. \A x \in ToServer : Says(x) =>
        /\ toServer' \in Seq(ToServer)
        /\ \A y : In(y, toServer') <=> In(y, toServer) \/ y = x
        /\ \A y : Once(y, toServer) /\ (y = x => ~In(y, toServer)) => Once(y, toServer')
  BY <1>2, AppendedMessages DEF Says
<1>4. /\ toClient' \in Seq(ToMe)
      /\ toClient = <<>> => toClient' = <<>>
      /\ \A y : In(y, toClient') => In(y, toClient)
      /\ Once(HelloOk(Me), toClient')
      /\ m = HelloOk(Me) => In(m, toClient) /\ ~In(m, toClient')
      /\ \A k \in DOMAIN toClient' : \E j \in DOMAIN toClient : toClient'[k] = toClient[j]
  <2>1. CASE m = NoMsg /\ toClient' = toClient
    <3>1. m # HelloOk(Me)
      BY <2>1, MessageKinds DEF ToMe
    <3>2. QED
      BY <1>2, <2>1, <3>1 DEF LinkInv, DownInv
  <2>2. CASE \E i \in DOMAIN toClient : m = toClient[i] /\ toClient' = RemoveAt(toClient, i)
    BY <1>2, <2>2, DownTaken DEF LinkInv, DownInv
  <2>3. QED
    BY <2>1, <2>2 DEF Takes, Deliverable
<1>5. In(HelloOk(Me), toClient) => Me \in admitted
  BY EmptySeq DEF In, LinkInv, DownInv
<1>6. UpInv'
  <2>1. CASE UNCHANGED toServer
    <3>1. \A y : (In(y, toServer') <=> In(y, toServer)) /\ (Once(y, toServer) => Once(y, toServer'))
      BY <2>1
    <3>2. CASE UNCHANGED phase
      BY <1>1, <1>2, <2>1, <3>1, <3>2 DEF StageMoves, LinkInv, UpInv
    <3>3. CASE ~UNCHANGED phase
      <4>1. In(StartMsg, toServer) => phase' \notin {"HELLO", "HELLO_SENT", "DOWNLOAD_WORLD"}
        BY <2>1, <3>3, MessageKinds DEF StageMoves, Says, LinkInv, UpInv
      <4>2. QED
        BY <1>1, <1>2, <1>4, <1>5, <2>1, <3>1, <3>3, <4>1 DEF StageMoves, LinkInv, UpInv
    <3>4. QED
      BY <3>2, <3>3
  <2>2. CASE /\ phase = "HELLO" /\ phase' = "HELLO_SENT" /\ Says(HelloOf(Me))
             /\ cState = "CONNECTING" /\ UNCHANGED cState
    BY <1>1, <1>3, <2>2, MessageKinds, MessagesDiffer DEF LinkInv, UpInv, StageInv
  <2>3. CASE /\ phase = "DOWNLOAD_WORLD" /\ phase' = "DOWNLOAD_WORLD_SENT" /\ Says(StartMsg)
             /\ UNCHANGED cState
    BY <1>1, <1>3, <2>3, MessageKinds, MessagesDiffer DEF LinkInv, UpInv, StageInv
  <2>4. CASE /\ cState \in {"CONNECTING", "CONNECTED"} /\ cState' \in {"DISCONNECTED", "DEAD"}
             /\ Says(Goodbye(Me)) /\ UNCHANGED phase
    BY <1>1, <1>3, <2>4, MessageKinds, MessagesDiffer DEF LinkInv, UpInv, StageInv
  <2>5. QED
    BY <2>1, <2>2, <2>3, <2>4 DEF StageMoves
<1>7. Early' => Early
  BY <1>3, MessageKinds, MessagesDiffer DEF StageMoves, Early, In
<1>8. StageInv'
  BY <1>1, <1>4, <1>5, <1>7 DEF StageMoves, LinkInv, StageInv
<1>9. DownInv'
  BY <1>1, <1>4, <1>7 DEF StageMoves, LinkInv, DownInv, StageInv
<1>10. QED
  BY <1>6, <1>8, <1>9 DEF LinkInv

\* The server handles a message.
LEMMA ServerKeepsLink ==
  ASSUME LinkInv, NEW i \in DOMAIN toServer, Handled(toServer[i]),
         toServer' = RemoveAt(toServer, i), UNCHANGED clientVars
  PROVE  LinkInv'
<1>0. PICK m : m = toServer[i]
  OBVIOUS
<1>1. /\ toServer \in Seq(ToServer) /\ toClient \in Seq(ToMe) /\ UNCHANGED <<cState, phase>>
      /\ Handled(m)
  BY <1>0 DEF LinkInv, UpInv, DownInv, clientVars
<1>2. /\ toServer' \in Seq(ToServer)
      /\ \A y : In(y, toServer') => In(y, toServer)
      /\ \A y : Once(y, toServer) => Once(y, toServer')
      /\ Once(m, toServer) => ~In(m, toServer')
      /\ In(m, toServer)
  <2>1. In(m, toServer)
    BY <1>0 DEF In
  <2>2. QED
    BY <1>0, <1>1, <2>1, RemovedMessages
<1>3. UpInv'
  BY <1>1, <1>2 DEF Handled, LinkInv, UpInv
<1>4. Early' => Early /\ ~(m = StartMsg)
  BY <1>1, <1>2 DEF Early, LinkInv, UpInv
<1>5. CASE KeepsMe /\ (Me \in admitted' <=> Me \in admitted)
  <2>1. StageInv'
    BY <1>1, <1>4, <1>5 DEF Handled, KeepsMe, LinkInv, StageInv
  <2>2. DownInv'
    BY <1>1, <1>4, <1>5 DEF KeepsMe, LinkInv, DownInv
  <2>3. QED
    BY <1>3, <2>1, <2>2 DEF LinkInv
<1>6. CASE m = HelloOf(Me) /\ LetsMeIn /\ Me \in admitted'
  <2>1. phase = "HELLO_SENT" /\ toClient = <<>> /\ phase' = "HELLO_SENT"
    BY <1>1, <1>2, <1>6 DEF LinkInv, UpInv, DownInv
  <2>2. StageInv'
    BY <1>1, <1>6, <2>1, ServerAssumption DEF LetsMeIn, LinkInv, StageInv
  <2>3. HelloOk(Me) \in ToMe /\ \A y : ~In(y, toClient)
    BY <2>1 DEF ToMe, In
  <2>4. /\ toClient' \in Seq(ToMe)
        /\ \A y : In(y, toClient') <=> In(y, toClient) \/ y = HelloOk(Me)
        /\ \A y : Once(y, toClient) /\ (y = HelloOk(Me) => ~In(y, toClient)) => Once(y, toClient')
    <3>1. toClient' = Append(toClient, HelloOk(Me))
      BY <1>6 DEF LetsMeIn
    <3>2. QED
      BY <1>1, <2>3, <3>1, DownAppended
  <2>5. \A k \in DOMAIN toClient' : toClient'[k] = HelloOk(Me)
    BY <2>3, <2>4 DEF In
  <2>6. DownInv'
    BY <1>6, <2>1, <2>3, <2>4, <2>5 DEF LinkInv, DownInv
  <2>7. QED
    BY <1>3, <2>2, <2>6 DEF LinkInv
<1>7. CASE m = StartMsg /\ StartsMe /\ (Me \in admitted' <=> Me \in admitted)
  <2>1. ~Early' /\ Early
    BY <1>2, <1>4, <1>7 DEF Early
  <2>2. Obj(0).phase = "HELLO" /\ Obj(0).progress = 0 /\ Me \in admitted /\ phase # "HELLO_SENT"
    BY <1>2, <1>7, <2>1 DEF StartsMe, LinkInv, StageInv, UpInv
  <2>3. StageInv'
    BY <1>1, <1>7, <2>1, <2>2, ServerAssumption DEF StartsMe, LinkInv, StageInv
  <2>4. MapHeader(Me) \in ToMe /\ MapHeader(Me) # HelloOk(Me)
    BY DEF ToMe, MapHeader, HelloOk
  <2>5. /\ toClient' \in Seq(ToMe)
        /\ \A y : In(y, toClient') <=> In(y, toClient) \/ y = MapHeader(Me)
        /\ \A y : Once(y, toClient) /\ (y = MapHeader(Me) => ~In(y, toClient)) => Once(y, toClient')
    <3>1. toClient' = Append(toClient, MapHeader(Me))
      BY <1>7 DEF StartsMe
    <3>2. QED
      BY <1>1, <2>4, <3>1, DownAppended
  <2>6. DownInv'
    BY <1>1, <1>7, <2>1, <2>2, <2>4, <2>5 DEF LinkInv, DownInv
  <2>7. QED
    BY <1>3, <2>3, <2>6 DEF LinkInv
<1>8. CASE m = Goodbye(Me) /\ RemovesMe /\ (Me \in admitted' <=> Me \in admitted)
  <2>1. StageInv'
    BY <1>1, <1>2, <1>8 DEF RemovesMe, LinkInv, StageInv, UpInv
  <2>2. DownInv'
    BY <1>1, <1>4, <1>8 DEF RemovesMe, LinkInv, DownInv
  <2>3. QED
    BY <1>3, <2>1, <2>2 DEF LinkInv
<1>9. QED
  BY <1>1, <1>5, <1>6, <1>7, <1>8 DEF Handled

\* The server ticks or shuts down.
LEMMA TurnKeepsLink ==
  ASSUME LinkInv, OneInv, Turned, UNCHANGED <<clientVars, toServer>>
  PROVE  LinkInv'
<1>1. UNCHANGED <<cState, phase, toServer, admitted>> /\ toClient \in Seq(ToMe)
  BY DEF Turned, clientVars, LinkInv, DownInv
<1>2. (Early' <=> Early) /\ UpInv'
  BY <1>1 DEF Early, LinkInv, UpInv
<1>3. CASE KeepsMe
  <2>1. StageInv'
    BY <1>1, <1>2, <1>3 DEF Turned, KeepsMe, LinkInv, StageInv
  <2>2. DownInv'
    BY <1>1, <1>2, <1>3 DEF KeepsMe, LinkInv, DownInv
  <2>3. QED
    BY <1>2, <2>1, <2>2 DEF LinkInv
<1>4. ASSUME NEW x \in ToMe, x # HelloOk(Me), toClient' = Append(toClient, x), Me \in admitted,
             Early => x = Bye(Me)
      PROVE  DownInv'
  <2>1. /\ toClient' \in Seq(ToMe)
        /\ \A y : In(y, toClient') <=> In(y, toClient) \/ y = x
        /\ \A y : Once(y, toClient) /\ (y = x => ~In(y, toClient)) => Once(y, toClient')
    BY <1>1, <1>4, DownAppended
  <2>2. ASSUME Early, NEW k \in DOMAIN toClient' PROVE toClient'[k] \in {HelloOk(Me), Bye(Me)}
    <3>1. In(toClient'[k], toClient')
      BY DEF In
    <3>2. In(toClient'[k], toClient) \/ toClient'[k] = x
      BY <2>1, <3>1
    <3>3. QED
      BY <1>4, <2>2, <3>2 DEF In, LinkInv, DownInv
  <2>3. QED
    BY <1>1, <1>2, <1>4, <2>1, <2>2 DEF LinkInv, DownInv
<1>5. CASE SendsChunk
  <2> DEFINE n == ChunkSize(Obj(0))
             x == Chunk(Me, Obj(0).progress, n)
  <2>1. /\ MeIn /\ MeIn' /\ Obj(0).phase = "DOWNLOADING" /\ toClient' = Append(toClient, x)
        /\ Obj(0)'.progress = Obj(0).progress + n
        /\ Obj(0)'.phase = IF Obj(0).progress + n >= WorldBytes THEN "LETS_GO" ELSE "DOWNLOADING"
    BY <1>5 DEF SendsChunk
  <2>2. ~Early /\ Me \in admitted /\ Obj(0).progress < WorldBytes
    BY <2>1 DEF LinkInv, StageInv
  <2>3. /\ Obj(0).progress \in 0 .. WorldBytes /\ n \in 1 .. MAX_PACKET_SIZE
        /\ Obj(0).progress + n <= WorldBytes
    <3>1. /\ Obj(0).progress \in 0 .. WorldBytes - 1
          /\ ChunkSize(Obj(0)) \in 1 .. MAX_PACKET_SIZE
          /\ Obj(0).progress + ChunkSize(Obj(0)) <= WorldBytes
      BY <2>1, <2>2, ChunkFits
    <3>2. QED
      BY <3>1, ServerAssumption
  <2>4. x \in ToMe /\ x # HelloOk(Me)
    BY <2>3 DEF ToMe, Chunks, Chunk, HelloOk
  <2>5. DownInv'
    BY <1>4, <2>1, <2>2, <2>4
  <2> HIDE DEF n, x
  <2>6. StageInv'
    BY <1>1, <1>2, <2>1, <2>2, <2>3, ServerAssumption DEF Turned, LinkInv, StageInv
  <2>7. QED
    BY <1>2, <2>5, <2>6 DEF LinkInv
<1>6. CASE TellsMe
  <2>1. Bye(Me) \in ToMe /\ Bye(Me) # HelloOk(Me)
    BY DEF ToMe, Bye, HelloOk
  <2>2. DownInv'
    BY <1>4, <1>6, <2>1 DEF TellsMe, LinkInv, StageInv
  <2>3. StageInv'
    BY <1>1, <1>2, <1>6 DEF Turned, TellsMe, LinkInv, StageInv
  <2>4. QED
    BY <1>2, <2>2, <2>3 DEF LinkInv
<1>7. QED
  BY <1>3, <1>5, <1>6 DEF Turned

\* What the messages to the server are when one is sent.
LEMMA UpAppended ==
  ASSUME toServer \in Seq(ToServer), NEW x \in ToServer, toServer' = Append(toServer, x)
  PROVE  /\ toServer' \in Seq(ToServer)
         /\ \A y : In(y, toServer') <=> In(y, toServer) \/ y = x
         /\ \A y : Once(y, toServer) /\ (y = x => ~In(y, toServer)) => Once(y, toServer')
BY AppendedMessages

\* A guest says something.
LEMMA GuestKeepsLink ==
  ASSUME LinkInv, GuestSends
  PROVE  LinkInv'
<1>1. PICK m \in GuestMsgs : toServer' = Append(toServer, m)
  BY DEF GuestSends
<1>2. PICK p \in Peers \ {Me} : m = HelloOf(p) \/ m = Goodbye(p)
  BY DEF GuestMsgs, HelloOf
<1>3. m \in ToServer /\ m # HelloOf(Me) /\ m # StartMsg /\ m # Goodbye(Me)
  BY <1>2, MessagesDiffer DEF ToServer
<1>4. /\ toServer' \in Seq(ToServer)
      /\ \A y : In(y, toServer') <=> In(y, toServer) \/ y = m
      /\ \A y : Once(y, toServer) /\ (y = m => ~In(y, toServer)) => Once(y, toServer')
  <2>1. toServer \in Seq(ToServer)
    BY DEF LinkInv, UpInv
  <2>2. QED
    BY <1>1, <1>3, <2>1, UpAppended
<1>5. UNCHANGED <<serverVars, cState, phase, toClient>>
  BY DEF GuestSends, clientVars
<1>6. (Early' <=> Early) /\ UpInv'
  BY <1>3, <1>4, <1>5 DEF Early, LinkInv, UpInv, serverVars
<1>7. StageInv' /\ DownInv'
  BY <1>5, <1>6, SameServer DEF LinkInv, StageInv, DownInv
<1>8. QED
  BY <1>6, <1>7 DEF LinkInv

\* Messages are lost.
LEMMA LossKeepsLink ==
  ASSUME LinkInv, LoseMessage
  PROVE  LinkInv'
<1>1. UNCHANGED <<serverVars, cState, phase>>
  BY DEF LoseMessage, clientVars
<1>2. /\ toServer' \in Seq(ToServer)
      /\ \A y : In(y, toServer') => In(y, toServer)
      /\ \A y : Once(y, toServer) => Once(y, toServer')
  BY RemovedMessages DEF LoseMessage, LinkInv, UpInv
<1>3. /\ toClient' \in Seq(ToMe)
      /\ \A y : In(y, toClient') => In(y, toClient)
      /\ \A y : Once(y, toClient) => Once(y, toClient')
  BY RemovedMessages DEF LoseMessage, LinkInv, DownInv
<1>4. (Early' => Early) /\ UpInv'
  BY <1>1, <1>2 DEF Early, LinkInv, UpInv, serverVars
<1>5. StageInv'
  BY <1>1, <1>4, SameServer DEF LinkInv, StageInv
<1>6. DownInv'
  <2>1. toClient = <<>> => toClient' = <<>>
    <3>1. toClient = <<>> => DOMAIN toClient = {}
      BY EmptySeq
    <3>2. QED
      BY <3>1 DEF LoseMessage
  <2>2. Early' => \A k \in DOMAIN toClient' : toClient'[k] \in {HelloOk(Me), Bye(Me)}
    BY <1>3, <1>4 DEF In, LinkInv, DownInv
  <2>3. QED
    BY <1>1, <1>3, <2>1, <2>2, SameServer DEF LinkInv, DownInv
<1>7. QED
  BY <1>4, <1>5, <1>6 DEF LinkInv

LEMMA LinkInit == SessionInit => LinkInv
<1> SUFFICES ASSUME SessionInit PROVE LinkInv
  OBVIOUS
<1>1. /\ toServer = <<>> /\ toClient = <<>> /\ phase = "HELLO" /\ admitted = {} /\ ~MeIn
      /\ cState \in {"RESOLVING_ADDRESS", "FATAL"}
  BY DEF SessionInit, ServerInit, ClientInit, MeIn, Holds
<1>2. /\ toServer \in Seq(ToServer) /\ toClient \in Seq(ToMe)
      /\ DOMAIN toServer = {} /\ DOMAIN toClient = {}
  BY <1>1, EmptySeq
<1>3. QED
  BY <1>1, <1>2 DEF LinkInv, UpInv, StageInv, DownInv, In, Once, Early

-----------------------------------------------------------------------------
(* What a step of the client is to its world *)

\* It goes on without the world, and makes nothing of a message but of the
\* hello it waits for and of the server's notice.
KeepsWorld(m) ==
    /\ UNCHANGED world
    /\ cFault' \in {cFault, "socket"}
    /\ phase' \in {"DOWNLOADING_WORLD", "LETS_GO"} => phase' = phase
    /\ \/ phase = "HELLO_SENT" /\ m = HelloOk(Me) /\ phase' = "DOWNLOAD_WORLD"
       \/ /\ ClientAt' = ClientAt
          /\ \/ m \in {NoMsg, Bye(Me)}
             \/ phase \in {"HELLO", "DOWNLOAD_WORLD", "LETS_GO"}
             \/ phase = "HELLO_SENT" /\ m # HelloOk(Me)
             \/ phase = "DOWNLOADING_WORLD" /\ m \notin Chunks

ReadsHeader(m) ==
    /\ phase = "DOWNLOAD_WORLD_SENT" /\ phase' = "DOWNLOADING_WORLD"
    /\ m \in ToMe \ {Bye(Me)}
    /\ worldBytes' \in SizesReadFrom(m) /\ progress' = progress
    /\ cFault = "none" /\ cFault' \in HeaderOutcomes(m)

ReadsChunk(m) ==
    /\ phase = "DOWNLOADING_WORLD" /\ phase' \in {"DOWNLOADING_WORLD", "LETS_GO"}
    /\ m \in Chunks
    /\ tiles' = WithChunk(m) /\ progress' = progress + m.size /\ worldBytes' = worldBytes
    /\ cFault' \in IF progress + m.size > worldBytes THEN {"none", "overrun"} ELSE {"none"}

WorldMoves(m) == KeepsWorld(m) \/ ReadsHeader(m) \/ ReadsChunk(m)

LEMMA TickWorld ==
  ASSUME DownloadInv, NEW m \in ToMe \cup {NoMsg}, TickNetwork(m)
  PROVE  WorldMoves(m)
<1>1. /\ NoMsg \notin ToMe
      /\ Ordinary(m) => m # Bye(Me)
      /\ ~Ordinary(m) => m = Bye(Me)
      /\ OfType(m, "SERVER_HELLO") <=> m = HelloOk(Me)
      /\ OfType(m, "WORLD_DOWNLOAD_PACKET") <=> m \in Chunks
      /\ HelloOk(Me).status = "OK"
  <2>1. NoMsg \notin ToMe /\ HelloOk(Me) \in ToMe /\ Bye(Me) \in ToMe /\ Chunks \subseteq ToMe
    BY MessageKinds DEF ToMe
  <2>2. HelloOk(Me).status = "OK"
    BY DEF HelloOk
  <2>3. QED
    BY <2>1, <2>2, MessageKinds DEF Ordinary, OfType
<1>2. CASE SendHello(m) \/ RequestWorld(m)
  BY <1>2 DEF SendHello, RequestWorld, Connecting, process, KeepsWorld, ClientAt, WorldMoves, world
<1>3. CASE AwaitHello(m)
  BY <1>1, <1>3 DEF AwaitHello, Connecting, process, KeepsWorld, ClientAt, WorldMoves, world
<1>4. CASE AwaitHeader(m)
  <2>1. CASE m = NoMsg
    BY <1>4, <2>1 DEF AwaitHeader, Connecting, KeepsWorld, ClientAt, WorldMoves, world
  <2>2. CASE m # NoMsg
    BY <1>1, <1>4, <2>2 DEF AwaitHeader, Connecting, Alive, ReadsHeader, WorldMoves
  <2>3. QED
    BY <2>1, <2>2
<1>5. CASE DownloadChunk(m)
  <2>1. CASE m \in Chunks
    BY <1>1, <1>5, <2>1 DEF DownloadChunk, Connecting, ReadsChunk, WorldMoves
  <2>2. CASE m \notin Chunks
    BY <1>1, <1>5, <2>2 DEF DownloadChunk, Connecting, KeepsWorld, ClientAt, WorldMoves, world
  <2>3. QED
    BY <2>1, <2>2
<1>6. CASE EnterGame(m)
  BY <1>6 DEF EnterGame, Connecting, process, KeepsWorld, ClientAt, WorldMoves, world
<1>7. CASE ServerGone(m)
  BY <1>1, <1>7 DEF ServerGone, process, KeepsWorld, ClientAt, WorldMoves, world
<1>8. CASE Play(m)
  BY <1>8 DEF Play, process, DownloadInv, KeepsWorld, ClientAt, WorldMoves, world
<1>9. QED
  BY <1>2, <1>3, <1>4, <1>5, <1>6, <1>7, <1>8 DEF TickNetwork

LEMMA StopWorld ==
  ASSUME ResolveAddress \/ Quit \/ TickFatal \/ PollDestroyedSocket
  PROVE  KeepsWorld(NoMsg)
<1>1. CASE ResolveAddress \/ PollDestroyedSocket
  BY <1>1 DEF ResolveAddress, PollDestroyedSocket, process, KeepsWorld, ClientAt, world
<1>2. CASE Quit \/ TickFatal
  BY <1>2 DEF Quit, TickFatal, Shutdown, Alive, KeepsWorld, ClientAt, world
<1>3. QED
  BY <1>1, <1>2

-----------------------------------------------------------------------------
(* What a step of the server is to the messages to the client *)

ServerMoves ==
    /\ Running' => Running
    /\ \/ KeepsMe
       \/ RemovesMe
       \/ LetsMeIn /\ phase = "HELLO_SENT" /\ toClient = <<>>
       \/ StartsMe /\ Obj(0).phase = "HELLO" /\ Obj(0).progress = 0
       \/ SendsChunk /\ Obj(0).progress < WorldBytes
       \/ TellsMe

LEMMA HandledMoves ==
  ASSUME LinkInv, NEW m, In(m, toServer), Handled(m)
  PROVE  ServerMoves
<1>1. CASE m = HelloOf(Me) /\ LetsMeIn
  BY <1>1 DEF Handled, ServerMoves, LinkInv, UpInv, DownInv
<1>2. CASE m = StartMsg /\ StartsMe
  BY <1>2 DEF Handled, ServerMoves, StartsMe, LinkInv, StageInv, Early
<1>3. CASE KeepsMe \/ RemovesMe
  BY <1>3 DEF Handled, ServerMoves
<1>4. QED
  BY <1>1, <1>2, <1>3 DEF Handled

LEMMA TurnedMoves ==
  ASSUME LinkInv, Turned
  PROVE  ServerMoves
BY DEF Turned, ServerMoves, SendsChunk, LinkInv, StageInv

-----------------------------------------------------------------------------
(* The bytes of the world *)

LEMMA BytesOf ==
  /\ \A m \in Chunks : /\ m.offset \in 0 .. WorldBytes /\ m.size \in 1 .. MAX_PACKET_SIZE
                       /\ m.offset \in Nat /\ m.size \in Nat \ {0}
                       /\ Bytes(m) = m.offset .. m.offset + m.size - 1
  /\ \A m \in {HelloOk(Me), MapHeader(Me), Bye(Me)} : Bytes(m) = {}
  /\ Chunks \subseteq ToMe /\ {HelloOk(Me), MapHeader(Me), Bye(Me)} \subseteq ToMe
<1>1. ASSUME NEW m \in Chunks
      PROVE  /\ m.offset \in 0 .. WorldBytes /\ m.size \in 1 .. MAX_PACKET_SIZE
             /\ m.offset \in Nat /\ m.size \in Nat \ {0}
             /\ Bytes(m) = m.offset .. m.offset + m.size - 1
  <2>1. PICK o \in 0 .. WorldBytes, n \in 1 .. MAX_PACKET_SIZE : m = Chunk(Me, o, n)
    BY DEF Chunks
  <2>2. m.offset = o /\ m.size = n /\ m.type = "WORLD_DOWNLOAD_PACKET"
    BY <2>1 DEF Chunk
  <2>3. QED
    BY <2>2, ServerAssumption DEF Bytes
<1>2. \A m \in {HelloOk(Me), MapHeader(Me), Bye(Me)} : Bytes(m) = {}
  BY DEF HelloOk, MapHeader, Bye, Bytes
<1>3. QED
  BY <1>1, <1>2 DEF ToMe

\* Where the messages to the client are when one is sent.
LEMMA DownPlaces ==
  ASSUME toClient \in Seq(ToMe), NEW x \in ToMe, toClient' = Append(toClient, x)
  PROVE  /\ Len(toClient) \in Nat /\ DOMAIN toClient = 1 .. Len(toClient)
         /\ Len(toClient') = Len(toClient) + 1
         /\ DOMAIN toClient' = 1 .. Len(toClient) + 1
         /\ \A k \in DOMAIN toClient : toClient'[k] = toClient[k]
         /\ toClient'[Len(toClient) + 1] = x
         /\ \A k \in DOMAIN toClient' : k \in DOMAIN toClient \/ k = Len(toClient) + 1
         /\ Len(toClient) + 1 \notin DOMAIN toClient
BY AppendProperties, LenProperties

\* A message without bytes is sent.
LEMMA NoBytesSent ==
  ASSUME BytesInv, toClient \in Seq(ToMe), NEW x \in ToMe, Bytes(x) = {},
         toClient' = Append(toClient, x), MeIn' => MeIn /\ Obj(0)'.progress = Obj(0).progress
  PROVE  BytesInv'
<1>1. /\ \A k \in DOMAIN toClient : toClient'[k] = toClient[k]
      /\ toClient'[Len(toClient) + 1] = x
      /\ \A k \in DOMAIN toClient' : k \in DOMAIN toClient \/ k = Len(toClient) + 1
  BY DownPlaces
<1>2. \A j, k \in DOMAIN toClient' : j # k => Bytes(toClient'[j]) \cap Bytes(toClient'[k]) = {}
  <2> SUFFICES ASSUME NEW j \in DOMAIN toClient', NEW k \in DOMAIN toClient', j # k
               PROVE  Bytes(toClient'[j]) \cap Bytes(toClient'[k]) = {}
    OBVIOUS
  <2>1. CASE j \in DOMAIN toClient /\ k \in DOMAIN toClient
    BY <1>1, <2>1 DEF BytesInv
  <2>2. CASE ~(j \in DOMAIN toClient /\ k \in DOMAIN toClient)
    BY <1>1, <2>2
  <2>3. QED
    BY <2>1, <2>2
<1>3. ASSUME NEW k \in DOMAIN toClient'
      PROVE  /\ Bytes(toClient'[k]) \subseteq 0 .. WorldBytes - 1
             /\ MeIn' => Bytes(toClient'[k]) \subseteq 0 .. Obj(0)'.progress - 1
  BY <1>1 DEF BytesInv
<1>4. QED
  BY <1>2, <1>3 DEF BytesInv

\* The server sends a chunk: its bytes are new.
LEMMA ChunkSent ==
  ASSUME OneInv, toClient \in Seq(ToMe), SendsChunk, Obj(0).progress < WorldBytes
  PROVE  \E x \in Chunks :
            /\ toClient' = Append(toClient, x)
            /\ Bytes(x) = Obj(0).progress .. Obj(0)'.progress - 1
            /\ x.offset = Obj(0).progress /\ Obj(0)'.progress = x.offset + x.size
            /\ Obj(0).progress \in Nat /\ Obj(0)'.progress \in Nat
            /\ Obj(0).progress < Obj(0)'.progress /\ Obj(0)'.progress <= WorldBytes
            /\ Obj(0)'.phase # "HELLO"
<1> DEFINE o == Obj(0).progress
           n == ChunkSize(Obj(0))
           x == Chunk(Me, o, n)
<1>1. o \in 0 .. WorldBytes - 1 /\ n \in 1 .. MAX_PACKET_SIZE /\ o + n <= WorldBytes
  BY ChunkFits DEF SendsChunk
<1>2. /\ toClient' = Append(toClient, x) /\ Obj(0)'.progress = o + n
      /\ Obj(0)'.phase # "HELLO"
  BY DEF SendsChunk
<1>3. x.offset = o /\ x.size = n
  BY DEF Chunk
<1> HIDE DEF o, n
<1>4. x \in Chunks
  BY <1>1, ServerAssumption DEF Chunks
<1>5. Bytes(x) = o .. o + n - 1
  BY <1>3, <1>4, BytesOf
<1> HIDE DEF x
<1>6. o \in Nat /\ o + n \in Nat /\ o < o + n
  BY <1>1, ServerAssumption
<1>7. QED
  BY <1>1, <1>2, <1>3, <1>4, <1>5, <1>6 DEF o

LEMMA ChunkKeepsBytes ==
  ASSUME OneInv, BytesInv, toClient \in Seq(ToMe), SendsChunk, Obj(0).progress < WorldBytes
  PROVE  BytesInv'
<1>1. PICK x \in Chunks :
        /\ toClient' = Append(toClient, x)
        /\ Bytes(x) = Obj(0).progress .. Obj(0)'.progress - 1
        /\ Obj(0).progress \in Nat /\ Obj(0)'.progress \in Nat
        /\ Obj(0).progress < Obj(0)'.progress /\ Obj(0)'.progress <= WorldBytes
  BY ChunkSent
<1>2. /\ \A k \in DOMAIN toClient : toClient'[k] = toClient[k]
      /\ toClient'[Len(toClient) + 1] = x
      /\ \A k \in DOMAIN toClient' : k \in DOMAIN toClient \/ k = Len(toClient) + 1
  BY <1>1, DownPlaces, BytesOf
<1>3. \A k \in DOMAIN toClient : /\ Bytes(toClient[k]) \subseteq 0 .. Obj(0).progress - 1
                                 /\ Bytes(toClient[k]) \cap Bytes(x) = {}
  <2>1. \A k \in DOMAIN toClient : Bytes(toClient[k]) \subseteq 0 .. Obj(0).progress - 1
    BY DEF BytesInv, SendsChunk
  <2>2. (0 .. Obj(0).progress - 1) \cap Bytes(x) = {}
    BY <1>1
  <2>3. QED
    BY <2>1, <2>2
<1>4. \A j, k \in DOMAIN toClient' : j # k => Bytes(toClient'[j]) \cap Bytes(toClient'[k]) = {}
  <2> SUFFICES ASSUME NEW j \in DOMAIN toClient', NEW k \in DOMAIN toClient', j # k
               PROVE  Bytes(toClient'[j]) \cap Bytes(toClient'[k]) = {}
    OBVIOUS
  <2>1. CASE j \in DOMAIN toClient /\ k \in DOMAIN toClient
    BY <1>2, <2>1 DEF BytesInv
  <2>2. CASE j \notin DOMAIN toClient
    BY <1>2, <1>3, <2>2
  <2>3. CASE k \notin DOMAIN toClient
    BY <1>2, <1>3, <2>3
  <2>4. QED
    BY <2>1, <2>2, <2>3
<1>5. /\ 0 .. Obj(0).progress - 1 \subseteq 0 .. Obj(0)'.progress - 1
      /\ Bytes(x) \subseteq 0 .. Obj(0)'.progress - 1
      /\ 0 .. Obj(0)'.progress - 1 \subseteq 0 .. WorldBytes - 1
  BY <1>1, ServerAssumption
<1>6. ASSUME NEW k \in DOMAIN toClient'
      PROVE  /\ Bytes(toClient'[k]) \subseteq 0 .. WorldBytes - 1
             /\ MeIn' => Bytes(toClient'[k]) \subseteq 0 .. Obj(0)'.progress - 1
  <2>1. Bytes(toClient'[k]) \subseteq 0 .. Obj(0)'.progress - 1
    BY <1>2, <1>3, <1>5
  <2>2. QED
    BY <1>5, <2>1
<1>7. QED
  BY <1>4, <1>6 DEF BytesInv

\* The server and the bytes on the way.
LEMMA ServerKeepsBytes ==
  ASSUME OneInv, BytesInv, toClient \in Seq(ToMe), ServerMoves
  PROVE  BytesInv'
<1>1. CASE KeepsMe \/ RemovesMe
  BY <1>1 DEF KeepsMe, RemovesMe, BytesInv
<1>2. CASE LetsMeIn /\ toClient = <<>>
  <2>1. /\ toClient' = Append(toClient, HelloOk(Me)) /\ HelloOk(Me) \in ToMe
        /\ DOMAIN toClient = {} /\ Bytes(HelloOk(Me)) = {}
    BY <1>2, BytesOf, EmptySeq DEF LetsMeIn
  <2>2. /\ toClient'[Len(toClient) + 1] = HelloOk(Me)
        /\ \A k \in DOMAIN toClient' : k \in DOMAIN toClient \/ k = Len(toClient) + 1
    BY <2>1, DownPlaces
  <2>3. \A k \in DOMAIN toClient' : Bytes(toClient'[k]) = {}
    BY <2>1, <2>2
  <2>4. QED
    BY <2>3 DEF BytesInv
<1>3. CASE StartsMe
  BY <1>3, BytesOf, NoBytesSent DEF StartsMe
<1>4. CASE SendsChunk /\ Obj(0).progress < WorldBytes
  BY <1>4, ChunkKeepsBytes
<1>5. CASE TellsMe
  BY <1>5, BytesOf, NoBytesSent DEF TellsMe
<1>6. QED
  BY <1>1, <1>2, <1>3, <1>4, <1>5 DEF ServerMoves

\* Messages are taken, by the client or by the network.
LEMMA TakingKeepsBytes ==
  ASSUME BytesInv, toClient \in Seq(ToMe), UNCHANGED serverVars,
         \/ toClient' = toClient
         \/ \E i \in DOMAIN toClient : toClient' = RemoveAt(toClient, i)
  PROVE  BytesInv'
<1>1. (MeIn' <=> MeIn) /\ Obj(0)' = Obj(0)
  BY SameServer
<1>2. CASE toClient' = toClient
  BY <1>1, <1>2 DEF BytesInv
<1>3. CASE \E i \in DOMAIN toClient : toClient' = RemoveAt(toClient, i)
  <2>1. \A j, k \in DOMAIN toClient' :
          \E u, v \in DOMAIN toClient : /\ toClient'[j] = toClient[u] /\ toClient'[k] = toClient[v]
                                        /\ j # k => u # v
    BY <1>3, RemovedFrom
  <2>2. \A j, k \in DOMAIN toClient' : j # k => Bytes(toClient'[j]) \cap Bytes(toClient'[k]) = {}
    BY <2>1 DEF BytesInv
  <2>3. \A k \in DOMAIN toClient' : \E u \in DOMAIN toClient : toClient'[k] = toClient[u]
    BY <2>1
  <2>4. \A k \in DOMAIN toClient' :
          /\ Bytes(toClient'[k]) \subseteq 0 .. WorldBytes - 1
          /\ MeIn' => Bytes(toClient'[k]) \subseteq 0 .. Obj(0)'.progress - 1
    BY <1>1, <2>3 DEF BytesInv
  <2>5. QED
    BY <2>2, <2>4 DEF BytesInv
<1>4. QED
  BY <1>2, <1>3

-----------------------------------------------------------------------------
(* The bytes that the client has received *)

LEMMA IntervalSize ==
  \A a, b \in Nat : /\ IsFiniteSet(a .. b - 1)
                    /\ a <= b => Cardinality(a .. b - 1) = b - a
<1> SUFFICES ASSUME NEW a \in Nat, NEW b \in Nat
             PROVE  /\ IsFiniteSet(a .. b - 1)
                    /\ a <= b => Cardinality(a .. b - 1) = b - a
  OBVIOUS
<1>1. a \in Int /\ b - 1 \in Int
  OBVIOUS
<1>2. /\ IsFiniteSet(a .. b - 1)
      /\ Cardinality(a .. b - 1) = IF a <= b - 1 THEN b - 1 - a + 1 ELSE 0
  BY <1>1, FS_Interval
<1>3. QED
  BY <1>2

LEMMA WorldFinite ==
  /\ IsFiniteSet(0 .. WorldBytes - 1) /\ Cardinality(0 .. WorldBytes - 1) = WorldBytes
  /\ \A R \in SUBSET (0 .. WorldBytes - 1) :
        /\ IsFiniteSet(R) /\ Cardinality(R) <= WorldBytes
        /\ Cardinality(R) = WorldBytes => R = 0 .. WorldBytes - 1
<1>1. 0 \in Nat /\ WorldBytes \in Nat /\ 0 <= WorldBytes /\ WorldBytes - 0 = WorldBytes
  BY ServerAssumption
<1>2. IsFiniteSet(0 .. WorldBytes - 1) /\ Cardinality(0 .. WorldBytes - 1) = WorldBytes
  BY <1>1, IntervalSize
<1>3. ASSUME NEW R \in SUBSET (0 .. WorldBytes - 1)
      PROVE  /\ IsFiniteSet(R) /\ Cardinality(R) <= WorldBytes
             /\ Cardinality(R) = WorldBytes => R = 0 .. WorldBytes - 1
  <2> DEFINE W == 0 .. WorldBytes - 1
  <2>1. IsFiniteSet(W) /\ R \in SUBSET W /\ Cardinality(W) = WorldBytes
    BY <1>2
  <2> HIDE DEF W
  <2>2. /\ IsFiniteSet(R) /\ Cardinality(R) <= Cardinality(W)
        /\ Cardinality(W) = Cardinality(R) => W = R
    BY <2>1, FS_Subset
  <2>3. QED
    BY <2>1, <2>2 DEF W
<1>4. QED
  BY <1>2, <1>3

\* The server and the bytes that were received.
LEMMA ServerKeepsReceived ==
  ASSUME OneInv, DownloadInv, ReceivedInv, toClient \in Seq(ToMe), ServerMoves,
         UNCHANGED clientVars
  PROVE  ReceivedInv'
<1>1. PICK R \in SUBSET (0 .. WorldBytes - 1) : ReceivedBytes(R)
  BY DEF ReceivedInv
<1>2. UNCHANGED <<progress, worldBytes, tiles>> /\ progress \in Nat
  BY DEF clientVars, DownloadInv, ClientTypeOK
<1>3. ASSUME NEW x \in ToMe, toClient' = Append(toClient, x), R \cap Bytes(x) = {},
             MeIn' => R \subseteq 0 .. Obj(0)'.progress - 1
      PROVE  ReceivedBytes(R)'
  <2>1. \A k \in DOMAIN toClient' :
          (k \in DOMAIN toClient /\ toClient'[k] = toClient[k]) \/ toClient'[k] = x
    BY <1>3, DownPlaces
  <2>2. \A k \in DOMAIN toClient' : R \cap Bytes(toClient'[k]) = {}
    BY <1>1, <1>3, <2>1 DEF ReceivedBytes
  <2>3. QED
    BY <1>1, <1>2, <1>3, <2>2 DEF ReceivedBytes
<1>4. CASE KeepsMe \/ RemovesMe
  BY <1>1, <1>2, <1>4 DEF KeepsMe, RemovesMe, ReceivedInv, ReceivedBytes
<1>5. CASE LetsMeIn /\ phase = "HELLO_SENT"
  <2>1. progress = 0
    BY <1>2, <1>5 DEF DownloadInv
  <2>2. R = {}
    <3>1. IsFiniteSet(R)
      BY WorldFinite
    <3>2. Cardinality(R) = 0
      BY <1>1, <2>1 DEF ReceivedBytes
    <3>3. QED
      BY <3>1, <3>2, FS_EmptySet
  <2>3. ReceivedBytes(R)'
    BY <1>3, <1>5, <2>2, BytesOf DEF LetsMeIn
  <2>4. QED
    BY <2>3 DEF ReceivedInv
<1>6. CASE StartsMe
  <2>1. MapHeader(Me) \in ToMe /\ Bytes(MapHeader(Me)) = {}
    BY BytesOf
  <2>2. R \subseteq 0 .. Obj(0)'.progress - 1
    BY <1>1, <1>6 DEF StartsMe, ReceivedBytes
  <2>3. ReceivedBytes(R)'
    BY <1>3, <1>6, <2>1, <2>2 DEF StartsMe
  <2>4. QED
    BY <2>3 DEF ReceivedInv
<1>7. CASE SendsChunk /\ Obj(0).progress < WorldBytes
  <2>1. PICK x \in Chunks :
          /\ toClient' = Append(toClient, x)
          /\ Bytes(x) = Obj(0).progress .. Obj(0)'.progress - 1
          /\ Obj(0).progress \in Nat /\ Obj(0)'.progress \in Nat
          /\ Obj(0).progress < Obj(0)'.progress
    BY <1>7, ChunkSent
  <2>2. R \subseteq 0 .. Obj(0).progress - 1
    BY <1>1, <1>7 DEF SendsChunk, ReceivedBytes
  <2>3. R \cap Bytes(x) = {} /\ R \subseteq 0 .. Obj(0)'.progress - 1
    BY <2>1, <2>2
  <2>4. ReceivedBytes(R)'
    BY <1>3, <2>1, <2>3, BytesOf
  <2>5. QED
    BY <2>4 DEF ReceivedInv
<1>8. CASE TellsMe
  <2>1. Bye(Me) \in ToMe /\ Bytes(Bye(Me)) = {}
    BY BytesOf
  <2>2. ReceivedBytes(R)'
    BY <1>3, <1>8, <2>1 DEF TellsMe
  <2>3. QED
    BY <2>2 DEF ReceivedInv
<1>9. QED
  BY <1>4, <1>5, <1>6, <1>7, <1>8 DEF ServerMoves

\* Messages are taken and the client's world stays.
LEMMA TakingKeepsReceived ==
  ASSUME ReceivedInv, toClient \in Seq(ToMe), UNCHANGED serverVars, UNCHANGED world,
         \/ toClient' = toClient
         \/ \E i \in DOMAIN toClient : toClient' = RemoveAt(toClient, i)
  PROVE  ReceivedInv'
<1>1. PICK R \in SUBSET (0 .. WorldBytes - 1) : ReceivedBytes(R)
  BY DEF ReceivedInv
<1>2. (MeIn' <=> MeIn) /\ Obj(0)' = Obj(0)
  BY SameServer
<1>3. \A k \in DOMAIN toClient' : \E u \in DOMAIN toClient : toClient'[k] = toClient[u]
  BY RemovedFrom
<1>4. ReceivedBytes(R)'
  BY <1>1, <1>2, <1>3 DEF ReceivedBytes, world
<1>5. QED
  BY <1>4 DEF ReceivedInv

\* A chunk is received.
LEMMA ChunkReceived ==
  ASSUME DownloadInv, BytesInv, ReceivedInv, toClient \in Seq(ToMe), UNCHANGED serverVars,
         NEW i \in DOMAIN toClient, toClient' = RemoveAt(toClient, i), ReadsChunk(toClient[i])
  PROVE  ReceivedInv'
<1>1. PICK m : m = toClient[i]
  OBVIOUS
<1>2. /\ m \in Chunks /\ m.offset \in Nat /\ m.size \in Nat \ {0}
      /\ Bytes(m) = m.offset .. m.offset + m.size - 1
      /\ tiles' = WithChunk(m) /\ progress' = progress + m.size /\ worldBytes' = worldBytes
  BY <1>1, BytesOf DEF ReadsChunk
<1>3. PICK R \in SUBSET (0 .. WorldBytes - 1) : ReceivedBytes(R)
  BY DEF ReceivedInv
<1>4. (MeIn' <=> MeIn) /\ Obj(0)' = Obj(0)
  BY SameServer
<1>5. progress \in Nat /\ worldBytes \in Nat /\ DOMAIN tiles = 0 .. worldBytes - 1
  BY DEF DownloadInv, ClientTypeOK
<1> DEFINE Q == R \cup Bytes(m)
<1>6. /\ Q \subseteq 0 .. WorldBytes - 1
      /\ MeIn => Q \subseteq 0 .. Obj(0).progress - 1
      /\ R \cap Bytes(m) = {}
  BY <1>1, <1>3 DEF BytesInv, ReceivedBytes
<1>7. \A k \in DOMAIN toClient' : Q \cap Bytes(toClient'[k]) = {}
  <2>1. \A k \in DOMAIN toClient' : \E u \in DOMAIN toClient \ {i} : toClient'[k] = toClient[u]
    BY RemovedFrom
  <2>2. \A u \in DOMAIN toClient \ {i} : Q \cap Bytes(toClient[u]) = {}
    BY <1>1, <1>3 DEF BytesInv, ReceivedBytes
  <2>3. QED
    BY <2>1, <2>2
<1>8. IsFiniteSet(R) /\ IsFiniteSet(Bytes(m)) /\ Cardinality(Bytes(m)) = m.size
  <2>1. m.offset + m.size \in Nat /\ m.offset <= m.offset + m.size
        /\ (m.offset + m.size) - m.offset = m.size
    BY <1>2
  <2>2. IsFiniteSet(Bytes(m)) /\ Cardinality(Bytes(m)) = m.size
    <3> DEFINE a == m.offset
               b == m.offset + m.size
    <3>1. a \in Nat /\ b \in Nat /\ a <= b /\ b - a = m.size /\ Bytes(m) = a .. b - 1
      BY <1>2, <2>1
    <3> HIDE DEF a, b
    <3>2. QED
      BY <3>1, IntervalSize
  <2>3. QED
    BY <2>2, WorldFinite
<1>9. IsFiniteSet(Q) /\ Cardinality(Q) = progress'
  <2>1. Cardinality(R) = progress
    BY <1>3 DEF ReceivedBytes
  <2>2. Cardinality({}) = 0
    BY FS_EmptySet
  <2>3. IsFiniteSet(Q) /\ Cardinality(Q) = Cardinality(R) + Cardinality(Bytes(m))
                                           - Cardinality(R \cap Bytes(m))
    BY <1>8, FS_Union
  <2>4. Cardinality(R \cap Bytes(m)) = 0
    BY <1>6, <2>2
  <2>5. progress + m.size - 0 = progress'
    BY <1>2, <1>5
  <2>6. QED
    BY <1>8, <2>1, <2>3, <2>4, <2>5
<1>10. progress' <= WorldBytes
  <2>1. Cardinality(Q) <= WorldBytes
    BY <1>6, WorldFinite
  <2>2. QED
    BY <1>9, <2>1
<1>11. ASSUME worldBytes = WorldBytes PROVE Q = {tiles'[j] : j \in 0 .. progress' - 1}
  <2>1. R = {tiles[j] : j \in 0 .. progress - 1}
    BY <1>3, <1>11 DEF ReceivedBytes
  <2>2. \A j \in 0 .. worldBytes - 1 :
          tiles'[j] = IF j \in progress .. progress + m.size - 1
                      THEN m.offset + (j - progress) ELSE tiles[j]
    BY <1>2, <1>5 DEF WithChunk
  <2>3. 0 .. progress' - 1 \subseteq 0 .. worldBytes - 1
    BY <1>2, <1>5, <1>10, <1>11
  <2>4. ASSUME NEW j \in 0 .. progress' - 1 PROVE tiles'[j] \in Q
    <3>1. CASE j < progress
      <4>1. j \in Nat /\ j < progress /\ j \in 0 .. worldBytes - 1
        BY <1>2, <2>3, <3>1
      <4>2. j \in 0 .. progress - 1 /\ j \notin progress .. progress + m.size - 1
        BY <1>5, <4>1
      <4>3. tiles'[j] = tiles[j]
        BY <2>2, <4>1, <4>2
      <4>4. QED
        BY <2>1, <4>2, <4>3
    <3>2. CASE j >= progress
      <4>1. j \in progress .. progress + m.size - 1
        BY <1>2, <1>5, <3>2
      <4>2. tiles'[j] = m.offset + (j - progress)
        BY <2>2, <2>3, <4>1
      <4>3. m.offset + (j - progress) \in Bytes(m)
        <5>1. /\ Bytes(m) = m.offset .. m.offset + m.size - 1
              /\ m.offset \in Int /\ m.size \in Int /\ progress \in Int
          BY <1>2, <1>5
        <5>2. j \in Int /\ progress <= j /\ j <= progress + m.size - 1
          BY <4>1, <5>1
        <5>3. /\ m.offset <= m.offset + (j - progress)
              /\ m.offset + (j - progress) <= m.offset + m.size - 1
          BY <5>1, <5>2
        <5>4. QED
          BY <5>1, <5>2, <5>3
      <4>4. QED
        BY <4>2, <4>3
    <3>3. QED
      BY <1>2, <1>5, <3>1, <3>2
  <2>5. ASSUME NEW b \in Q PROVE \E j \in 0 .. progress' - 1 : b = tiles'[j]
    <3>1. CASE b \in R
      <4>1. PICK j \in 0 .. progress - 1 : b = tiles[j]
        BY <2>1, <3>1
      <4>2. j \in 0 .. progress' - 1 /\ j \notin progress .. progress + m.size - 1
        BY <1>2, <1>5
      <4>3. QED
        BY <2>2, <2>3, <4>1, <4>2
    <3>2. CASE b \in Bytes(m)
      <4>1. b \in m.offset .. m.offset + m.size - 1
        BY <1>2, <3>2
      <4> DEFINE j == b - m.offset + progress
      <4>2. b \in Int /\ m.offset <= b /\ b <= m.offset + m.size - 1
        BY <1>2, <4>1
      <4>3. j \in Int /\ progress <= j /\ j <= progress + m.size - 1 /\ 0 <= j
        <5>1. m.offset \in Int /\ m.size \in Int /\ progress \in Nat
          BY <1>2, <1>5
        <5>2. QED
          BY <4>2, <5>1
      <4>4. m.offset + (j - progress) = b
        BY <1>2, <1>5, <4>2
      <4> HIDE DEF j
      <4>5. j \in 0 .. progress' - 1 /\ j \in progress .. progress + m.size - 1
        BY <1>2, <1>5, <4>3
      <4>6. tiles'[j] = b
        BY <2>2, <2>3, <4>4, <4>5
      <4>7. QED
        BY <4>5, <4>6
    <3>3. QED
      BY <3>1, <3>2
  <2> HIDE DEF Q
  <2>6. QED
    BY <2>4, <2>5
<1> HIDE DEF Q
<1>12. ReceivedBytes(Q)'
  BY <1>2, <1>4, <1>6, <1>7, <1>9, <1>11 DEF ReceivedBytes
<1>13. QED
  BY <1>6, <1>12 DEF ReceivedInv

\* The header is read: nothing was received before.
LEMMA HeaderReceived ==
  ASSUME DownloadInv, ReceivedInv, toClient \in Seq(ToMe), UNCHANGED serverVars,
         NEW i \in DOMAIN toClient, toClient' = RemoveAt(toClient, i), NEW m, ReadsHeader(m)
  PROVE  ReceivedInv'
<1>1. PICK R \in SUBSET (0 .. WorldBytes - 1) : ReceivedBytes(R)
  BY DEF ReceivedInv
<1>2. (MeIn' <=> MeIn) /\ Obj(0)' = Obj(0)
  BY SameServer
<1>3. progress = 0 /\ progress' = 0
  BY DEF ReadsHeader, DownloadInv, ClientTypeOK
<1>4. R = {}
  <2>1. IsFiniteSet(R) /\ Cardinality(R) = 0
    BY <1>1, <1>3, WorldFinite DEF ReceivedBytes
  <2>2. QED
    BY <2>1, FS_EmptySet
<1>5. {tiles'[j] : j \in 0 .. progress' - 1} = {}
  <2>1. 0 .. progress' - 1 = {}
    BY <1>3
  <2>2. QED
    BY <2>1
<1>6. \A k \in DOMAIN toClient' : \E u \in DOMAIN toClient : toClient'[k] = toClient[u]
  BY RemovedFrom
<1>7. ReceivedBytes(R)'
  BY <1>1, <1>2, <1>3, <1>4, <1>5, <1>6 DEF ReceivedBytes
<1>8. QED
  BY <1>7 DEF ReceivedInv

LEMMA ClientKeepsReceived ==
  ASSUME DownloadInv, BytesInv, ReceivedInv, toClient \in Seq(ToMe), UNCHANGED serverVars,
         NEW m, Takes(m), WorldMoves(m)
  PROVE  ReceivedInv'
<1>1. m = NoMsg => m \notin ToMe /\ m \notin Chunks
  BY MessageKinds, BytesOf
<1>2. CASE KeepsWorld(m)
  BY <1>2, TakingKeepsReceived DEF KeepsWorld, Takes, Deliverable
<1>3. CASE ReadsHeader(m)
  BY <1>1, <1>3, HeaderReceived DEF ReadsHeader, Takes, Deliverable
<1>4. CASE ReadsChunk(m)
  <2>1. PICK i \in DOMAIN toClient : m = toClient[i] /\ toClient' = RemoveAt(toClient, i)
    BY <1>1, <1>4 DEF ReadsChunk, Takes, Deliverable
  <2>2. QED
    BY <1>4, <2>1, ChunkReceived
<1>5. QED
  BY <1>2, <1>3, <1>4 DEF WorldMoves

-----------------------------------------------------------------------------
(* The order of the messages to the client *)

LEMMA WhereMessagesAre ==
  /\ At(HelloOk(Me)) = -2 /\ After(HelloOk(Me)) = -1
  /\ At(MapHeader(Me)) = -1 /\ After(MapHeader(Me)) = 0
  /\ \A m \in Chunks : At(m) = m.offset /\ After(m) = m.offset + m.size
  /\ Bye(Me) \notin Chunks /\ HelloOk(Me) # Bye(Me) /\ MapHeader(Me) # Bye(Me)
<1>1. /\ At(HelloOk(Me)) = -2 /\ After(HelloOk(Me)) = -1
      /\ At(MapHeader(Me)) = -1 /\ After(MapHeader(Me)) = 0
  BY DEF HelloOk, MapHeader, At, After
<1>2. \A m \in Chunks : m.type = "WORLD_DOWNLOAD_PACKET"
  BY DEF Chunks, Chunk
<1>3. \A m \in Chunks : At(m) = m.offset /\ After(m) = m.offset + m.size
  BY <1>2 DEF At, After
<1>4. Bye(Me).type = "SERVER_SHUTDOWN" /\ HelloOk(Me).type = "SERVER_HELLO"
      /\ MapHeader(Me).type = "WORLD_DOWNLOAD_START"
  BY DEF Bye, HelloOk, MapHeader
<1>5. QED
  BY <1>1, <1>2, <1>3, <1>4

\* Where the messages on the way end.
LastAt == IF toClient = <<>> THEN ClientAt ELSE After(toClient[Len(toClient)])

\* A message that begins there is sent.
LEMMA NextSent ==
  ASSUME OrderInv, Ordered, Ordered', toClient \in Seq(ToMe), NEW x \in ToMe, x # Bye(Me),
         toClient' = Append(toClient, x), Running \/ MeIn, At(x) = LastAt,
         MeIn' => ServerAt' = After(x), ClientAt' = ClientAt
  PROVE  OrderInv'
<1>1. /\ Len(toClient) \in Nat /\ DOMAIN toClient = 1 .. Len(toClient)
      /\ Len(toClient') = Len(toClient) + 1
      /\ DOMAIN toClient' = 1 .. Len(toClient) + 1
      /\ \A k \in DOMAIN toClient : toClient'[k] = toClient[k]
      /\ toClient'[Len(toClient) + 1] = x
  BY DownPlaces
<1>2. \A k \in DOMAIN toClient : toClient[k] # Bye(Me)
  BY DEF OrderInv
<1>3. \A k \in DOMAIN toClient' : toClient'[k] # Bye(Me)
  BY <1>1, <1>2
<1>4. toClient = <<>> <=> Len(toClient) = 0
  BY EmptySeq
<1>5. ASSUME NEW k \in DOMAIN toClient'
      PROVE  At(toClient'[k]) = IF k = 1 THEN ClientAt' ELSE After(toClient'[k - 1])
  <2>1. CASE k \in DOMAIN toClient
    <3>1. At(toClient[k]) = IF k = 1 THEN ClientAt ELSE After(toClient[k - 1])
      BY <1>2, <2>1 DEF OrderInv
    <3>2. toClient'[k] = toClient[k] /\ (k # 1 => toClient'[k - 1] = toClient[k - 1])
      BY <1>1, <2>1
    <3>3. QED
      BY <3>1, <3>2
  <2>2. CASE k = Len(toClient) + 1
    <3>1. toClient'[k] = x /\ (k = 1 <=> toClient = <<>>)
      BY <1>1, <1>4, <2>2
    <3>2. k # 1 => toClient'[k - 1] = toClient[Len(toClient)]
      <4>1. k - 1 = Len(toClient) /\ (k # 1 => Len(toClient) \in DOMAIN toClient)
        BY <1>1, <2>2
      <4>2. QED
        BY <1>1, <4>1
    <3>3. QED
      BY <3>1, <3>2 DEF LastAt
  <2>3. QED
    BY <1>1, <2>1, <2>2
<1>6. toClient' # <<>> /\ toClient'[Len(toClient')] = x
  BY <1>1, EmptySeq
<1>7. QED
  BY <1>3, <1>5, <1>6 DEF OrderInv

LEMMA ServerKeepsOrder ==
  ASSUME OneInv, OrderInv, toClient \in Seq(ToMe), ServerMoves, UNCHANGED <<clientVars, network>>
  PROVE  OrderInv'
<1> SUFFICES ASSUME Ordered' PROVE OrderInv'
  BY DEF OrderInv
<1>1. Ordered /\ ClientAt' = ClientAt /\ UNCHANGED phase
  BY DEF Ordered, ClientAt, clientVars
<1>2. /\ At(HelloOk(Me)) = -2 /\ After(HelloOk(Me)) = -1
      /\ At(MapHeader(Me)) = -1 /\ After(MapHeader(Me)) = 0
      /\ \A m \in Chunks : At(m) = m.offset /\ After(m) = m.offset + m.size /\ m # Bye(Me)
      /\ HelloOk(Me) # Bye(Me) /\ MapHeader(Me) # Bye(Me)
      /\ HelloOk(Me) \in ToMe /\ MapHeader(Me) \in ToMe /\ Bye(Me) \in ToMe /\ Chunks \subseteq ToMe
  BY WhereMessagesAre, BytesOf
<1>3. MeIn => ServerAt = LastAt
  BY <1>1 DEF OrderInv, LastAt
<1>4. CASE KeepsMe
  <2>1. MeIn => ServerAt' = ServerAt
    BY <1>4 DEF KeepsMe, ServerAt
  <2>2. QED
    BY <1>1, <1>4, <2>1 DEF ServerMoves, KeepsMe, OrderInv
<1>5. CASE RemovesMe
  BY <1>1, <1>5 DEF ServerMoves, RemovesMe, OrderInv
<1>6. CASE LetsMeIn /\ phase = "HELLO_SENT" /\ toClient = <<>>
  <2>1. LastAt = -2
    BY <1>6 DEF LastAt, ClientAt
  <2>2. ServerAt' = -1
    BY <1>6 DEF LetsMeIn, ServerAt
  <2>3. QED
    BY <1>1, <1>2, <1>6, <2>1, <2>2, NextSent DEF LetsMeIn
<1>7. CASE StartsMe /\ Obj(0).phase = "HELLO" /\ Obj(0).progress = 0
  <2>1. LastAt = -1
    BY <1>3, <1>7 DEF StartsMe, ServerAt
  <2>2. ServerAt' = 0
    BY <1>7 DEF StartsMe, ServerAt
  <2>3. QED
    BY <1>1, <1>2, <1>7, <2>1, <2>2, NextSent DEF StartsMe
<1>8. CASE SendsChunk /\ Obj(0).progress < WorldBytes
  <2>1. PICK x \in Chunks :
          /\ toClient' = Append(toClient, x)
          /\ x.offset = Obj(0).progress /\ Obj(0)'.progress = x.offset + x.size
          /\ Obj(0)'.phase # "HELLO"
    BY <1>8, ChunkSent
  <2>2. LastAt = x.offset
    BY <1>3, <1>8, <2>1 DEF SendsChunk, ServerAt
  <2>3. ServerAt' = x.offset + x.size
    BY <2>1 DEF ServerAt
  <2>4. At(x) = LastAt /\ ServerAt' = After(x) /\ x \in ToMe /\ x # Bye(Me)
    BY <1>2, <2>2, <2>3
  <2>5. QED
    BY <1>1, <1>8, <2>1, <2>4, NextSent DEF SendsChunk
<1>9. CASE TellsMe
  <2>1. /\ Len(toClient) \in Nat /\ DOMAIN toClient = 1 .. Len(toClient)
        /\ Len(toClient') = Len(toClient) + 1
        /\ DOMAIN toClient' = 1 .. Len(toClient) + 1
        /\ \A k \in DOMAIN toClient : toClient'[k] = toClient[k]
        /\ toClient'[Len(toClient) + 1] = Bye(Me)
    BY <1>2, <1>9, DownPlaces DEF TellsMe
  <2>2. \A k \in DOMAIN toClient : toClient[k] # Bye(Me)
    BY <1>1, <1>9 DEF OrderInv, TellsMe
  <2>3. ~MeIn' /\ ~Running'
    BY <1>9 DEF TellsMe, ServerMoves
  <2>4. \A k \in DOMAIN toClient' : toClient'[k] = Bye(Me) => k = Len(toClient')
    BY <2>1, <2>2
  <2>5. ASSUME NEW k \in DOMAIN toClient', toClient'[k] # Bye(Me)
        PROVE  At(toClient'[k]) = IF k = 1 THEN ClientAt' ELSE After(toClient'[k - 1])
    <3>1. k \in DOMAIN toClient /\ toClient'[k] = toClient[k]
      BY <2>1, <2>5
    <3>2. k # 1 => toClient'[k - 1] = toClient[k - 1]
      BY <2>1, <3>1
    <3>3. At(toClient[k]) = IF k = 1 THEN ClientAt ELSE After(toClient[k - 1])
      BY <1>1, <2>2, <3>1 DEF OrderInv
    <3>4. QED
      BY <1>1, <3>1, <3>2, <3>3
  <2>6. QED
    BY <2>3, <2>4, <2>5 DEF OrderInv
<1>10. QED
  BY <1>4, <1>5, <1>6, <1>7, <1>8, <1>9 DEF ServerMoves

\* In order, the client gets what it waits for.
LEMMA Expected ==
  ASSUME Ordered, LinkInv, DownloadInv, BytesInv, OrderInv, PrefixInv,
         1 \in DOMAIN toClient, NEW m, m = toClient[1], m # Bye(Me), WorldMoves(m)
  PROVE  /\ ClientAt' = After(m)
         /\ \/ KeepsWorld(m)
            \/ ReadsHeader(m) /\ m = MapHeader(Me)
            \/ ReadsChunk(m) /\ m.offset = progress /\ progress + m.size <= WorldBytes
<1>1. m \in ToMe /\ (m \in {HelloOk(Me), MapHeader(Me)} \/ m \in Chunks)
  <2>1. m \in ToMe
    BY ElementOfSeq, LenProperties DEF LinkInv, DownInv
  <2>2. QED
    BY <2>1, MessageKinds
<1>2. At(m) = ClientAt
  BY DEF OrderInv
<1>3. progress \in Nat /\ phase \in ConnectPhases
  BY DEF DownloadInv, ClientTypeOK, ConnectPhases
<1>4. In(m, toClient)
  BY DEF In
<1>5. MapHeader(Me) # HelloOk(Me) /\ HelloOk(Me) \notin Chunks /\ MapHeader(Me) \notin Chunks
      /\ m # NoMsg
  <2>1. HelloOk(Me) \in ToMe /\ MapHeader(Me) \in ToMe
    BY DEF ToMe
  <2>2. HelloOk(Me).type = "SERVER_HELLO" /\ MapHeader(Me).type = "WORLD_DOWNLOAD_START"
    BY DEF HelloOk, MapHeader
  <2>3. QED
    BY <1>1, <2>1, <2>2, MessageKinds
<1>6. CASE m = HelloOk(Me)
  <2>1. phase = "HELLO_SENT"
    BY <1>4, <1>6 DEF LinkInv, DownInv
  <2>2. KeepsWorld(m) /\ phase' = "DOWNLOAD_WORLD"
    BY <1>5, <1>6, <2>1 DEF WorldMoves, KeepsWorld, ReadsHeader, ReadsChunk
  <2>3. QED
    BY <1>6, <2>2, WhereMessagesAre DEF ClientAt
<1>7. CASE m = MapHeader(Me)
  <2>1. ClientAt = -1
    BY <1>2, <1>7, WhereMessagesAre
  <2>2. ~Early
    BY <1>5, <1>7 DEF LinkInv, DownInv
  <2>3. phase = "DOWNLOAD_WORLD_SENT"
    BY <1>3, <2>1, <2>2 DEF ClientAt, Early
  <2>4. ReadsHeader(m)
    BY <1>5, <1>7, <2>3 DEF WorldMoves, KeepsWorld, ReadsChunk
  <2>5. ClientAt' = progress /\ progress = 0
    BY <1>3, <2>3, <2>4 DEF ReadsHeader, ClientAt, DownloadInv
  <2>6. QED
    BY <1>7, <2>4, <2>5, WhereMessagesAre
<1>8. CASE m \in Chunks
  <2>1. m.offset \in Nat /\ m.size \in Nat \ {0} /\ Bytes(m) = m.offset .. m.offset + m.size - 1
    BY <1>8, BytesOf
  <2>2. ClientAt = m.offset
    BY <1>2, <1>8, WhereMessagesAre
  <2>3. phase \in {"DOWNLOADING_WORLD", "LETS_GO"} /\ progress = m.offset
    BY <1>3, <2>1, <2>2, PhasesAre DEF ClientAt
  <2>4. progress + m.size <= WorldBytes
    <3>1. Bytes(m) \subseteq 0 .. WorldBytes - 1
      BY DEF BytesInv
    <3>2. m.offset + m.size - 1 \in Bytes(m)
      BY <2>1
    <3>3. m.offset + m.size - 1 \in 0 .. WorldBytes - 1
      BY <3>1, <3>2
    <3>4. QED
      BY <2>1, <2>3, <3>3, ServerAssumption
  <2>5. phase = "DOWNLOADING_WORLD"
    <3>1. phase = "LETS_GO" => progress >= WorldBytes
      BY DEF DownloadInv, PrefixInv
    <3>2. QED
      BY <1>3, <2>1, <2>3, <2>4, <3>1, ServerAssumption
  <2>6. ReadsChunk(m)
    BY <1>5, <1>8, <2>5 DEF WorldMoves, KeepsWorld, ReadsHeader
  <2>7. ClientAt' = m.offset + m.size
    BY <2>3, <2>6 DEF ReadsChunk, ClientAt
  <2>8. QED
    BY <1>8, <2>3, <2>4, <2>6, <2>7, WhereMessagesAre
<1>9. QED
  BY <1>1, <1>6, <1>7, <1>8

\* The client takes the first message.
LEMMA ClientKeepsOrder ==
  ASSUME LinkInv, DownloadInv, BytesInv, OrderInv, PrefixInv, UNCHANGED <<serverVars, network>>,
         NEW m, Takes(m), WorldMoves(m)
  PROVE  OrderInv'
<1> SUFFICES ASSUME Ordered' PROVE OrderInv'
  BY DEF OrderInv
<1>1. /\ Ordered /\ toClient \in Seq(ToMe)
      /\ (MeIn' <=> MeIn) /\ ServerAt' = ServerAt /\ (Running' <=> Running)
  BY SameServer DEF Ordered, LinkInv, DownInv, ServerAt
<1>2. CASE m = NoMsg /\ toClient' = toClient
  <2>1. NoMsg \notin ToMe /\ NoMsg \notin Chunks /\ NoMsg # HelloOk(Me)
    BY MessageKinds, BytesOf
  <2>2. ClientAt' = ClientAt
    BY <1>2, <2>1 DEF WorldMoves, KeepsWorld, ReadsHeader, ReadsChunk
  <2>3. QED
    BY <1>1, <1>2, <2>2 DEF OrderInv
<1>3. CASE \E i \in Deliverable(toClient) : m = toClient[i] /\ toClient' = RemoveAt(toClient, i)
  <2>1. 1 \in DOMAIN toClient /\ m = toClient[1] /\ toClient' = RemoveAt(toClient, 1)
    BY <1>1, <1>3 DEF Deliverable, Ordered
  <2>2. /\ Len(toClient) \in Nat /\ DOMAIN toClient = 1 .. Len(toClient)
        /\ toClient' \in Seq(ToMe) /\ Len(toClient') = Len(toClient) - 1
        /\ DOMAIN toClient' = 1 .. Len(toClient) - 1
        /\ \A j \in DOMAIN toClient' : j + 1 \in DOMAIN toClient /\ toClient'[j] = toClient[j + 1]
    <3>1. /\ toClient' \in Seq(ToMe) /\ Len(toClient') = Len(toClient) - 1
          /\ \A j \in DOMAIN toClient' :
                j >= 1 => j + 1 \in DOMAIN toClient /\ toClient'[j] = toClient[j + 1]
      BY <1>1, <2>1, Removed
    <3>2. QED
      BY <1>1, <3>1, LenProperties
  <2>3. toClient' = <<>> <=> Len(toClient) = 1
    BY <2>2, EmptySeq
  <2>4. \A k \in DOMAIN toClient' : toClient'[k] = Bye(Me) => k = Len(toClient') /\ ~MeIn /\ ~Running
    BY <1>1, <2>2 DEF OrderInv
  <2>5. CASE m = Bye(Me)
    <3>1. Len(toClient) = 1 /\ ~MeIn
      BY <1>1, <2>1, <2>5 DEF OrderInv
    <3>2. DOMAIN toClient' = {}
      BY <2>2, <3>1
    <3>3. QED
      BY <1>1, <3>1, <3>2 DEF OrderInv
  <2>6. CASE m # Bye(Me)
    <3>1. ClientAt' = After(toClient[1])
      BY <1>1, <2>1, <2>6, Expected
    <3>2. ASSUME NEW k \in DOMAIN toClient', toClient'[k] # Bye(Me)
          PROVE  At(toClient'[k]) = IF k = 1 THEN ClientAt' ELSE After(toClient'[k - 1])
      <4>1. /\ k + 1 \in DOMAIN toClient /\ toClient'[k] = toClient[k + 1] /\ k + 1 # 1
            /\ (k + 1) - 1 = k
        BY <2>2
      <4>2. At(toClient[k + 1]) = After(toClient[k])
        BY <1>1, <3>2, <4>1 DEF OrderInv
      <4>3. k # 1 => toClient'[k - 1] = toClient[k]
        <5>1. k # 1 => k - 1 \in DOMAIN toClient' /\ (k - 1) + 1 = k
          BY <2>2
        <5>2. QED
          BY <2>2, <5>1
      <4>4. QED
        BY <3>1, <4>1, <4>2, <4>3
    <3>3. MeIn => ServerAt = After(toClient[Len(toClient)])
      <4>1. toClient # <<>>
        BY <2>1, EmptySeq
      <4>2. QED
        BY <1>1, <4>1 DEF OrderInv
    <3>4. toClient' # <<>> => toClient'[Len(toClient')] = toClient[Len(toClient)]
      <4>1. toClient' # <<>> => Len(toClient') \in DOMAIN toClient' /\ Len(toClient') + 1 = Len(toClient)
        <5>1. Len(toClient) \in Nat \ {0}
          BY <2>1, <2>2
        <5>2. QED
          BY <2>2, <2>3, <5>1
      <4>2. QED
        BY <2>2, <4>1
    <3>5. MeIn' => ServerAt' = IF toClient' = <<>> THEN ClientAt'
                               ELSE After(toClient'[Len(toClient')])
      BY <1>1, <2>3, <3>1, <3>3, <3>4
    <3>6. QED
      BY <1>1, <2>4, <3>2, <3>5 DEF OrderInv
  <2>7. QED
    BY <2>5, <2>6
<1>4. QED
  BY <1>2, <1>3 DEF Takes

LEMMA ClientKeepsPrefix ==
  ASSUME LinkInv, DownloadInv, BytesInv, OrderInv, PrefixInv, UNCHANGED network,
         NEW m, Takes(m), WorldMoves(m)
  PROVE  PrefixInv'
<1> SUFFICES ASSUME Ordered' PROVE PrefixInv'
  BY DEF PrefixInv
<1>1. Ordered
  BY DEF Ordered
<1>2. /\ phase \in {"DOWNLOADING_WORLD", "LETS_GO"} => worldBytes = WorldBytes
      /\ \A i \in 0 .. worldBytes - 1 : i < progress => tiles[i] = i
      /\ cFault \notin {"header", "overrun"}
  BY <1>1 DEF PrefixInv
<1>3. progress \in Nat /\ worldBytes \in Nat /\ DOMAIN tiles = 0 .. worldBytes - 1
  BY DEF DownloadInv, ClientTypeOK
<1>4. CASE KeepsWorld(m)
  BY <1>2, <1>4 DEF KeepsWorld, world, PrefixInv
<1>5. CASE ~KeepsWorld(m)
  <2>1. m # NoMsg /\ m # Bye(Me)
    <3>1. m \in ToMe \ {Bye(Me)} /\ NoMsg \notin ToMe
      BY <1>5, MessageKinds, WhereMessagesAre, BytesOf DEF WorldMoves, ReadsHeader, ReadsChunk
    <3>2. QED
      BY <3>1
  <2>2. 1 \in DOMAIN toClient /\ m = toClient[1]
    BY <1>1, <2>1 DEF Takes, Deliverable, Ordered
  <2>3. \/ ReadsHeader(m) /\ m = MapHeader(Me)
        \/ ReadsChunk(m) /\ m.offset = progress /\ progress + m.size <= WorldBytes
    BY <1>1, <1>5, <2>1, <2>2, Expected
  <2>4. CASE ReadsHeader(m) /\ m = MapHeader(Me)
    <3>1. m.type = "WORLD_DOWNLOAD_START" /\ m.bytes = WorldBytes
      BY <2>4 DEF MapHeader
    <3>2. worldBytes' = WorldBytes /\ cFault' = "none"
      BY <2>1, <2>4, <3>1 DEF ReadsHeader, SizesReadFrom, HeaderOutcomes, OfType
    <3>3. progress' = 0
      BY <1>3, <2>4 DEF ReadsHeader, DownloadInv
    <3>4. QED
      BY <3>2, <3>3, ServerAssumption DEF PrefixInv
  <2>5. CASE ReadsChunk(m) /\ m.offset = progress /\ progress + m.size <= WorldBytes
    <3>1. /\ worldBytes = WorldBytes /\ worldBytes' = worldBytes /\ progress' = progress + m.size
          /\ tiles' = WithChunk(m)
          /\ m \in Chunks /\ m.size \in Nat
      BY <1>2, <2>5, BytesOf DEF ReadsChunk
    <3>2. cFault' = "none"
      <4>1. ~(progress + m.size > worldBytes)
        BY <1>3, <2>5, <3>1
      <4>2. QED
        BY <2>5, <4>1 DEF ReadsChunk
    <3>3. ASSUME NEW i \in 0 .. worldBytes - 1, i < progress' PROVE tiles'[i] = i
      <4>1. tiles'[i] = IF i \in progress .. progress + m.size - 1
                        THEN m.offset + (i - progress) ELSE tiles[i]
        BY <1>3, <3>1 DEF WithChunk
      <4>2. CASE i < progress
        BY <1>2, <1>3, <4>1, <4>2
      <4>3. CASE i >= progress
        <5>1. i \in progress .. progress + m.size - 1
          BY <1>3, <3>1, <3>3, <4>3
        <5>2. m.offset + (i - progress) = i
          BY <1>3, <2>5, <4>3
        <5>3. QED
          BY <4>1, <5>1, <5>2
      <4>4. QED
        BY <1>3, <4>2, <4>3
    <3>4. QED
      BY <3>1, <3>2, <3>3 DEF PrefixInv
  <2>6. QED
    BY <2>3, <2>4, <2>5
<1>6. QED
  BY <1>4, <1>5

-----------------------------------------------------------------------------
(* Who is gone *)

\* In order, the first message is handled first.
LEMMA ServerKeepsGhosts ==
  ASSUME OneInv, GhostInv, UpInv, NEW i \in Deliverable(toServer), HoldsAfter(toServer[i]),
         Running' => Running, toServer' = RemoveAt(toServer, i),
         UNCHANGED <<clientVars, network, guestsDone>>
  PROVE  GhostInv'
<1>1. Gone' = Gone /\ GuestMsgs' = GuestMsgs /\ guestsDone \subseteq GuestMsgs
      /\ guestsDone' = guestsDone
  BY DEF Gone, GuestMsgs, clientVars, GhostInv
<1> SUFFICES ASSUME Ordered', NEW p \in Gone
             PROVE  /\ \A k \in DOMAIN toServer' :
                         toServer'[k] = HelloOf(p) =>
                            \E j \in DOMAIN toServer' : k < j /\ toServer'[j] = Goodbye(p)
                    /\ (Running /\ Holds(p))' => In(Goodbye(p), toServer')
  BY <1>1 DEF GhostInv
<1>2. Ordered /\ i = 1 /\ 1 \in DOMAIN toServer /\ toServer \in Seq(ToServer)
  BY DEF Ordered, Deliverable, UpInv
<1>3. /\ Len(toServer) \in Nat /\ DOMAIN toServer = 1 .. Len(toServer)
      /\ DOMAIN toServer' = 1 .. Len(toServer) - 1
      /\ \A j \in DOMAIN toServer' : j + 1 \in DOMAIN toServer /\ toServer'[j] = toServer[j + 1]
  <2>1. /\ toServer' \in Seq(ToServer) /\ Len(toServer') = Len(toServer) - 1
        /\ \A j \in DOMAIN toServer' :
              j >= 1 => j + 1 \in DOMAIN toServer /\ toServer'[j] = toServer[j + 1]
    BY <1>2, Removed
  <2>2. QED
    BY <1>2, <2>1, LenProperties
<1>4. \A j \in DOMAIN toServer : j > 1 => j - 1 \in DOMAIN toServer' /\ toServer'[j - 1] = toServer[j]
  <2> SUFFICES ASSUME NEW j \in DOMAIN toServer, j > 1
               PROVE  j - 1 \in DOMAIN toServer' /\ toServer'[j - 1] = toServer[j]
    OBVIOUS
  <2>1. j - 1 \in DOMAIN toServer' /\ (j - 1) + 1 = j
    BY <1>3
  <2>2. QED
    BY <1>3, <2>1
<1>5. \A k \in DOMAIN toServer :
        toServer[k] = HelloOf(p) => \E j \in DOMAIN toServer : k < j /\ toServer[j] = Goodbye(p)
  BY <1>2 DEF GhostInv
<1>6. ASSUME NEW k \in DOMAIN toServer', toServer'[k] = HelloOf(p)
      PROVE  \E j \in DOMAIN toServer' : k < j /\ toServer'[j] = Goodbye(p)
  <2>1. PICK j \in DOMAIN toServer : k + 1 < j /\ toServer[j] = Goodbye(p)
    BY <1>3, <1>5, <1>6
  <2>2. j > 1 /\ k < j - 1
    BY <1>3, <2>1
  <2>3. QED
    BY <1>4, <2>1, <2>2
<1>7. ASSUME Running', Holds(p)' PROVE In(Goodbye(p), toServer')
  <2>1. \E j \in DOMAIN toServer : j > 1 /\ toServer[j] = Goodbye(p)
    <3>1. CASE toServer[1] = HelloOf(p)
      BY <1>2, <1>5, <3>1
    <3>2. CASE Holds(p) /\ toServer[1] # Goodbye(p)
      <4>1. In(Goodbye(p), toServer)
        BY <1>2, <1>7, <3>2 DEF GhostInv
      <4>2. QED
        BY <1>3, <3>2, <4>1 DEF In
    <3>3. QED
      BY <1>2, <1>7, <3>1, <3>2 DEF HoldsAfter
  <2>2. QED
    BY <1>4, <2>1 DEF In
<1>8. QED
  BY <1>6, <1>7

\* The server ticks or shuts down.
LEMMA TurnKeepsGhosts ==
  ASSUME GhostInv, Turned, \A p : Holds(p)' => Holds(p),
         UNCHANGED <<clientVars, network, toServer, guestsDone>>
  PROVE  GhostInv'
<1>1. Gone' = Gone /\ GuestMsgs' = GuestMsgs
  BY DEF Gone, GuestMsgs, clientVars
<1>2. QED
  BY <1>1 DEF Turned, GhostInv, Ordered

\* A message is added to those on the way to the server.
LEMMA Followed ==
  ASSUME toServer \in Seq(ToServer), NEW x \in ToServer, toServer' = Append(toServer, x), NEW p
  PROVE  /\ In(Goodbye(p), toServer) \/ x = Goodbye(p) => In(Goodbye(p), toServer')
         /\ (/\ \A k \in DOMAIN toServer :
                  toServer[k] = HelloOf(p) =>
                      \E j \in DOMAIN toServer : k < j /\ toServer[j] = Goodbye(p)
             /\ x # HelloOf(p))
            \/ x = Goodbye(p)
            => \A k \in DOMAIN toServer' :
                  toServer'[k] = HelloOf(p) =>
                      \E j \in DOMAIN toServer' : k < j /\ toServer'[j] = Goodbye(p)
<1>1. /\ Len(toServer) \in Nat /\ DOMAIN toServer = 1 .. Len(toServer)
      /\ DOMAIN toServer' = 1 .. Len(toServer) + 1
      /\ \A k \in 1 .. Len(toServer) : toServer'[k] = toServer[k]
      /\ toServer'[Len(toServer) + 1] = x
  BY AppendProperties, LenProperties
<1>2. /\ \A k \in DOMAIN toServer' : k \in DOMAIN toServer \/ k = Len(toServer) + 1
      /\ Len(toServer) + 1 \in DOMAIN toServer'
      /\ \A k \in DOMAIN toServer : k \in DOMAIN toServer' /\ k < Len(toServer) + 1
                                    /\ toServer'[k] = toServer[k]
  BY <1>1
<1>3. In(Goodbye(p), toServer) \/ x = Goodbye(p) => In(Goodbye(p), toServer')
  BY <1>1, <1>2 DEF In
<1>4. ASSUME x = Goodbye(p), NEW k \in DOMAIN toServer', toServer'[k] = HelloOf(p)
      PROVE  \E j \in DOMAIN toServer' : k < j /\ toServer'[j] = Goodbye(p)
  <2>1. k \in DOMAIN toServer
    BY <1>1, <1>2, <1>4, MessagesDiffer
  <2>2. QED
    BY <1>1, <1>2, <1>4, <2>1
<1>5. ASSUME x # HelloOf(p), NEW k \in DOMAIN toServer', toServer'[k] = HelloOf(p),
             \A l \in DOMAIN toServer :
                toServer[l] = HelloOf(p) =>
                    \E j \in DOMAIN toServer : l < j /\ toServer[j] = Goodbye(p)
      PROVE  \E j \in DOMAIN toServer' : k < j /\ toServer'[j] = Goodbye(p)
  <2>1. k \in DOMAIN toServer /\ toServer[k] = HelloOf(p)
    BY <1>1, <1>2, <1>5
  <2>2. PICK j \in DOMAIN toServer : k < j /\ toServer[j] = Goodbye(p)
    BY <1>5, <2>1
  <2>3. QED
    BY <1>2, <2>2
<1>6. QED
  BY <1>3, <1>4, <1>5

\* The client says something, or stops.
LEMMA ClientKeepsGhosts ==
  ASSUME GhostInv, LinkInv, ClientTypeOK, NEW m, StageMoves(m),
         UNCHANGED <<serverVars, network, guestsDone>>
  PROVE  GhostInv'
<1>1. /\ guestsDone \subseteq GuestMsgs /\ GuestMsgs' = GuestMsgs /\ toServer \in Seq(ToServer)
      /\ (Running' <=> Running) /\ \A p : Holds(p)' <=> Holds(p)
  BY SameServer DEF GhostInv, GuestMsgs, LinkInv, UpInv
<1> SUFFICES ASSUME Ordered', NEW p \in Gone'
             PROVE  /\ \A k \in DOMAIN toServer' :
                         toServer'[k] = HelloOf(p) =>
                            \E j \in DOMAIN toServer' : k < j /\ toServer'[j] = Goodbye(p)
                    /\ Running /\ Holds(p) => In(Goodbye(p), toServer')
  BY <1>1 DEF GhostInv
<1>2. Ordered
  BY DEF Ordered
<1>3. p \in Gone =>
        /\ \A k \in DOMAIN toServer :
             toServer[k] = HelloOf(p) =>
                \E j \in DOMAIN toServer : k < j /\ toServer[j] = Goodbye(p)
        /\ Running /\ Holds(p) => In(Goodbye(p), toServer)
  BY <1>2 DEF GhostInv
<1>4. p \notin Gone => p = Me /\ cState \notin {"DISCONNECTED", "DEAD"}
                       /\ cState' \in {"DISCONNECTED", "DEAD"}
  BY DEF Gone
<1>5. p = Me => cState' \in {"DISCONNECTED", "DEAD"}
  BY DEF Gone
<1>6. HelloOf(Me) \in ToServer /\ StartMsg \in ToServer /\ Goodbye(Me) \in ToServer
  BY MessageKinds
<1>7. CASE UNCHANGED toServer
  <2>1. CASE p \in Gone
    BY <1>3, <1>7, <2>1
  <2>2. CASE p \notin Gone
    <3>1. p = Me /\ cState \in {"RESOLVING_ADDRESS", "FATAL"}
      BY <1>4, <1>7, <2>2 DEF StageMoves, Says, LinkInv, StageInv, ClientTypeOK, ClientStates
    <3>2. ~In(HelloOf(Me), toServer) /\ ~Holds(Me)
      BY <3>1 DEF LinkInv, StageInv, UpInv, MeIn
    <3>3. QED
      BY <1>7, <3>1, <3>2 DEF In
  <2>3. QED
    BY <2>1, <2>2
<1>8. CASE Says(HelloOf(Me)) /\ cState = "CONNECTING" /\ UNCHANGED cState
  <2>1. p # Me /\ p \in Gone /\ HelloOf(Me) # HelloOf(p)
    BY <1>4, <1>5, <1>8, MessagesDiffer
  <2>2. QED
    BY <1>1, <1>3, <1>6, <1>8, <2>1, Followed DEF Says
<1>9. CASE Says(StartMsg) /\ UNCHANGED cState
  <2>1. p \in Gone /\ StartMsg # HelloOf(p)
    BY <1>4, <1>9, MessagesDiffer
  <2>2. QED
    BY <1>1, <1>3, <1>6, <1>9, <2>1, Followed DEF Says
<1>10. CASE Says(Goodbye(Me))
  <2>1. CASE p = Me
    BY <1>1, <1>6, <1>10, <2>1, Followed DEF Says
  <2>2. CASE p # Me
    <3>1. p \in Gone /\ Goodbye(Me) # HelloOf(p)
      BY <1>4, <2>2, MessagesDiffer
    <3>2. QED
      BY <1>1, <1>3, <1>6, <1>10, <3>1, Followed DEF Says
  <2>3. QED
    BY <2>1, <2>2
<1>11. QED
  BY <1>7, <1>8, <1>9, <1>10 DEF StageMoves

\* A guest says something.
LEMMA GuestKeepsGhosts ==
  ASSUME GhostInv, UpInv, GuestSends
  PROVE  GhostInv'
<1>1. PICK m \in GuestMsgs \ guestsDone :
        /\ m.type = "HELLO" => Goodbye(m.from) \notin guestsDone
        /\ toServer' = Append(toServer, m)
        /\ guestsDone' = guestsDone \cup {m}
        /\ UNCHANGED <<serverVars, clientVars, network, toClient>>
  BY DEF GuestSends
<1>2. PICK q \in Peers \ {Me} : m = HelloOf(q) \/ m = Goodbye(q)
  BY DEF GuestMsgs, HelloOf
<1>3. /\ m \in ToServer /\ toServer \in Seq(ToServer)
      /\ (Running' <=> Running) /\ \A p : Holds(p)' <=> Holds(p)
  BY <1>1, <1>2, SameServer DEF ToServer, UpInv
<1>4. /\ guestsDone' \subseteq GuestMsgs' /\ GuestMsgs' = GuestMsgs /\ (Ordered' <=> Ordered)
      /\ UNCHANGED cState
  BY <1>1 DEF GhostInv, GuestMsgs, Ordered, clientVars
<1> SUFFICES ASSUME Ordered, NEW p \in Gone'
             PROVE  /\ \A k \in DOMAIN toServer' :
                         toServer'[k] = HelloOf(p) =>
                            \E j \in DOMAIN toServer' : k < j /\ toServer'[j] = Goodbye(p)
                    /\ Running /\ Holds(p) => In(Goodbye(p), toServer')
  BY <1>3, <1>4 DEF GhostInv
<1>5. p \in Gone \/ m = Goodbye(p)
  BY <1>1, <1>4 DEF Gone
<1>6. CASE m = Goodbye(p)
  BY <1>1, <1>3, <1>6, Followed
<1>7. CASE p \in Gone /\ m # Goodbye(p)
  <2>1. m # HelloOf(p)
    <3>1. SUFFICES ASSUME m = HelloOf(p) PROVE FALSE
      OBVIOUS
    <3>2. p = q /\ m.type = "HELLO" /\ m.from = p
      BY <1>2, <3>1, MessagesDiffer DEF HelloOf
    <3>3. Goodbye(p) \notin guestsDone /\ p # Me
      BY <1>1, <1>2, <3>2
    <3>4. QED
      BY <1>7, <3>3 DEF Gone
  <2>2. /\ \A k \in DOMAIN toServer :
             toServer[k] = HelloOf(p) =>
                \E j \in DOMAIN toServer : k < j /\ toServer[j] = Goodbye(p)
        /\ Running /\ Holds(p) => In(Goodbye(p), toServer)
    BY <1>7 DEF GhostInv
  <2>3. QED
    BY <1>1, <1>3, <2>1, <2>2, Followed
<1>8. QED
  BY <1>5, <1>6, <1>7

-----------------------------------------------------------------------------
(* The socket, whatever the server does *)

\* Only who has not said hello destroys the socket and goes on.
SocketInv ==
    /\ toServer \in Seq(ToServer)
    /\ cState \in {"RESOLVING_ADDRESS", "FATAL"} => phase = "HELLO"
    /\ phase = "HELLO" => Me \notin admitted /\ ~In(HelloOf(Me), toServer)
    /\ socket = "destroyed" /\ ~exited => phase = "HELLO" /\ cState = "DEAD"
    /\ cFault = "socket" => phase = "HELLO"

LEMMA ClientKeepsSocket ==
  ASSUME SocketInv, ClientSends, admitted' = admitted,
         \/ \E m : TickNetwork(m)
         \/ ResolveAddress \/ Quit \/ TickFatal \/ PollDestroyedSocket
  PROVE  SocketInv'
<1>1. /\ toServer \in Seq(ToServer)
      /\ HelloOf(Me) \in ToServer /\ StartMsg \in ToServer /\ Goodbye(Me) \in ToServer
      /\ HelloMsg(PlayerName) = HelloOf(Me) /\ DisconnectMsg = Goodbye(Me)
      /\ StartMsg # HelloOf(Me) /\ Goodbye(Me) # HelloOf(Me)
  BY MessageKinds, MessagesDiffer DEF SocketInv
<1>2. /\ out' = {} => toServer' = toServer
      /\ \A x \in ToServer : out' = {x} => toServer' = Append(toServer, x)
  BY <1>1, ClientSaid DEF Says
<1>3. ASSUME out' \in {{}, {StartMsg}, {Goodbye(Me)}, {HelloOf(Me)}}
      PROVE  /\ toServer' \in Seq(ToServer)
             /\ In(HelloOf(Me), toServer') => In(HelloOf(Me), toServer) \/ out' = {HelloOf(Me)}
  <2>1. CASE out' = {}
    BY <1>1, <1>2, <2>1
  <2>2. ASSUME NEW x \in ToServer, out' = {x}
        PROVE  /\ toServer' \in Seq(ToServer)
               /\ In(HelloOf(Me), toServer') => In(HelloOf(Me), toServer) \/ out' = {HelloOf(Me)}
    <3>1. toServer' = Append(toServer, x)
      BY <1>2, <2>2
    <3>2. toServer' \in Seq(ToServer) /\ \A y : In(y, toServer') <=> In(y, toServer) \/ y = x
      BY <1>1, <3>1, UpAppended
    <3>3. QED
      BY <2>2, <3>2
  <2>3. QED
    BY <1>1, <1>3, <2>1, <2>2
<1>4. ASSUME NEW m, TickNetwork(m) PROVE SocketInv'
  <2>1. CASE SendHello(m)
    BY <1>1, <1>3, <2>1 DEF SendHello, Connecting, Alive, process, SocketInv
  <2>2. CASE AwaitHello(m)
    BY <1>1, <1>3, <2>2 DEF AwaitHello, Connecting, Alive, process, SocketInv
  <2>3. CASE RequestWorld(m)
    BY <1>1, <1>3, <2>3 DEF RequestWorld, Connecting, Alive, process, SocketInv
  <2>4. CASE AwaitHeader(m)
    BY <1>1, <1>3, <2>4 DEF AwaitHeader, HeaderOutcomes, Connecting, Alive, SocketInv
  <2>5. CASE DownloadChunk(m)
    BY <1>1, <1>3, <2>5 DEF DownloadChunk, Connecting, Alive, SocketInv
  <2>6. CASE EnterGame(m) \/ Play(m)
    BY <1>1, <1>3, <2>6 DEF EnterGame, Play, Connecting, Alive, process, SocketInv
  <2>7. CASE ServerGone(m)
    BY <1>1, <1>3, <2>7 DEF ServerGone, Alive, process, SocketInv
  <2>8. QED
    BY <1>4, <2>1, <2>2, <2>3, <2>4, <2>5, <2>6, <2>7 DEF TickNetwork
<1>5. CASE ResolveAddress
  BY <1>1, <1>3, <1>5 DEF ResolveAddress, Alive, process, SocketInv
<1>6. CASE Quit
  BY <1>1, <1>3, <1>6 DEF Quit, Shutdown, Alive, SocketInv
<1>7. CASE TickFatal
  BY <1>1, <1>3, <1>7 DEF TickFatal, Shutdown, Alive, SocketInv
<1>8. CASE PollDestroyedSocket
  BY <1>1, <1>3, <1>8 DEF PollDestroyedSocket, Alive, SocketInv
<1>9. QED
  BY <1>4, <1>5, <1>6, <1>7, <1>8

\* The server handles a message: only a hello lets somebody in.
LEMMA ServerKeepsSocket ==
  ASSUME SocketInv, UNCHANGED clientVars,
         NEW i \in DOMAIN toServer, Receive(toServer[i]), toServer' = RemoveAt(toServer, i)
  PROVE  SocketInv'
<1>1. PICK m : m = toServer[i]
  OBVIOUS
<1>2. /\ m \in ToServer /\ In(m, toServer)
      /\ toServer' \in Seq(ToServer)
      /\ \A y : In(y, toServer') => In(y, toServer)
  <2>1. toServer \in Seq(ToServer)
    BY DEF SocketInv
  <2>2. m \in ToServer
    BY <1>1, <2>1, ElementOfSeq, LenProperties
  <2>3. toServer' \in Seq(ToServer) /\ \A y : In(y, toServer') => In(y, toServer)
    BY <2>1, RemovedMessages
  <2>4. QED
    BY <1>1, <2>2, <2>3 DEF In
<1>3. UNCHANGED <<cState, phase, socket, exited, cFault>>
  BY DEF clientVars
<1>4. ASSUME phase = "HELLO" PROVE Me \notin admitted'
  <2>1. m # HelloOf(Me)
    BY <1>2, <1>4 DEF SocketInv
  <2>2. m \in Hello => m.from # Me
    <3>1. m \in Hello => \E p \in Peers : m = HelloOf(p)
      BY <1>2 DEF ToServer, Hello, Goodbye, StartMsg
    <3>2. \A p : HelloOf(p).from = p
      BY DEF HelloOf
    <3>3. QED
      BY <2>1, <3>1, <3>2
  <2>3. admitted' \subseteq admitted \cup (IF m \in Hello THEN {m.from} ELSE {})
    BY <1>1 DEF Receive, ClientNew, RejectHello, AcceptHello, OverrunSlots, IgnoreRequest, ClientMessage
  <2>4. QED
    BY <1>4, <2>2, <2>3 DEF SocketInv
<1>5. QED
  BY <1>2, <1>3, <1>4 DEF SocketInv

\* A message is added or lost, or nothing of this changes.
LEMMA OthersKeepSocket ==
  ASSUME SocketInv, UNCHANGED clientVars, admitted' = admitted,
         UNCHANGED toServer \/ GuestSends \/ LoseMessage
  PROVE  SocketInv'
<1>1. UNCHANGED <<cState, phase, socket, exited, cFault>> /\ toServer \in Seq(ToServer)
  BY DEF clientVars, SocketInv
<1>2. /\ toServer' \in Seq(ToServer)
      /\ In(HelloOf(Me), toServer') => In(HelloOf(Me), toServer)
  <2>1. CASE UNCHANGED toServer
    BY <1>1, <2>1
  <2>2. CASE GuestSends
    <3>1. PICK m \in GuestMsgs : toServer' = Append(toServer, m)
      BY <2>2 DEF GuestSends
    <3>2. PICK q \in Peers \ {Me} : m = HelloOf(q) \/ m = Goodbye(q)
      BY DEF GuestMsgs, HelloOf
    <3>3. m \in ToServer /\ m # HelloOf(Me)
      BY <3>2, MessagesDiffer DEF ToServer
    <3>4. QED
      BY <1>1, <3>1, <3>3, UpAppended
  <2>3. CASE LoseMessage
    BY <1>1, <2>3, RemovedMessages DEF LoseMessage
  <2>4. QED
    BY <2>1, <2>2, <2>3
<1>3. QED
  BY <1>1, <1>2 DEF SocketInv

LEMMA SocketInit == SessionInit => SocketInv
<1> SUFFICES ASSUME SessionInit PROVE SocketInv
  OBVIOUS
<1>1. toServer \in Seq(ToServer) /\ DOMAIN toServer = {}
  BY EmptySeq DEF SessionInit
<1>2. QED
  BY <1>1 DEF SessionInit, ServerInit, ClientInit, SocketInv, In

LEMMA SocketInductive ==
  ASSUME SocketInv, [SessionNext]_sessionVars
  PROVE  SocketInv'
<1>1. CASE ServerHandles
  BY <1>1, ServerKeepsSocket DEF ServerHandles, Deliverable
<1>2. CASE ServerDownloads \/ ServerIdles \/ ServerShutsDown
  BY <1>2, OthersKeepSocket
  DEF ServerDownloads, TickDownloads, ServerIdles, NoMessage, ServerShutsDown,
      BeginShutdown, ShutdownSlot, FinishShutdown
<1>3. CASE ClientHandles \/ ClientTicks \/ ClientStops
  BY <1>3, ClientKeepsSocket DEF ClientHandles, ClientTicks, ClientStops, serverVars
<1>4. CASE GuestSends \/ LoseMessage
  BY <1>4, OthersKeepSocket DEF GuestSends, LoseMessage, serverVars
<1>5. CASE UNCHANGED sessionVars
  BY <1>5, OthersKeepSocket DEF sessionVars, serverVars
<1>6. QED
  BY <1>1, <1>2, <1>3, <1>4, <1>5 DEF SessionNext

\* SocketUsedUp for every server and every network: the socket is used once
\* destroyed only by a client that never said hello.
THEOREM SocketCorrect == SessionSpec => []SocketUsedUp
<1>1. SocketInv => SocketUsedUp
  BY DEF SocketInv, SocketUsedUp
<1>2. QED
  BY <1>1, SocketInit, SocketInductive, PTL DEF SessionSpec

-----------------------------------------------------------------------------
(* The session *)

\* The invariant of a session with a server that takes one client.
SessionInv ==
    /\ OneInv /\ DownloadConsistent
    /\ DownloadInv
    /\ LinkInv
    /\ BytesInv /\ ReceivedInv
    /\ OrderInv /\ PrefixInv
    /\ GhostInv

\* A step of the session is one of the server and one of the client.
LEMMA StepsOfBoth ==
  ASSUME toClient \in Seq(ToMe), [SessionNext]_sessionVars
  PROVE  [ServerNext]_serverVars /\ [ClientNext]_clientVars
<1>1. ToMe \subseteq ServerMsgs
  BY MessageKinds
<1>2. \A i \in DOMAIN toClient : toClient[i] \in ServerMsgs
  BY <1>1, ElementOfSeq, LenProperties
<1>3. CASE ServerHandles
  BY <1>3 DEF ServerHandles, ServerNext, Receive
<1>4. CASE ServerDownloads \/ ServerIdles \/ ServerShutsDown
  BY <1>4 DEF ServerDownloads, ServerIdles, ServerShutsDown, ServerNext
<1>5. CASE ClientHandles \/ ClientTicks \/ ClientStops
  BY <1>2, <1>5 DEF ClientHandles, ClientTicks, ClientStops, ClientNext, Deliverable
<1>6. CASE GuestSends \/ LoseMessage \/ UNCHANGED sessionVars
  BY <1>6 DEF GuestSends, LoseMessage, sessionVars
<1>7. QED
  BY <1>3, <1>4, <1>5, <1>6 DEF SessionNext

LEMMA SessionInitOK == SessionInit => SessionInv
<1> SUFFICES ASSUME SessionInit PROVE SessionInv
  OBVIOUS
<1>1. ServerInit /\ ClientInit /\ toClient = <<>> /\ toServer = <<>> /\ guestsDone = {}
  BY DEF SessionInit
<1>2. OneInv /\ DownloadConsistent /\ DownloadInv /\ LinkInv
  BY <1>1, OneInit, InvInit, ClientInitOK, LinkInit DEF Inv
<1>3. DOMAIN toClient = {} /\ DOMAIN toServer = {} /\ ~MeIn /\ numClients = 0
  BY <1>1, EmptySeq DEF ServerInit, MeIn, Holds
<1>4. BytesInv /\ OrderInv
  BY <1>3 DEF BytesInv, OrderInv
<1>5. ReceivedInv
  <2>1. progress = 0 /\ worldBytes = 0
    BY <1>1 DEF ClientInit
  <2>2. worldBytes # WorldBytes
    BY <2>1, ServerAssumption
  <2>3. Cardinality({}) = 0
    BY FS_EmptySet
  <2>4. ReceivedBytes({})
    BY <1>3, <2>1, <2>2, <2>3 DEF ReceivedBytes
  <2>5. QED
    BY <2>4 DEF ReceivedInv
<1>6. PrefixInv
  BY <1>1 DEF ClientInit, PrefixInv
<1>7. GhostInv
  BY <1>1, <1>3 DEF GhostInv, Holds
<1>8. QED
  BY <1>2, <1>4, <1>5, <1>6, <1>7 DEF SessionInv

\* The part of the server's and of the client's own.
LEMMA OwnInductive ==
  ASSUME TakesOne, SessionInv, [SessionNext]_sessionVars
  PROVE  OneInv' /\ DownloadConsistent' /\ DownloadInv'
<1>1. [ServerNext]_serverVars /\ [ClientNext]_clientVars
  BY StepsOfBoth DEF SessionInv, LinkInv, DownInv
<1>2. OneInv' /\ DownloadInv'
  BY <1>1, OneInductive, ClientNextOK DEF SessionInv
<1>3. ServerTypeOK /\ Inv
  BY DEF SessionInv, OneInv, Inv
<1>4. Inv'
  BY <1>1, <1>3, InvInductive
<1>5. QED
  BY <1>2, <1>4 DEF Inv

\* The server handles a message.
LEMMA HandlingKeepsSession ==
  ASSUME TakesOne, OwnAddresses, SessionInv, OneInv', ServerHandles
  PROVE  LinkInv' /\ BytesInv' /\ ReceivedInv' /\ OrderInv' /\ PrefixInv' /\ GhostInv'
<1>1. PICK i \in Deliverable(toServer) :
        /\ Receive(toServer[i])
        /\ toServer' = RemoveAt(toServer, i)
        /\ ServerSends
        /\ UNCHANGED <<clientVars, network, guestsDone>>
  BY DEF ServerHandles
<1>2. i \in DOMAIN toServer /\ toServer \in Seq(ToServer) /\ toClient \in Seq(ToMe)
  BY DEF Deliverable, SessionInv, LinkInv, UpInv, DownInv
<1>3. toServer[i] \in ToServer /\ In(toServer[i], toServer)
  BY <1>2, ElementOfSeq, LenProperties DEF In
<1>4. netMaxPlayers <= 1
  BY DEF SessionInv, OneInv, ServerTypeOK, TakesOne
<1>5. Handled(toServer[i]) /\ HoldsAfter(toServer[i])
  BY <1>1, <1>2, <1>3, <1>4, MessageHandled DEF SessionInv
<1>6. LinkInv'
  BY <1>1, <1>2, <1>5, ServerKeepsLink DEF SessionInv
<1>7. ServerMoves
  BY <1>3, <1>5, HandledMoves DEF SessionInv
<1>8. BytesInv' /\ ReceivedInv'
  BY <1>1, <1>2, <1>7, ServerKeepsBytes, ServerKeepsReceived DEF SessionInv
<1>9. OrderInv'
  BY <1>1, <1>2, <1>7, ServerKeepsOrder DEF SessionInv
<1>10. PrefixInv'
  BY <1>1 DEF SessionInv, PrefixInv, Ordered, clientVars
<1>11. GhostInv'
  BY <1>1, <1>5, <1>7, ServerKeepsGhosts DEF SessionInv, LinkInv, ServerMoves
<1>12. QED
  BY <1>6, <1>8, <1>9, <1>10, <1>11

\* The server ticks or shuts down.
LEMMA TurnKeepsSession ==
  ASSUME SessionInv, OneInv', ServerDownloads \/ ServerIdles \/ ServerShutsDown
  PROVE  LinkInv' /\ BytesInv' /\ ReceivedInv' /\ OrderInv' /\ PrefixInv' /\ GhostInv'
<1>1. UNCHANGED <<clientVars, network, toServer, guestsDone>> /\ toClient \in Seq(ToMe)
  BY DEF ServerDownloads, ServerIdles, ServerShutsDown, SessionInv, LinkInv, DownInv
<1>2. Turned /\ \A p : Holds(p)' => Holds(p)
  BY <1>1, ServerTurned DEF SessionInv, LinkInv
<1>3. LinkInv' /\ ServerMoves
  BY <1>1, <1>2, TurnKeepsLink, TurnedMoves DEF SessionInv
<1>4. BytesInv' /\ ReceivedInv'
  BY <1>1, <1>3, ServerKeepsBytes, ServerKeepsReceived DEF SessionInv
<1>5. OrderInv'
  BY <1>1, <1>3, ServerKeepsOrder DEF SessionInv
<1>6. PrefixInv'
  BY <1>1 DEF SessionInv, PrefixInv, Ordered, clientVars
<1>7. GhostInv'
  BY <1>1, <1>2, TurnKeepsGhosts DEF SessionInv
<1>8. QED
  BY <1>3, <1>4, <1>5, <1>6, <1>7

\* What the client does is one of the moves, with a message or without.
LEMMA ClientMoves ==
  ASSUME SessionInv, ClientHandles \/ ClientTicks \/ ClientStops
  PROVE  \E m : Takes(m) /\ StageMoves(m) /\ WorldMoves(m)
<1>1. UNCHANGED <<serverVars, network, guestsDone>> /\ ClientSends
  BY DEF ClientHandles, ClientTicks, ClientStops
<1>2. /\ toClient \in Seq(ToMe) /\ toServer \in Seq(ToServer) /\ ClientTypeOK
  BY DEF SessionInv, LinkInv, UpInv, DownInv, DownloadInv
<1>3. CASE ClientHandles
  <2>1. PICK i \in Deliverable(toClient) :
          TickNetwork(toClient[i]) /\ toClient' = RemoveAt(toClient, i)
    BY <1>3 DEF ClientHandles
  <2>2. toClient[i] \in ToMe
    BY <1>2, <2>1, ElementOfSeq, LenProperties DEF Deliverable
  <2>3. StageMoves(toClient[i]) /\ WorldMoves(toClient[i])
    BY <1>1, <1>2, <2>1, <2>2, TickMoves, TickWorld DEF SessionInv
  <2>4. Takes(toClient[i])
    BY <2>1 DEF Takes
  <2>5. QED
    BY <2>3, <2>4
<1>4. CASE ClientTicks \/ ClientStops
  <2>1. toClient' = toClient
    BY <1>4 DEF ClientTicks, ClientStops
  <2>2. CASE TickNetwork(NoMsg)
    BY <1>1, <1>2, <2>1, <2>2, TickMoves, TickWorld DEF SessionInv, Takes
  <2>3. CASE ResolveAddress \/ Quit \/ TickFatal \/ PollDestroyedSocket
    BY <1>1, <1>2, <2>1, <2>3, StopMoves, StopWorld DEF SessionInv, Takes, WorldMoves
  <2>4. QED
    BY <1>4, <2>2, <2>3 DEF ClientTicks, ClientStops
<1>5. QED
  BY <1>3, <1>4

\* The client takes a message, ticks without one, or stops.
LEMMA ClientKeepsSession ==
  ASSUME SessionInv, ClientHandles \/ ClientTicks \/ ClientStops
  PROVE  LinkInv' /\ BytesInv' /\ ReceivedInv' /\ OrderInv' /\ PrefixInv' /\ GhostInv'
<1>1. UNCHANGED <<serverVars, network, guestsDone>> /\ ClientSends
  BY DEF ClientHandles, ClientTicks, ClientStops
<1>2. /\ toClient \in Seq(ToMe) /\ toServer \in Seq(ToServer) /\ ClientTypeOK
  BY DEF SessionInv, LinkInv, UpInv, DownInv, DownloadInv
<1>3. \E m : Takes(m) /\ StageMoves(m) /\ WorldMoves(m)
  BY ClientMoves
<1>4. PICK m : Takes(m) /\ StageMoves(m) /\ WorldMoves(m)
  BY <1>3
<1>5. LinkInv'
  BY <1>1, <1>2, <1>4, ClientKeepsLink DEF SessionInv
<1>6. BytesInv'
  BY <1>1, <1>2, <1>4, TakingKeepsBytes DEF SessionInv, Takes, Deliverable
<1>7. ReceivedInv'
  BY <1>1, <1>2, <1>4, ClientKeepsReceived DEF SessionInv
<1>8. OrderInv' /\ PrefixInv'
  BY <1>1, <1>4, ClientKeepsOrder, ClientKeepsPrefix DEF SessionInv
<1>9. GhostInv'
  BY <1>1, <1>2, <1>4, ClientKeepsGhosts DEF SessionInv
<1>10. QED
  BY <1>5, <1>6, <1>7, <1>8, <1>9

\* A guest says something, a message is lost, or nothing happens.
LEMMA OthersKeepSession ==
  ASSUME SessionInv, GuestSends \/ LoseMessage \/ UNCHANGED sessionVars
  PROVE  LinkInv' /\ BytesInv' /\ ReceivedInv' /\ OrderInv' /\ PrefixInv' /\ GhostInv'
<1>1. UNCHANGED <<serverVars, clientVars, network>> /\ toClient \in Seq(ToMe)
  BY DEF GuestSends, LoseMessage, sessionVars, SessionInv, LinkInv, DownInv
<1>2. UNCHANGED <<cState, phase, progress, worldBytes, tiles, cFault>>
  BY <1>1 DEF clientVars
<1>3. /\ (MeIn' <=> MeIn) /\ Obj(0)' = Obj(0) /\ (Running' <=> Running)
      /\ \A p : Holds(p)' <=> Holds(p)
  BY <1>1, SameServer
<1>4. \/ toClient' = toClient
      \/ \E i \in DOMAIN toClient : toClient' = RemoveAt(toClient, i)
  BY DEF GuestSends, LoseMessage, sessionVars
<1>5. LinkInv'
  <2>1. CASE UNCHANGED sessionVars
    BY <1>2, <1>3, <2>1
    DEF sessionVars, serverVars, SessionInv, LinkInv, UpInv, StageInv, DownInv, Early
  <2>2. QED
    BY <2>1, GuestKeepsLink, LossKeepsLink DEF SessionInv
<1>6. BytesInv'
  BY <1>1, <1>4, TakingKeepsBytes DEF SessionInv
<1>7. ReceivedInv'
  BY <1>1, <1>2, <1>4, TakingKeepsReceived DEF SessionInv, world
<1>8. PrefixInv'
  BY <1>1, <1>2 DEF SessionInv, PrefixInv, Ordered
<1>9. OrderInv'
  <2>1. ClientAt' = ClientAt /\ ServerAt' = ServerAt
    BY <1>2, <1>3 DEF ClientAt, ServerAt
  <2>2. Ordered' => toClient' = toClient /\ Ordered
    BY <1>1 DEF Ordered, GuestSends, LoseMessage, sessionVars
  <2>3. QED
    BY <1>3, <2>1, <2>2 DEF SessionInv, OrderInv
<1>10. GhostInv'
  <2>1. CASE GuestSends
    BY <2>1, GuestKeepsGhosts DEF SessionInv, LinkInv
  <2>2. CASE LoseMessage \/ UNCHANGED sessionVars
    <3>1. Gone' = Gone /\ GuestMsgs' = GuestMsgs /\ guestsDone' = guestsDone
      BY <1>2, <2>2 DEF Gone, GuestMsgs, LoseMessage, sessionVars
    <3>2. Ordered' => Ordered /\ toServer' = toServer
      BY <2>2 DEF Ordered, LoseMessage, sessionVars
    <3>3. QED
      BY <1>3, <3>1, <3>2 DEF SessionInv, GhostInv
  <2>3. QED
    BY <2>1, <2>2
<1>11. QED
  BY <1>5, <1>6, <1>7, <1>8, <1>9, <1>10

LEMMA SessionInductive ==
  ASSUME TakesOne, OwnAddresses, SessionInv, [SessionNext]_sessionVars
  PROVE  SessionInv'
<1>1. OneInv' /\ DownloadConsistent' /\ DownloadInv'
  BY OwnInductive
<1>2. LinkInv' /\ BytesInv' /\ ReceivedInv' /\ OrderInv' /\ PrefixInv' /\ GhostInv'
  BY <1>1, HandlingKeepsSession, TurnKeepsSession, ClientKeepsSession, OthersKeepSession
  DEF SessionNext
<1>3. QED
  BY <1>1, <1>2 DEF SessionInv

\* Who is past the header is in the slot, with no more than the server sent.
LEMMA SlotOfMe ==
  ASSUME SessionInv, Running, cState \in {"CONNECTING", "CONNECTED"},
         progress > 0 \/ phase \in {"DOWNLOADING_WORLD", "LETS_GO"}
  PROVE  /\ 0 \in Used /\ Obj(0).peer = Me /\ Obj(0) \in Object
         /\ progress <= Obj(0).progress
         /\ progress >= WorldBytes => Obj(0).phase = "LETS_GO"
<1>1. MeIn
  BY DEF SessionInv, LinkInv, StageInv, DownloadInv
<1>2. 0 \in Used /\ Obj(0).peer = Me /\ Obj(0) \in Object
  BY <1>1, OneUsed, UsedObject DEF SessionInv, OneInv, MeIn, Holds
<1>3. progress \in Nat /\ Obj(0).progress \in Nat
      /\ Obj(0).phase \in {"HELLO", "DOWNLOADING", "LETS_GO"}
  BY <1>2 DEF SessionInv, DownloadInv, ClientTypeOK, Object, Phases
<1>4. progress <= Obj(0).progress
  <2>1. PICK R \in SUBSET (0 .. WorldBytes - 1) : ReceivedBytes(R)
    BY DEF SessionInv, ReceivedInv
  <2>2. R \subseteq 0 .. Obj(0).progress - 1 /\ Cardinality(R) = progress
    BY <1>1, <2>1 DEF ReceivedBytes
  <2>3. /\ IsFiniteSet(0 .. Obj(0).progress - 1)
        /\ Cardinality(0 .. Obj(0).progress - 1) = Obj(0).progress
    <3>1. 0 \in Nat /\ 0 <= Obj(0).progress /\ Obj(0).progress - 0 = Obj(0).progress
      BY <1>3
    <3>2. QED
      BY <1>3, <3>1, IntervalSize
  <2>4. QED
    BY <2>2, <2>3, FS_Subset
<1>5. progress >= WorldBytes => Obj(0).phase = "LETS_GO"
  BY <1>1, <1>3, <1>4, ServerAssumption DEF SessionInv, LinkInv, StageInv
<1>6. QED
  BY <1>2, <1>4, <1>5

LEMMA SessionHolds ==
  ASSUME SessionInv
  PROVE  WorldReplicated /\ ServerAhead /\ NoDownloadFault /\ NoGhosts
<1>1. /\ progress \in Nat /\ worldBytes \in Nat /\ DOMAIN tiles = 0 .. worldBytes - 1
      /\ progress > 0 => phase \in {"DOWNLOADING_WORLD", "LETS_GO"}
      /\ phase = "LETS_GO" => progress >= worldBytes
      /\ cState = "CONNECTED" => phase = "LETS_GO"
  BY DEF SessionInv, DownloadInv, ClientTypeOK
<1>2. Ordered =>
        /\ phase \in {"DOWNLOADING_WORLD", "LETS_GO"} => worldBytes = WorldBytes
        /\ \A i \in 0 .. worldBytes - 1 : i < progress => tiles[i] = i
        /\ cFault \notin {"header", "overrun"}
  BY DEF SessionInv, PrefixInv
<1>3. WorldReplicated
  <2> SUFFICES ASSUME InGame
               PROVE  IF Ordered
                      THEN worldBytes = WorldBytes /\ \A i \in DOMAIN tiles : tiles[i] = i
                      ELSE worldBytes = WorldBytes =>
                              {tiles[i] : i \in DOMAIN tiles} = 0 .. WorldBytes - 1
    BY DEF WorldReplicated
  <2>1. phase = "LETS_GO" /\ progress >= worldBytes
    BY <1>1 DEF InGame
  <2>2. CASE Ordered
    BY <1>1, <1>2, <2>1, <2>2
  <2>3. ASSUME worldBytes = WorldBytes PROVE {tiles[i] : i \in DOMAIN tiles} = 0 .. WorldBytes - 1
    <3>1. PICK R \in SUBSET (0 .. WorldBytes - 1) : ReceivedBytes(R)
      BY DEF SessionInv, ReceivedInv
    <3>2. Cardinality(R) = progress /\ R = {tiles[i] : i \in 0 .. progress - 1}
      BY <2>3, <3>1 DEF ReceivedBytes
    <3>3. Cardinality(R) <= WorldBytes
      BY WorldFinite
    <3>4. progress = WorldBytes
      BY <1>1, <2>1, <2>3, <3>2, <3>3
    <3>5. R = 0 .. WorldBytes - 1
      BY <3>2, <3>4, WorldFinite
    <3>6. QED
      BY <1>1, <2>3, <3>2, <3>4, <3>5
  <2>4. QED
    BY <2>2, <2>3
<1>4. ServerAhead
  <2> SUFFICES ASSUME Running, cState \in {"CONNECTING", "CONNECTED"}, progress > 0
               PROVE  \E i \in Used : /\ Obj(i).peer = Me /\ progress <= Obj(i).progress
                                      /\ Ordered /\ InGame => Obj(i).phase = "LETS_GO"
    BY DEF ServerAhead
  <2>1. /\ 0 \in Used /\ Obj(0).peer = Me /\ progress <= Obj(0).progress
        /\ progress >= WorldBytes => Obj(0).phase = "LETS_GO"
    BY SlotOfMe
  <2>2. Ordered /\ InGame => progress >= WorldBytes
    BY <1>1, <1>2 DEF InGame
  <2>3. QED
    BY <2>1, <2>2
<1>5. NoDownloadFault
  BY <1>2 DEF NoDownloadFault
<1>6. NoGhosts
  <2> SUFFICES ASSUME Ordered, Running, NEW i \in Used, Obj(i).peer \in Gone
               PROVE  \E k \in DOMAIN toServer : toServer[k] = Goodbye(Obj(i).peer)
    BY DEF NoGhosts
  <2>1. i = 0 /\ Holds(Obj(i).peer)
    BY OneUsed DEF SessionInv, Holds
  <2>2. QED
    BY <2>1 DEF SessionInv, GhostInv, In
<1>7. QED
  BY <1>3, <1>4, <1>5, <1>6

LEMMA SessionInvariant ==
  ASSUME TakesOne, OwnAddresses
  PROVE  SessionSpec => []SessionInv
<1>1. SessionInit => SessionInv
  BY SessionInitOK
<1>2. SessionInv /\ [SessionNext]_sessionVars => SessionInv'
  BY SessionInductive
<1>3. QED
  BY <1>1, <1>2, PTL DEF SessionSpec

\* WorldReplicated for every world, chunk size and set of guests: who is in
\* the game has the server's world byte for byte if the network keeps the
\* order, and if it does not, after a true header, every byte of it once.
THEOREM ReplicationCorrect ==
  ASSUME TakesOne, OwnAddresses
  PROVE  SessionSpec => []WorldReplicated
<1>1. SessionInv => WorldReplicated
  BY SessionHolds
<1>2. QED
  BY <1>1, SessionInvariant, PTL

\* ServerAhead: on any network the client never has more of the world than
\* the server has sent.
THEOREM ServerAheadCorrect ==
  ASSUME TakesOne, OwnAddresses
  PROVE  SessionSpec => []ServerAhead
<1>1. SessionInv => ServerAhead
  BY SessionHolds
<1>2. QED
  BY <1>1, SessionInvariant, PTL

\* NoDownloadFault: in order, no chunk is written past the end of the world
\* and the header is read from a header, whatever the size of world and chunks.
THEOREM DownloadFaultCorrect ==
  ASSUME TakesOne, OwnAddresses
  PROVE  SessionSpec => []NoDownloadFault
<1>1. SessionInv => NoDownloadFault
  BY SessionHolds
<1>2. QED
  BY <1>1, SessionInvariant, PTL

\* NoGhosts: in order, whoever is gone and still has the slot is followed by
\* its goodbye, with any number of guests.
THEOREM GhostsCorrect ==
  ASSUME TakesOne, OwnAddresses
  PROVE  SessionSpec => []NoGhosts
<1>1. SessionInv => NoGhosts
  BY SessionHolds
<1>2. QED
  BY <1>1, SessionInvariant, PTL
-----------------------------------------------------------------------------
(* A session is a run of the server and a run of the client *)

\* Whatever the network does, a session is to the server what Server allows:
\* what holds of every run of Server holds of it in a session, for any number
\* of places and any addresses.
THEOREM SessionImplementsServer ==
  SessionSpec => ServerInit /\ [][ServerNext]_serverVars
<1>1. SessionInit => ServerInit
  BY DEF SessionInit
<1>2. ASSUME [SessionNext]_sessionVars PROVE [ServerNext]_serverVars
  <2>1. CASE ServerHandles
    BY <2>1 DEF ServerHandles, ServerNext, Receive
  <2>2. CASE ServerDownloads \/ ServerIdles \/ ServerShutsDown
    BY <2>2 DEF ServerDownloads, ServerIdles, ServerShutsDown, ServerNext
  <2>3. CASE ClientHandles \/ ClientTicks \/ ClientStops
    BY <2>3 DEF ClientHandles, ClientTicks, ClientStops
  <2>4. CASE GuestSends \/ LoseMessage \/ UNCHANGED sessionVars
    BY <2>4 DEF GuestSends, LoseMessage, sessionVars
  <2>5. QED
    BY <1>2, <2>1, <2>2, <2>3, <2>4 DEF SessionNext
<1>3. QED
  BY <1>1, <1>2, PTL DEF SessionSpec

\* So the slots in use are the first ones and no download leaves the world or
\* finishes early, in every session with every client and network.
THEOREM SessionKeepsServer ==
  SessionSpec => [](SlotsBelowCount /\ DownloadConsistent)
<1>1. ServerInit => ServerTypeOK /\ Inv
  BY TypeInit, InvInit
<1>2. ServerTypeOK /\ Inv /\ [ServerNext]_serverVars => ServerTypeOK' /\ Inv'
  BY TypeInductive, InvInductive
<1>3. Inv => SlotsBelowCount /\ DownloadConsistent
  BY DEF Inv
<1>4. QED
  BY <1>1, <1>2, <1>3, SessionImplementsServer, PTL

\* With a server that takes one client, a session is to the client what Client
\* allows: the server sends no message that Client does not reckon with.
THEOREM SessionImplementsClient ==
  ASSUME TakesOne, OwnAddresses
  PROVE  SessionSpec => ClientSpec
<1>1. SessionInit => ClientInit
  BY DEF SessionInit
<1>2. SessionInv /\ [SessionNext]_sessionVars => [ClientNext]_clientVars
  BY StepsOfBoth DEF SessionInv, LinkInv, DownInv
<1>3. QED
  BY <1>1, <1>2, SessionInvariant, PTL DEF SessionSpec, ClientSpec

\* So a client in the game has received every byte of its world, also when
\* messages are lost and overtake each other.
THEOREM SessionInGameComplete ==
  ASSUME TakesOne, OwnAddresses
  PROVE  SessionSpec => []InGameComplete
BY SessionImplementsClient, InGameCorrect, PTL

-----------------------------------------------------------------------------
(* The goodbyes on their way *)

\* In order, a goodbye keeps its place in the queue until the server handles
\* a message, moves up by one when it does, and when it is the first and its
\* turn comes, no slot is its sender's any more.
GoodbyesArrive ==
    \A p \in Peers, k \in DOMAIN toServer :
        Ordered /\ toServer[k] = Goodbye(p) =>
            \/ ~ServerHandles /\ k \in DOMAIN toServer' /\ toServer'[k] = Goodbye(p)
            \/ ServerHandles /\ k > 1 /\ k - 1 \in DOMAIN toServer'
               /\ toServer'[k - 1] = Goodbye(p)
            \/ ServerHandles /\ k = 1 /\ \A i \in Used' : Obj(i)'.peer # p

\* The places of a queue whose first message is taken.
LEMMA FirstTaken ==
  ASSUME NEW T, NEW q \in Seq(T), 1 \in DOMAIN q, NEW r, r = RemoveAt(q, 1),
         NEW k \in DOMAIN q
  PROVE  /\ k \in Nat \ {0}
         /\ k > 1 => k - 1 \in DOMAIN r /\ r[k - 1] = q[k]
<1>1. /\ r \in Seq(T) /\ Len(r) = Len(q) - 1
      /\ \A j \in DOMAIN r : j >= 1 => j + 1 \in DOMAIN q /\ r[j] = q[j + 1]
  BY Removed
<1>2. Len(q) \in Nat /\ DOMAIN q = 1 .. Len(q) /\ DOMAIN r = 1 .. Len(r)
  BY <1>1, LenProperties
<1>3. k \in Nat \ {0}
  BY <1>2
<1>4. k > 1 => k - 1 \in DOMAIN r /\ k - 1 >= 1 /\ (k - 1) + 1 = k
  BY <1>1, <1>2
<1>5. QED
  BY <1>1, <1>3, <1>4

\* What a step of the server with a message is, in order.
LEMMA FirstHandled ==
  ASSUME TakesOne, OwnAddresses, SessionInv, Ordered, ServerHandles
  PROVE  /\ 1 \in DOMAIN toServer /\ toServer' = RemoveAt(toServer, 1)
         /\ toServer[1] \in ToServer /\ Receive(toServer[1])
         /\ Handled(toServer[1]) /\ HoldsAfter(toServer[1])
         /\ OneInv' /\ UNCHANGED <<clientVars, network>>
<1>1. PICK i \in Deliverable(toServer) :
        /\ Receive(toServer[i])
        /\ toServer' = RemoveAt(toServer, i)
        /\ ServerSends
        /\ UNCHANGED <<clientVars, network, guestsDone>>
  BY DEF ServerHandles
<1>2. /\ i = 1 /\ 1 \in DOMAIN toServer
      /\ toServer \in Seq(ToServer) /\ toClient \in Seq(ToMe)
  BY DEF Deliverable, Ordered, SessionInv, LinkInv, UpInv, DownInv
<1>3. toServer[1] \in ToServer
  BY <1>2, ElementOfSeq, LenProperties
<1>4. netMaxPlayers <= 1
  BY DEF SessionInv, OneInv, ServerTypeOK, TakesOne
<1>5. OneInv'
  BY OwnInductive DEF SessionNext
<1>6. Handled(toServer[1]) /\ HoldsAfter(toServer[1])
  BY <1>1, <1>2, <1>3, <1>4, <1>5, MessageHandled DEF SessionInv
<1>7. QED
  BY <1>1, <1>2, <1>3, <1>5, <1>6

\* What any other step does to the messages to the server.
LEMMA OthersQueue ==
  ASSUME SessionInv, Ordered, [SessionNext]_sessionVars, ~ServerHandles,
         NEW k \in DOMAIN toServer
  PROVE  k \in DOMAIN toServer' /\ toServer'[k] = toServer[k]
<1>1. toServer \in Seq(ToServer)
  BY DEF SessionInv, LinkInv, UpInv
<1>2. ASSUME NEW x \in ToServer, toServer' = Append(toServer, x)
      PROVE  k \in DOMAIN toServer' /\ toServer'[k] = toServer[k]
  <2>1. /\ toServer' \in Seq(ToServer) /\ Len(toServer') = Len(toServer) + 1
        /\ \A j \in 1 .. Len(toServer) : toServer'[j] = toServer[j]
    BY <1>1, <1>2, AppendProperties
  <2>2. /\ Len(toServer) \in Nat /\ DOMAIN toServer = 1 .. Len(toServer)
        /\ DOMAIN toServer' = 1 .. Len(toServer')
    BY <1>1, <2>1, LenProperties
  <2>3. QED
    BY <2>1, <2>2
<1>3. CASE ServerDownloads \/ ServerIdles \/ ServerShutsDown \/ UNCHANGED sessionVars
  BY <1>3 DEF ServerDownloads, ServerIdles, ServerShutsDown, sessionVars
<1>4. CASE ClientHandles \/ ClientTicks \/ ClientStops
  <2>1. PICK m : StageMoves(m)
    BY <1>4, ClientMoves
  <2>2. HelloOf(Me) \in ToServer /\ StartMsg \in ToServer /\ Goodbye(Me) \in ToServer
    BY MessageKinds
  <2>3. toServer' = toServer \/ \E x \in ToServer : toServer' = Append(toServer, x)
    BY <2>1, <2>2 DEF StageMoves, Says
  <2>4. QED
    BY <1>2, <2>3
<1>5. CASE GuestSends
  <2>1. PICK m \in GuestMsgs : toServer' = Append(toServer, m)
    BY <1>5 DEF GuestSends
  <2>2. m \in ToServer
    BY <2>1 DEF GuestMsgs, ToServer, HelloOf
  <2>3. QED
    BY <1>2, <2>1, <2>2
<1>6. ~LoseMessage
  BY DEF LoseMessage, Ordered
<1>7. QED
  BY <1>3, <1>4, <1>5, <1>6 DEF SessionNext

\* What SlotsFreed rests on, with NoGhosts: while the server runs, the goodbye
\* of whoever is gone and still has the slot is in the queue, each message
\* handled brings it one place nearer, no later one overtakes it, and handling
\* it frees the slot, at whatever point of the log in or download it comes
\* (TickNetwork and ClientRemove).
THEOREM GoodbyesArriveAlways ==
  ASSUME TakesOne, OwnAddresses
  PROVE  SessionSpec => [][GoodbyesArrive]_sessionVars
<1>1. ASSUME SessionInv, Ordered, [SessionNext]_sessionVars, NEW p \in Peers,
             NEW k \in DOMAIN toServer, toServer[k] = Goodbye(p)
      PROVE  \/ ~ServerHandles /\ k \in DOMAIN toServer' /\ toServer'[k] = Goodbye(p)
             \/ ServerHandles /\ k > 1 /\ k - 1 \in DOMAIN toServer'
                /\ toServer'[k - 1] = Goodbye(p)
             \/ ServerHandles /\ k = 1 /\ \A i \in Used' : Obj(i)'.peer # p
  <2>1. CASE ~ServerHandles
    BY <1>1, <2>1, OthersQueue
  <2>2. CASE ServerHandles
    <3>1. /\ 1 \in DOMAIN toServer /\ toServer' = RemoveAt(toServer, 1)
          /\ HoldsAfter(toServer[1]) /\ OneInv'
      BY <1>1, <2>2, FirstHandled
    <3>2. toServer \in Seq(ToServer)
      BY <1>1 DEF SessionInv, LinkInv, UpInv
    <3>3. k \in Nat \ {0} /\ (k > 1 => k - 1 \in DOMAIN toServer' /\ toServer'[k - 1] = toServer[k])
      BY <3>1, <3>2, FirstTaken
    <3>4. ASSUME k = 1 PROVE \A i \in Used' : Obj(i)'.peer # p
      <4>1. ~Holds(p)'
        BY <1>1, <3>1, <3>4, MessagesDiffer DEF HoldsAfter
      <4>2. \A i \in Used' : i = 0 /\ numClients' = 1
        <5>1. \A i \in Used' : i \in Nat /\ i < numClients'
          BY <3>1, ServerAssumption DEF OneInv, SlotsBelowCount, Used, Slots
        <5>2. numClients' \in Nat /\ numClients' <= 1
          BY <3>1, ServerAssumption DEF OneInv, ServerTypeOK
        <5>3. QED
          BY <5>1, <5>2
      <4>3. QED
        BY <4>1, <4>2 DEF Holds
    <3>5. k = 1 \/ k > 1
      BY <3>3
    <3>6. QED
      BY <1>1, <2>2, <3>3, <3>4, <3>5
  <2>3. QED
    BY <2>1, <2>2
<1>2. SessionInv /\ [SessionNext]_sessionVars => [GoodbyesArrive]_sessionVars
  BY <1>1 DEF GoodbyesArrive
<1>3. QED
  BY <1>2, SessionInvariant, PTL DEF SessionSpec
-----------------------------------------------------------------------------
(* The way into the game *)

\* The client is about to join: in order, and with nothing in the way.
Pursuing == Ordered /\ cState = "CONNECTING" /\ Undisturbed

\* In order, a client that goes on downloading lacks some byte, and while it
\* waits for a header that the server has not sent, its request is on the way.
PursuitInv ==
    Ordered =>
        /\ phase = "DOWNLOADING_WORLD" => progress < worldBytes
        /\ MeIn /\ Obj(0).phase = "HELLO"
             /\ phase \notin {"HELLO", "HELLO_SENT", "DOWNLOAD_WORLD"} =>
                In(StartMsg, toServer)

\* The server heeds the request of the client that has the slot.
LEMMA StartHeeded ==
  ASSUME OneInv, MeIn, toClient \in Seq(ToMe), Receive(StartMsg)
  PROVE  MeIn' /\ Obj(0)'.phase = "DOWNLOADING" /\ Obj(0)'.progress = Obj(0).progress
<1>1. 0 \in Used /\ Used = {0} /\ numClients = 1 /\ clients[0] \in Ptrs /\ Obj(0).peer = Me
  BY OneUsed DEF MeIn, Holds
<1>2. StartMsg.type = "WORLD_DOWNLOAD_START" /\ StartMsg.from = Me
  BY DEF StartMsg
<1>3. 0 \in SlotsOf(AddrOf[StartMsg.from])
  BY <1>1, <1>2 DEF SlotsOf, SlotAddr
<1>4. ClientMessage(StartMsg)
  BY <1>2, <1>3 DEF Receive, Hello, IgnoreRequest
<1>5. ClientStartWorldDownload(clients[0])
  <2>1. PICK i \in Slots : /\ IsFirst(i, SlotsOf(AddrOf[StartMsg.from]))
                           /\ ClientStartWorldDownload(clients[i])
    BY <1>2, <1>4 DEF ClientMessage
  <2>2. i = 0
    BY <1>1, <2>1 DEF IsFirst, SlotsOf
  <2>3. QED
    BY <2>1, <2>2
<1>6. /\ heap' = [heap EXCEPT ![clients[0]].phase = "DOWNLOADING"]
      /\ UNCHANGED <<clients, numClients>>
  BY <1>5 DEF ClientStartWorldDownload
<1>7. Obj(0)' = [Obj(0) EXCEPT !.phase = "DOWNLOADING"] /\ Obj(0) \in Object
  BY <1>1, <1>6, UsedObject DEF Obj, OneInv, ServerTypeOK
<1>8. /\ Obj(0)'.phase = "DOWNLOADING" /\ Obj(0)'.progress = Obj(0).progress
      /\ Obj(0)'.peer = Obj(0).peer
  BY <1>7 DEF Object
<1>9. QED
  BY <1>1, <1>6, <1>8 DEF MeIn, Holds

\* A message that is not the one handled stays on the way.
LEMMA StillThere ==
  ASSUME NEW T, NEW q \in Seq(T), 1 \in DOMAIN q, NEW r, r = RemoveAt(q, 1),
         NEW m, In(m, q), m # q[1]
  PROVE  In(m, r)
<1>1. PICK k \in DOMAIN q : q[k] = m
  BY DEF In
<1>2. k \in Nat \ {0} /\ (k > 1 => k - 1 \in DOMAIN r /\ r[k - 1] = q[k])
  BY FirstTaken
<1>3. k > 1
  BY <1>1, <1>2
<1>4. QED
  BY <1>1, <1>2, <1>3 DEF In

LEMMA HandlingKeepsPursuit ==
  ASSUME TakesOne, OwnAddresses, SessionInv, Ordered, PursuitInv, ServerHandles
  PROVE  PursuitInv'
<1>1. /\ 1 \in DOMAIN toServer /\ toServer' = RemoveAt(toServer, 1)
      /\ Receive(toServer[1]) /\ Handled(toServer[1])
      /\ UNCHANGED <<clientVars, network>>
  BY FirstHandled
<1>2. /\ UNCHANGED <<phase, progress, worldBytes>>
      /\ toServer \in Seq(ToServer) /\ toClient \in Seq(ToMe) /\ OneInv /\ LinkInv
  BY <1>1 DEF clientVars, SessionInv, LinkInv, UpInv, DownInv
<1> DEFINE m == toServer[1]
<1>3. In(m, toServer)
  BY <1>1 DEF In
<1>4. ASSUME MeIn', Obj(0)'.phase = "HELLO", phase \notin {"HELLO", "HELLO_SENT", "DOWNLOAD_WORLD"}
      PROVE  In(StartMsg, toServer')
  <2>1. ServerMoves
    BY <1>1, <1>2, <1>3, HandledMoves
  <2>2. MeIn /\ Obj(0)' = Obj(0)
    BY <1>4, <2>1 DEF ServerMoves, KeepsMe, RemovesMe, StartsMe, SendsChunk, TellsMe
  <2>3. In(StartMsg, toServer)
    BY <1>4, <2>2 DEF PursuitInv
  <2>4. m # StartMsg
    BY <1>1, <1>2, <1>4, <2>2, StartHeeded
  <2>5. QED
    BY <1>1, <1>2, <2>3, <2>4, StillThere
<1>5. QED
  BY <1>2, <1>4 DEF PursuitInv

LEMMA TurnKeepsPursuit ==
  ASSUME SessionInv, OneInv', PursuitInv, ServerDownloads \/ ServerIdles \/ ServerShutsDown
  PROVE  PursuitInv'
<1>1. UNCHANGED <<clientVars, network, toServer>> /\ toClient \in Seq(ToMe)
  BY DEF ServerDownloads, ServerIdles, ServerShutsDown, SessionInv, LinkInv, DownInv
<1>2. Turned
  BY <1>1, ServerTurned DEF SessionInv, LinkInv
<1>3. MeIn' /\ Obj(0)'.phase = "HELLO" => MeIn /\ Obj(0)' = Obj(0)
  BY <1>2 DEF Turned, KeepsMe, SendsChunk, TellsMe
<1>4. UNCHANGED <<phase, progress, worldBytes, network, toServer>>
  BY <1>1 DEF clientVars
<1>5. QED
  BY <1>3, <1>4 DEF PursuitInv, Ordered

\* The client takes the message it expects, and the download goes on only if
\* it is not complete.
LEMMA DownloadGoesOn ==
  ASSUME SessionInv, Ordered, PursuitInv, ClientHandles \/ ClientTicks \/ ClientStops,
         phase' = "DOWNLOADING_WORLD"
  PROVE  progress' < worldBytes'
<1>1. CASE UNCHANGED <<phase, progress, worldBytes>>
  BY <1>1 DEF PursuitInv
<1>2. ASSUME NEW m \in ToMe \cup {NoMsg}, DownloadChunk(m) PROVE progress' < worldBytes'
  <2>1. CASE OfType(m, "WORLD_DOWNLOAD_PACKET")
    <3>1. m \in Chunks
      BY <2>1, MessageKinds DEF OfType
    <3>2. progress \in Nat /\ worldBytes \in Nat /\ m.size \in Nat
      BY <3>1, BytesOf DEF SessionInv, DownloadInv, ClientTypeOK
    <3>3. ~DownloadDone(m) /\ progress' = progress + m.size /\ worldBytes' = worldBytes
      BY <1>2, <2>1 DEF DownloadChunk
    <3>4. QED
      BY <3>2, <3>3 DEF DownloadDone
  <2>2. CASE ~OfType(m, "WORLD_DOWNLOAD_PACKET")
    BY <1>1, <1>2, <2>2 DEF DownloadChunk
  <2>3. QED
    BY <2>1, <2>2
<1>3. ASSUME NEW m \in ToMe, m = toClient[1], 1 \in DOMAIN toClient, TickNetwork(m),
             AwaitHeader(m)
      PROVE  progress' < worldBytes'
  <2>1. WorldMoves(m) /\ m # Bye(Me)
    <3>1. Ordinary(m) /\ m # NoMsg
      BY <1>3, MessageKinds DEF AwaitHeader
    <3>2. m # Bye(Me)
      BY <3>1, MessageKinds DEF Ordinary, OfType
    <3>3. QED
      BY <1>3, <3>2, TickWorld DEF SessionInv
  <2>2. /\ phase = "DOWNLOAD_WORLD_SENT" /\ m # NoMsg
        /\ worldBytes' \in SizesReadFrom(m) /\ progress' = progress
    BY <1>3, MessageKinds DEF AwaitHeader, Connecting
  <2>3. m = MapHeader(Me)
    BY <1>3, <2>1, <2>2, Expected DEF SessionInv, KeepsWorld, ReadsChunk
  <2>4. worldBytes' = WorldBytes
    BY <2>2, <2>3 DEF SizesReadFrom, MapHeader
  <2>5. progress = 0
    BY <2>2 DEF SessionInv, DownloadInv, ClientTypeOK
  <2>6. QED
    BY <2>2, <2>4, <2>5, ServerAssumption
<1>4. CASE ClientHandles
  <2>1. 1 \in DOMAIN toClient /\ TickNetwork(toClient[1])
    BY <1>4 DEF ClientHandles, Deliverable, Ordered
  <2>2. toClient[1] \in ToMe
    BY <2>1, ElementOfSeq, LenProperties DEF SessionInv, LinkInv, DownInv
  <2>3. QED
    BY <1>1, <1>2, <1>3, <2>1, <2>2
    DEF TickNetwork, SendHello, AwaitHello, RequestWorld, EnterGame, Play, ServerGone, world
<1>5. CASE ClientTicks \/ ClientStops
  <2>1. CASE TickNetwork(NoMsg)
    BY <1>1, <1>2, <2>1
    DEF TickNetwork, SendHello, AwaitHello, RequestWorld, AwaitHeader, EnterGame, Play,
        ServerGone, world
  <2>2. CASE ResolveAddress \/ Quit \/ TickFatal \/ PollDestroyedSocket
    BY <1>1, <2>2 DEF ResolveAddress, Quit, TickFatal, PollDestroyedSocket, Shutdown, world
  <2>3. QED
    BY <1>5, <2>1, <2>2 DEF ClientTicks, ClientStops
<1>6. QED
  BY <1>4, <1>5

LEMMA ClientKeepsPursuit ==
  ASSUME SessionInv, Ordered, PursuitInv, ClientHandles \/ ClientTicks \/ ClientStops
  PROVE  PursuitInv'
<1>1. phase' = "DOWNLOADING_WORLD" => progress' < worldBytes'
  BY DownloadGoesOn
<1>2. UNCHANGED <<serverVars, network>>
  BY DEF ClientHandles, ClientTicks, ClientStops
<1>3. (MeIn' <=> MeIn) /\ Obj(0)' = Obj(0)
  BY <1>2, SameServer
<1>4. PICK m : StageMoves(m)
  BY ClientMoves
<1>5. /\ toServer \in Seq(ToServer)
      /\ HelloOf(Me) \in ToServer /\ StartMsg \in ToServer /\ Goodbye(Me) \in ToServer
  BY MessageKinds DEF SessionInv, LinkInv, UpInv
<1>6. \A x \in ToServer : Says(x) => \A y : In(y, toServer') <=> In(y, toServer) \/ y = x
  BY <1>5, UpAppended DEF Says
<1>7. ASSUME MeIn', Obj(0)'.phase = "HELLO", phase' \notin {"HELLO", "HELLO_SENT", "DOWNLOAD_WORLD"}
      PROVE  In(StartMsg, toServer')
  <2>1. phase \notin {"HELLO", "HELLO_SENT", "DOWNLOAD_WORLD"} => In(StartMsg, toServer)
    BY <1>3, <1>7 DEF PursuitInv
  <2>2. QED
    BY <1>4, <1>5, <1>6, <1>7, <2>1 DEF StageMoves
<1>8. QED
  BY <1>1, <1>7 DEF PursuitInv

LEMMA PursuitInductive ==
  ASSUME TakesOne, OwnAddresses, SessionInv, PursuitInv, [SessionNext]_sessionVars
  PROVE  PursuitInv'
<1>1. Ordered' <=> Ordered
  BY DEF SessionNext, ServerHandles, ServerDownloads, ServerIdles, ServerShutsDown,
         ClientHandles, ClientTicks, ClientStops, GuestSends, LoseMessage, sessionVars, Ordered
<1>2. CASE ~Ordered
  BY <1>1, <1>2 DEF PursuitInv
<1>3. CASE Ordered
  <2>1. CASE ServerHandles
    BY <1>3, <2>1, HandlingKeepsPursuit
  <2>2. CASE ServerDownloads \/ ServerIdles \/ ServerShutsDown
    <3>1. OneInv'
      BY OwnInductive
    <3>2. QED
      BY <2>2, <3>1, TurnKeepsPursuit
  <2>3. CASE ClientHandles \/ ClientTicks \/ ClientStops
    BY <1>3, <2>3, ClientKeepsPursuit
  <2>4. CASE GuestSends \/ UNCHANGED sessionVars
    <3>1. UNCHANGED <<serverVars, phase, progress, worldBytes>>
      BY <2>4 DEF GuestSends, sessionVars, clientVars
    <3>2. (MeIn' <=> MeIn) /\ Obj(0)' = Obj(0)
      BY <3>1, SameServer
    <3>3. toServer \in Seq(ToServer) /\ GuestMsgs \subseteq ToServer
      BY DEF SessionInv, LinkInv, UpInv, GuestMsgs, ToServer, HelloOf
    <3>4. In(StartMsg, toServer) => In(StartMsg, toServer')
      <4>1. CASE UNCHANGED sessionVars
        BY <4>1 DEF sessionVars
      <4>2. CASE GuestSends
        <5>1. PICK g \in GuestMsgs : toServer' = Append(toServer, g)
          BY <4>2 DEF GuestSends
        <5>2. \A k \in DOMAIN toServer : k \in DOMAIN toServer' /\ toServer'[k] = toServer[k]
          BY <3>3, <5>1, AppendProperties, LenProperties
        <5>3. QED
          BY <5>2 DEF In
      <4>3. QED
        BY <2>4, <4>1, <4>2
    <3>5. QED
      BY <1>3, <3>1, <3>2, <3>4 DEF PursuitInv
  <2>5. ~LoseMessage
    BY <1>3 DEF LoseMessage, Ordered
  <2>6. QED
    BY <2>1, <2>2, <2>3, <2>4, <2>5 DEF SessionNext
<1>4. QED
  BY <1>2, <1>3

\* Whoever has to take the next step of a join can take it: the client itself,
\* for a message on the way or of its own, or the server, for its hello, its
\* request or the next chunk.
NobodyWaits ==
    Pursuing /\ ~TurnedAway =>
        \/ phase \in {"HELLO", "DOWNLOAD_WORLD", "LETS_GO"}
        \/ toClient # <<>>
        \/ In(HelloOf(Me), toServer) \/ In(StartMsg, toServer)
        \/ MeIn /\ Obj(0).phase = "DOWNLOADING"

\* Each phase that waits, with nothing on the way to it.
LEMMA PursuitGoesOn == SessionInv /\ PursuitInv => NobodyWaits
<1> SUFFICES ASSUME SessionInv, PursuitInv, Pursuing, ~TurnedAway,
                    phase \notin {"HELLO", "DOWNLOAD_WORLD", "LETS_GO"}, toClient = <<>>,
                    ~In(HelloOf(Me), toServer), ~In(StartMsg, toServer)
             PROVE  MeIn /\ Obj(0).phase = "DOWNLOADING"
  BY DEF NobodyWaits
<1>1. Ordered /\ Running /\ cState = "CONNECTING"
  BY DEF Pursuing, Undisturbed, Running
<1>2. /\ progress \in Nat /\ worldBytes \in Nat
      /\ phase \in {"HELLO_SENT", "DOWNLOAD_WORLD_SENT", "DOWNLOADING_WORLD"}
  BY PhasesAre DEF SessionInv, DownloadInv, ClientTypeOK, ConnectPhases
<1>3. Me \in admitted
  <2>1. CASE phase = "HELLO_SENT"
    <3>1. ASSUME NEW k \in DOMAIN toServer, toServer[k].type = "HELLO", toServer[k].from = Me
          PROVE  FALSE
      <4>1. toServer[k] \in ToServer
        BY ElementOfSeq, LenProperties DEF SessionInv, LinkInv, UpInv
      <4>2. toServer[k] = HelloOf(Me)
        BY <3>1, <4>1 DEF ToServer, HelloOf, Goodbye, StartMsg
      <4>3. QED
        BY <4>2 DEF In
    <3>2. QED
      BY <2>1, <3>1 DEF TurnedAway
  <2>2. CASE phase # "HELLO_SENT"
    BY <1>2, <2>2 DEF SessionInv, LinkInv, StageInv
  <2>3. QED
    BY <2>1, <2>2
<1>4. MeIn
  BY <1>1, <1>3 DEF SessionInv, LinkInv, StageInv
<1>5. Obj(0) \in Object /\ ServerAt = ClientAt
  BY <1>1, <1>4, OneUsed, UsedObject DEF SessionInv, OneInv, OrderInv, MeIn, Holds
<1>6. Obj(0).progress \in Nat /\ Obj(0).phase \in {"HELLO", "DOWNLOADING", "LETS_GO"}
  BY <1>5 DEF Object, Phases
<1>7. phase # "HELLO_SENT"
  BY <1>5, <1>6 DEF ServerAt, ClientAt
<1>8. Obj(0).phase # "HELLO"
  BY <1>1, <1>2, <1>4, <1>7 DEF PursuitInv
<1>9. phase = "DOWNLOADING_WORLD" /\ Obj(0).progress = progress
  BY <1>2, <1>5, <1>6, <1>7, <1>8 DEF ServerAt, ClientAt
<1>10. progress < WorldBytes
  BY <1>1, <1>9 DEF PursuitInv, SessionInv, PrefixInv
<1>11. Obj(0).phase = "LETS_GO" => Obj(0).progress = WorldBytes
  BY <1>4 DEF SessionInv, LinkInv, StageInv
<1>12. QED
  BY <1>2, <1>4, <1>6, <1>8, <1>9, <1>10, <1>11, ServerAssumption

\* No join comes to a standstill on an ordered network: while both run, a
\* client that was not turned away has something to do, or there is a message
\* of it for the server, or the server has a chunk to send it.  The phase that
\* waits for an answer without asking again (client_auth.cpp:81) is left
\* because the answer is on the way or will be, at whatever point guests fill
\* or empty the server (the safety core of Joins).
THEOREM JoinsStandStillNever ==
  ASSUME TakesOne, OwnAddresses
  PROVE  SessionSpec => []NobodyWaits
<1>1. SessionInit => PursuitInv
  BY DEF SessionInit, ServerInit, ClientInit, PursuitInv, MeIn, Holds
<1>2. SessionInv /\ PursuitInv /\ [SessionNext]_sessionVars => PursuitInv'
  BY PursuitInductive
<1>3. SessionInv /\ PursuitInv => NobodyWaits
  BY PursuitGoesOn
<1>4. SessionSpec => []SessionInv
  BY SessionInvariant
<1>5. QED
  BY <1>1, <1>2, <1>3, <1>4, PTL DEF SessionSpec

-----------------------------------------------------------------------------
(* How far the join is *)

\* Both run, and the client is joining or has just joined.
Trying == Ordered /\ cState \in {"CONNECTING", "CONNECTED"} /\ Undisturbed

\* Where the server is with the client, as ClientAt is where the client is.
Reached == IF MeIn THEN ServerAt ELSE -2

\* The stages of the log in that are left.
StagesLeft ==
    [HELLO |-> 5, HELLO_SENT |-> 4, DOWNLOAD_WORLD |-> 3, DOWNLOAD_WORLD_SENT |-> 2,
     DOWNLOADING_WORLD |-> 1, LETS_GO |-> 0][phase]
    + (IF cState = "CONNECTING" THEN 1 ELSE 0)

\* What is left to do on both sides.
Work == (WorldBytes - Reached) + (WorldBytes - ClientAt) + StagesLeft

\* The steps that NobodyWaits finds pending.
Helps ==
    \/ ClientHandles
    \/ ClientTicks /\ phase \in {"HELLO", "DOWNLOAD_WORLD", "LETS_GO"}
    \/ ServerHandles /\ toServer[1] = StartMsg
    \/ ServerHandles /\ toServer[1] = HelloOf(Me) /\ ~TurnedAway'
    \/ ServerDownloads /\ slot = 0 /\ MeIn /\ Obj(0).phase = "DOWNLOADING"

JoinAdvances ==
    Pursuing /\ Trying' => /\ Work \in Nat /\ Work' <= Work
                           /\ Helps => Work' < Work

\* Neither side is ever past the end of the world.
LEMMA WithinWorld ==
  ASSUME SessionInv, Trying
  PROVE  Reached \in -2 .. WorldBytes /\ ClientAt \in -2 .. WorldBytes
<1>1. Running /\ cState \in {"CONNECTING", "CONNECTED"} /\ Ordered
  BY DEF Trying, Undisturbed, Running
<1>2. progress \in Nat /\ phase \in ConnectPhases /\ WorldBytes \in Nat
  BY ServerAssumption DEF SessionInv, DownloadInv, ClientTypeOK, ConnectPhases
<1>3. 0 \in Used => Obj(0).progress \in 0 .. WorldBytes
  <2>1. SUFFICES ASSUME 0 \in Used PROVE Obj(0).progress \in 0 .. WorldBytes
    OBVIOUS
  <2>2. clients[0] \in Ptrs /\ Obj(0) \in Object
    BY <2>1, OneUsed, UsedObject DEF SessionInv, OneInv
  <2>3. Obj(0).progress <= WorldBytes
    BY <2>2 DEF SessionInv, DownloadConsistent, Obj
  <2>4. Obj(0).progress \in Nat
    BY <2>2 DEF Object
  <2>5. QED
    BY <1>2, <2>3, <2>4
<1>4. MeIn => 0 \in Used
  BY OneUsed DEF SessionInv, OneInv, MeIn, Holds
<1>5. Reached \in -2 .. WorldBytes
  BY <1>2, <1>3, <1>4 DEF Reached, ServerAt
<1>6. phase \in {"DOWNLOADING_WORLD", "LETS_GO"} => progress <= WorldBytes
  <2>1. phase \in {"DOWNLOADING_WORLD", "LETS_GO"} => 0 \in Used /\ progress <= Obj(0).progress
    BY <1>1, SlotOfMe
  <2>2. QED
    BY <1>2, <1>3, <2>1
<1>7. ClientAt \in -2 .. WorldBytes
  BY <1>2, <1>6, PhasesAre DEF ClientAt
<1>8. QED
  BY <1>5, <1>7

\* What the server's steps are to a client that is joining.
Gains ==
    \/ KeepsMe
    \/ LetsMeIn /\ ~MeIn
    \/ StartsMe /\ Obj(0).phase = "HELLO"
    \/ SendsChunk /\ Obj(0).progress < WorldBytes

LEMMA ServerGains ==
  ASSUME TakesOne, OwnAddresses, SessionInv, Trying, OneInv',
         ServerHandles \/ ServerDownloads \/ ServerIdles \/ ServerShutsDown
  PROVE  Gains /\ UNCHANGED <<clientVars, network>>
<1>1. Running /\ Ordered /\ cState \in {"CONNECTING", "CONNECTED"}
  BY DEF Trying, Undisturbed, Running
<1>2. LinkInv /\ OneInv /\ DownloadConsistent /\ toClient \in Seq(ToMe)
  BY DEF SessionInv, LinkInv, DownInv
<1>3. CASE ServerHandles
  <2>1. /\ 1 \in DOMAIN toServer /\ Handled(toServer[1]) /\ UNCHANGED <<clientVars, network>>
    BY <1>1, <1>3, FirstHandled
  <2>2. In(toServer[1], toServer)
    BY <2>1 DEF In
  <2>3. toServer[1] # Goodbye(Me)
    BY <1>1, <1>2, <2>2 DEF LinkInv, UpInv
  <2>4. toServer[1] = HelloOf(Me) => ~MeIn
    BY <1>2, <2>2 DEF LinkInv, UpInv, StageInv
  <2>5. ServerMoves
    BY <1>2, <2>1, <2>2, HandledMoves
  <2>6. StartsMe => Obj(0).phase = "HELLO" \/ toServer[1] # StartMsg
    BY <1>2, <2>2 DEF StartsMe, LinkInv, StageInv, Early
  <2>7. QED
    BY <2>1, <2>3, <2>4, <2>6 DEF Handled, Gains
<1>4. CASE ServerDownloads \/ ServerIdles \/ ServerShutsDown
  <2>1. UNCHANGED <<clientVars, network, toServer>>
    BY <1>4 DEF ServerDownloads, ServerIdles, ServerShutsDown
  <2>2. Turned
    BY <1>2, <1>4, ServerTurned DEF LinkInv
  <2>3. SendsChunk => Obj(0).progress < WorldBytes
    BY <1>2 DEF SendsChunk, LinkInv, StageInv
  <2>4. QED
    BY <1>1, <2>1, <2>2, <2>3 DEF Turned, TellsMe, Gains
<1>5. QED
  BY <1>3, <1>4

\* No step of the server takes the client back.
LEMMA GainsCount ==
  ASSUME SessionInv, Trying, Gains
  PROVE  /\ Reached' \in Int /\ Reached' >= Reached
         /\ ~KeepsMe => Reached' > Reached
<1>1. Reached \in -2 .. WorldBytes /\ WorldBytes \in Nat
  BY WithinWorld, ServerAssumption
<1>2. CASE KeepsMe
  <2>1. Reached' = Reached
    BY <1>2 DEF KeepsMe, Reached, ServerAt
  <2>2. QED
    BY <1>1, <1>2, <2>1
<1>3. CASE LetsMeIn /\ ~MeIn
  <2>1. Reached' = -1 /\ Reached = -2
    BY <1>3 DEF LetsMeIn, Reached, ServerAt
  <2>2. QED
    BY <2>1
<1>4. CASE StartsMe /\ Obj(0).phase = "HELLO"
  <2>1. Obj(0).progress = 0
    BY <1>4 DEF StartsMe, SessionInv, LinkInv, StageInv
  <2>2. Reached' = 0 /\ Reached = -1
    BY <1>4, <2>1 DEF StartsMe, Reached, ServerAt
  <2>3. QED
    BY <2>2
<1>5. CASE SendsChunk /\ Obj(0).progress < WorldBytes
  <2>1. MeIn /\ OneInv
    BY <1>5 DEF SendsChunk, SessionInv
  <2>2. Obj(0).progress \in 0 .. WorldBytes - 1 /\ ChunkSize(Obj(0)) \in 1 .. MAX_PACKET_SIZE
    BY <1>5, <2>1, ChunkFits
  <2>3. /\ Reached = Obj(0).progress
        /\ Reached' = Obj(0).progress + ChunkSize(Obj(0))
    BY <1>5 DEF SendsChunk, Reached, ServerAt
  <2>4. QED
    BY <1>1, <2>2, <2>3, ServerAssumption
<1>6. QED
  BY <1>2, <1>3, <1>4, <1>5 DEF Gains

\* The steps of the server that bring the client further.
LEMMA ServerHelps ==
  ASSUME TakesOne, OwnAddresses, SessionInv, Pursuing, Trying', OneInv',
         \/ ServerHandles /\ toServer[1] = StartMsg
         \/ ServerHandles /\ toServer[1] = HelloOf(Me) /\ ~TurnedAway'
         \/ ServerDownloads /\ slot = 0 /\ MeIn /\ Obj(0).phase = "DOWNLOADING"
  PROVE  ~KeepsMe
<1>1. Running /\ Ordered /\ cState = "CONNECTING" /\ Running'
  BY DEF Pursuing, Trying, Undisturbed, Running
<1>2. LinkInv /\ OneInv /\ toClient \in Seq(ToMe) /\ toServer \in Seq(ToServer)
  BY DEF SessionInv, LinkInv, UpInv, DownInv
<1>3. ASSUME ServerHandles
      PROVE  /\ 1 \in DOMAIN toServer /\ toServer' = RemoveAt(toServer, 1)
             /\ Receive(toServer[1]) /\ Handled(toServer[1]) /\ In(toServer[1], toServer)
             /\ UNCHANGED <<phase, cState>>
  BY <1>1, <1>3, FirstHandled DEF In, clientVars
<1>4. CASE ServerHandles /\ toServer[1] = StartMsg
  <2>1. Me \in admitted
    BY <1>2, <1>3, <1>4 DEF LinkInv, UpInv, StageInv
  <2>2. MeIn
    BY <1>1, <1>2, <2>1 DEF LinkInv, StageInv
  <2>3. Obj(0).phase = "HELLO"
    BY <1>2, <1>3, <1>4, <2>2 DEF LinkInv, StageInv, Early
  <2>4. Obj(0)'.phase = "DOWNLOADING"
    BY <1>2, <1>3, <1>4, <2>2, StartHeeded
  <2>5. QED
    BY <2>2, <2>3, <2>4 DEF KeepsMe
<1>5. CASE ServerHandles /\ toServer[1] = HelloOf(Me) /\ ~TurnedAway'
  <2>1. phase = "HELLO_SENT" /\ Me \notin admitted /\ Once(HelloOf(Me), toServer)
    BY <1>2, <1>3, <1>5 DEF LinkInv, UpInv
  <2>2. SUFFICES ASSUME KeepsMe PROVE FALSE
    OBVIOUS
  <2>3. Me \notin admitted'
    <3>1. toServer[1] # StartMsg /\ toServer[1] # Goodbye(Me)
      BY <1>5, MessagesDiffer
    <3>2. ~LetsMeIn
      <4>1. ~MeIn
        BY <1>2, <2>1 DEF LinkInv, StageInv
      <4>2. QED
        BY <2>2, <4>1 DEF KeepsMe, LetsMeIn
    <3>3. QED
      BY <1>3, <1>5, <2>1, <3>1, <3>2 DEF Handled
  <2>4. \A k \in DOMAIN toServer' : ~(toServer'[k].type = "HELLO" /\ toServer'[k].from = Me)
    <3>1. SUFFICES ASSUME NEW k \in DOMAIN toServer', toServer'[k].type = "HELLO",
                          toServer'[k].from = Me
                   PROVE  FALSE
      OBVIOUS
    <3>2. toServer' \in Seq(ToServer) /\ ~In(HelloOf(Me), toServer')
      BY <1>2, <1>3, <1>5, <2>1, RemovedMessages
    <3>3. toServer'[k] \in ToServer
      BY <3>2, ElementOfSeq, LenProperties
    <3>4. toServer'[k] = HelloOf(Me)
      BY <3>1, <3>3 DEF ToServer, HelloOf, Goodbye, StartMsg
    <3>5. QED
      BY <3>2, <3>4 DEF In
  <2>5. QED
    BY <1>3, <1>5, <2>1, <2>3, <2>4 DEF TurnedAway
<1>6. CASE ServerDownloads /\ slot = 0 /\ MeIn /\ Obj(0).phase = "DOWNLOADING"
  <2>1. 0 \in Used /\ clients[0] \in Ptrs /\ Obj(0) \in Object
    BY <1>2, <1>6, OneUsed, UsedObject DEF OneInv, MeIn, Holds
  <2>2. ClientSendWorldChunk(0) /\ UNCHANGED clients
    BY <1>6, <2>1 DEF ServerDownloads, TickDownloads
  <2>3. Obj(0)'.progress = Obj(0).progress + ChunkSize(Obj(0))
    BY <1>2, <2>1, <2>2 DEF ClientSendWorldChunk, Obj, OneInv, ServerTypeOK, Object
  <2>4. Obj(0).progress < WorldBytes
    BY <1>2, <1>6 DEF LinkInv, StageInv
  <2>5. Obj(0).progress \in 0 .. WorldBytes - 1 /\ ChunkSize(Obj(0)) \in 1 .. MAX_PACKET_SIZE
    BY <1>2, <1>6, <2>4, ChunkFits
  <2>6. Obj(0)'.progress # Obj(0).progress
    BY <2>3, <2>5, ServerAssumption
  <2>7. QED
    BY <1>6, <2>6 DEF KeepsMe
<1>7. QED
  BY <1>4, <1>5, <1>6

\* What the client's steps are to its join: what it takes is what it waits
\* for, and brings it further.
LEMMA ClientTakesNext ==
  ASSUME SessionInv, Pursuing, ClientHandles \/ ClientTicks \/ ClientStops
  PROVE  /\ \E m : StageMoves(m)
         /\ ClientAt' \in Int /\ ClientAt' >= ClientAt
         /\ ClientHandles => ClientAt' > ClientAt
<1>1. Running /\ Ordered /\ cState = "CONNECTING" /\ Trying
  BY DEF Pursuing, Trying, Undisturbed, Running
<1>2. /\ toClient \in Seq(ToMe) /\ NoMsg \notin ToMe /\ Chunks \subseteq ToMe
      /\ HelloOk(Me) \in ToMe
  BY MessageKinds DEF SessionInv, LinkInv, DownInv, ToMe
<1>3. ClientAt \in Int
  <2>1. ClientAt \in -2 .. WorldBytes
    BY <1>1, WithinWorld
  <2>2. QED
    BY <2>1, ServerAssumption
<1>4. PICK m : Takes(m) /\ StageMoves(m) /\ WorldMoves(m)
  BY ClientMoves
<1>5. CASE m = NoMsg /\ toClient' = toClient
  <2>1. ClientAt' = ClientAt
    BY <1>2, <1>4, <1>5 DEF WorldMoves, KeepsWorld, ReadsHeader, ReadsChunk
  <2>2. ~ClientHandles
    <3>1. SUFFICES ASSUME ClientHandles PROVE FALSE
      OBVIOUS
    <3>2. PICK i \in DOMAIN toClient : toClient' = RemoveAt(toClient, i)
      BY <3>1 DEF ClientHandles, Deliverable
    <3>3. Len(toClient') = Len(toClient) - 1
      BY <1>2, <3>2, Removed
    <3>4. Len(toClient) \in Nat
      BY <1>2, LenProperties
    <3>5. QED
      BY <1>5, <3>3, <3>4
  <2>3. QED
    BY <1>3, <1>4, <2>1, <2>2
<1>6. CASE \E i \in Deliverable(toClient) : m = toClient[i] /\ toClient' = RemoveAt(toClient, i)
  <2>1. 1 \in DOMAIN toClient /\ m = toClient[1]
    BY <1>1, <1>6 DEF Deliverable, Ordered
  <2>2. m # Bye(Me) /\ At(m) = ClientAt
    BY <1>1, <2>1 DEF SessionInv, OrderInv
  <2>3. ClientAt' = After(m)
    BY <1>1, <1>4, <2>1, <2>2, Expected DEF SessionInv
  <2>4. m \in {HelloOk(Me), MapHeader(Me)} \/ m \in Chunks
    <3>1. m \in ToMe
      BY <1>2, <2>1, ElementOfSeq, LenProperties
    <3>2. QED
      BY <2>2, <3>1, MessageKinds
  <2>5. m \in Chunks => m.offset \in Nat /\ m.size \in Nat \ {0}
    BY BytesOf
  <2>6. After(m) \in Int /\ At(m) \in Int /\ After(m) > At(m)
    BY <2>4, <2>5, WhereMessagesAre
  <2>7. QED
    BY <1>4, <2>2, <2>3, <2>6
<1>7. QED
  BY <1>4, <1>5, <1>6 DEF Takes

\* The client never goes back to a stage of its log in.
LEMMA StagesGoOn ==
  ASSUME SessionInv, Pursuing, Trying', ClientTypeOK', NEW m, StageMoves(m)
  PROVE  StagesLeft \in 0 .. 6 /\ StagesLeft' \in 0 .. 6 /\ StagesLeft' <= StagesLeft
<1>1. cState = "CONNECTING" /\ cState' \in {"CONNECTING", "CONNECTED"}
  BY DEF Pursuing, Trying
<1>2. phase \in ConnectPhases /\ phase' \in ConnectPhases
  BY DEF SessionInv, DownloadInv, ClientTypeOK, ConnectPhases
<1> DEFINE left(p) ==
      [HELLO |-> 5, HELLO_SENT |-> 4, DOWNLOAD_WORLD |-> 3, DOWNLOAD_WORLD_SENT |-> 2,
       DOWNLOADING_WORLD |-> 1, LETS_GO |-> 0][p]
<1>3. left(phase) \in 0 .. 5 /\ left(phase') \in 0 .. 5 /\ left(phase') <= left(phase)
  BY <1>1, <1>2, PhasesAre DEF StageMoves
<1>4. /\ StagesLeft = left(phase) + 1
      /\ StagesLeft' = left(phase') + IF cState' = "CONNECTING" THEN 1 ELSE 0
  BY <1>1 DEF StagesLeft
<1> HIDE DEF left
<1>5. QED
  BY <1>3, <1>4

\* What the client does without a message is a stage of its log in as well.
LEMMA TickHelps ==
  ASSUME SessionInv, Pursuing, Trying', ClientTicks,
         phase \in {"HELLO", "DOWNLOAD_WORLD", "LETS_GO"}
  PROVE  StagesLeft' < StagesLeft
<1>1. cState = "CONNECTING" /\ cState' \in {"CONNECTING", "CONNECTED"}
  BY DEF Pursuing, Trying
<1>2. TickNetwork(NoMsg)
  BY <1>1 DEF ClientTicks, ResolveAddress
<1>3. \/ phase = "HELLO" /\ phase' = "HELLO_SENT" /\ cState' = cState
      \/ phase = "DOWNLOAD_WORLD" /\ phase' = "DOWNLOAD_WORLD_SENT" /\ cState' = cState
      \/ phase = "LETS_GO" /\ phase' = phase /\ cState' = "CONNECTED"
  BY <1>1, <1>2 DEF TickNetwork, SendHello, AwaitHello, RequestWorld, AwaitHeader,
     DownloadChunk, EnterGame, Play, ServerGone, Connecting
<1>4. QED
  BY <1>1, <1>3 DEF StagesLeft

\* What is left is less when anything is further.
LEMMA Sums ==
  ASSUME NEW w \in Int, NEW r \in Int, NEW c \in Int, NEW s \in Int,
         NEW r2 \in Int, NEW c2 \in Int, NEW s2 \in Int, r2 >= r, c2 >= c, s2 <= s
  PROVE  /\ (w - r2) + (w - c2) + s2 <= (w - r) + (w - c) + s
         /\ r2 > r \/ c2 > c \/ s2 < s =>
              (w - r2) + (w - c2) + s2 < (w - r) + (w - c) + s
OBVIOUS

\* Each step of the session, by whose it is.
LEMMA JoinStep ==
  ASSUME TakesOne, OwnAddresses, SessionInv, SessionNext, Pursuing, Trying'
  PROVE  /\ Work \in Nat /\ Work' <= Work
         /\ Helps => Work' < Work
<1>1. Trying /\ Ordered
  BY DEF Pursuing, Trying
<1>2. SessionInv' /\ OneInv' /\ ClientTypeOK' /\ phase \in ConnectPhases
  BY SessionInductive DEF SessionInv, DownloadInv, ClientTypeOK, ConnectPhases
<1>3. StagesLeft \in 0 .. 6
  BY <1>2, PhasesAre DEF StagesLeft
<1>4. Reached \in -2 .. WorldBytes /\ ClientAt \in -2 .. WorldBytes /\ WorldBytes \in Nat
  BY <1>1, WithinWorld, ServerAssumption
<1>5. Work \in Nat
  BY <1>3, <1>4 DEF Work
<1>6. ASSUME Reached' \in Int, ClientAt' \in Int, StagesLeft' \in Int,
             Reached' >= Reached, ClientAt' >= ClientAt, StagesLeft' <= StagesLeft
      PROVE  /\ Work' <= Work
             /\ Reached' > Reached \/ ClientAt' > ClientAt \/ StagesLeft' < StagesLeft =>
                  Work' < Work
  <2>1. Reached \in Int /\ ClientAt \in Int /\ StagesLeft \in Int /\ WorldBytes \in Int
    BY <1>3, <1>4
  <2>2. /\ (WorldBytes - Reached') + (WorldBytes - ClientAt') + StagesLeft'
             <= (WorldBytes - Reached) + (WorldBytes - ClientAt) + StagesLeft
        /\ Reached' > Reached \/ ClientAt' > ClientAt \/ StagesLeft' < StagesLeft =>
             (WorldBytes - Reached') + (WorldBytes - ClientAt') + StagesLeft'
               < (WorldBytes - Reached) + (WorldBytes - ClientAt) + StagesLeft
    BY <1>6, <2>1, Sums
  <2>3. QED
    BY <2>2 DEF Work
<1>7. ASSUME ServerHandles \/ ServerDownloads \/ ServerIdles \/ ServerShutsDown
      PROVE  Work' <= Work /\ (~KeepsMe => Work' < Work)
  <2>1. Gains /\ UNCHANGED <<clientVars, network>>
    BY <1>1, <1>2, <1>7, ServerGains
  <2>2. Reached' \in Int /\ Reached' >= Reached /\ (~KeepsMe => Reached' > Reached)
    BY <1>1, <2>1, GainsCount
  <2>3. ClientAt' = ClientAt /\ StagesLeft' = StagesLeft
    BY <2>1 DEF clientVars, ClientAt, StagesLeft
  <2>4. /\ ClientAt' \in Int /\ StagesLeft' \in Int
        /\ ClientAt' >= ClientAt /\ StagesLeft' <= StagesLeft
    BY <1>3, <1>4, <2>3
  <2>5. QED
    BY <1>6, <2>2, <2>4
<1>8. ASSUME ClientHandles \/ ClientTicks \/ ClientStops
      PROVE  /\ Work' <= Work
             /\ ClientAt' > ClientAt \/ StagesLeft' < StagesLeft => Work' < Work
  <2>1. UNCHANGED <<serverVars, network>>
    BY <1>8 DEF ClientHandles, ClientTicks, ClientStops
  <2>2. Reached' = Reached
    BY <2>1, SameServer DEF Reached, ServerAt
  <2>3. Reached' \in Int /\ Reached' >= Reached
    BY <1>4, <2>2
  <2>4. ClientAt' \in Int /\ ClientAt' >= ClientAt
    BY <1>8, ClientTakesNext
  <2>5. StagesLeft' \in 0 .. 6 /\ StagesLeft' <= StagesLeft
    BY <1>2, <1>8, ClientTakesNext, StagesGoOn
  <2>6. StagesLeft' \in Int
    BY <2>5
  <2>7. QED
    BY <1>6, <2>3, <2>4, <2>5, <2>6
<1>9. ASSUME GuestSends PROVE Work' = Work
  <2>1. UNCHANGED <<serverVars, clientVars>>
    BY <1>9 DEF GuestSends
  <2>2. Reached' = Reached /\ ClientAt' = ClientAt /\ StagesLeft' = StagesLeft
    BY <2>1, SameServer DEF clientVars, Reached, ServerAt, ClientAt, StagesLeft
  <2>3. QED
    BY <2>2 DEF Work
<1>10. Work' <= Work
  <2>1. ~LoseMessage
    BY <1>1 DEF LoseMessage, Ordered
  <2>2. GuestSends => Work' <= Work
    BY <1>5, <1>9
  <2>3. QED
    BY <1>7, <1>8, <2>1, <2>2 DEF SessionNext
<1>11. Helps => Work' < Work
  <2>1. CASE ClientHandles
    BY <1>8, <2>1, ClientTakesNext
  <2>2. CASE ClientTicks /\ phase \in {"HELLO", "DOWNLOAD_WORLD", "LETS_GO"}
    BY <1>8, <2>2, TickHelps
  <2>3. CASE \/ ServerHandles /\ toServer[1] = StartMsg
             \/ ServerHandles /\ toServer[1] = HelloOf(Me) /\ ~TurnedAway'
             \/ ServerDownloads /\ slot = 0 /\ MeIn /\ Obj(0).phase = "DOWNLOADING"
    BY <1>2, <1>7, <2>3, ServerHelps
  <2>4. QED
    BY <2>1, <2>2, <2>3 DEF Helps
<1>12. QED
  BY <1>5, <1>10, <1>11

\* On an ordered network a join only ever goes on: while both run, no step of
\* the server, the client or a guest undoes what was done of it, and each of
\* the steps that NobodyWaits names (a message handled, a stage of the log in
\* (client_auth.cpp:75), a chunk sent) takes a part off what is left, which is
\* a number.  So there are finitely many of them: with the fairness of Session,
\* the client is in the game or was turned away (Joins).
THEOREM JoinAdvancesAlways ==
  ASSUME TakesOne, OwnAddresses
  PROVE  SessionSpec => [][JoinAdvances]_sessionVars
<1>1. SessionInv /\ [SessionNext]_sessionVars => [JoinAdvances]_sessionVars
  BY JoinStep DEF JoinAdvances
<1>2. SessionSpec => []SessionInv
  BY SessionInvariant
<1>3. QED
  BY <1>1, <1>2, PTL DEF SessionSpec
=============================================================================
