# Capybara Wars (sdl3_test): TLA+ specifications, model checking and proofs

Capybara Wars is a small client/server game engine in C++ on SDL3 and SDL_net.
This directory models its own core logic: the receive buffer, the server, the
client, the two together over an unreliable network, the list of players, the
layout of messages, the server's console with its convars, the world, the files
it is saved to, and the allocation counters.  TLC checks the models on small instances; TLAPS proves the most important results
for every value of the constants.  Paths below are relative to `src/src/engine/` unless they start
with `src/`.

## 1. The system

### Components, their state and their operations

| Component | State | Operations | Modelled in |
|---|---|---|---|
| Receive buffer, class `NetMode` (`net/net_core.cpp`, `net/net.hpp`) | `netBuffer[64]`, `netBufferPtr`, payload blocks on the heap | `GetAllIncomingMessages` (one datagram a frame), `GetMessage` (one message a tick), `DoneMessage`, `SendMessageToPort` | `NetBuffer`, `MessageStack` |
| Server (`net/server/`) | `state`, `clients[32]`, `numClients`, a `Client` object per connection (`connectPhase`, `downloadProgress`, address, port) | `Tick` = `TickDownloads` then one message: `ClientNew`, `ClientStartWorldDownload`, `ClientRemove`; `Shutdown` | `Server` |
| Client (`net/client/`) | `state`, `connectPhase`, `downloadProgress`, world size and `tileData`, socket | `Connect`, `Tick` (`TickNetworkConnecting`, `TickNetworkConnected`), `Frame`, `Shutdown` | `Client` |
| Session | both sides, messages under way | the steps of both | `Session` |
| Player list of a client (`net/client/client_rpc.cpp`) | `clients[]`, `numClients` on the client | `OnRpcClientCreate`, `OnRpcClientDelete` | `PlayerList` |
| Messages (`net/net.hpp`, `net/net_message.cpp`, `net/net_packetfactory.cpp`) | payload, `header.size`, read and write positions | `Read`, `Write`, `EnsureCapacityRead`, `EnsureCapacityWrite` | `NetMsg` |
| Console (`net/server/server_console.cpp`) | input thread, future, shared string | `ConsoleUpdate`, `ConsoleInputThread` | `Console` |
| Commands and convars (`core/command/`, `core/cvar/`) | two lists, shared token buffers | `Command_Execute`, `Command_CvarCreate`, `Command_CvarSet`, `Command_Exec`, `Cvar_Get`, `Cvar_Set` | `Console` |
| World (`world/world_generator.cpp`, `core/tier0/quadtree.hpp`) | header, tiles, quadtree | `Init`, `Generate`, `Render` | `World` |
| World files (`world/world_save.cpp`) | the handle `file`, its stream, the file on the disk | `Serialise`, `Deserialise`, `OpenWorldFile`, `CloseWorldFile` | `WorldFile`; that loading fails also in `World` |
| Engine (`core/engine.cpp`, `Capy.cpp`) | `running`, tick time | `Engine_Init`, `Engine_Run`, `Engine_Shutdown` | partly, in the modules above |
| Allocation counters (`core/tier0/memory/`) | `sysNumAllocs`, `sysTotalRam` | `operator new`, `operator delete`, and their array forms | `Memory` |
| File system and images, brewery | streams, list of images | `Open`, `Close`, image `Read`, `Write` | opening and closing, in `Console` and `WorldFile` |
| Entities, rendering, scripting, logging, command line | little or none | | not modelled |
| `external/` | | vendored Squirrel, Sqrat, stb_image | not modelled |

`PROJECT.json` lists every component with its files and status, and every
hazard with its line.

### How they interact

One thread runs `Engine_Run`: a *frame* as often as possible, a *tick* sixty
times a second.  A frame moves at most one datagram from the socket to the
receive buffer; a tick takes the **newest** message out of it and handles it.
Server and client are separate processes that exchange UDP datagrams.  The only
other thread reads lines from the dedicated server's standard input; it allocates
like the first, so the allocation counters are shared without a lock.  A world is
saved (F9) by the main thread between two ticks.

A client joins like this: it resolves the server's address, sends `HELLO`, is
answered `SERVER_HELLO` (only if it is admitted), sends `WORLD_DOWNLOAD_START`,
is answered with a map header of the same type, receives one
`WORLD_DOWNLOAD_PACKET` per server tick, and is in the game when it has as many
bytes as the header announced.  The other clients are sent an RPC
(`CLIENT_CREATE`, `CLIENT_DELETE`) when somebody joins or leaves.

### What is hard

* **Ordering.** The buffer is last-in first-out; sequence numbers are written
  and never read.  A chunk of the world does not say where it belongs.
* **Loss.** Nothing is acknowledged, repeated or timed out.  A full buffer
  drops 63 messages at once.
* **Lifetime by hand.** Payloads, `Client` objects, datagrams and files are freed
  by convention.  `ClientRemove` frees one client and clears the slot of another;
  a broadcast sends a payload that the first send freed.
* **A client that does not look.** Outside the two phases that wait for a type
  a message is dropped or, in the wait for the header, taken for the header.
* **Strings that change.** The console's line is shared by two threads, and a
  convar made at the console keeps pointers into the buffer of the next command.
* **Kills and failed writes.** A save empties the file first; what was written is in
  the file only when its stream is closed, and nobody asks whether it got there.  The handle of a closed file is kept and used again.
* **Players nobody announced.** A client is told of those who come after it, and
  of the departure of those who were there before.
* **Limits.** 32 clients, 64 messages, 1400 bytes a packet, unsigned
  differences, a player limit that can change at run time, a tile of 8 pixels.

### What makes each component correct

* buffer: no double free or use after free, leaks only where the code throws a
  message away, a bounded stack, drained when quiet by an owner that ticks;
* server: used slots stay dense, no slot is overwritten, no write past the
  array, downloads neither stop short nor pass the end of the world, and end; for one player also an exact roster and no heap fault;
* client: in the game means every byte of the world was received;
* session: in the game means the server's own world, the server agrees, every
  client that connects gets there or was turned away, and the slot of everybody
  who quits is free again;
* player list: no more than one stale slot, no announced player uncounted but for
  those the client was misled about, exact for two players;
* messages: what was written fits the block, is sent whole and read unchanged;
* console: every line executed in order, once but for a last line without a newline,
  convars of the program never shadowed;
* world: layers in order, no hole but at a border, frames that end, generation
  that ends;
* world files: a save that met no failure stays whole, a file never mixes two worlds;
* allocation counters: exact unless an update was lost between two threads.

## 2. Modules

| Module | What it is |
|---|---|
| `MessageStack` | abstract: a bounded stack that drops all but its oldest entry when it is full |
| `NetBuffer` | the receive buffer: array, index, heap of payloads |
| `NetBufferProofs` | its theorems |
| `Server` | the server tick by tick, slot by slot, with `Client` objects on a heap |
| `ServerProofs` | its theorems |
| `Client` | the client, tick by tick, with the bytes of its world |
| `Session` | extends `Client` and `Server`: the two with the network between |
| `SessionProofs` | the theorems of `Client` and `Session` |
| `PlayerList`, `PlayerListProofs` | the list that announcements maintain on a client, and its theorems |
| `NetMsg`, `NetMsgProofs` | one message from its constructor to its last read, and its theorems |
| `Console`, `ConsoleProofs` | the two threads of the console, the commands and the convars, and the theorems |
| `World` | a column of the world: generation, quadtree loop, frames |
| `WorldFile` | saves and loads over several lives of a program that may be killed |
| `WorldProofs` | the theorems of both |
| `Memory`, `MemoryProofs` | the allocation counters under two threads, and their theorems |
| `MC...` | constants for TLC |

Operators marked `(mutant)` in the modules are faulty variants of the definition
that follows them.  No specification uses them; substituted for the definition
they must break the property they are listed with in `PROJECT.json`, which shows
that the property depends on that piece of code.

### NetBuffer

`StoreDatagram`, `OverflowBuffer` and `RejectDatagram` are the three ways
through `GetAllIncomingMessages`; `HandleMessage` is a tick that ends in
`DoneMessage`, `AbandonMessage` one whose handler returns before it (the
server's branch for a packet of an unknown address).  `heap` holds the
allocated payload blocks, `lost` those whose message was thrown away.
`ticking` says whether the owner is in a state whose tick looks into the buffer:
`SERVER_RUNNING`, `CLIENT_CONNECTING` or `CLIENT_CONNECTED`.  `Frame` stores
datagrams in every state (`client_core.cpp:150`), so the buffer of a client that has
not connected yet, is resolving an address or was disconnected fills and overflows
without ever being popped.  `ChangeState` stands for all changes of state that take
no message, a `Tick` may change it too: a refusal, the server's shutdown.
`MessageStack` is the abstraction; the refinement mapping turns slots
`0 .. netBufferPtr` into a sequence and `ticking` into the stack's `popping`.

### Server

An action is an iteration of a loop (`TickDownloads`, `ShutdownSlot`), the
handling of one message, a console command or a step of the shutdown.  The loop
index `slot` makes the order inside a tick explicit: all slots, then one
message.  Messages to the server are not stored: any peer may send any message
that its own program can send at that time (it asks for a download only once
admitted), which covers loss, repetition and reordering.

`heap` maps pointers to `Client` objects.  A freed object keeps its contents
until the pointer is reused; touching one is either unnoticed or a fault
(`Outcomes`).  The broadcast sends a payload freed by the first send: later
recipients get it intact or not, and the repeated free may be fatal
(`BroadcastOutcomes`).  `members` and `admitted` are history variables: who was
admitted, and who has neither left nor been told of the shutdown.

`numClients` is not initialised by the code (a `Server` has a constructor of its
own, so `new Server` does not clear it); the model starts with 0, what fresh
memory holds.  References on addresses and the text of messages are left out.

### Client

An action per state and phase.  `TickNetwork(m)` is a tick with message `m`, or
with none.  Byte `i` of the server's world is the number `i`, so `tiles` shows
where each byte of the client's world came from.  In the wait for the header the
size is read from whatever arrives: `GarbageSizes` are the sizes another message
can spell, and reading past such a message, or allocating what it says, may end
in a fault.  A chunk that does not fit is written past the array, which may go
unnoticed.

### Session

`toServer` and `toClient` hold what was sent and not handled.  The variable
`network`, chosen at the start, says what they do: "ordered", messages are handled
in the order they were sent in, which is what happens as long as each is handled
before the next arrives; "lossy", any may disappear and any may be handled next,
which includes what the last-in first-out buffer does.  Properties that need order
say so (`Ordered`).  Repetition of a datagram by the network is not modelled here
(it is in `Server` and `Client` on their own).  Guests are other client processes:
they may say hello and goodbye, once each and not in the other order; their
downloads are left out because the client never sees them.

The client is any the code allows: it may fail to find the server, quit at any
point of its log in or download, or die of a fault; the server may shut down.

### PlayerList

`Joins` and `Leaves` are the two announcements with their handlers
`OnRpcClientCreate` and `OnRpcClientDelete`; `others` is a history variable, the
players there are.  `early` are those of them that were there before this client:
the server does not tell it of them (`ClientNew` sends the announcement to the
others only), but does tell it when they leave.  If such a player shares its
address with a listed one, its departure takes an entry that is not its own;
`misled` counts those, and the count of the list can be too small by as many, down
to -1: the assert of the deletion fails, or an object is written in front of
`clients[]`.  The deleting loop clears `clients[numClients]`, not the slot
it found: `Deleted` is the set of slots whose object it frees (the slot it
clears may have been one of them, later in the loop).  Names are addresses, so
two players can share one.  The handlers run on the same kind of heap as in
`Server`.

### NetMsg

A byte of the payload is the index of the field that wrote it, 0, or `Garbage`:
that is enough to tell whether a field is read back from its own bytes.  `Write`
is `EnsureCapacityWrite` and the copy, `Send` the copy of `header.size` bytes
into the datagram and the receiver's size check, `Read` one field at the
receiver, in the order of writing.  `overrun` counts the bytes that the padding
of a string writes behind the block; they are lost in the model, as they belong
to somebody else.  `OverrunBehindFields` bounds them: the padding of a string runs
past the block by at most what was written before that string, so a string that is
written first never does.  Magic, sequence number and type take no part.  All fields of
the header are 32 bits wide and bounded by a packet, so nothing wraps.

### Console

`inputThread` goes through "starting", "reading" and "done"; the main thread
takes the result ("taken"), executes the shared string and starts the thread
again.  A convar that a command made holds a pointer into the token buffer; its
name is therefore whatever word stands there now, which the model writes as the
name of the command ("set" or "create") and `IsNamed` resolves against the line
in execution.  Values are read once, when they are set.  `exec` opens a file for
writing, which empties it (`Opened`), deletes it twice (`ClosedTwice`), or loops
for ever over one that did not open; from then on the main thread does nothing
in the model.  Lines of more than 256 bytes (`MAX_STRING`, `Capy.hpp:41`) and repeated
blanks are left out.

Standard input may end after a newline (`CloseInput`) or within a line
(`CloseWithin`, `cut`).  `std::getline` empties the string only if its sentry
succeeds.  The first read that finds no line fails after it has emptied the string
and sets `eofbit`; a read of a line that has no newline succeeds, and sets `eofbit`
as well.  From then on the string is left alone, so in the second case the main
thread executes the last line again at every restart.  That goes on without end; the
history `executed` shows the first `MaxRepeats` repetitions.

### World

The rows of a column are written top down; within a layer all move up by the
same `shift`, drawn again where a layer begins (`CreateGenerateNoise`; the
interpolation between two noise points stays in the same range).  Columns are
independent, so one stands for all.  The block is not cleared: a tile that was
not written is `Unset`, and `garbage` says which kind of byte it happens to be
for `Render`: a tile, the first number behind the tiles (looked up as a null
pointer) or one beyond it (the frame returns with the texture locked).
`DivideQuads` is one turn of the halving loop; the quads it creates are read by
nothing.

### WorldFile

The actions are the starts of a program (a server with or without a map, a
client), the kill that may come at any time, the arrival of a client's world,
`Deserialise` in a server with a map, and the four steps of `Serialise`.  A program's world is its seed, its size and the
bytes received so far; a file is a sequence of the header and the tiles.  `stream`
is what the stream took and `disk` what has arrived of it: any beginning may, until
the stream is closed.  A write may fail (a full disk): `bad` is set, any part of it may
have arrived, and the stream takes nothing more; the flush of the close may fail the
same way.  Neither `Serialise` nor `Filesystem::Close` looks at the stream, so the
save goes on and returns true.  Whatever a library tries again when it closes a
stream after a failure, what reaches the file is taken to be a beginning of what was
written.  `CloseWorldFile` leaves the handle "dangling": later saves
of the same life take it for an open file, write to a freed stream and free it
again, which goes unnoticed or ends the program.  A stream that could not be
opened ("failed") goes unnoticed, because `Open` reports it only if the bad bit is
set.  `OpenWorldFile` opens a file only if it may create it; `Deserialise` forbids
that, so it never gets one, and a server with a map starts without a world.
`SaveIsWhole` is about saves for which the file was opened and none of whose writes
nor the flush failed (`complete`); the return value of `Serialise` says nothing of
the kind, it is true as well for a stream that did not open, for the dangling handle
and after a failed write.

### Memory

Each thread goes through the steps of `operator new` or `operator delete`, an
increment being a read and a write.  `lost` names the counters of which an update
fell between the two halves of another; `forgotten` is the number of bytes of
freed blocks that are still counted, as `delete` subtracts the size of its
parameter, a pointer.  The counters wrap at `SizeLimit`.  A data race on a word of
this kind is given the outcomes of two separate accesses, which is what compilers
make of `++`.  The terminating messages of `new` (no memory) and `delete` (no
allocations) are `alarm`.

## 3. Runs

Passing runs; `tlc -workers 2 -config X.cfg M`:

| Run (cfg) | Properties | Bounds and why they suffice |
|---|---|---|
| `netbuffer` (`MCNetBuffer`) | `BufferedPayloadsOwned`, `PayloadsAccounted`, `ImplementsStack`, `DrainsWhenQuiet` | 3 slots, 5 datagrams, 5 blocks: the buffer fills, overflows and is refilled, with an owner that starts and stops ticking at any time |
| `server` (`MCServer`) | `SlotsBelowCount`, `DownloadConsistent`, `OverrunOnlyByConsole`, `DownloadFinishes` | 3 slots, 2 peers behind one address (so one peer can fill several), 3 objects, a world of one full and one short chunk, `netMaxPlayers` given as 4 and clamped, console values 1 and 5: below and above the array |
| `server_single` (`MCServerSingle`) | `RosterExact`, `NoHeapFault` | one player allowed, three peers with an address each |
| `session` (`MCSession`) | `WorldReplicated`, `ServerAhead`, `NoDownloadFault`, `NoGhosts`, `SocketUsedUp`, `InGameComplete`, `Joins`, `SlotsFreed` | both kinds of network; one place, the client and a guest that compete for it, a world of 3 chunks, other sizes 0, 4 and 7: worlds that are met exactly, overrun, empty and never filled |
| `playerlist` (`MCPlayerList`) | `OneStaleSlot`, `CountCoversOthers`, `NoBoundsFault`, `ExactForTwo` | 4 slots, 3 players of whom 2 share an address and any of whom may be there first, 4 objects; joins and leaves without a bound, so the list fills with left-over entries and the count becomes negative |
| `netmsg` (`MCNetMsg`) | `FieldsFit`, `RoundTrip`, `OverrunBehindFields` | every message of up to 3 fields (numbers of 1 and 2 bytes, strings of 0 to 3), every initial size to 5, packets of 11 bytes: blocks that never grow, grow at every write, and are refused |
| `console` (`MCConsole`) | `LinesInOrder`, `StartCvarsKept`, `OneCvarPerCommand`, `LinesExecuted` | 3 lines of any kind, the last with or without a newline, `MaxRepeats` 2: a line executed three times shows as such; 2 convars at the start and 2 new names: a convar made, met again under another name, and set |
| `world` (`MCWorld`) | `LayersOrdered`, `UnsetOnlyAtBorders`, `FramesComplete`, `GenerationEnds` | the layers, tile size and noise of the program, worlds 74, 60 and 50 rows high (all layers, two of ground), widths 400, 40 and 256, of which the last is halved to exactly a tile; screens that end above and below the second layer of ground |
| `worldfile` (`MCWorldFile`) | `SaveIsWhole`, `NeverMixed` | two worlds of 3 bytes, chunks of 1 and 2: a world saved before, during and after its download, over a longer file of another world; lives, saves, kills and failed writes without a bound |
| `memory` (`MCMemory`) | `CountExact`, `RamExact`, `AlarmOnlyByRace` | both threads, 3 blocks, sizes below and above a pointer's 8 bytes, totals that wrap at 64, 5 calls: two of `new` that lose an update, and the deletions that meet a count of 0 |

Type invariants are not spent a run on: they are theorems, or parts of the
inductive invariants of section 4.

Runs that refute what the repository says of the program:

| Run | Property | Statement | What happens |
|---|---|---|---|
| `server_shutdown` (`MCServerShutdown`) | `ShutdownReachesAll` | src/docs/changes.txt:22 | two players: the second slot is cleared before the loop reaches it |
| `session_second` (`MCSessionSecond`) | `Joins` | src/docs/readme.txt:22 | two places: another player's arrival is taken for the map header |

Other disagreements, found by reading, that the models contain and no run is
spent on:

* a rejected hello is not answered (`server_auth.cpp:78`), and the check for a
  duplicate compares user names with addresses (`server_auth.cpp:46`):
  `RejectHello`, `ClientIsNew`;
* `ClientRemove` clears the slot of another client than the one it frees
  (`server_auth.cpp:91`) and a message is attributed by address alone
  (`server_core.cpp:216`), so with several players the sender is not always the
  one found: `ClearedSlots`, `ClientMessage`;
* a broadcast sends its payload again after the first send freed it
  (`server_core.cpp:138`, `net_core.cpp:159`): `ToAll`;
* datagrams are destroyed only when they are stored (`net_core.cpp:55`, `110`):
  `RejectDatagram`, `OverflowBuffer`;
* the console can raise the limit above the array: `OverrunSlots`;
* chunks that arrive within one tick change places (`client_auth.cpp:52`): on
  a lossy network `WorldReplicated` promises every byte of the server's
  world exactly once, but not in its place;
* after a failed look-up the socket is used once destroyed
  (`client_core.cpp:142`): `PollDestroyedSocket`; no heartbeat is ever sent
  (`net.hpp:65`);
* all convars made by `set` at the console are one, likewise by `create`
  (`cvar.cpp:47`): `OneCvarPerCommand`; `exec` empties the file it is to read,
  deletes it twice or loops (`commands_exec.cpp:33`, `46`): `Command_Exec`;
  setting `netMode` disables the console (`server_core.cpp:253`): the exception
  in `LinesExecuted`; a last line without a newline is executed again and again
  (`server_console.cpp:16`, `27`): the exception in `LinesInOrder`;
* `mapSizeY` 256 never finishes (`world_generator.cpp:246`): the exception in
  `GenerationEnds`; rows at borders and at the bottom stay unwritten
  (`world_generator.cpp:215`): `UnsetOnlyAtBorders`; loading a map always fails
  (`world_save.cpp:68`): `Deserialise`, `LoadMap`;
* "already open" (`world_save.cpp:11`) is what a closed file looks like, because
  `CloseWorldFile` keeps its pointer: `OpenWorldFile` with a dangling handle; and a
  file that failed to open does not make it return false, as the same line says
  (`filesystem.cpp:61` asks for the bad bit, `open` sets the fail bit):
  `FilesystemOpen`;
* a save whose write or flush fails returns true (`world_save.cpp:49-56`,
  `filesystem.cpp:124`): `StreamWrite`, `OnClose`;
* a client that does not tick the network stores datagrams all the same
  (`client_core.cpp:132`, `150`): the condition of `DrainsWhenQuiet`;
* a new client is not told of those who are there (`server_auth.cpp:76`), and is
  told when they leave: the exceptions for `misled`;
* a goodbye that overtakes its hello leaves a client on the server for good
  (`server_core.cpp:191`): `NoGhosts` and `SlotsFreed` are about ordered networks;
* `operator delete` subtracts `sizeof(p)`, the size of a pointer
  (`memory.cpp:59`): `forgotten`; one lost update makes it stop a correct program
  (`memory.cpp:55`): `AlarmOnlyByRace`.

`CHECK_DEADLOCK FALSE` is set in all runs but `netbuffer` and `worldfile`, because the
programs modelled may stop for good: the server dies, the client quits or waits, the
calls are used up, nobody types, a message has been read, a frame crashed.  The owner
of a buffer can always change its state, and a program of `worldfile` can always be
killed and started again, so there deadlock is checked.

### Fairness

`Engine_Run` is an endless loop that ticks at a fixed rate, so a tick that is
due happens: weak fairness of `NetBuffer!Tick`, which is due only while the owner is
in a state that ticks the network (`DrainsWhenQuiet` and the liveness part of
`ImplementsStack` promise nothing to an owner that leaves it), of the server's loop iterations
and message-less ticks, of the shutdown loop, and in `Session` of the ticks of
both sides on both networks.  In `Session` a message to the server that was not lost is handled
in the end although the server may go through ticks that do not find it yet:
strong fairness of `ServerHandles`.  In `Console` each thread is scheduled as
long as it has something to do; in `World` the loops of `Generate` run to their
end.  No message, console command, guest, loss or
exit is ever assumed to happen.

## 4. Proofs

`tlapm` checks every leaf of `NetBufferProofs`, `ServerProofs`, `SessionProofs`,
`PlayerListProofs`, `NetMsgProofs`, `ConsoleProofs`, `WorldProofs` and
`MemoryProofs`.  Every invariant that a passing run checks is a theorem.  The
assumptions are the `ASSUME`s of the modules: array and packet sizes are
positive, `NULL` is no pointer, messages carry numbers where the code reads
numbers, the convars the engine starts with have names of their own that are not
those of commands, layers of ground begin further apart than the noise can move
them, worlds are at least as wide as a line of noise has points, threads and blocks are finite in number.  Two hypotheses are stated with the
theorems that need them:

* `TakesOne`: the server is started with a limit of at most one player, and the
  console sets no higher one.  With two players the properties are false
  (`server_shutdown`, `session_second`, and the disagreements of section 3).
* `OwnAddresses`: no two peers share an address.  The server knows a sender by
  its address only.

| Theorem | States |
|---|---|
| `NetBufferProofs!TypeCorrect`, `OwnershipCorrect`, `AccountingCorrect` | `[]TypeOK`, `[]BufferedPayloadsOwned`, `[]PayloadsAccounted` for every buffer size and heap |
| `NetBufferProofs!ImplementsStackSafety` | the safety part of `ImplementsStack`, whatever state the owner is in |
| `ServerProofs!TypeCorrect`, `SlotsCorrect`, `DownloadsCorrect` | `[]ServerTypeOK`, `[]SlotsBelowCount`, `[]DownloadConsistent` for every number of peers, slots and objects and every world |
| `ServerProofs!SlotsNotOverwritten` | no step replaces a client in a slot by another (`NoSlotOverwritten`) |
| `ServerProofs!OverrunCorrect` | `[]OverrunOnlyByConsole` for all limits |
| `ServerProofs!NoHeapFaultCorrect` | `TakesOne`: `[]NoHeapFault`, for any peers that send what they like |
| `ServerProofs!RosterCorrect` | `TakesOne`, `OwnAddresses`: `[]RosterExact` |
| `ServerProofs!RosterWhileNobodyLeaves` | `[]RosterExact` for any number of places and any addresses, as long as nobody says goodbye (`StayNext`) |
| `ServerProofs!DownloadsAdvanceAlways` | no step takes a running download back, and each turn of the loop brings its next chunk nearer (`DownloadsAdvance`) |
| `SessionProofs!ClientTypeCorrect`, `InGameCorrect` | `[]ClientTypeOK`, `[]InGameComplete` of the client alone, for every set of messages |
| `SessionProofs!SocketCorrect` | `[]SocketUsedUp` of the session, on every network and with any limit |
| `SessionProofs!ReplicationCorrect`, `ServerAheadCorrect` | `TakesOne`, `OwnAddresses`: `[]WorldReplicated`, `[]ServerAhead` for every world, packet size and number of guests |
| `SessionProofs!DownloadFaultCorrect`, `GhostsCorrect` | `TakesOne`, `OwnAddresses`: `[]NoDownloadFault`, `[]NoGhosts` |
| `SessionProofs!SessionImplementsServer`, `SessionKeepsServer` | every session, on every network and with any limit, is a run of `Server`; so `[]SlotsBelowCount`, `[]DownloadConsistent` hold in it |
| `SessionProofs!SessionImplementsClient`, `SessionInGameComplete` | `TakesOne`, `OwnAddresses`: every session is a run of `Client`; so `[]InGameComplete` holds in it |
| `SessionProofs!GoodbyesArriveAlways` | `TakesOne`, `OwnAddresses`: in order, each message handled brings a goodbye nearer, and handling it frees the slot |
| `SessionProofs!JoinsStandStillNever`, `JoinAdvancesAlways` | `TakesOne`, `OwnAddresses`: in order, a join that is not over always has a step that brings it on (`NobodyWaits`), and there are finitely many of them (`JoinAdvances`) |
| `PlayerListProofs!TypeCorrect`, `SlotsCorrect`, `CountCorrect`, `BoundsCorrect` | `[]TypeOK`, `[]OneStaleSlot`, `[]CountCoversOthers`, `[]NoBoundsFault` for any finite set of players, early or announced, any names and slots |
| `PlayerListProofs!ExactCorrect` | `[]ExactForTwo` |
| `NetMsgProofs!TypeCorrect`, `FieldsFitCorrect` | `[]TypeOK`, `[]FieldsFit` for every message and packet size |
| `NetMsgProofs!RoundTripCorrect`, `OverrunCorrect` | `[]RoundTrip`, `[]OverrunBehindFields` for messages of any number of fields |
| `ConsoleProofs!TypeCorrect`, `LinesCorrect`, `OneEachCorrect`, `StartCvarsCorrect` | `[]TypeOK`, `[]LinesInOrder`, `[]OneCvarPerCommand`, `[]StartCvarsKept` for every list of convars and any number of lines |
| `ConsoleProofs!LinesAdvanceAlways`, `NeverStandsStill` | each step of either thread lowers the number of steps until a line is executed, and until then one of them has a step to do |
| `WorldProofs!TypeCorrect`, `LayersCorrect`, `BordersCorrect`, `FramesCorrect` | `[](TypeOK /\ RowInside)` (every row a tile is moved to lies in the world), `[]LayersOrdered`, `[]UnsetOnlyAtBorders`, `[]FramesComplete` for every table of layers, tile size, noise, world and screen |
| `WorldProofs!StuckOnlyAtTile`, `GenerationAdvances` | the quadtree loop gets stuck only if halving a side of the world meets the size of a tile; every other turn of `Generate` lowers a number |
| `WorldProofs!SaveCorrect`, `NeverMixedCorrect` | `[]SaveIsWhole`, `[]NeverMixed` of `WorldFile`, for every set of worlds and chunk size and any writes that fail |
| `MemoryProofs!TypeCorrect`, `CountCorrect`, `AlarmCorrect`, `RamCorrect` | `[]MemoryTypeOK`, `[]CountExact`, `[]AlarmOnlyByRace`, `[]RamExact` for any number of threads, blocks and sizes |

Along which argument:

* *NetBuffer.* Ownership and accounting are inductive together with the types:
  a stored payload is a fresh block, so it differs from all that are buffered; a
  pop frees the block of the one slot that leaves the buffer.
* *Server.* `SlotsBelowCount` needs the bound on `numClients` from the types;
  with it, the slot `ClientNew` writes is free and the slot `ClientRemove`
  clears is the last used one, which is why clearing the "wrong" slot keeps the
  array dense.  `DownloadConsistent` is stated over all objects, freed ones
  included, because the loops also reach freed objects.  With one place, `OneInv`
  says that at most the first slot is used, and that the object in it is live:
  whoever is removed is then in the slot that is cleared, and nobody is left whom a
  broadcast could reach with a freed payload.  This needs no assumption on
  addresses.  `MemberInv` adds that the member is the peer of that object: with
  addresses of their own the client that is found is the sender.
* *Client.* `InGameComplete` is not inductive.  `DownloadInv` adds that nothing
  is downloaded before the header, that all bytes below the progress have been
  received, that the last phase is entered only with the progress at the end,
  and that the game is entered only from it.
* *Session.* `SessionInv` puts the invariants of the server together with what the
  messages on the way say of both sides.  `UpInv`, `StageInv` and `DownInv`: each
  thing is said at most once, and how far the log in is decides what may be on the
  way.  `BytesInv` and `ReceivedInv`: the bytes of the messages on the
  way and the bytes received are disjoint and below the server's progress, whatever
  the network does.  The bytes received are a set with as many members as the
  client's progress, within a set with as many as the server's, which is
  `ServerAhead`; a full download of the right size is then the whole set, every byte
  once.  `OrderInv`: on an ordered network each message begins
  where the one before it ends, and the first where the client is; so chunks land
  in their places and the header comes first (`NoDownloadFault`).  `PrefixInv`:
  what the client has is then a beginning of the server's world.  `GhostInv`: the
  goodbye of a peer is behind its hello.  `SocketInv` is a small invariant of the
  client's side.
* *Player list.* A deletion lowers the count only for an announced player that
  leaves, or for an early one, which `misled` then counts; with the count at least
  the announced players less `misled`, it can become negative only when the client
  was misled.  The array must have room for all players and this client.
  `ExactForTwo` needs `OneOther`: as long as there was never more than one other
  player, the list is that player in the first slot, or empty.
* *Messages.* `FieldsFit` is inductive with the types: a write that is accepted
  grows the block by at least what is missing, and the limit is tested on the
  grown size.  The types need the string lengths in a message to have a least
  element where the reader chooses one.  `RoundInv` says,
  unless the message was refused, that the fields follow one another up to the
  writer's place and hold their own bytes (`FieldsIn`), and that the reader is
  at the beginning of the field it reads next; no write reaches into an earlier
  field, and growing the block keeps them.
* *Console.* `LinesInOrder` needs `ThreadsInv`: the main thread executes only
  while the other's result is taken, and a reading thread has an empty string until
  the end of input is met.  From then on nothing is pending, and `LastLineStays`: the
  string holds the last line or none, so what is executed again is that line.
  `StartCvarsKept` needs `CvarsInv`: the convars of the start are in their
  places and all later ones bear the name of a command.  A name then matches at
  most two convars, and if one of them is of the start it comes first.
* *World.* While the layer that begins at row B is written, `LayerInv` holds: what
  earlier layers wrote lies above B, and where it lies below tiles of this layer,
  it lies in the rows that this layer is still to overwrite, because all rows of a
  layer move by the same amount and no more than `MaxShift`.  When the layer ends
  nothing is left to overwrite, so the layers are in order, and what was skipped
  lies just above B.  A frame breaks off only at a tile that was not written, and
  those lie below the screens `FramesComplete` is about.
* *World files.* `FileInv` adds to the two properties that an open stream holds a
  beginning of the present world's file, and as much of it as the save has come to
  unless a write failed (`OpenInv`).  Writing a part of one beginning over another
  leaves a beginning (`FlushKeepsPrefix`), so neither failed writes nor kills do harm.
  The world does not change during a save, and opening a file empties it, so no file
  mixes two worlds.  There is no handle while a map is loaded, and without `tryCreate`
  it stays so: the load leaves the file alone.
* *Memory.* `CountInv`: the threads that free have a block each, no two the same,
  and there are no more blocks and allocating threads than there were calls.  So
  the exact count lies between 0 and the calls: it does not wrap, and it is not 0
  when a thread is about to free.  `RamExact` sums over sets with a fold.  The
  library's induction theorems take an operator, which the provers cannot
  instantiate; `SubsetInduction` is the same principle for a set of good subsets,
  from the library's well-founded order on subsets.  With it a fold of
  natural numbers is the cardinality of a set that has as many members as is
  summed (`SumIsUnits`), and the sums move as cardinalities do.

* *Sessions as runs of their parts.* A step of the session is a step of the
  server, of the client, of both standing still, or of neither, so the server's
  theorems hold in it without more.  For the client one has to know that nothing is
  on the way that `Client` does not reckon with, which is `DownInv`.
* *Departures.* Nobody's object is freed while nobody leaves, so the objects of the
  used slots stay apart: a hello takes an object that is not live, puts it in the
  first free slot and makes its sender a member.

What liveness rests on.  Why something must happen has two halves: that the program
takes the steps it can take, which is fairness, and that those steps lead there and
never run out or wait for each other.  The second half needs no fairness and is proved
for every value of the constants:

* `DownloadFinishes`: `DownloadsAdvance`.  The bytes to send, and among equals the
  turns until the slot's next one, are natural numbers that go down at each
  turn; other clients' hellos, restarts and goodbyes do not raise them.
* `LinesExecuted`: `LinesAdvance` and `NoStandstill`, with `EndOfInput`: the input
  thread comes back without a line only when the input is closed and empty.
* `GenerationEnds`: `GenerationAdvances`; its exception is `StuckOnlyAtTile`.
* `SlotsFreed`: `NoGhosts` and `GoodbyesArrive`.
* `Joins`: `NobodyWaits` and `JoinAdvances`.  `NobodyWaits` needs `PursuitInv`: the
  request of a client that the server still takes for new is on the way, and a client
  goes on downloading only while bytes are missing.  With `OrderInv`, an empty queue
  means that both are at the same place, so the phase that waits has what it waits for
  still to come.  The measure is `Work`: the bytes the server has not sent, those the
  client has not received, and the stages of the log in.

Only model-checked: the liveness properties themselves (`DrainsWhenQuiet`,
`DownloadFinishes`, `Joins`, `SlotsFreed`, `LinesExecuted`,
`GenerationEnds`) and the liveness part of `ImplementsStack`, because the step from
fairness to what happens needs `ENABLED`, about which TLAPS does not reason.  For
`DrainsWhenQuiet` no measure is stated: it is the number of stored messages.  The two runs that expect a violation are refutations; there is nothing to
prove of them.

## 5. Not modelled, and the plan

Done: the modules and proofs above.  What stays open:

1. `NoHeapFault` for several places.  It is false: from three places on a broadcast
   frees its payload more than once even if nobody ever leaves (`ToAll`), so
   `RosterExact` is the most that `RosterWhileNobodyLeaves` could say.
2. `WorldReplicated` for a client among several.  It is false too (`session_second`);
   what remains true there is what `SessionKeepsServer` says of the server's side.
3. Liveness from the measures of section 4, when the prover handles `ENABLED`.
4. Beer images and entities, once the program uses them.

Not modelled, and why:

* reading and writing of beer images (`filesystem.cpp`): nothing calls them, and
  `FS_GetImageByName` finds no image, so no state of the running program depends on
  them; the brewery tool is a single pass over a directory;
* the geometry of the quadtree: its quads are read by nothing;
* entities: none exists in the running program; rendering apart from the loop over
  tiles: calls of SDL; scripting: start and stop of a vendored machine;
* logging and the command line: pure I/O, or no state a property could be about;
* the vendored libraries.
