------------------------------- MODULE WorldFile -------------------------------
(***************************************************************************)
(* Saving the world (world/world_save.cpp) over the lives of the program:  *)
(* the handle WorldGenerator::file, the stream behind it and the file on   *)
(* the disk, which outlives the program.                                   *)
(*                                                                         *)
(* F9 saves the world of a server, or what a client has downloaded of it,  *)
(* between two ticks.  CloseWorldFile frees the handle and keeps the       *)
(* pointer, so every later save of the same life writes to a freed stream  *)
(* and frees it again: that goes unnoticed or ends the program.  What was  *)
(* written reaches the disk when the stream likes, and at the latest when  *)
(* it is closed; the program may be killed at any moment before.  A write, *)
(* or the flush of the close, may also fail (a full disk): nobody looks at *)
(* the state of the stream, so the save goes on and returns true.          *)
(***************************************************************************)
EXTENDS Integers, Sequences, SequencesExt

CONSTANTS
    Seeds,          \* worlds a program can have
    WorldBytes,     \* bytes of tileData
    ChunkBytes      \* bytes of a downloaded chunk

ASSUME WorldFileAssumption ==
    /\ WorldBytes \in Nat \ {0}
    /\ ChunkBytes \in Nat \ {0}

VARIABLES
    up,             \* does the program run?
    world,          \* the world it has: seed, header.size, bytes received
    file,           \* the handle: "null", "open", "failed" or "dangling"
    saving,         \* where Serialise is: "idle", "header", "tiles", "close";
                    \* "load": Deserialise is called
    stream,         \* what the stream has taken
    bad,            \* its badbit: a write failed
    disk,           \* the contents of the file
    saved,          \* history: the world for which the file was last opened
    complete        \* history: was that save finished without a failure?

fileVars == <<up, world, file, saving, stream, bad, disk, saved, complete>>

\* A part of a file: the header, or a byte of the tiles.  A byte that was
\* not received is whatever the block held.
Header(w) == <<"header", w.seed, w.size>>
Tile(w, i) == IF i <= w.got THEN <<"tile", w.seed, i>> ELSE <<"unset", w.seed, i>>
Tiles(w) == [i \in 1 .. w.size |-> Tile(w, i)]

\* What Serialise writes of a world.
FileOf(w) == <<Header(w)>> \o Tiles(w)

\* A program that has just started: a server that generated its world, or a
\* client, or a server that was given a map, neither of which has one.
GeneratedWorld(s) == [seed |-> s, size |-> WorldBytes, got |-> WorldBytes]
NoWorld(s) == [seed |-> s, size |-> 0, got |-> 0]

FileInit ==
    /\ up = FALSE
    /\ world \in {NoWorld(s) : s \in Seeds}
    /\ file = "null" /\ saving = "idle" /\ stream = <<>> /\ bad = FALSE
    /\ disk = <<>>
    /\ saved = world /\ complete = FALSE

-----------------------------------------------------------------------------
(* The life of a program *)

\* The handle is not initialised; the model starts where the fresh block the
\* server or client is allocated in is zero.
NewLife ==
    /\ ~up
    /\ up' = TRUE
    /\ file' = "null" /\ stream' = <<>> /\ bad' = FALSE
    /\ UNCHANGED <<disk, saved, complete>>

\* A server without a map generates a world.
StartServer ==
    /\ NewLife
    /\ saving' = "idle"
    /\ world' \in {GeneratedWorld(s) : s \in Seeds}

StartClient ==
    /\ NewLife
    /\ saving' = "idle"
    /\ world' \in {NoWorld(s) : s \in Seeds}

\* A server with a map loads it before its first tick.
StartServerWithMap ==
    /\ NewLife
    /\ saving' = "load"
    /\ world' \in {NoWorld(s) : s \in Seeds}

\* The program is killed, or a fault ends it: what is in the stream is lost.
Killed ==
    /\ up' = FALSE
    /\ UNCHANGED <<world, file, saving, stream, bad, disk, saved, complete>>

Kill == up /\ Killed

\* A client's world: the map header, then its chunks.
ReceiveHeader ==
    /\ up /\ saving = "idle" /\ world.size = 0
    /\ world' = [world EXCEPT !.size = WorldBytes]
    /\ UNCHANGED <<up, file, saving, stream, bad, disk, saved, complete>>

ReceiveChunk ==
    /\ up /\ saving = "idle" /\ world.got < world.size
    /\ \E n \in 1 .. ChunkBytes :
        /\ world.got + n <= world.size
        /\ world' = [world EXCEPT !.got = @ + n]
    /\ UNCHANGED <<up, file, saving, stream, bad, disk, saved, complete>>

-----------------------------------------------------------------------------
(* Serialise and Deserialise *)

\* (mutant) The old contents are kept.
Truncated_Kept == disk

\* Filesystem::Open truncates whatever it opens.
Truncated == <<>>

\* A new stream on the file, or one that could not be opened: that goes
\* unnoticed, as its bad bit is not set.
FilesystemOpen ==
    \/ /\ file' = "open"
       /\ disk' = Truncated
    \/ /\ file' = "failed"
       /\ UNCHANGED disk

\* (mutant) The file is created whatever the caller says.
OpenWorldFile_Creates(tryCreate) ==
    /\ \/ file = "null" /\ FilesystemOpen
       \/ file # "null" /\ UNCHANGED <<file, disk>>
    /\ UNCHANGED <<stream, bad>>

\* A handle that is not null is taken for an open file; without tryCreate a
\* null one stays null.
OpenWorldFile(tryCreate) ==
    /\ \/ file = "null" /\ tryCreate /\ FilesystemOpen
       \/ ~(file = "null" /\ tryCreate) /\ UNCHANGED <<file, disk>>
    /\ UNCHANGED <<stream, bad>>

\* Deserialise asks for a file that is not to be created: the handle is null
\* and stays so, nothing is read, and closing a null handle does nothing.
Deserialise ==
    /\ up /\ saving = "load"
    /\ OpenWorldFile(FALSE)
    /\ saving' = IF file' = "null" THEN "idle" ELSE "close"
    /\ UNCHANGED <<up, world, saved, complete>>

OpenToSave ==
    /\ up /\ saving = "idle"
    /\ OpenWorldFile(TRUE)
    /\ saving' = "header"
    /\ IF file' = "open" THEN saved' = world /\ complete' = FALSE
       ELSE UNCHANGED <<saved, complete>>
    /\ UNCHANGED <<up, world>>

\* The file once the first n parts of the stream are written over it, and all
\* it can be then.
Flushed(parts, n) == SubSeq(parts, 1, n) \o SubSeq(disk, n + 1, Len(disk))
Flushes(parts) == {Flushed(parts, n) : n \in 0 .. Len(parts)}

\* A write is taken, and any part of it may reach the disk; or it fails, maybe
\* half way; or the stream is not open, or bad, and takes nothing.
StreamWrite(parts) ==
    \/ /\ file = "open" /\ ~bad
       /\ stream' = stream \o parts
       /\ disk' \in Flushes(stream \o parts)
       /\ UNCHANGED bad
    \/ /\ file = "open" /\ ~bad
       /\ bad' = TRUE
       /\ disk' \in Flushes(stream \o parts)
       /\ UNCHANGED stream
    \/ /\ file # "open" \/ bad
       /\ UNCHANGED <<stream, bad, disk>>

\* Serialise goes on in any case; to write to a freed stream may also end the
\* program.
Write(parts, next) ==
    \/ /\ StreamWrite(parts)
       /\ saving' = next
       /\ UNCHANGED <<up, world, file, saved, complete>>
    \/ file = "dangling" /\ Killed

WriteHeader == up /\ saving = "header" /\ Write(<<Header(world)>>, "tiles")
WriteTiles == up /\ saving = "tiles" /\ Write(Tiles(world), "close")

\* What is left in the stream is written, all of it or not.
OnClose ==
    \/ /\ file = "open"
       /\ disk' = Flushed(stream, Len(stream))
       /\ complete' = ~bad
    \/ /\ file = "open"
       /\ disk' \in Flushes(stream)
       /\ UNCHANGED complete
    \/ /\ file # "open"
       /\ UNCHANGED <<disk, complete>>

\* The stream is closed and deleted, and the pointer left as it is; deleting
\* it again goes unnoticed or ends the program.
CloseWorldFile ==
    /\ up /\ saving = "close"
    /\ \/ /\ OnClose
          /\ saving' = "idle"
          /\ file' = "dangling" /\ stream' = <<>> /\ bad' = FALSE
          /\ UNCHANGED <<up, world, saved>>
       \/ file = "dangling" /\ Killed

FileNext ==
    \/ StartServer
    \/ StartClient
    \/ StartServerWithMap
    \/ Kill
    \/ ReceiveHeader
    \/ ReceiveChunk
    \/ Deserialise
    \/ OpenToSave
    \/ WriteHeader
    \/ WriteTiles
    \/ CloseWorldFile

FileSpec == FileInit /\ [][FileNext]_fileVars

-----------------------------------------------------------------------------
(* Properties *)

\* A save for which the file was opened, and none of whose writes failed nor
\* the flush, is in the file, whole and as the world was then, until another
\* life of the program saves: neither a restart, nor the map that a server is
\* given to load, nor any later save of the same life, through the dangling
\* handle, changes it (Serialise, world_save.cpp:37-57; Deserialise, 68).
SaveIsWhole == complete => disk = FileOf(saved)

\* A file never mixes two worlds, wherever a save was cut off and whichever of
\* its writes failed: it is the beginning of what one save wrote (OpenInternal
\* truncates, filesystem.cpp:42).
NeverMixed == IsPrefix(disk, FileOf(saved))
=============================================================================
