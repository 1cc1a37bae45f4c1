-------------------------------- MODULE Memory --------------------------------
(***************************************************************************)
(* The allocation counters (core/tier0/memory): operator new and operator  *)
(* delete count the allocations and their bytes in two globals, without a  *)
(* lock, while the main thread and the console's input thread both         *)
(* allocate.  An increment is a read and a write, and the other thread may *)
(* get in between.                                                         *)
(*                                                                         *)
(* delete does not know the size of the block: it subtracts the size of a  *)
(* pointer.  It ends the program if there are no allocations to undo.      *)
(***************************************************************************)
EXTENDS Integers, FiniteSets, FiniteSetsExt

CONSTANTS
    Threads,        \* who allocates
    Ptrs,           \* what malloc can return
    Sizes,          \* how much is asked for
    PointerSize,    \* sizeof(p)
    SizeLimit,      \* the values of size_t: 2^64 in the code
    MaxCalls        \* bound: calls of new and delete in a run

ASSUME MemoryAssumption ==
    /\ IsFiniteSet(Threads) /\ IsFiniteSet(Ptrs)
    /\ Sizes \subseteq Nat \ {0}
    /\ PointerSize \in Nat
    /\ SizeLimit \in Nat /\ MaxCalls \in Nat /\ MaxCalls < SizeLimit

VARIABLES
    sysNumAllocs,
    sysTotalRam,
    heap,           \* the size of each block that malloc gave out, else 0
    call,           \* the call each thread is in
    calls,          \* how many there have been
    alarm,          \* why the program was terminated, or "none"
    forgotten,      \* history: bytes of freed blocks that are still counted
    lost            \* history: the counters that missed an update

vars == <<sysNumAllocs, sysTotalRam, heap, call, calls, alarm, forgotten, lost>>

\* at: "outside", or the next thing the operator does.  read is the value of
\* a counter that the thread is about to write back.
Outside == [at |-> "outside", op |-> "new", size |-> 0, ptr |-> {}, read |-> 0]

Init ==
    /\ sysNumAllocs = 0
    /\ sysTotalRam = 0
    /\ heap = [p \in Ptrs |-> 0]
    /\ call = [t \in Threads |-> Outside]
    /\ calls = 0
    /\ alarm = "none"
    /\ forgotten = 0
    /\ lost = {}

Allocated == {p \in Ptrs : heap[p] # 0}

At(t, where) == alarm = "none" /\ call[t].at = where

GoesOn(t, where, read) ==
    call' = [call EXCEPT ![t] = [@ EXCEPT !.at = where, !.read = read]]

Enter(t, c) ==
    /\ At(t, "outside") /\ calls < MaxCalls
    /\ calls' = calls + 1
    /\ call' = [call EXCEPT ![t] = c]
    /\ UNCHANGED <<sysNumAllocs, sysTotalRam, heap, alarm, forgotten, lost>>

CallNew(t) ==
    \E n \in Sizes :
        Enter(t, [Outside EXCEPT !.at = "read count", !.op = "new", !.size = n])

\* The program frees what it has, once.
CallDelete(t) ==
    \E p \in Allocated :
        /\ \A u \in Threads : p \notin call[u].ptr
        /\ Enter(t, [Outside EXCEPT !.at = "check", !.op = "delete", !.ptr = {p}])

\* (mutant) The check comes after the count was lowered.
NoAllocations_OneLess == sysNumAllocs <= 1

NoAllocations == sysNumAllocs = 0

\* delete: "Tried to free with no allocations" terminates the program.
CheckCount(t) ==
    /\ At(t, "check")
    /\ IF NoAllocations
       THEN alarm' = "no allocations" /\ UNCHANGED call
       ELSE GoesOn(t, "read count", 0) /\ UNCHANGED alarm
    /\ UNCHANGED <<sysNumAllocs, sysTotalRam, heap, calls, forgotten, lost>>

ReadCount(t) ==
    /\ At(t, "read count")
    /\ GoesOn(t, "write count", sysNumAllocs)
    /\ UNCHANGED <<sysNumAllocs, sysTotalRam, heap, calls, alarm, forgotten, lost>>

\* (mutant) delete does not count.
Counted_NewOnly(c) == (c.read + IF c.op = "new" THEN 1 ELSE 0) % SizeLimit

\* The counts wrap as size_t does.
Counted(c) == (c.read + IF c.op = "new" THEN 1 ELSE -1) % SizeLimit

\* A counter that changed since it was read loses what changed it.
Missed(counter, now, c) == IF now = c.read THEN lost ELSE lost \cup {counter}

WriteCount(t) ==
    /\ At(t, "write count")
    /\ sysNumAllocs' = Counted(call[t])
    /\ lost' = Missed("count", sysNumAllocs, call[t])
    /\ GoesOn(t, "read ram", 0)
    /\ UNCHANGED <<sysTotalRam, heap, calls, alarm, forgotten>>

ReadRam(t) ==
    /\ At(t, "read ram")
    /\ GoesOn(t, "write ram", sysTotalRam)
    /\ UNCHANGED <<sysNumAllocs, sysTotalRam, heap, calls, alarm, forgotten, lost>>

\* (mutant) delete subtracts nothing.
Weighed_NewOnly(c) == (c.read + c.size) % SizeLimit

Weighed(c) == (c.read + IF c.op = "new" THEN c.size ELSE -PointerSize) % SizeLimit

WriteRam(t) ==
    /\ At(t, "write ram")
    /\ sysTotalRam' = Weighed(call[t])
    /\ lost' = Missed("ram", sysTotalRam, call[t])
    /\ GoesOn(t, IF call[t].op = "new" THEN "malloc" ELSE "free", 0)
    /\ UNCHANGED <<sysNumAllocs, heap, calls, alarm, forgotten>>

\* A block, or none: then the program is terminated.
Malloc(t) ==
    /\ At(t, "malloc")
    /\ \/ /\ \E p \in Ptrs \ Allocated : heap' = [heap EXCEPT ![p] = call[t].size]
          /\ call' = [call EXCEPT ![t] = Outside]
          /\ UNCHANGED alarm
       \/ /\ alarm' = "no memory"
          /\ UNCHANGED <<heap, call>>
    /\ UNCHANGED <<sysNumAllocs, sysTotalRam, calls, forgotten, lost>>

Free(t) ==
    /\ At(t, "free")
    /\ \E p \in call[t].ptr :
        /\ heap' = [heap EXCEPT ![p] = 0]
        /\ forgotten' = forgotten + heap[p] - PointerSize
    /\ call' = [call EXCEPT ![t] = Outside]
    /\ UNCHANGED <<sysNumAllocs, sysTotalRam, calls, alarm, lost>>

Next ==
    \E t \in Threads :
        \/ CallNew(t) \/ CallDelete(t)
        \/ CheckCount(t) \/ ReadCount(t) \/ WriteCount(t)
        \/ ReadRam(t) \/ WriteRam(t)
        \/ Malloc(t) \/ Free(t)

Spec == Init /\ [][Next]_vars

-----------------------------------------------------------------------------
(* Properties *)

\* The threads that are past an update of their call, but have not yet
\* allocated or freed.
Past(op, places) == {t \in Threads : call[t].op = op /\ call[t].at \in places}

AfterCount(op) == Past(op, {"read ram", "write ram", "malloc", "free"})
AfterRam(op) == Past(op, {"malloc", "free"})

\* As long as no increment fell between the two halves of another, the count
\* is that of the blocks there are, at any point of any interleaving of the
\* two threads (memory.cpp:18, 35, 58, 76).
CountExact ==
    "count" \notin lost =>
        sysNumAllocs = Cardinality(Allocated) + Cardinality(AfterCount("new"))
                                              - Cardinality(AfterCount("delete"))

\* The total misses no byte of a block there is, and what it has too much is
\* what the freed blocks were longer than a pointer.
RamExact ==
    "ram" \notin lost =>
        sysTotalRam = ( MapThenSumSet(LAMBDA p : heap[p], Allocated) + forgotten
                        + MapThenSumSet(LAMBDA t : call[t].size, AfterRam("new"))
                        - PointerSize * Cardinality(AfterRam("delete")) ) % SizeLimit

\* The check of operator delete ends a program that frees what it has, once,
\* only when an update was lost: two threads that allocate at the same time
\* are enough for that, one is not.
AlarmOnlyByRace == alarm = "no allocations" => "count" \in lost
================================================================================
