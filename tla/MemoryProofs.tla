----------------------------- MODULE MemoryProofs -----------------------------
(***************************************************************************)
(* Theorems about Memory, for any threads, blocks and sizes.               *)
(***************************************************************************)
EXTENDS Memory, FiniteSetTheorems, WellFoundedInduction, TLAPS

NewPlaces == {"read count", "write count", "read ram", "write ram", "malloc"}
DeletePlaces == {"check", "read count", "write count", "read ram", "write ram", "free"}
CountedPlaces == {"read ram", "write ram", "malloc", "free"}

Calls == [at : {"outside"} \cup NewPlaces \cup DeletePlaces, op : {"new", "delete"},
          size : Nat, ptr : SUBSET Ptrs, read : Nat]

MemoryTypeOK ==
    /\ sysNumAllocs \in Nat /\ sysTotalRam \in Nat
    /\ heap \in [Ptrs -> Nat]
    /\ call \in [Threads -> Calls]
    /\ calls \in 0 .. MaxCalls
    /\ alarm \in {"none", "no allocations", "no memory"}

\* What a thread is doing: nothing, allocating, or freeing a block of its own.
CallOK(c) ==
    \/ c = Outside
    \/ c.op = "new" /\ c.at \in NewPlaces /\ c.size \in Sizes /\ c.ptr = {}
    \/ c.op = "delete" /\ c.at \in DeletePlaces /\ \E p \in Allocated : c.ptr = {p}

Allocating == Past("new", NewPlaces)
Freeing == {t \in Threads : call[t].op = "delete"}

\* Every thread that frees has a block that is allocated and that no other
\* thread frees, and every block and every thread that allocates is one of
\* the calls: so the count stays between 0 and the calls, and does not wrap.
CountInv ==
    /\ MemoryTypeOK
    /\ \A t \in Threads : CallOK(call[t])
    /\ \A t, u \in Threads : t # u => call[t].ptr \cap call[u].ptr = {}
    /\ Cardinality(Allocated) + Cardinality(Allocating) <= calls
    /\ CountExact
    /\ AlarmOnlyByRace

-----------------------------------------------------------------------------
(* Lemmas *)

LEMMA Modulo ==
  ASSUME NEW n \in Int
  PROVE  /\ n % SizeLimit \in Nat
         /\ n \in 0 .. MaxCalls => n % SizeLimit = n
<1>1. SizeLimit \in Nat /\ MaxCalls \in Nat /\ MaxCalls < SizeLimit
  BY MemoryAssumption
<1>2. QED
  BY <1>1

LEMMA FiniteSets ==
  /\ IsFiniteSet(Allocated) /\ Cardinality(Allocated) \in Nat
  /\ \A op, places : IsFiniteSet(Past(op, places)) /\ Cardinality(Past(op, places)) \in Nat
  /\ IsFiniteSet(Freeing) /\ Cardinality(Freeing) \in Nat
<1>1. IsFiniteSet(Threads) /\ IsFiniteSet(Ptrs)
  BY MemoryAssumption
<1>2. Allocated \in SUBSET Ptrs /\ Freeing \in SUBSET Threads
  BY DEF Allocated, Freeing
<1>3. \A op, places : Past(op, places) \in SUBSET Threads
  BY DEF Past
<1>4. QED
  BY <1>1, <1>2, <1>3, FS_Subset, FS_CardinalityType

LEMMA Types ==
  ASSUME CountInv
  PROVE  /\ MemoryTypeOK /\ CountExact /\ AlarmOnlyByRace
         /\ \A t \in Threads : call[t] \in Calls /\ CallOK(call[t])
  BY DEF CountInv, MemoryTypeOK

LEMMA Numbers ==
  ASSUME CountInv
  PROVE  calls \in Nat /\ calls <= MaxCalls /\ MaxCalls \in Nat
<1>1. calls \in 0 .. MaxCalls
  BY DEF CountInv, MemoryTypeOK
<1>2. MaxCalls \in Nat
  BY MemoryAssumption
<1>3. QED
  BY <1>1, <1>2

LEMMA OutsideFields ==
  /\ Outside \in Calls /\ CallOK(Outside)
  /\ Outside.at = "outside" /\ Outside.op = "new" /\ Outside.ptr = {}
  BY DEF Outside, Calls, CallOK

\* Where a thread can be in a call.
LEMMA CallFacts ==
  ASSUME CountInv, NEW t \in Threads
  PROVE  /\ call[t] \in Calls
         /\ call[t].op \in {"new", "delete"}
         /\ call[t].op = "new" =>
              /\ call[t].ptr = {}
              /\ call[t].at # "outside" => call[t].at \in NewPlaces /\ call[t].size \in Nat \ {0}
         /\ call[t].op = "delete" =>
              /\ call[t].at \in DeletePlaces
              /\ \E p \in Allocated : call[t].ptr = {p}
         /\ call[t].at = "malloc" => call[t].op = "new"
         /\ call[t].at \in {"check", "free"} => call[t].op = "delete"
<1>1. call[t] \in Calls /\ CallOK(call[t])
  BY Types
<1>2. Sizes \subseteq Nat \ {0}
  BY MemoryAssumption
<1>3. CASE call[t] = Outside
  BY <1>3, OutsideFields
<1>4. CASE call[t].op = "new" /\ call[t].at \in NewPlaces /\ call[t].size \in Sizes /\ call[t].ptr = {}
  BY <1>1, <1>2, <1>4 DEF NewPlaces
<1>5. CASE call[t].op = "delete" /\ call[t].at \in DeletePlaces /\ \E p \in Allocated : call[t].ptr = {p}
  BY <1>1, <1>5 DEF DeletePlaces
<1>6. QED
  BY <1>1, <1>3, <1>4, <1>5 DEF CallOK

\* The threads that free have a block each.
LEMMA FreeingHaveBlocks ==
  ASSUME CountInv
  PROVE  Cardinality(Freeing) <= Cardinality(Allocated)
<1>1. \A t \in Freeing : \E p \in Allocated : call[t].ptr = {p}
  BY DEF CountInv, CallOK, Freeing, Outside
<1> DEFINE block == [t \in Freeing |-> CHOOSE p \in Allocated : call[t].ptr = {p}]
<1>2. \A t \in Freeing : block[t] \in Allocated /\ call[t].ptr = {block[t]}
  BY <1>1
<1>3. block \in [Freeing -> Allocated]
  BY <1>2
<1> HIDE DEF block
<1>4. ~ \E t, u \in Freeing : t # u /\ block[t] = block[u]
  BY <1>2 DEF CountInv, Freeing
<1>5. QED
  BY <1>3, <1>4, FiniteSets, FS_PigeonHole

\* The call of one thread moves on.
LEMMA Moves ==
  ASSUME CountInv, NEW t \in Threads, NEW c, call' = [call EXCEPT ![t] = c]
  PROVE  /\ call'[t] = c
         /\ \A u \in Threads \ {t} : call'[u] = call[u]
         /\ \A op, places : Past(op, places)' =
                IF c.op = op /\ c.at \in places
                THEN Past(op, places) \cup {t} ELSE Past(op, places) \ {t}
<1>1. call'[t] = c /\ \A u \in Threads \ {t} : call'[u] = call[u]
  BY DEF CountInv, MemoryTypeOK
<1>2. QED
  BY <1>1 DEF Past

\* A step that leaves the blocks and the threads past an update as they are.
LEMMA SameCounts ==
  ASSUME CountInv, NEW t \in Threads, NEW c \in Calls,
         call' = [call EXCEPT ![t] = c],
         UNCHANGED <<sysNumAllocs, heap, calls>>,
         MemoryTypeOK', CallOK(c), c.ptr = call[t].ptr,
         c.op = call[t].op,
         c.at \in CountedPlaces <=> call[t].at \in CountedPlaces,
         c.at = "outside" <=> call[t].at = "outside",
         "count" \in lost => "count" \in lost', AlarmOnlyByRace'
  PROVE  CountInv'
<1>1. /\ call'[t] = c
      /\ \A u \in Threads \ {t} : call'[u] = call[u]
  BY Moves
<1>2. Allocated' = Allocated /\ calls' = calls
  BY DEF Allocated
<1>3. /\ AfterCount("new")' = AfterCount("new")
      /\ AfterCount("delete")' = AfterCount("delete")
  <2>1. \A u \in Threads : /\ call'[u].op = call[u].op
                          /\ call'[u].at \in CountedPlaces <=> call[u].at \in CountedPlaces
    BY <1>1
  <2>2. \A op : Past(op, CountedPlaces)' = Past(op, CountedPlaces)
    BY <2>1 DEF Past
  <2>3. QED
    BY <2>2 DEF AfterCount, CountedPlaces
<1>4. Allocating' = Allocating
  <2>1. c.op = "new" => (call[t].at \in NewPlaces <=> call[t].at # "outside")
    BY CallFacts DEF NewPlaces
  <2>2. c.op = "new" => (c.at \in NewPlaces <=> c.at # "outside")
    BY OutsideFields DEF CallOK, NewPlaces
  <2>3. QED
    BY <1>1, <2>1, <2>2 DEF Allocating, Past
<1>5. \A u \in Threads : CallOK(call[u])'
  BY <1>1, <1>2 DEF CountInv, CallOK
<1>6. \A u, v \in Threads : u # v => call'[u].ptr \cap call'[v].ptr = {}
  <2>1. \A u \in Threads : call'[u].ptr = call[u].ptr
    BY <1>1
  <2>2. QED
    BY <2>1 DEF CountInv
<1>7. CountExact'
  BY <1>2, <1>3 DEF CountInv, CountExact
<1>8. QED
  BY <1>2, <1>4, <1>5, <1>6, <1>7 DEF CountInv

-----------------------------------------------------------------------------
(* Steps *)

LEMMA EnterKeepsInv ==
  ASSUME CountInv, NEW t \in Threads, CallNew(t) \/ CallDelete(t)
  PROVE  CountInv'
<1>1. PICK c \in Calls :
        /\ Enter(t, c) /\ CallOK(c) /\ c.at \in {"read count", "check"}
        /\ c.op = "new" => c.ptr = {}
        /\ c.op = "delete" => \A u \in Threads : c.ptr \cap call[u].ptr = {}
  <2>1. CASE CallNew(t)
    <3>1. PICK n \in Sizes : 
            Enter(t, [Outside EXCEPT !.at = "read count", !.op = "new", !.size = n])
      BY <2>1 DEF CallNew
    <3> DEFINE c == [Outside EXCEPT !.at = "read count", !.op = "new", !.size = n]
    <3>2. n \in Nat
      BY MemoryAssumption
    <3>3. /\ c \in Calls /\ CallOK(c)
          /\ c.at = "read count" /\ c.op = "new" /\ c.ptr = {}
      <4>1. /\ c \in Calls /\ c.at = "read count" /\ c.op = "new" /\ c.size = n /\ c.ptr = {}
        BY <3>2, OutsideFields DEF Calls, NewPlaces
      <4> HIDE DEF c
      <4>2. QED
        BY <4>1 DEF CallOK, NewPlaces
    <3> HIDE DEF c
    <3>4. QED
      BY <3>1, <3>2, <3>3 DEF c
  <2>2. CASE CallDelete(t)
    <3>1. PICK p \in Allocated :
            /\ \A u \in Threads : p \notin call[u].ptr
            /\ Enter(t, [Outside EXCEPT !.at = "check", !.op = "delete", !.ptr = {p}])
      BY <2>2 DEF CallDelete
    <3> DEFINE c == [Outside EXCEPT !.at = "check", !.op = "delete", !.ptr = {p}]
    <3>2. p \in Ptrs
      BY DEF Allocated
    <3>3. /\ c \in Calls /\ CallOK(c)
          /\ c.at = "check" /\ c.op = "delete" /\ c.ptr = {p}
      <4>1. c \in Calls /\ c.at = "check" /\ c.op = "delete" /\ c.ptr = {p}
        BY <3>2, OutsideFields DEF Calls, DeletePlaces
      <4> HIDE DEF c
      <4>2. QED
        BY <4>1 DEF CallOK, DeletePlaces
    <3> HIDE DEF c
    <3>4. QED
      BY <3>1, <3>2, <3>3 DEF c
  <2>3. QED
    BY <2>1, <2>2
<1>2. /\ call[t].at = "outside" /\ calls < MaxCalls /\ calls' = calls + 1
      /\ call' = [call EXCEPT ![t] = c]
      /\ UNCHANGED <<sysNumAllocs, sysTotalRam, heap, alarm, forgotten, lost>>
  BY <1>1 DEF Enter, At
<1>3. /\ call'[t] = c
      /\ \A u \in Threads \ {t} : call'[u] = call[u]
      /\ \A op, places : Past(op, places)' =
                IF c.op = op /\ c.at \in places
                THEN Past(op, places) \cup {t} ELSE Past(op, places) \ {t}
  BY <1>2, Moves
<1>4. MemoryTypeOK'
  <2>1. calls' \in 0 .. MaxCalls
    BY <1>2, Numbers
  <2>2. QED
    BY <1>1, <1>2, <2>1, Types DEF MemoryTypeOK
<1>5. Allocated' = Allocated
  BY <1>2 DEF Allocated
<1>6. \A u \in Threads : CallOK(call[u])'
  <2>1. CallOK(call[t])'
    BY <1>1, <1>3, <1>5 DEF CallOK
  <2>2. ASSUME NEW u \in Threads \ {t} PROVE CallOK(call[u])'
    BY <1>3, <1>5, Types DEF CallOK
  <2>3. QED
    BY <2>1, <2>2
<1>7. \A u, v \in Threads : u # v => call'[u].ptr \cap call'[v].ptr = {}
  <2>1. \A u \in Threads : c.ptr \cap call[u].ptr = {}
    BY <1>1 DEF Calls
  <2>2. QED
    BY <1>3, <2>1 DEF CountInv
<1>8. AfterCount("new")' = AfterCount("new") /\ AfterCount("delete")' = AfterCount("delete")
  <2>1. call[t].at \notin CountedPlaces /\ c.at \notin CountedPlaces
    BY <1>1, <1>2 DEF CountedPlaces
  <2>2. QED
    <3>1. \A op : Past(op, CountedPlaces)' = Past(op, CountedPlaces) \ {t}
      BY <1>3, <2>1
    <3>2. \A op : t \notin Past(op, CountedPlaces)
      BY <2>1 DEF Past
    <3>3. \A op : Past(op, CountedPlaces)' = Past(op, CountedPlaces)
      BY <3>1, <3>2
    <3>4. QED
      BY <3>3 DEF AfterCount, CountedPlaces
<1>9. Cardinality(Allocating') <= Cardinality(Allocating) + 1
  <2>1. IsFiniteSet(Allocating) /\ Cardinality(Allocating) \in Nat
    BY FiniteSets DEF Allocating
  <2>2. Allocating' = Allocating \cup {t} \/ Allocating' = Allocating \ {t}
    BY <1>3 DEF Allocating
  <2>3. QED
    BY <2>1, <2>2, FS_AddElement, FS_RemoveElement
<1>10. Cardinality(Allocated') + Cardinality(Allocating') <= calls'
  <2>1. Cardinality(Allocated) + Cardinality(Allocating) <= calls
    BY DEF CountInv
  <2>2. Cardinality(Allocating') \in Nat /\ Cardinality(Allocating) \in Nat /\ Cardinality(Allocated) \in Nat
    <3>1. Allocating' \in SUBSET Threads
      BY DEF Allocating, Past
    <3>2. QED
      BY <3>1, MemoryAssumption, FiniteSets, FS_Subset, FS_CardinalityType DEF Allocating
  <2>3. calls \in Nat
    BY Numbers
  <2>4. QED
    BY <1>2, <1>5, <1>9, <2>1, <2>2, <2>3
<1>11. CountExact' /\ AlarmOnlyByRace'
  BY <1>2, <1>5, <1>8, Types DEF CountExact, AlarmOnlyByRace
<1>12. QED
  BY <1>4, <1>6, <1>7, <1>10, <1>11 DEF CountInv

\* The check finds no allocation only if the count missed an update.
LEMMA CheckKeepsInv ==
  ASSUME CountInv, NEW t \in Threads, CheckCount(t)
  PROVE  CountInv'
<1>1. /\ call[t].at = "check" /\ alarm = "none"
      /\ UNCHANGED <<sysNumAllocs, sysTotalRam, heap, calls, forgotten, lost>>
  BY DEF CheckCount, At
<1>2. CASE NoAllocations
  <2>1. alarm' = "no allocations" /\ call' = call
    BY <1>2 DEF CheckCount
  <2>2. ASSUME "count" \notin lost PROVE FALSE
    <3>1. 0 = Cardinality(Allocated) + Cardinality(AfterCount("new"))
                - Cardinality(AfterCount("delete"))
      BY <1>2, <2>2, Types DEF NoAllocations, CountExact
    <3>2. t \in Freeing /\ t \notin AfterCount("delete") /\ AfterCount("delete") \in SUBSET (Freeing \ {t})
      BY <1>1, CallFacts DEF Freeing, AfterCount, Past
    <3>3. IsFiniteSet(Freeing \ {t}) /\ Cardinality(Freeing \ {t}) = Cardinality(Freeing) - 1
      BY <3>2, FiniteSets, FS_RemoveElement
    <3>4. Cardinality(AfterCount("delete")) <= Cardinality(Freeing) - 1
      BY <3>2, <3>3, FS_Subset
    <3>5. /\ Cardinality(AfterCount("new")) \in Nat /\ Cardinality(AfterCount("delete")) \in Nat
          /\ Cardinality(Freeing) \in Nat /\ Cardinality(Allocated) \in Nat
      BY FiniteSets DEF AfterCount
    <3>6. QED
      BY <3>1, <3>4, <3>5, FreeingHaveBlocks
  <2>3. MemoryTypeOK' /\ Allocated' = Allocated /\ Allocating' = Allocating
    BY <1>1, <2>1, Types DEF MemoryTypeOK, Allocated, Allocating, Past
  <2>4. CountExact'
    BY <1>1, <2>1, <2>3, Types DEF CountExact, AfterCount, Past
  <2>5. AlarmOnlyByRace'
    BY <1>1, <2>2 DEF AlarmOnlyByRace
  <2>6. QED
    BY <1>1, <2>1, <2>3, <2>4, <2>5 DEF CountInv, CallOK
<1>3. CASE ~NoAllocations
  <2> DEFINE c == [call[t] EXCEPT !.at = "read count", !.read = 0]
  <2>1. call' = [call EXCEPT ![t] = c] /\ alarm' = alarm
    BY <1>3, Types DEF CheckCount, GoesOn
  <2>2. /\ call[t] \in Calls /\ call[t].op = "delete"
        /\ \E p \in Allocated : call[t].ptr = {p}
    BY <1>1, CallFacts
  <2>3. /\ c \in Calls /\ c.at = "read count" /\ c.op = "delete" /\ c.ptr = call[t].ptr
    BY <2>2 DEF Calls, DeletePlaces
  <2> HIDE DEF c
  <2>4. CallOK(c)
    BY <2>2, <2>3 DEF CallOK, DeletePlaces
  <2>5. MemoryTypeOK'
    BY <1>1, <2>1, <2>3, Types DEF MemoryTypeOK
  <2>6. AlarmOnlyByRace'
    BY <1>1, <2>1, Types DEF AlarmOnlyByRace
  <2>7. QED
    BY <1>1, <2>1, <2>2, <2>3, <2>4, <2>5, <2>6, SameCounts DEF CountedPlaces
<1>4. QED
  BY <1>2, <1>3

\* The halves of an update that the count does not depend on.
LEMMA ReadsKeepInv ==
  ASSUME CountInv, NEW t \in Threads, ReadCount(t) \/ ReadRam(t) \/ WriteRam(t)
  PROVE  CountInv'
<1>1. PICK where \in NewPlaces \cup DeletePlaces, read \in Nat :
        /\ call' = [call EXCEPT ![t] = [call[t] EXCEPT !.at = where, !.read = read]]
        /\ call[t].at \in {"read count", "read ram", "write ram"}
        /\ call[t].at = "read count" => where = "write count"
        /\ call[t].at = "read ram" => where = "write ram"
        /\ call[t].at = "write ram" => where = IF call[t].op = "new" THEN "malloc" ELSE "free"
  <2>1. CASE ReadCount(t)
    BY <2>1, Types DEF ReadCount, At, GoesOn, MemoryTypeOK, NewPlaces
  <2>2. CASE ReadRam(t)
    BY <2>2, Types DEF ReadRam, At, GoesOn, MemoryTypeOK, NewPlaces
  <2>3. CASE WriteRam(t)
    <3>1. (IF call[t].op = "new" THEN "malloc" ELSE "free") \in NewPlaces \cup DeletePlaces
      BY DEF NewPlaces, DeletePlaces
    <3>2. QED
      BY <2>3, <3>1 DEF WriteRam, At, GoesOn
  <2>4. QED
    BY <2>1, <2>2, <2>3
<1>2. /\ UNCHANGED <<sysNumAllocs, heap, calls, alarm>>
      /\ "count" \in lost => "count" \in lost'
      /\ "count" \in lost' => "count" \in lost
  BY DEF ReadCount, ReadRam, WriteRam, Missed
<1>3. sysTotalRam' \in Nat
  <2>1. CASE WriteRam(t)
    <3>1. sysTotalRam' = Weighed(call[t])
      BY <2>1 DEF WriteRam
    <3>2. call[t].read \in Int /\ call[t].size \in Int /\ PointerSize \in Int
      BY Types, MemoryAssumption DEF Calls
    <3>3. call[t].read + (IF call[t].op = "new" THEN call[t].size ELSE -PointerSize) \in Int
      BY <3>2
    <3>4. QED
      BY <3>1, <3>3, Modulo DEF Weighed
  <2>2. CASE ~WriteRam(t)
    BY <2>2, Types DEF ReadCount, ReadRam, MemoryTypeOK
  <2>3. QED
    BY <2>1, <2>2
<1> DEFINE c == [call[t] EXCEPT !.at = where, !.read = read]
<1>4. call[t] \in Calls /\ CallOK(call[t])
  BY Types
<1>5. /\ c \in Calls /\ c.at = where /\ c.op = call[t].op /\ c.size = call[t].size
      /\ c.ptr = call[t].ptr
  BY <1>4 DEF Calls
<1>6. call' = [call EXCEPT ![t] = c]
  BY <1>1
<1> HIDE DEF c
<1>7. CallOK(c)
  <2>1. CASE call[t].op = "new"
    <3>1. where \in NewPlaces
      BY <1>1, <2>1 DEF NewPlaces
    <3>2. CallOK(call[t]) /\ call[t].ptr = {} /\ call[t] # Outside
      BY <1>1, <1>4, <2>1, CallFacts, OutsideFields
    <3>3. call[t].size \in Sizes
      BY <2>1, <3>2 DEF CallOK
    <3>4. QED
      BY <1>5, <2>1, <3>1, <3>2, <3>3 DEF CallOK
  <2>2. CASE call[t].op = "delete"
    <3>1. where \in DeletePlaces
      BY <1>1, <2>2 DEF DeletePlaces
    <3>2. QED
      BY <1>5, <2>2, <3>1, CallFacts DEF CallOK
  <2>3. QED
    BY <2>1, <2>2, CallFacts
<1>8. MemoryTypeOK'
  BY <1>2, <1>3, <1>5, <1>6, Types DEF MemoryTypeOK
<1>9. AlarmOnlyByRace'
  BY <1>2, Types DEF AlarmOnlyByRace
<1>10. /\ c.at \in CountedPlaces <=> call[t].at \in CountedPlaces
       /\ c.at = "outside" <=> call[t].at = "outside"
  BY <1>1, <1>5 DEF CountedPlaces
<1>11. QED
  BY <1>2, <1>5, <1>6, <1>7, <1>8, <1>9, <1>10, SameCounts

\* The count is written back: if nobody wrote it in between, it moves by one
\* with the threads that are past the update, and does not wrap.
LEMMA WriteKeepsInv ==
  ASSUME CountInv, NEW t \in Threads, WriteCount(t)
  PROVE  CountInv'
<1> DEFINE c == [call[t] EXCEPT !.at = "read ram", !.read = 0]
<1>1. /\ call[t].at = "write count" /\ call' = [call EXCEPT ![t] = c]
      /\ sysNumAllocs' = Counted(call[t])
      /\ lost' = Missed("count", sysNumAllocs, call[t])
      /\ UNCHANGED <<sysTotalRam, heap, calls, alarm, forgotten>>
  BY DEF WriteCount, At, GoesOn
<1>2. call[t] \in Calls /\ CallOK(call[t])
  BY Types
<1>3. /\ c \in Calls /\ c.at = "read ram" /\ c.op = call[t].op /\ c.size = call[t].size
      /\ c.ptr = call[t].ptr
  BY <1>2 DEF Calls, NewPlaces
<1> HIDE DEF c
<1>4. /\ call'[t] = c
      /\ \A u \in Threads \ {t} : call'[u] = call[u]
      /\ \A op, places : Past(op, places)' =
                IF c.op = op /\ c.at \in places
                THEN Past(op, places) \cup {t} ELSE Past(op, places) \ {t}
  BY <1>1, Moves
<1>5. Allocated' = Allocated /\ Allocating' = Allocating
  <2>1. t \in Allocating <=> c.op = "new"
    BY <1>1, <1>3 DEF Allocating, Past, NewPlaces
  <2>2. QED
    BY <1>1, <1>3, <1>4, <2>1 DEF Allocated, Allocating, NewPlaces
<1>6. CallOK(c)
  <2>1. CASE call[t].op = "new"
    <3>1. call[t].ptr = {} /\ call[t] # Outside
      BY <1>1, <2>1, CallFacts, OutsideFields
    <3>2. call[t].size \in Sizes
      BY <1>2, <2>1, <3>1 DEF CallOK
    <3>3. QED
      BY <1>3, <2>1, <3>1, <3>2 DEF CallOK, NewPlaces
  <2>2. CASE call[t].op = "delete"
    BY <1>3, <2>2, CallFacts DEF CallOK, DeletePlaces
  <2>3. QED
    BY <2>1, <2>2, CallFacts
<1>7. \A u \in Threads : CallOK(call[u])'
  BY <1>4, <1>5, <1>6, Types DEF CallOK
<1>8. \A u, v \in Threads : u # v => call'[u].ptr \cap call'[v].ptr = {}
  <2>1. \A u \in Threads : call'[u].ptr = call[u].ptr
    BY <1>3, <1>4
  <2>2. QED
    BY <2>1 DEF CountInv
<1>9. call[t].read + (IF call[t].op = "new" THEN 1 ELSE -1) \in Int
  BY <1>2 DEF Calls
<1>10. MemoryTypeOK'
  BY <1>1, <1>3, <1>9, Types, Modulo DEF MemoryTypeOK, Counted
<1>11. AlarmOnlyByRace'
  BY <1>1, Types DEF AlarmOnlyByRace, Missed
<1>12. CountExact'
  <2> SUFFICES ASSUME "count" \notin lost'
               PROVE  sysNumAllocs' = Cardinality(Allocated')
                        + Cardinality(AfterCount("new")') - Cardinality(AfterCount("delete")')
    BY DEF CountExact
  <2>1. call[t].read = sysNumAllocs /\ "count" \notin lost
    BY <1>1 DEF Missed
  <2> DEFINE A == Cardinality(Allocated)
             N == Cardinality(AfterCount("new"))
             D == Cardinality(AfterCount("delete"))
  <2>2. A \in Nat /\ N \in Nat /\ D \in Nat
    BY FiniteSets DEF AfterCount
  <2>3. sysNumAllocs = A + N - D
    BY <2>1, Types DEF CountExact
  <2>4. /\ AfterCount("new")' = IF c.op = "new" THEN AfterCount("new") \cup {t}
                                                ELSE AfterCount("new") \ {t}
        /\ AfterCount("delete")' = IF c.op = "delete" THEN AfterCount("delete") \cup {t}
                                                      ELSE AfterCount("delete") \ {t}
    BY <1>3, <1>4 DEF AfterCount
  <2>5. t \notin AfterCount("new") /\ t \notin AfterCount("delete")
    BY <1>1 DEF AfterCount, Past
  <2>6. IsFiniteSet(AfterCount("new")) /\ IsFiniteSet(AfterCount("delete"))
    BY FiniteSets DEF AfterCount
  <2>7. calls \in Nat /\ calls <= MaxCalls /\ MaxCalls \in Nat
    BY Numbers
  <2>8. Cardinality(Allocated') = A
    BY <1>5
  <2> HIDE DEF A, N, D
  <2>9. CASE call[t].op = "new"
    <3>1. /\ Cardinality(AfterCount("new")') = N + 1
          /\ Cardinality(AfterCount("delete")') = D
      <4>1. /\ AfterCount("new")' = AfterCount("new") \cup {t}
            /\ AfterCount("delete")' = AfterCount("delete") \ {t}
        BY <1>3, <2>4, <2>9
      <4>2. QED
        BY <2>5, <2>6, <4>1, FS_AddElement, FS_RemoveElement DEF N, D
    <3>2. A + N + 1 <= calls
      <4>1. AfterCount("new") \in SUBSET (Allocating \ {t}) /\ t \in Allocating
        <5>1. AfterCount("new") \subseteq Allocating
          BY CallFacts DEF AfterCount, Allocating, Past, NewPlaces
        <5>2. t \in Allocating
          BY <1>1, <2>9 DEF Allocating, Past, NewPlaces
        <5>3. QED
          BY <2>5, <5>1, <5>2
      <4>2. /\ IsFiniteSet(Allocating) /\ IsFiniteSet(Allocating \ {t})
            /\ Cardinality(Allocating \ {t}) = Cardinality(Allocating) - 1
        BY <4>1, FiniteSets, FS_RemoveElement DEF Allocating
      <4>3. N <= Cardinality(Allocating) - 1 /\ Cardinality(Allocating) \in Nat
        BY <4>1, <4>2, FS_Subset, FS_CardinalityType DEF N
      <4>4. A + Cardinality(Allocating) <= calls
        BY DEF CountInv, A
      <4>5. QED
        BY <2>2, <2>7, <4>3, <4>4
    <3>3. D <= A
      <4>1. AfterCount("delete") \in SUBSET Freeing
        BY DEF AfterCount, Past, Freeing
      <4>2. D <= Cardinality(Freeing) /\ Cardinality(Freeing) \in Nat
        BY <4>1, FiniteSets, FS_Subset DEF D
      <4>3. QED
        BY <2>2, <4>2, FreeingHaveBlocks, FiniteSets DEF A
    <3>4. A + N - D + 1 \in 0 .. MaxCalls
      BY <2>2, <2>7, <3>2, <3>3
    <3>5. sysNumAllocs' = A + N - D + 1
      <4>1. sysNumAllocs' = (A + N - D + 1) % SizeLimit
        BY <1>1, <2>1, <2>2, <2>3, <2>9 DEF Counted
      <4>2. A + N - D + 1 \in Int
        BY <2>2
      <4>3. QED
        BY <3>4, <4>1, <4>2, Modulo
    <3>6. QED
      BY <2>2, <2>8, <3>1, <3>5
  <2>10. CASE call[t].op = "delete"
    <3>1. /\ Cardinality(AfterCount("new")') = N
          /\ Cardinality(AfterCount("delete")') = D + 1
      <4>1. /\ AfterCount("new")' = AfterCount("new") \ {t}
            /\ AfterCount("delete")' = AfterCount("delete") \cup {t}
        BY <1>3, <2>4, <2>10
      <4>2. Cardinality(AfterCount("delete") \cup {t}) = D + 1
        BY <2>5, <2>6, FS_AddElement DEF D
      <4>3. AfterCount("new") \ {t} = AfterCount("new")
        BY <2>5
      <4>4. QED
        BY <4>1, <4>2, <4>3 DEF N
    <3>2. A + N <= calls
      <4>1. AfterCount("new") \in SUBSET Allocating
        BY CallFacts DEF AfterCount, Allocating, Past, NewPlaces
      <4>2. N <= Cardinality(Allocating) /\ Cardinality(Allocating) \in Nat
        BY <4>1, FiniteSets, FS_Subset DEF N, Allocating
      <4>3. A + Cardinality(Allocating) <= calls
        BY DEF CountInv, A
      <4>4. QED
        BY <2>2, <2>7, <4>2, <4>3
    <3>3. D + 1 <= A
      <4>1. AfterCount("delete") \in SUBSET (Freeing \ {t}) /\ t \in Freeing
        BY <2>5, <2>10 DEF AfterCount, Past, Freeing
      <4>2. /\ IsFiniteSet(Freeing \ {t})
            /\ Cardinality(Freeing \ {t}) = Cardinality(Freeing) - 1
        BY <4>1, FiniteSets, FS_RemoveElement
      <4>3. D <= Cardinality(Freeing) - 1 /\ Cardinality(Freeing) \in Nat
        BY <4>1, <4>2, FiniteSets, FS_Subset DEF D
      <4>4. QED
        BY <2>2, <4>3, FreeingHaveBlocks, FiniteSets DEF A
    <3>4. A + N - D - 1 \in 0 .. MaxCalls
      BY <2>2, <2>7, <3>2, <3>3
    <3>5. sysNumAllocs' = A + N - D - 1
      <4>1. sysNumAllocs' = (A + N - D - 1) % SizeLimit
        <5>1. call[t].read + (IF call[t].op = "new" THEN 1 ELSE -1) = A + N - D - 1
          BY <2>1, <2>2, <2>3, <2>10
        <5>2. QED
          BY <1>1, <5>1 DEF Counted
      <4>2. A + N - D - 1 \in Int
        BY <2>2
      <4>3. QED
        BY <3>4, <4>1, <4>2, Modulo
    <3>6. QED
      BY <2>2, <2>8, <3>1, <3>5
  <2>11. QED
    BY <1>2, <2>9, <2>10 DEF Calls
<1>13. QED
  BY <1>1, <1>5, <1>7, <1>8, <1>10, <1>11, <1>12 DEF CountInv

LEMMA MallocKeepsInv ==
  ASSUME CountInv, NEW t \in Threads, Malloc(t)
  PROVE  CountInv'
<1>1. /\ call[t].at = "malloc" /\ alarm = "none"
      /\ UNCHANGED <<sysNumAllocs, sysTotalRam, calls, forgotten, lost>>
  BY DEF Malloc, At
<1>2. CASE alarm' = "no memory" /\ UNCHANGED <<heap, call>>
  <2>1. MemoryTypeOK' /\ Allocated' = Allocated /\ Allocating' = Allocating
    BY <1>1, <1>2, Types DEF MemoryTypeOK, Allocated, Allocating, Past
  <2>2. CountExact' /\ AlarmOnlyByRace'
    BY <1>1, <1>2, <2>1, Types DEF CountExact, AlarmOnlyByRace, AfterCount, Past
  <2>3. QED
    BY <1>1, <1>2, <2>1, <2>2 DEF CountInv, CallOK
<1>3. CASE ~(alarm' = "no memory" /\ UNCHANGED <<heap, call>>)
  <2>1. PICK p \in Ptrs \ Allocated : heap' = [heap EXCEPT ![p] = call[t].size]
    BY <1>3 DEF Malloc
  <2>2. call' = [call EXCEPT ![t] = Outside] /\ alarm' = alarm
    BY <1>3 DEF Malloc
  <2>3. /\ call[t].op = "new" /\ call[t].size \in Nat \ {0} /\ call[t].ptr = {}
    BY <1>1, CallFacts
  <2>4. /\ call'[t] = Outside
        /\ \A u \in Threads \ {t} : call'[u] = call[u]
        /\ \A op, places : Past(op, places)' =
                  IF Outside.op = op /\ Outside.at \in places
                  THEN Past(op, places) \cup {t} ELSE Past(op, places) \ {t}
    BY <2>2, Moves
  <2>5. Allocated' = Allocated \cup {p} /\ heap' \in [Ptrs -> Nat]
    BY <2>1, <2>3, Types DEF Allocated, MemoryTypeOK
  <2>6. Outside \in Calls /\ CallOK(Outside) /\ Outside.at = "outside" /\ Outside.ptr = {}
    BY DEF Outside, Calls, CallOK
  <2>7. MemoryTypeOK'
    BY <1>1, <2>2, <2>5, <2>6, Types DEF MemoryTypeOK
  <2>8. \A u \in Threads : CallOK(call[u])'
    BY <2>4, <2>5, <2>6, Types DEF CallOK
  <2>9. \A u, v \in Threads : u # v => call'[u].ptr \cap call'[v].ptr = {}
    BY <2>4, <2>6 DEF CountInv
  <2>10. /\ Allocating' = Allocating \ {t} /\ t \in Allocating
         /\ AfterCount("new")' = AfterCount("new") \ {t} /\ t \in AfterCount("new")
         /\ AfterCount("delete")' = AfterCount("delete")
    <3>1. "outside" \notin NewPlaces
      BY DEF NewPlaces
    <3>2. t \notin AfterCount("delete")
      BY <2>3 DEF AfterCount, Past
    <3>3. QED
      <4>1. t \in Allocating /\ t \in AfterCount("new")
        BY <1>1, <2>3 DEF Allocating, AfterCount, Past, NewPlaces
      <4>2. /\ Allocating' = Allocating \ {t}
            /\ AfterCount("new")' = AfterCount("new") \ {t}
            /\ AfterCount("delete")' = AfterCount("delete") \ {t}
        BY <2>4, <2>6, <3>1 DEF Allocating, AfterCount
      <4>3. QED
        BY <3>2, <4>1, <4>2
  <2>11. /\ Cardinality(Allocated') = Cardinality(Allocated) + 1
         /\ Cardinality(Allocating') = Cardinality(Allocating) - 1
         /\ Cardinality(AfterCount("new")') = Cardinality(AfterCount("new")) - 1
    <3>1. IsFiniteSet(Allocated) /\ IsFiniteSet(Allocating) /\ IsFiniteSet(AfterCount("new"))
      BY FiniteSets DEF Allocating, AfterCount
    <3>2. Cardinality(Allocated') = Cardinality(Allocated) + 1
      BY <2>1, <2>5, <3>1, FS_AddElement
    <3>3. Cardinality(Allocating') = Cardinality(Allocating) - 1
      BY <2>10, <3>1, FS_RemoveElement
    <3>4. Cardinality(AfterCount("new")') = Cardinality(AfterCount("new")) - 1
      BY <2>10, <3>1, FS_RemoveElement
    <3>5. QED
      BY <3>2, <3>3, <3>4
  <2>12. /\ Cardinality(Allocated) \in Nat /\ Cardinality(Allocating) \in Nat
         /\ Cardinality(AfterCount("new")) \in Nat /\ Cardinality(AfterCount("delete")) \in Nat
    BY FiniteSets DEF Allocating, AfterCount
  <2>13. Cardinality(Allocated') + Cardinality(Allocating') <= calls'
    BY <1>1, <2>11, <2>12 DEF CountInv
  <2>14. CountExact'
    BY <1>1, <2>10, <2>11, <2>12, Types DEF CountExact
  <2>15. AlarmOnlyByRace'
    BY <1>1, <2>2, Types DEF AlarmOnlyByRace
  <2>16. QED
    BY <2>7, <2>8, <2>9, <2>13, <2>14, <2>15 DEF CountInv
<1>4. QED
  BY <1>2, <1>3

LEMMA FreeKeepsInv ==
  ASSUME CountInv, NEW t \in Threads, Free(t)
  PROVE  CountInv'
<1>1. /\ call[t].at = "free" /\ call' = [call EXCEPT ![t] = Outside]
      /\ UNCHANGED <<sysNumAllocs, sysTotalRam, calls, alarm, lost>>
  BY DEF Free, At
<1>2. call[t].op = "delete" /\ \E p \in Allocated : call[t].ptr = {p}
  BY <1>1, CallFacts
<1>3. PICK p \in Allocated : call[t].ptr = {p} /\ heap' = [heap EXCEPT ![p] = 0]
  BY <1>2 DEF Free
<1>4. /\ call'[t] = Outside
      /\ \A u \in Threads \ {t} : call'[u] = call[u]
      /\ \A op, places : Past(op, places)' =
                IF Outside.op = op /\ Outside.at \in places
                THEN Past(op, places) \cup {t} ELSE Past(op, places) \ {t}
  BY <1>1, Moves
<1>5. Allocated' = Allocated \ {p} /\ heap' \in [Ptrs -> Nat]
  BY <1>3, Types DEF Allocated, MemoryTypeOK
<1>6. Outside \in Calls /\ CallOK(Outside) /\ Outside.at = "outside" /\ Outside.ptr = {}
  BY DEF Outside, Calls, CallOK
<1>7. MemoryTypeOK'
  BY <1>1, <1>5, <1>6, Types DEF MemoryTypeOK
<1>8. \A u \in Threads : CallOK(call[u])'
  <2>1. CallOK(call[t])'
    BY <1>4 DEF CallOK, Outside
  <2>2. ASSUME NEW u \in Threads \ {t} PROVE CallOK(call[u])'
    <3>1. p \notin call[u].ptr
      BY <1>3 DEF CountInv
    <3>2. QED
      BY <1>4, <1>5, <3>1, Types DEF CallOK
  <2>3. QED
    BY <2>1, <2>2
<1>9. \A u, v \in Threads : u # v => call'[u].ptr \cap call'[v].ptr = {}
  BY <1>4, <1>6 DEF CountInv
<1>10. /\ Allocating' = Allocating
       /\ AfterCount("new")' = AfterCount("new")
       /\ AfterCount("delete")' = AfterCount("delete") \ {t} /\ t \in AfterCount("delete")
  <2>1. "outside" \notin NewPlaces /\ t \notin Allocating /\ t \notin AfterCount("new")
    BY <1>2 DEF NewPlaces, Allocating, AfterCount, Past
  <2>2. QED
    <3>1. t \in AfterCount("delete")
      BY <1>1, <1>2 DEF AfterCount, Past
    <3>2. /\ Allocating' = Allocating \ {t}
          /\ AfterCount("new")' = AfterCount("new") \ {t}
          /\ AfterCount("delete")' = AfterCount("delete") \ {t}
      BY <1>4, <1>6, <2>1 DEF Allocating, AfterCount
    <3>3. QED
      BY <2>1, <3>1, <3>2
<1>11. /\ Cardinality(Allocated') = Cardinality(Allocated) - 1
       /\ Cardinality(AfterCount("delete")') = Cardinality(AfterCount("delete")) - 1
  <2>1. IsFiniteSet(Allocated) /\ IsFiniteSet(AfterCount("delete"))
    BY FiniteSets DEF AfterCount
  <2>2. QED
    BY <1>3, <1>5, <1>10, <2>1, FS_RemoveElement
<1>12. /\ Cardinality(Allocated) \in Nat /\ Cardinality(Allocating) \in Nat
       /\ Cardinality(AfterCount("new")) \in Nat /\ Cardinality(AfterCount("delete")) \in Nat
       /\ calls \in Nat
  BY Numbers, FiniteSets DEF Allocating, AfterCount
<1>13. Cardinality(Allocated') + Cardinality(Allocating') <= calls'
  BY <1>1, <1>10, <1>11, <1>12 DEF CountInv
<1>14. CountExact'
  BY <1>1, <1>10, <1>11, <1>12, Types DEF CountExact
<1>15. AlarmOnlyByRace'
  BY <1>1, Types DEF AlarmOnlyByRace
<1>16. QED
  BY <1>7, <1>8, <1>9, <1>13, <1>14, <1>15 DEF CountInv

LEMMA CountInit == Init => CountInv
<1> SUFFICES ASSUME Init PROVE CountInv
  OBVIOUS
<1>1. Outside \in Calls /\ CallOK(Outside) /\ Outside.at = "outside"
      /\ Outside.op = "new" /\ Outside.ptr = {}
  BY DEF Outside, Calls, CallOK
<1>2. \A t \in Threads : call[t] = Outside
  BY DEF Init
<1>3. MemoryTypeOK
  BY <1>1, MemoryAssumption DEF Init, MemoryTypeOK
<1>4. Allocated = {} /\ Allocating = {} /\ AfterCount("new") = {} /\ AfterCount("delete") = {}
  BY <1>1, <1>2 DEF Init, Allocated, Allocating, AfterCount, Past, NewPlaces
<1>5. Cardinality({}) = 0
  BY FS_EmptySet
<1>6. CountExact /\ AlarmOnlyByRace
  BY <1>4, <1>5 DEF Init, CountExact, AlarmOnlyByRace
<1>7. Cardinality(Allocated) + Cardinality(Allocating) <= calls
  BY <1>4, <1>5 DEF Init
<1>8. QED
  BY <1>1, <1>2, <1>3, <1>6, <1>7 DEF CountInv

LEMMA CountInductive == CountInv /\ [Next]_vars => CountInv'
<1> SUFFICES ASSUME CountInv, [Next]_vars PROVE CountInv'
  OBVIOUS
<1>1. CASE Next
  <2>1. PICK t \in Threads :
          \/ CallNew(t) \/ CallDelete(t)
          \/ CheckCount(t) \/ ReadCount(t) \/ WriteCount(t)
          \/ ReadRam(t) \/ WriteRam(t)
          \/ Malloc(t) \/ Free(t)
    BY <1>1 DEF Next
  <2>2. QED
    BY <2>1, EnterKeepsInv, CheckKeepsInv, ReadsKeepInv, WriteKeepsInv, MallocKeepsInv,
       FreeKeepsInv
<1>2. CASE UNCHANGED vars
  BY <1>2 DEF vars, CountInv, MemoryTypeOK, CallOK, Allocated, Allocating, AfterCount, Past,
              CountExact, AlarmOnlyByRace
<1>3. QED
  BY <1>1, <1>2

LEMMA CountInvHolds == Spec => []CountInv
BY CountInit, CountInductive, PTL DEF Spec

-----------------------------------------------------------------------------
(* Sums, as numbers of units *)

\* Induction over the subsets of a finite set.
LEMMA SubsetInduction ==
  ASSUME NEW S, IsFiniteSet(S), NEW Good,
         \A T \in SUBSET S : (\A U \in (SUBSET T) \ {T} : U \in Good) => T \in Good
  PROVE  SUBSET S \subseteq Good
<1> DEFINE Bad == (SUBSET S) \ Good
           R == StrictSubsetOrdering(S)
<1> SUFFICES ASSUME Bad # {} PROVE FALSE
  OBVIOUS
<1>1. IsWellFoundedOn(R, SUBSET S)
  <2>1. FiniteSubsetsOf(S) = SUBSET S
    BY FS_FiniteSubsetsOfFinite
  <2>2. IsWellFoundedOn(R, FiniteSubsetsOf(S))
    BY FS_StrictSubsetOrderingWellFounded
  <2>3. QED
    BY <2>1, <2>2
<1>2. PICK T \in Bad : \A U \in Bad : <<U, T>> \notin R
  <2> HIDE DEF R
  <2>1. Bad \subseteq SUBSET S
    OBVIOUS
  <2> HIDE DEF Bad
  <2>2. QED
    BY <1>1, <2>1, WFMin
<1>3. \A U \in (SUBSET T) \ {T} : U \in Good
  BY <1>2 DEF StrictSubsetOrdering
<1>4. QED
  BY <1>3

\* A unit for each one that is summed: the sum of w over S is their number.
Units(w, S) == UNION {{x} \X (1 .. w[x]) : x \in S}

LEMMA OneMore ==
  ASSUME NEW w, NEW S, NEW x, x \notin S, w[x] \in Nat, IsFiniteSet(Units(w, S))
  PROVE  /\ IsFiniteSet(Units(w, S \cup {x}))
         /\ Cardinality(Units(w, S \cup {x})) = Cardinality(Units(w, S)) + w[x]
<1> DEFINE Own == {x} \X (1 .. w[x])
<1>1. Units(w, S \cup {x}) = Units(w, S) \cup Own
  BY DEF Units
<1>2. Units(w, S) \cap Own = {}
  BY DEF Units
<1>3. IsFiniteSet(Own) /\ Cardinality(Own) = w[x]
  <2>1. IsFiniteSet(1 .. w[x]) /\ Cardinality(1 .. w[x]) = w[x]
    <3>1. /\ IsFiniteSet(1 .. w[x])
          /\ Cardinality(1 .. w[x]) = IF 1 > w[x] THEN 0 ELSE w[x] - 1 + 1
      <4>1. 1 \in Int /\ w[x] \in Int
        OBVIOUS
      <4>2. QED
        BY <4>1, FS_Interval, Zenon
    <3>2. QED
      BY <3>1
  <2>2. IsFiniteSet({x}) /\ Cardinality({x}) = 1
    BY FS_Singleton
  <2>3. IsFiniteSet(Own) /\ Cardinality(Own) = Cardinality({x}) * Cardinality(1 .. w[x])
    BY <2>1, <2>2, FS_Product
  <2>4. QED
    BY <2>1, <2>2, <2>3
<1> HIDE DEF Own
<1>4. Cardinality({}) = 0 /\ Cardinality(Units(w, S)) \in Nat
  BY FS_EmptySet, FS_CardinalityType
<1>5. /\ IsFiniteSet(Units(w, S) \cup Own)
      /\ Cardinality(Units(w, S) \cup Own)
            = Cardinality(Units(w, S)) + Cardinality(Own) - Cardinality(Units(w, S) \cap Own)
  BY <1>3, FS_Union
<1>6. Cardinality(Units(w, S) \cap Own) = 0
  BY <1>2, <1>4
<1>7. QED
  <2> DEFINE m == Cardinality(Units(w, S))
  <2>1. m \in Nat
    BY <1>4
  <2>2. Cardinality(Units(w, S) \cup Own) = m + w[x] - 0
    BY <1>3, <1>5, <1>6
  <2> HIDE DEF m
  <2>3. Cardinality(Units(w, S) \cup Own) = m + w[x]
    BY <2>1, <2>2
  <2>4. QED
    BY <1>1, <1>5, <2>3 DEF m

LEMMA UnitsFinite ==
  ASSUME NEW S, IsFiniteSet(S), NEW w, \A x \in S : w[x] \in Nat
  PROVE  \A T \in SUBSET S : IsFiniteSet(Units(w, T)) /\ Cardinality(Units(w, T)) \in Nat
<1> DEFINE Good == {T \in SUBSET S : IsFiniteSet(Units(w, T))}
<1>1. ASSUME NEW T \in SUBSET S, \A U \in (SUBSET T) \ {T} : U \in Good
      PROVE  T \in Good
  <2>1. CASE T = {}
    <3>1. Units(w, T) = {}
      BY <2>1 DEF Units
    <3>2. QED
      BY <3>1, FS_EmptySet
  <2>2. ASSUME NEW x \in T PROVE T \in Good
    <3>1. IsFiniteSet(Units(w, T \ {x})) /\ x \notin T \ {x} /\ w[x] \in Nat /\ T = (T \ {x}) \cup {x}
      BY <1>1
    <3>2. IsFiniteSet(Units(w, (T \ {x}) \cup {x}))
      BY <3>1, OneMore
    <3>3. QED
      BY <3>1, <3>2
  <2>3. QED
    BY <2>1, <2>2
<1>2. SUBSET S \subseteq Good
  <2> HIDE DEF Good
  <2>1. QED
    BY <1>1, SubsetInduction
<1>3. QED
  BY <1>2, FS_CardinalityType

\* What a sum written as a fold is: the fold takes out one element after another.
Pick(s) == CHOOSE x \in s : TRUE
IsSum(iter, w, S) ==
    iter = [s \in SUBSET S |-> IF s = {} THEN 0 ELSE w[Pick(s)] + iter[s \ {Pick(s)}]]

LEMMA UnitsAreSum ==
  ASSUME NEW S, IsFiniteSet(S), NEW w, \A x \in S : w[x] \in Nat
  PROVE  IsSum([s \in SUBSET S |-> Cardinality(Units(w, s))], w, S)
<1> DEFINE h == [s \in SUBSET S |-> Cardinality(Units(w, s))]
<1>1. ASSUME NEW s \in SUBSET S
      PROVE  h[s] = IF s = {} THEN 0 ELSE w[Pick(s)] + h[s \ {Pick(s)}]
  <2>1. CASE s = {}
    <3>1. Units(w, s) = {}
      BY <2>1 DEF Units
    <3>2. QED
      BY <2>1, <3>1, FS_EmptySet
  <2>2. CASE s # {}
    <3>1. Pick(s) \in s
      BY <2>2 DEF Pick
    <3> DEFINE x == Pick(s)
               t == s \ {x}
    <3>2. x \notin t /\ s = t \cup {x} /\ t \in SUBSET S /\ w[x] \in Nat
      BY <3>1
    <3>3. IsFiniteSet(Units(w, t)) /\ Cardinality(Units(w, t)) \in Nat
      BY <3>2, UnitsFinite
    <3> HIDE DEF x, t
    <3>4. Cardinality(Units(w, s)) = Cardinality(Units(w, t)) + w[x]
      BY <3>2, <3>3, OneMore
    <3>5. h[s] = w[x] + h[t]
      BY <3>2, <3>3, <3>4
    <3>6. QED
      BY <2>2, <3>5 DEF x, t
  <2>3. QED
    BY <2>1, <2>2
<1>2. QED
  <2> DEFINE k == [s \in SUBSET S |-> IF s = {} THEN 0 ELSE w[Pick(s)] + h[s \ {Pick(s)}]]
  <2>1. h = k
    <3>1. \A s \in SUBSET S : h[s] = k[s]
      BY <1>1
    <3>2. QED
      BY <3>1
  <2>2. QED
    BY <2>1 DEF IsSum

LEMMA SumIsUnits ==
  ASSUME NEW S, IsFiniteSet(S), NEW w, \A x \in S : w[x] \in Nat,
         NEW iter, IsSum(iter, w, S)
  PROVE  iter[S] = Cardinality(Units(w, S))
<1> DEFINE h == [s \in SUBSET S |-> Cardinality(Units(w, s))]
           Good == {s \in SUBSET S : iter[s] = h[s]}
<1>1. IsSum(h, w, S)
  BY UnitsAreSum
<1> HIDE DEF h
<1>2. ASSUME NEW T \in SUBSET S, \A U \in (SUBSET T) \ {T} : U \in Good
      PROVE  T \in Good
  <2>1. /\ iter[T] = IF T = {} THEN 0 ELSE w[Pick(T)] + iter[T \ {Pick(T)}]
        /\ h[T] = IF T = {} THEN 0 ELSE w[Pick(T)] + h[T \ {Pick(T)}]
    BY <1>1, Zenon DEF IsSum
  <2>2. CASE T # {}
    <3>1. Pick(T) \in T
      BY <2>2 DEF Pick
    <3>2. iter[T \ {Pick(T)}] = h[T \ {Pick(T)}]
      BY <1>2, <3>1
    <3>3. QED
      BY <2>1, <2>2, <3>2
  <2>3. QED
    BY <2>1, <2>2
<1>3. SUBSET S \subseteq Good
  <2> HIDE DEF Good
  <2>1. QED
    BY <1>2, SubsetInduction
<1>4. QED
  BY <1>3 DEF h

-----------------------------------------------------------------------------
(* Remainders *)

LEMMA ModuloUnique ==
  ASSUME NEW L \in Nat \ {0}, NEW q \in Int, NEW r \in 0 .. L - 1
  PROVE  (q * L + r) % L = r
  OBVIOUS

LEMMA ModuloParts ==
  ASSUME NEW L \in Nat \ {0}, NEW n \in Int
  PROVE  \E q \in Int : n = q * L + (n % L) /\ n % L \in 0 .. L - 1
<1>1. /\ n % L \in 0 .. L - 1
      /\ n = (n \div L) * L + (n % L) /\ n \div L \in Int
  OBVIOUS
<1>2. QED
  BY <1>1

LEMMA ModuloAdd ==
  ASSUME NEW L \in Nat \ {0}, NEW n \in Int, NEW k \in Int
  PROVE  ((n % L) + k) % L = (n + k) % L
<1> DEFINE r == n % L
           s == (r + k) % L
<1>1. PICK q \in Int : n = q * L + r /\ r \in 0 .. L - 1
  BY ModuloParts
<1>2. r + k \in Int
  BY <1>1
<1> HIDE DEF r
<1>3. PICK p \in Int : r + k = p * L + s /\ s \in 0 .. L - 1
  BY <1>2, ModuloParts
<1> HIDE DEF s
<1>4. n + k = (q + p) * L + s /\ q + p \in Int
  <2>1. (q + p) * L = q * L + p * L /\ q * L \in Int /\ p * L \in Int
    OBVIOUS
  <2>2. L \in Int /\ s \in Int /\ r \in Int
    BY <1>1, <1>3
  <2> DEFINE a == q * L
             b == p * L
  <2>3. n = a + r /\ r + k = b + s /\ a \in Int /\ b \in Int
    BY <1>1, <1>3, <2>1
  <2> HIDE DEF a, b
  <2>4. n + k = (a + b) + s
    BY <2>2, <2>3
  <2>5. QED
    BY <2>1, <2>4 DEF a, b
<1>5. (n + k) % L = s
  BY <1>3, <1>4, ModuloUnique
<1>6. QED
  BY <1>5 DEF s, r

-----------------------------------------------------------------------------
(* The total *)

\* What each thread has asked for.
Asked == [t \in Threads |-> call[t].size]

\* RamExact with the sums counted in units.
Owed ==
    Cardinality(Units(heap, Allocated)) + forgotten
        + Cardinality(Units(Asked, AfterRam("new")))
        - PointerSize * Cardinality(AfterRam("delete"))

RamInv ==
    /\ CountInv
    /\ forgotten \in Int
    /\ "ram" \notin lost => sysTotalRam = Owed % SizeLimit

LEMMA RamTypes ==
  ASSUME RamInv
  PROVE  /\ IsFiniteSet(Threads) /\ IsFiniteSet(Ptrs) /\ PointerSize \in Nat
         /\ SizeLimit \in Nat \ {0}
         /\ heap \in [Ptrs -> Nat] /\ \A p \in Ptrs : heap[p] \in Nat
         /\ \A t \in Threads : Asked[t] = call[t].size /\ Asked[t] \in Nat
         /\ Allocated \in SUBSET Ptrs /\ AfterRam("new") \in SUBSET Threads
         /\ AfterRam("delete") \in SUBSET Threads
<1>1. MemoryTypeOK
  BY DEF RamInv, CountInv
<1>2. heap \in [Ptrs -> Nat] /\ \A p \in Ptrs : heap[p] \in Nat
  BY <1>1 DEF MemoryTypeOK
<1>3. \A t \in Threads : Asked[t] = call[t].size /\ Asked[t] \in Nat
  BY <1>1 DEF MemoryTypeOK, Asked, Calls
<1>4. /\ Allocated \in SUBSET Ptrs /\ AfterRam("new") \in SUBSET Threads
      /\ AfterRam("delete") \in SUBSET Threads
  BY DEF Allocated, AfterRam, Past
<1>5. SizeLimit \in Nat \ {0} /\ PointerSize \in Nat
  BY MemoryAssumption
<1>6. QED
  BY <1>2, <1>3, <1>4, <1>5, MemoryAssumption

LEMMA RamNumbers ==
  ASSUME RamInv
  PROVE  /\ IsFiniteSet(Units(heap, Allocated))
         /\ Cardinality(Units(heap, Allocated)) \in Nat
         /\ IsFiniteSet(Units(Asked, AfterRam("new")))
         /\ Cardinality(Units(Asked, AfterRam("new"))) \in Nat
         /\ IsFiniteSet(AfterRam("delete")) /\ Cardinality(AfterRam("delete")) \in Nat
         /\ PointerSize * Cardinality(AfterRam("delete")) \in Int
         /\ Owed \in Int
<1>1. /\ IsFiniteSet(Units(heap, Allocated)) /\ Cardinality(Units(heap, Allocated)) \in Nat
      /\ IsFiniteSet(Units(Asked, AfterRam("new")))
      /\ Cardinality(Units(Asked, AfterRam("new"))) \in Nat
  BY RamTypes, UnitsFinite
<1>2. IsFiniteSet(AfterRam("delete")) /\ Cardinality(AfterRam("delete")) \in Nat
  BY FiniteSets DEF AfterRam
<1>3. PointerSize * Cardinality(AfterRam("delete")) \in Int
  BY <1>2, RamTypes
<1>4. Owed \in Int
  BY <1>1, <1>3 DEF RamInv, Owed
<1>5. QED
  BY <1>1, <1>2, <1>3, <1>4

\* Units depend only on what is summed.
LEMMA SameUnits ==
  ASSUME NEW S, NEW w, NEW v, \A x \in S : w[x] = v[x]
  PROVE  Units(w, S) = Units(v, S)
<1>1. \A x \in S : {x} \X (1 .. w[x]) = {x} \X (1 .. v[x])
  OBVIOUS
<1>2. {{x} \X (1 .. w[x]) : x \in S} = {{x} \X (1 .. v[x]) : x \in S}
  BY <1>1
<1>3. QED
  BY <1>2 DEF Units

\* A step in which nobody crosses the update of the total, allocates or frees.
LEMMA SameTotal ==
  ASSUME RamInv, CountInv', NEW t \in Threads, NEW c, call' = [call EXCEPT ![t] = c],
         UNCHANGED <<sysTotalRam, heap, forgotten>>,
         "ram" \in lost => "ram" \in lost',
         call[t].at \notin {"malloc", "free"}, c.at \notin {"malloc", "free"}
  PROVE  RamInv'
<1>1. CountInv
  BY DEF RamInv
<1>2. /\ call'[t] = c
      /\ \A u \in Threads \ {t} : call'[u] = call[u]
      /\ \A op, places : Past(op, places)' =
                IF c.op = op /\ c.at \in places
                THEN Past(op, places) \cup {t} ELSE Past(op, places) \ {t}
  BY <1>1, Moves
<1>3. \A op : AfterRam(op)' = AfterRam(op) /\ t \notin AfterRam(op)
  BY <1>2 DEF AfterRam, Past
<1>4. Units(Asked, AfterRam("new"))' = Units(Asked, AfterRam("new"))
  <2>1. \A u \in AfterRam("new") : Asked'[u] = Asked[u]
    <3>1. AfterRam("new") \subseteq Threads \ {t}
      BY <1>3 DEF AfterRam, Past
    <3>2. \A u \in Threads \ {t} : Asked'[u] = Asked[u]
      BY <1>2 DEF Asked
    <3>3. QED
      BY <3>1, <3>2
  <2>2. Units(Asked', AfterRam("new")) = Units(Asked, AfterRam("new"))
    BY <2>1, SameUnits
  <2>3. QED
    BY <1>3, <2>2 DEF Units
<1>5. Units(heap, Allocated)' = Units(heap, Allocated)
  BY DEF Allocated, Units
<1>6. Owed' = Owed
  BY <1>3, <1>4, <1>5 DEF Owed
<1>7. QED
  BY <1>6 DEF RamInv

\* The total is written back: if nobody wrote it in between, it moves by what
\* the thread has asked for or the size of a pointer.
LEMMA WriteTotal ==
  ASSUME RamInv, CountInv', NEW t \in Threads, WriteRam(t)
  PROVE  RamInv'
<1> DEFINE where == IF call[t].op = "new" THEN "malloc" ELSE "free"
           c == [call[t] EXCEPT !.at = where, !.read = 0]
<1>1. /\ call[t].at = "write ram" /\ call' = [call EXCEPT ![t] = c]
      /\ sysTotalRam' = Weighed(call[t])
      /\ lost' = Missed("ram", sysTotalRam, call[t])
      /\ UNCHANGED <<sysNumAllocs, heap, calls, alarm, forgotten>>
  BY DEF WriteRam, At, GoesOn
<1>2. CountInv
  BY DEF RamInv
<1>3. call[t] \in Calls
  BY <1>2, Types
<1>4. c.at = where /\ c.op = call[t].op /\ c.size = call[t].size
  BY <1>3 DEF Calls
<1> HIDE DEF c
<1>5. /\ call'[t] = c
      /\ \A u \in Threads \ {t} : call'[u] = call[u]
      /\ \A op, places : Past(op, places)' =
                IF c.op = op /\ c.at \in places
                THEN Past(op, places) \cup {t} ELSE Past(op, places) \ {t}
  BY <1>1, <1>2, Moves
<1>6. \A op : /\ t \notin AfterRam(op)
              /\ AfterRam(op)' = IF call[t].op = op THEN AfterRam(op) \cup {t} ELSE AfterRam(op)
  <2>1. where \in {"malloc", "free"}
    OBVIOUS
  <2>2. \A op : t \notin AfterRam(op)
    BY <1>1 DEF AfterRam, Past
  <2>3. \A op : AfterRam(op)' = IF c.op = op THEN AfterRam(op) \cup {t} ELSE AfterRam(op) \ {t}
    <3> HIDE DEF where
    <3>1. QED
      BY <1>4, <1>5, <2>1 DEF AfterRam
  <2>4. QED
    BY <1>4, <2>2, <2>3
<1>7. \A u \in Threads : Asked'[u] = Asked[u]
  BY <1>4, <1>5 DEF Asked
<1>8. forgotten' \in Int
  BY <1>1 DEF RamInv
<1>9. ASSUME "ram" \notin lost' PROVE sysTotalRam' = Owed' % SizeLimit
  <2>1. call[t].read = sysTotalRam /\ "ram" \notin lost
    BY <1>1, <1>9 DEF Missed
  <2>2. sysTotalRam = Owed % SizeLimit
    BY <2>1 DEF RamInv
  <2>3. Units(heap, Allocated)' = Units(heap, Allocated)
    BY <1>1 DEF Allocated, Units
  <2> DEFINE by == IF call[t].op = "new" THEN call[t].size ELSE -PointerSize
             H == Cardinality(Units(heap, Allocated))
             A == Cardinality(Units(Asked, AfterRam("new")))
             D == Cardinality(AfterRam("delete"))
  <2>4. /\ H \in Nat /\ A \in Nat /\ D \in Nat /\ PointerSize \in Nat /\ forgotten \in Int
        /\ PointerSize * D \in Int
        /\ call[t].size \in Nat /\ Asked[t] = call[t].size
    BY <1>3, RamNumbers, RamTypes DEF RamInv
  <2>5. Owed' = Owed + by
    <3>1. CASE call[t].op = "new"
      <4>1. /\ AfterRam("new")' = AfterRam("new") \cup {t}
            /\ AfterRam("delete")' = AfterRam("delete")
        BY <1>6, <3>1
      <4>2. Cardinality(Units(Asked, AfterRam("new")))' = A + call[t].size
        <5>1. Cardinality(Units(Asked, AfterRam("new") \cup {t})) = A + Asked[t]
          BY <1>6, <2>4, RamNumbers, OneMore
        <5>2. AfterRam("new") \cup {t} \subseteq Threads
          BY RamTypes
        <5>3. Units(Asked', AfterRam("new") \cup {t}) = Units(Asked, AfterRam("new") \cup {t})
          BY <1>7, <5>2, SameUnits
        <5>4. QED
          BY <2>4, <4>1, <5>1, <5>3 DEF Units
      <4>3. Owed' = H + forgotten + (A + call[t].size) - PointerSize * D
        BY <1>1, <2>3, <4>1, <4>2 DEF Owed
      <4>4. Owed = H + forgotten + A - PointerSize * D
        BY DEF Owed
      <4> DEFINE P == PointerSize * D
      <4> HIDE DEF H, A, D, P
      <4>5. QED
        BY <2>4, <3>1, <4>3, <4>4 DEF P
    <3>2. CASE call[t].op = "delete"
      <4>1. /\ AfterRam("new")' = AfterRam("new")
            /\ AfterRam("delete")' = AfterRam("delete") \cup {t}
        BY <1>6, <3>2
      <4>2. Cardinality(AfterRam("delete"))' = D + 1
        BY <1>6, <4>1, RamNumbers, FS_AddElement
      <4>3. Units(Asked, AfterRam("new"))' = Units(Asked, AfterRam("new"))
        <5>1. \A u \in AfterRam("new") : Asked'[u] = Asked[u]
          BY <1>7, RamTypes
        <5>2. Units(Asked', AfterRam("new")) = Units(Asked, AfterRam("new"))
          BY <5>1, SameUnits
        <5>3. QED
          BY <4>1, <5>2 DEF Units
      <4>4. Owed' = H + forgotten + A - PointerSize * (D + 1)
        BY <1>1, <2>3, <4>2, <4>3 DEF Owed
      <4>5. Owed = H + forgotten + A - PointerSize * D
        BY DEF Owed
      <4> DEFINE P == PointerSize * D
      <4> HIDE DEF H, A, D
      <4>6. PointerSize * (D + 1) = P + PointerSize
        BY <2>4
      <4> HIDE DEF P
      <4>7. QED
        BY <2>4, <3>2, <4>4, <4>5, <4>6 DEF P
    <3>3. QED
      BY <1>3, <3>1, <3>2 DEF Calls
  <2>6. sysTotalRam' = ((Owed % SizeLimit) + by) % SizeLimit
    BY <1>1, <2>1, <2>2 DEF Weighed
  <2>7. by \in Int /\ Owed \in Int /\ SizeLimit \in Nat \ {0}
    BY <2>4, RamNumbers, RamTypes
  <2> HIDE DEF by
  <2>8. QED
    BY <2>5, <2>6, <2>7, ModuloAdd
<1>10. QED
  BY <1>8, <1>9 DEF RamInv

\* What was asked for becomes a block, or there is none.
LEMMA MallocTotal ==
  ASSUME RamInv, CountInv', NEW t \in Threads, Malloc(t)
  PROVE  RamInv'
<1>1. /\ call[t].at = "malloc"
      /\ UNCHANGED <<sysNumAllocs, sysTotalRam, calls, forgotten, lost>>
  BY DEF Malloc, At
<1>2. CountInv
  BY DEF RamInv
<1>3. CASE UNCHANGED <<heap, call>>
  <2>1. Owed' = Owed
    BY <1>1, <1>3 DEF Owed, Units, Asked, Allocated, AfterRam, Past
  <2>2. QED
    BY <1>1, <2>1 DEF RamInv
<1>4. CASE ~ UNCHANGED <<heap, call>>
  <2>1. PICK p \in Ptrs \ Allocated : heap' = [heap EXCEPT ![p] = call[t].size]
    BY <1>4 DEF Malloc
  <2>2. call' = [call EXCEPT ![t] = Outside]
    BY <1>4 DEF Malloc
  <2>3. call[t].op = "new" /\ call[t].size \in Nat \ {0}
    BY <1>1, <1>2, CallFacts
  <2>4. /\ call'[t] = Outside
        /\ \A u \in Threads \ {t} : call'[u] = call[u]
        /\ \A op, places : Past(op, places)' =
                  IF Outside.op = op /\ Outside.at \in places
                  THEN Past(op, places) \cup {t} ELSE Past(op, places) \ {t}
    BY <1>2, <2>2, Moves
  <2>5. \A op : AfterRam(op)' = AfterRam(op) \ {t}
    BY <2>4, OutsideFields DEF AfterRam
  <2>6. t \in AfterRam("new") /\ t \notin AfterRam("delete")
    BY <1>1, <2>3 DEF AfterRam, Past
  <2>7. /\ Allocated' = Allocated \cup {p}
        /\ heap'[p] = call[t].size /\ \A q \in Allocated : heap'[q] = heap[q]
    BY <2>1, <2>3, RamTypes DEF Allocated
  <2> DEFINE H == Cardinality(Units(heap, Allocated))
             A == Cardinality(Units(Asked, AfterRam("new")))
             n == call[t].size
  <2>8. /\ H \in Nat /\ A \in Nat /\ n \in Nat /\ forgotten \in Int
        /\ PointerSize * Cardinality(AfterRam("delete")) \in Int
    BY <2>3, RamNumbers DEF RamInv
  <2>9. Cardinality(Units(heap, Allocated))' = H + n
    <3>1. Units(heap', Allocated) = Units(heap, Allocated)
      BY <2>7, SameUnits
    <3>2. Cardinality(Units(heap', Allocated \cup {p})) = Cardinality(Units(heap', Allocated)) + heap'[p]
      <4>1. p \notin Allocated /\ heap'[p] \in Nat /\ IsFiniteSet(Units(heap', Allocated))
        BY <2>1, <2>7, <2>8, <3>1, RamNumbers
      <4>2. QED
        BY <4>1, OneMore
    <3>3. QED
      BY <2>7, <3>1, <3>2 DEF Units
  <2>10. A = Cardinality(Units(Asked, AfterRam("new")))' + n
    <3> DEFINE B == AfterRam("new") \ {t}
    <3>1. AfterRam("new") = B \cup {t} /\ t \notin B /\ AfterRam("new")' = B /\ B \subseteq Threads \ {t}
      BY <2>5, <2>6, RamTypes
    <3> HIDE DEF B
    <3>2. \A u \in B : Asked'[u] = Asked[u]
      BY <2>4, <3>1 DEF Asked
    <3>3. Units(Asked', B) = Units(Asked, B)
      BY <3>2, SameUnits
    <3>4. IsFiniteSet(Units(Asked, B)) /\ Asked[t] \in Nat /\ Asked[t] = n
      BY <3>1, RamTypes, UnitsFinite
    <3>5. Cardinality(Units(Asked, B \cup {t})) = Cardinality(Units(Asked, B)) + Asked[t]
      BY <3>1, <3>4, OneMore
    <3>6. Units(Asked, AfterRam("new"))' = Units(Asked', B)
      BY <3>1 DEF Units
    <3>7. QED
      BY <3>1, <3>3, <3>4, <3>5, <3>6
  <2>11. AfterRam("delete")' = AfterRam("delete")
    BY <2>5, <2>6
  <2>12. Cardinality(Units(Asked, AfterRam("new")))' \in Nat
    <3>1. /\ IsFiniteSet(Threads) /\ AfterRam("new")' \in SUBSET Threads
          /\ \A u \in Threads : Asked'[u] \in Nat
      <4>1. AfterRam("new")' \in SUBSET Threads
        BY DEF AfterRam, Past
      <4>2. MemoryTypeOK'
        BY DEF CountInv
      <4>3. QED
        BY <4>1, <4>2, RamTypes DEF MemoryTypeOK, Asked, Calls
    <3>2. Cardinality(Units(Asked', AfterRam("new")')) \in Nat
      BY <3>1, UnitsFinite
    <3>3. QED
      BY <3>2 DEF Units
  <2>13. Owed' = Owed
    <3> DEFINE A1 == Cardinality(Units(Asked, AfterRam("new")))'
               P == PointerSize * Cardinality(AfterRam("delete"))
    <3>1. Owed' = (H + n) + forgotten + A1 - P
      BY <1>1, <2>9, <2>11 DEF Owed
    <3>2. Owed = H + forgotten + A - P
      BY DEF Owed
    <3>3. A1 \in Nat /\ P \in Int /\ A = A1 + n
      BY <2>8, <2>10, <2>12
    <3> HIDE DEF A1, P, H, A
    <3>4. QED
      BY <2>8, <3>1, <3>2, <3>3
  <2>14. QED
    BY <1>1, <2>13 DEF RamInv
<1>5. QED
  BY <1>3, <1>4

\* The block goes with its whole size, of which the total gave up a pointer's.
LEMMA FreeTotal ==
  ASSUME RamInv, CountInv', NEW t \in Threads, Free(t)
  PROVE  RamInv'
<1>1. /\ call[t].at = "free" /\ call' = [call EXCEPT ![t] = Outside]
      /\ UNCHANGED <<sysNumAllocs, sysTotalRam, calls, alarm, lost>>
  BY DEF Free, At
<1>2. CountInv
  BY DEF RamInv
<1>3. call[t].op = "delete" /\ \E p \in Allocated : call[t].ptr = {p}
  BY <1>1, <1>2, CallFacts
<1>4. PICK p \in Allocated : /\ heap' = [heap EXCEPT ![p] = 0]
                             /\ forgotten' = forgotten + heap[p] - PointerSize
  BY <1>3 DEF Free
<1>5. /\ call'[t] = Outside
      /\ \A u \in Threads \ {t} : call'[u] = call[u]
      /\ \A op, places : Past(op, places)' =
                IF Outside.op = op /\ Outside.at \in places
                THEN Past(op, places) \cup {t} ELSE Past(op, places) \ {t}
  BY <1>1, <1>2, Moves
<1>6. \A op : AfterRam(op)' = AfterRam(op) \ {t}
  BY <1>5, OutsideFields DEF AfterRam
<1>7. t \in AfterRam("delete") /\ t \notin AfterRam("new")
  BY <1>1, <1>3 DEF AfterRam, Past
<1> DEFINE B == Allocated \ {p}
           H == Cardinality(Units(heap, Allocated))
           A == Cardinality(Units(Asked, AfterRam("new")))
           D == Cardinality(AfterRam("delete"))
<1>8. /\ Allocated' = B /\ Allocated = B \cup {p} /\ p \notin B
      /\ \A q \in B : heap'[q] = heap[q]
      /\ heap[p] \in Nat /\ B \in SUBSET Ptrs
  BY <1>4, RamTypes DEF Allocated
<1>9. H = Cardinality(Units(heap, B)) + heap[p] /\ Cardinality(Units(heap, B)) \in Nat
  <2> HIDE DEF B
  <2>1. IsFiniteSet(Units(heap, B)) /\ Cardinality(Units(heap, B)) \in Nat
    BY <1>8, RamTypes, UnitsFinite
  <2>2. QED
    BY <1>8, <2>1, OneMore
<1>10. Units(heap, Allocated)' = Units(heap, B)
  <2>1. Units(heap', B) = Units(heap, B)
    BY <1>8, SameUnits
  <2>2. QED
    BY <1>8, <2>1 DEF Units
<1>11. Units(Asked, AfterRam("new"))' = Units(Asked, AfterRam("new"))
  <2>1. AfterRam("new")' = AfterRam("new") /\ AfterRam("new") \subseteq Threads \ {t}
    BY <1>6, <1>7, RamTypes
  <2>2. \A u \in AfterRam("new") : Asked'[u] = Asked[u]
    BY <1>5, <2>1 DEF Asked
  <2>3. Units(Asked', AfterRam("new")) = Units(Asked, AfterRam("new"))
    BY <2>2, SameUnits
  <2>4. QED
    BY <2>1, <2>3 DEF Units
<1>12. Cardinality(AfterRam("delete"))' = D - 1
  BY <1>6, <1>7, RamNumbers, FS_RemoveElement
<1>13. /\ A \in Nat /\ D \in Nat /\ forgotten \in Int /\ PointerSize \in Nat
       /\ PointerSize * D \in Int
  BY RamNumbers, RamTypes DEF RamInv
<1>14. forgotten' \in Int
  BY <1>4, <1>8, <1>13
<1>15. Owed' = Owed
  <2> DEFINE H1 == Cardinality(Units(heap, B))
             P == PointerSize * D
             Q == PointerSize * (D - 1)
             h == heap[p]
  <2>1. Owed' = H1 + (forgotten + h - PointerSize) + A - Q
    BY <1>4, <1>10, <1>11, <1>12 DEF Owed
  <2>2. Owed = H + forgotten + A - P
    BY DEF Owed
  <2>3. H = H1 + h /\ H1 \in Nat /\ P \in Int
    BY <1>9, <1>13
  <2> HIDE DEF H1, H, A, D
  <2>4. Q = P - PointerSize
    BY <1>13
  <2>5. A \in Nat /\ forgotten \in Int /\ PointerSize \in Nat /\ h \in Nat
    BY <1>8, <1>13
  <2> HIDE DEF P, Q, h
  <2>6. QED
    BY <2>1, <2>2, <2>3, <2>4, <2>5
<1>16. QED
  BY <1>1, <1>14, <1>15 DEF RamInv

LEMMA OthersKeepTotal ==
  ASSUME RamInv, CountInv', NEW t \in Threads,
         \/ CallNew(t) \/ CallDelete(t) \/ CheckCount(t)
         \/ ReadCount(t) \/ WriteCount(t) \/ ReadRam(t)
  PROVE  RamInv'
<1>1. CountInv /\ call[t] \in Calls
  BY Types DEF RamInv
<1>2. CASE \E c : /\ c.at \in {"read count", "check"} /\ call' = [call EXCEPT ![t] = c]
                  /\ call[t].at = "outside"
                  /\ UNCHANGED <<sysTotalRam, heap, forgotten, lost>>
  BY <1>2, SameTotal
<1>3. CASE CallNew(t) \/ CallDelete(t)
  <2>1. ASSUME NEW n \in Sizes,
               Enter(t, [Outside EXCEPT !.at = "read count", !.op = "new", !.size = n])
        PROVE  RamInv'
    <3> DEFINE c == [Outside EXCEPT !.at = "read count", !.op = "new", !.size = n]
    <3>1. c.at = "read count"
      BY DEF Outside
    <3> HIDE DEF c
    <3>2. Enter(t, c)
      BY <2>1 DEF c
    <3>3. QED
      BY <1>2, <3>1, <3>2 DEF Enter, At
  <2>2. ASSUME NEW p \in Allocated,
               Enter(t, [Outside EXCEPT !.at = "check", !.op = "delete", !.ptr = {p}])
        PROVE  RamInv'
    <3> DEFINE c == [Outside EXCEPT !.at = "check", !.op = "delete", !.ptr = {p}]
    <3>1. c.at = "check"
      BY DEF Outside
    <3> HIDE DEF c
    <3>2. Enter(t, c)
      BY <2>2 DEF c
    <3>3. QED
      BY <1>2, <3>1, <3>2 DEF Enter, At
  <2>3. QED
    BY <1>3, <2>1, <2>2 DEF CallNew, CallDelete
<1>4. CASE CheckCount(t) /\ NoAllocations
  <2>1. UNCHANGED <<sysTotalRam, heap, call, forgotten, lost>>
    BY <1>4 DEF CheckCount
  <2>2. Owed' = Owed
    BY <2>1 DEF Owed, Units, Asked, Allocated, AfterRam, Past
  <2>3. QED
    BY <2>1, <2>2 DEF RamInv
<1>5. CASE (CheckCount(t) /\ ~NoAllocations) \/ ReadCount(t) \/ WriteCount(t) \/ ReadRam(t)
  <2>1. PICK where \in {"read count", "write count", "read ram", "write ram"}, read \in Nat :
          /\ GoesOn(t, where, read)
          /\ call[t].at \in {"check", "read count", "write count", "read ram"}
          /\ UNCHANGED <<sysTotalRam, heap, forgotten>>
          /\ "ram" \in lost => "ram" \in lost'
    BY <1>1, <1>5, Types DEF CheckCount, ReadCount, WriteCount, ReadRam, At, Missed,
                               MemoryTypeOK
  <2> DEFINE c == [call[t] EXCEPT !.at = where, !.read = read]
  <2>2. call' = [call EXCEPT ![t] = c]
    BY <2>1 DEF GoesOn
  <2>3. c.at = where
    BY <1>1 DEF Calls
  <2> HIDE DEF c
  <2>4. QED
    BY <2>1, <2>2, <2>3, SameTotal
<1>6. QED
  BY <1>3, <1>4, <1>5

\* The folds of RamExact are numbers of units.
LEMMA RamUnits ==
  ASSUME RamInv
  PROVE  RamExact
<1>1. /\ \A p \in Allocated : heap[p] \in Nat
      /\ \A t \in AfterRam("new") : Asked[t] \in Nat /\ Asked[t] = call[t].size
      /\ IsFiniteSet(Allocated) /\ IsFiniteSet(AfterRam("new"))
  BY RamTypes, FS_Subset
<1>2. MapThenSumSet(LAMBDA p : heap[p], Allocated) = Cardinality(Units(heap, Allocated))
  <2> DEFINE iter == CHOOSE f : IsSum(f, heap, Allocated)
  <2>1. IsSum(iter, heap, Allocated)
    BY <1>1, UnitsAreSum
  <2>2. MapThenSumSet(LAMBDA p : heap[p], Allocated) = iter[Allocated]
    BY DEF MapThenSumSet, MapThenFoldSet, IsSum, Pick
  <2>3. QED
    BY <1>1, <2>1, <2>2, SumIsUnits
<1>3. MapThenSumSet(LAMBDA t : call[t].size, AfterRam("new"))
        = Cardinality(Units(Asked, AfterRam("new")))
  <2> DEFINE S == AfterRam("new")
             Sized(f) == f = [s \in SUBSET S |-> IF s = {} THEN 0
                                ELSE call[Pick(s)].size + f[s \ {Pick(s)}]]
             iter == CHOOSE f : Sized(f)
  <2>1. \A f : Sized(f) <=> IsSum(f, Asked, S)
    <3> SUFFICES ASSUME NEW f PROVE Sized(f) <=> IsSum(f, Asked, S)
      OBVIOUS
    <3> DEFINE g == [s \in SUBSET S |-> IF s = {} THEN 0
                       ELSE call[Pick(s)].size + f[s \ {Pick(s)}]]
               h == [s \in SUBSET S |-> IF s = {} THEN 0
                       ELSE Asked[Pick(s)] + f[s \ {Pick(s)}]]
    <3>1. \A s \in SUBSET S : s # {} => Asked[Pick(s)] = call[Pick(s)].size
      BY <1>1 DEF Pick
    <3>2. g = h
      BY <3>1
    <3>3. QED
      BY <3>2 DEF IsSum
  <2>2. \E f : Sized(f)
    BY <1>1, <2>1, UnitsAreSum
  <2>3. Sized(iter)
    <3> HIDE DEF Sized
    <3>1. QED
      BY <2>2
  <2>4. IsSum(iter, Asked, S)
    BY <2>1, <2>3
  <2>5. MapThenSumSet(LAMBDA t : call[t].size, S) = iter[S]
    BY DEF MapThenSumSet, MapThenFoldSet, Pick
  <2> HIDE DEF S, iter
  <2>6. iter[S] = Cardinality(Units(Asked, S))
    BY <1>1, <2>4, SumIsUnits DEF S
  <2>7. QED
    BY <2>5, <2>6 DEF S
<1>4. QED
  BY <1>2, <1>3 DEF RamInv, RamExact, Owed

-----------------------------------------------------------------------------
(* Theorems *)

\* For any number of threads: the types, and a count that is a size_t.
THEOREM TypeCorrect == Spec => []MemoryTypeOK
<1>1. CountInv => MemoryTypeOK
  BY DEF CountInv
<1>2. QED
  BY <1>1, CountInvHolds, PTL

\* For any number of threads and any sizes: as long as no update of the count
\* fell into another, it is that of the blocks (memory.cpp:18, 35, 58, 76).
THEOREM CountCorrect == Spec => []CountExact
<1>1. CountInv => CountExact
  BY DEF CountInv
<1>2. QED
  BY <1>1, CountInvHolds, PTL

\* For any number of threads and any sizes: operator delete terminates a
\* program that frees what it has, once, only after an update of the count
\* was lost (memory.cpp:51-58).
THEOREM AlarmCorrect == Spec => []AlarmOnlyByRace
<1>1. CountInv => AlarmOnlyByRace
  BY DEF CountInv
<1>2. QED
  BY <1>1, CountInvHolds, PTL

\* For any number of threads and blocks and any sizes: as long as no update of
\* the total fell into another, it is the bytes there are and those that were
\* forgotten, and wraps as they do (memory.cpp:19, 36, 59, 77).
THEOREM RamCorrect == Spec => []RamExact
<1>1. Init => RamInv
  <2> SUFFICES ASSUME Init PROVE RamInv
    OBVIOUS
  <2>1. CountInv
    BY CountInit
  <2>2. Allocated = {} /\ AfterRam("new") = {} /\ AfterRam("delete") = {}
    BY OutsideFields DEF Init, Allocated, AfterRam, Past
  <2>3. \A w : Units(w, {}) = {}
    BY DEF Units
  <2>4. Owed = 0
    <3>1. Cardinality({}) = 0
      BY FS_EmptySet
    <3>2. Owed = 0 + 0 + 0 - PointerSize * 0
      BY <2>2, <2>3, <3>1 DEF Owed, Init
    <3>3. QED
      BY <3>2, MemoryAssumption
  <2>5. 0 % SizeLimit = 0
    BY MemoryAssumption, Modulo
  <2>6. QED
    BY <2>1, <2>4, <2>5 DEF Init, RamInv
<1>2. RamInv /\ [Next]_vars => RamInv'
  <2> SUFFICES ASSUME RamInv, [Next]_vars PROVE RamInv'
    OBVIOUS
  <2>1. CountInv'
    BY CountInductive DEF RamInv
  <2>2. CASE Next
    <3>1. PICK t \in Threads :
            \/ CallNew(t) \/ CallDelete(t)
            \/ CheckCount(t) \/ ReadCount(t) \/ WriteCount(t)
            \/ ReadRam(t) \/ WriteRam(t)
            \/ Malloc(t) \/ Free(t)
      BY <2>2 DEF Next
    <3>2. CASE WriteRam(t) \/ Malloc(t) \/ Free(t)
      BY <2>1, <3>2, WriteTotal, MallocTotal, FreeTotal
    <3>3. CASE ~(WriteRam(t) \/ Malloc(t) \/ Free(t))
      BY <2>1, <3>1, <3>3, OthersKeepTotal
    <3>4. QED
      BY <3>2, <3>3
  <2>3. CASE UNCHANGED vars
    <3>1. Owed' = Owed
      BY <2>3 DEF vars, Owed, Units, Asked, Allocated, AfterRam, Past
    <3>2. QED
      BY <2>1, <2>3, <3>1 DEF vars, RamInv
  <2>4. QED
    BY <2>2, <2>3
<1>3. RamInv => RamExact
  BY RamUnits
<1>4. QED
  BY <1>1, <1>2, <1>3, PTL DEF Spec
===============================================================================
