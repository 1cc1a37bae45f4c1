-------------------------- MODULE PlayerListProofs ---------------------------
(***************************************************************************)
(* Theorems about PlayerList, for every number of slots, every set of      *)
(* players and names and every set of object addresses.                    *)
(***************************************************************************)
EXTENDS PlayerList, FiniteSetTheorems, TLAPS

\* The invariant of the count.  A deletion lowers it only when an announced
\* player leaves, or one that was there before and is counted as misleading;
\* and it clears the right slot only because at most one slot is stale.
IInv == TypeOK /\ OneStaleSlot /\ CountCoversOthers

\* Players come and go one at a time.
LEMMA Counted ==
  ASSUME NEW S, S \subseteq Players
  PROVE  /\ IsFiniteSet(S)
         /\ Cardinality(S) \in Nat
         /\ \A p \in Players \ S : Cardinality(S \cup {p}) = Cardinality(S) + 1
         /\ \A p \in S : Cardinality(S \ {p}) = Cardinality(S) - 1
<1>1. IsFiniteSet(S)
  BY FS_Subset, PlayerListAssumption
<1>2. Cardinality(S) \in Nat
  BY <1>1, FS_CardinalityType
<1>3. ASSUME NEW p \in Players \ S
      PROVE Cardinality(S \cup {p}) = Cardinality(S) + 1
  BY <1>1, FS_AddElement
<1>4. ASSUME NEW p \in S
      PROVE Cardinality(S \ {p}) = Cardinality(S) - 1
  BY <1>1, FS_RemoveElement
<1>5. QED
  BY <1>1, <1>2, <1>3, <1>4

\* Some of the players there are were announced, and there is room for all.
LEMMA AnnouncedFit ==
  ASSUME TypeOK, Cardinality(others) < MAX_CLIENTS
  PROVE  /\ Announced \subseteq Players
         /\ Cardinality(Announced) \in Nat
         /\ Cardinality(Announced) < MAX_CLIENTS
<1>1. Announced \subseteq others /\ others \subseteq Players
  BY DEF TypeOK, Announced
<1>2. Cardinality(Announced) <= Cardinality(others)
  BY <1>1, Counted, FS_Subset
<1>3. QED
  BY <1>1, <1>2, Counted, PlayerListAssumption

\* An announced player fills the slot after the last.
LEMMA JoinKeepsIInv ==
  ASSUME IInv, NEW p \in Players, Joins(p)
  PROVE  IInv'
<1> USE PlayerListAssumption DEF IInv, TypeOK, Slots
<1>1. /\ fault = "none"
      /\ others' = others \cup {p}
      /\ p \notin others
      /\ UNCHANGED <<early, misled>>
      /\ crowded' \in BOOLEAN
      /\ NameOf[p] \in Names
  BY DEF Joins
<1>2. /\ Announced' = Announced \cup {p}
      /\ p \in Players \ Announced
  BY <1>1 DEF Announced
<1>3. /\ Cardinality(Announced) \in Nat
      /\ Cardinality(Announced') = Cardinality(Announced) + 1
      /\ Cardinality(Announced') <= MAX_CLIENTS
  <2>1. /\ Cardinality(others) \in Nat
        /\ Cardinality(others) < MAX_CLIENTS
    BY Counted DEF Joins
  <2>2. /\ Announced \subseteq Players
        /\ Cardinality(Announced) \in Nat
        /\ Cardinality(Announced) < MAX_CLIENTS
    BY <2>1, AnnouncedFit
  <2>3. Cardinality(Announced') = Cardinality(Announced) + 1
    BY <1>2, <2>2, Counted
  <2>4. QED
    BY <2>2, <2>3
<1>4. CASE numClients \notin Slots
  <2>1. /\ UNCHANGED <<clients, numClients, heap>>
        /\ fault' = IF numClients < 0 THEN "slots" ELSE fault
    BY <1>4 DEF Joins, OnRpcClientCreate
  <2>2. TypeOK' /\ OneStaleSlot'
    BY <1>1, <2>1 DEF OneStaleSlot
  <2>3. CountCoversOthers'
    BY <1>1, <1>3, <1>4, <2>1 DEF CountCoversOthers
  <2>4. QED
    BY <2>2, <2>3
<1>5. CASE numClients \in Slots
  <2>1. PICK q \in Ptrs :
          /\ heap' = [heap EXCEPT ![q] = [live |-> TRUE, name |-> NameOf[p]]]
          /\ clients' = [clients EXCEPT ![numClients] = q]
          /\ numClients' = numClients + 1
          /\ UNCHANGED fault
    BY <1>5 DEF Joins, OnRpcClientCreate, AddClient, CreatedIn
  <2>2. TypeOK'
    BY <1>1, <1>5, <2>1
  <2>3. OneStaleSlot'
    BY <1>5, <2>1 DEF OneStaleSlot
  <2>4. CountCoversOthers'
    BY <1>1, <1>3, <2>1 DEF CountCoversOthers
  <2>5. QED
    BY <2>2, <2>3, <2>4
<1>6. QED
  BY <1>4, <1>5

\* A deletion clears the one stale slot there may be and makes a new one.
LEMMA LeaveKeepsIInv ==
  ASSUME IInv, NEW p \in Players, Leaves(p)
  PROVE  IInv'
<1> USE PlayerListAssumption DEF IInv, TypeOK, Slots
<1>1. /\ fault = "none"
      /\ others' = others \ {p}
      /\ early' = early \ {p}
      /\ p \in others
      /\ UNCHANGED crowded
      /\ misled' = IF p \in early /\ numClients' # numClients THEN misled + 1 ELSE misled
      /\ fault' \in {"none", "heap", "assert"}
  BY DEF Leaves, OnRpcClientDelete, DeleteOutcomes
<1>2. /\ Announced' = IF p \in early THEN Announced ELSE Announced \ {p}
      /\ p \notin early => p \in Announced
      /\ Announced \subseteq Players
  BY <1>1 DEF Announced
<1>3. /\ Cardinality(Announced) \in Nat
      /\ Cardinality(Announced') = IF p \in early THEN Cardinality(Announced)
                                                  ELSE Cardinality(Announced) - 1
  BY <1>2, Counted
<1>4. CASE numClients = MAX_CLIENTS \/ Matches(NameOf[p]) = {}
  <2>1. UNCHANGED <<clients, numClients, heap>>
    BY <1>4 DEF Leaves, OnRpcClientDelete
  <2>2. TypeOK' /\ OneStaleSlot'
    BY <1>1, <2>1 DEF OneStaleSlot
  <2>3. CountCoversOthers'
    BY <1>1, <1>3, <2>1 DEF CountCoversOthers
  <2>4. QED
    BY <2>2, <2>3
<1>5. CASE numClients # MAX_CLIENTS /\ Matches(NameOf[p]) # {}
  <2>1. /\ heap' = [r \in Ptrs |->
                      IF \E i \in Deleted(NameOf[p]) : clients[i] = r
                      THEN [heap[r] EXCEPT !.live = FALSE] ELSE heap[r]]
        /\ clients' = [clients EXCEPT ![numClients] = NULL]
        /\ numClients' = numClients - 1
    BY <1>5 DEF Leaves, OnRpcClientDelete, ClearedSlot, CountAfterDelete
  <2>2. heap' \in [Ptrs -> [live : BOOLEAN, name : Names \cup {NULL}]]
    BY <2>1
  <2>3. numClients \in Slots
    <3>1. PICK i \in Slots : clients[i] # NULL
      BY <1>5 DEF Matches, Listed
    <3>2. QED
      BY <1>5, <3>1 DEF OneStaleSlot
  <2>4. OneStaleSlot'
    BY <2>1, <2>3 DEF OneStaleSlot
  <2>5. misled' = IF p \in early THEN misled + 1 ELSE misled
    BY <1>1, <2>1
  <2>6. CountCoversOthers'
    BY <1>1, <1>3, <2>1, <2>5 DEF CountCoversOthers
  <2>7. TypeOK'
    <3>1. /\ numClients' \in -1 .. MAX_CLIENTS
          /\ clients' \in [Slots -> Ptrs \cup {NULL}]
      BY <2>1, <2>3
    <3>2. misled' \in Nat
      BY <2>5
    <3>3. others' \subseteq Players /\ early' \subseteq others'
      BY <1>1
    <3>4. QED
      BY <1>1, <2>2, <3>1, <3>2, <3>3
  <2>8. QED
    BY <2>4, <2>6, <2>7
<1>6. QED
  BY <1>4, <1>5

\* The step and the start, for all three parts at once.
LEMMA IInvInductive == Spec => []IInv
<1>1. Init => IInv
  <2> SUFFICES ASSUME Init PROVE IInv
    OBVIOUS
  <2>1. Cardinality(Announced) = 0
    <3>1. Announced = {}
      BY DEF Init, Announced
    <3>2. QED
      BY <3>1, FS_EmptySet
  <2>2. TypeOK
    <3>1. clients \in [Slots -> Ptrs \cup {NULL}]
      BY DEF Init
    <3>2. heap \in [Ptrs -> [live : BOOLEAN, name : Names \cup {NULL}]]
      BY DEF Init
    <3>3. numClients \in -1 .. MAX_CLIENTS
      BY PlayerListAssumption DEF Init
    <3>4. crowded \in BOOLEAN
      BY DEF Init
    <3>5. QED
      BY <3>1, <3>2, <3>3, <3>4 DEF Init, TypeOK
  <2>3. OneStaleSlot
    BY DEF Init, OneStaleSlot, Slots
  <2>4. CountCoversOthers
    BY <2>1 DEF Init, CountCoversOthers
  <2>5. QED
    BY <2>2, <2>3, <2>4 DEF IInv
<1>2. IInv /\ [Next]_vars => IInv'
  <2> SUFFICES ASSUME IInv, [Next]_vars PROVE IInv'
    OBVIOUS
  <2>1. CASE Next
    BY <2>1, JoinKeepsIInv, LeaveKeepsIInv DEF Next
  <2>2. CASE UNCHANGED vars
    BY <2>2 DEF vars, IInv, TypeOK, OneStaleSlot, CountCoversOthers, Announced
  <2>3. QED
    BY <2>1, <2>2
<1>3. QED
  BY <1>1, <1>2, PTL DEF Spec

\* The types: the count stays between -1 and the length of the array however
\* many entries are left over (client_rpc.cpp:33, 57).
THEOREM TypeCorrect == Spec => []TypeOK
<1>1. IInv => TypeOK
  BY DEF IInv
<1>2. QED
  BY <1>1, IInvInductive, PTL

\* However players come and go, at most one slot outside the list holds one
\* (OnRpcClientDelete, client_rpc.cpp:66-75).
THEOREM SlotsCorrect == Spec => []OneStaleSlot
<1>1. IInv => OneStaleSlot
  BY DEF IInv
<1>2. QED
  BY <1>1, IInvInductive, PTL

\* The list is never shorter than the number of players that were announced,
\* but for those who misled the client (client_rpc.cpp:85).
THEOREM CountCorrect == Spec => []CountCoversOthers
<1>1. IInv => CountCoversOthers
  BY DEF IInv
<1>2. QED
  BY <1>1, IInvInductive, PTL

\* The assert that the count is not negative and the write of a new entry
\* fail only on a client that was misled (client_rpc.cpp:44, 54).
THEOREM BoundsCorrect == Spec => []NoBoundsFault
<1> DEFINE Sound == misled = 0 => fault \notin {"assert", "slots"}
<1>1. Init => Sound
  BY DEF Init
<1>2. IInv /\ Sound /\ [Next]_vars => Sound'
  <2> SUFFICES ASSUME IInv, Sound, [Next]_vars, misled' = 0
               PROVE  fault' \notin {"assert", "slots"}
    OBVIOUS
  <2>1. CASE UNCHANGED vars
    BY <2>1 DEF vars
  <2>2. ASSUME NEW p \in Players, Joins(p) \/ Leaves(p)
        PROVE  fault' \notin {"assert", "slots"}
    <3>1. fault = "none" /\ misled = 0
      BY <2>2 DEF IInv, TypeOK, Joins, Leaves
    <3>2. Announced \subseteq Players
      BY DEF IInv, TypeOK, Announced
    <3>3. numClients >= 0
      BY <3>1, <3>2, Counted DEF IInv, TypeOK, CountCoversOthers
    <3>4. CASE Joins(p)
      <4>1. fault' \in {fault, IF numClients < 0 THEN "slots" ELSE fault}
        BY <3>4 DEF Joins, OnRpcClientCreate
      <4>2. QED
        BY <3>1, <3>3, <4>1 DEF IInv, TypeOK
    <3>5. CASE Leaves(p)
      <4>1. ~(numClients < 0)
        BY <3>3 DEF IInv, TypeOK
      <4>2. fault' \in {fault, "none", "heap"}
        BY <3>5, <4>1 DEF Leaves, OnRpcClientDelete, DeleteOutcomes
      <4>3. QED
        BY <3>1, <4>2
    <3>6. QED
      BY <2>2, <3>4, <3>5
  <2>3. QED
    BY <2>1, <2>2 DEF Next
<1>3. IInv /\ Sound => NoBoundsFault
  BY DEF IInv, TypeOK, NoBoundsFault
<1>4. QED
  BY <1>1, <1>2, <1>3, IInvInductive, PTL DEF Spec
-----------------------------------------------------------------------------
(* One other player at a time *)

\* The list of a client that has only ever had one other player around it: it
\* uses the first slot only, and whoever was there before the client has
\* never had a slot.
OneOther ==
    /\ fault = "none"
    /\ \A p, q \in others : p = q
    /\ others # {} => MAX_CLIENTS > 1
    /\ \A i \in Slots : i > 0 \/ early # {} => clients[i] = NULL
    /\ numClients = IF Announced = {} THEN 0 ELSE 1
    /\ \A p \in Announced : /\ clients[0] \in Ptrs
                            /\ heap[clients[0]].live
                            /\ heap[clients[0]].name = NameOf[p]

LEMMA OneAtMost ==
  ASSUME NEW S, S \subseteq Players, Cardinality(S) <= 1
  PROVE  \A p, q \in S : p = q
<1> SUFFICES ASSUME NEW p \in S, NEW q \in S, p # q PROVE FALSE
  OBVIOUS
<1>1. /\ Cardinality(S \ {p}) \in Nat /\ Cardinality(S) \in Nat
      /\ Cardinality(S \ {p}) = Cardinality(S) - 1
  BY Counted
<1>2. q \in S \ {p} /\ IsFiniteSet(S \ {p})
  BY Counted
<1>3. Cardinality(S \ {p}) # 0
  BY <1>2, FS_EmptySet
<1>4. QED
  BY <1>1, <1>3

\* A join to an empty server takes the first slot, with a live object in it.
LEMMA JoinKeepsOneOther ==
  ASSUME IInv, OneOther, others = {}, NEW p \in Players, Joins(p)
  PROVE  OneOther'
<1> USE PlayerListAssumption DEF IInv, TypeOK, Slots
<1>0. MAX_CLIENTS > 1
  BY FS_EmptySet DEF Joins
<1>1. /\ Announced = {} /\ early = {} /\ early' = {} /\ others' = {p}
      /\ Announced' = {p}
      /\ NameOf[p] \in Names
  BY DEF Joins, Announced
<1>2. numClients = 0 /\ numClients \in Slots
  BY <1>1 DEF OneOther
<1>3. PICK q \in Ptrs :
        /\ heap' = [heap EXCEPT ![q] = [live |-> TRUE, name |-> NameOf[p]]]
        /\ clients' = [clients EXCEPT ![0] = q]
        /\ numClients' = 1
        /\ UNCHANGED fault
  BY <1>2 DEF Joins, OnRpcClientCreate, AddClient, CreatedIn
<1>4. QED
  BY <1>0, <1>1, <1>3 DEF OneOther

\* The one that leaves is found in the first slot, which is left to the next;
\* or it was never announced, and nothing is found.
LEMMA LeaveKeepsOneOther ==
  ASSUME IInv, OneOther, NEW p \in Players, Leaves(p)
  PROVE  OneOther'
<1> USE PlayerListAssumption DEF IInv, TypeOK, Slots
<1>1. /\ others = {p} /\ others' = {}
      /\ early \subseteq {p} /\ early' = {}
      /\ Announced' = {}
  BY DEF Leaves, OneOther, Announced
<1>2. CASE p \in early
  <2>1. Announced = {} /\ numClients = 0
    BY <1>1, <1>2 DEF Announced, OneOther
  <2>2. \A i \in Slots : clients[i] = NULL
    BY <1>2 DEF OneOther
  <2>3. Listed = {} /\ Matches(NameOf[p]) = {}
    BY <2>2 DEF Listed, Matches
  <2>4. DeleteOutcomes(NameOf[p]) = {"none"}
    BY <2>1, <2>3 DEF DeleteOutcomes, Deleted
  <2>5. UNCHANGED <<clients, numClients, heap, fault>>
    BY <2>1, <2>3, <2>4 DEF Leaves, OnRpcClientDelete, OneOther
  <2>6. QED
    BY <1>1, <2>1, <2>5, <2>2 DEF OneOther
<1>3. CASE p \notin early
  <2>1. Announced = {p} /\ early = {} /\ numClients = 1
    BY <1>1, <1>3 DEF Announced, OneOther
  <2>2. /\ clients[0] \in Ptrs /\ heap[clients[0]].live
        /\ heap[clients[0]].name = NameOf[p]
    BY <2>1 DEF OneOther
  <2>3. Listed = {0} /\ Matches(NameOf[p]) = {0}
    <3>1. \A i \in Slots : clients[i] # NULL <=> i = 0
      BY <2>2 DEF OneOther
    <3>2. Listed = {0}
      BY <3>1 DEF Listed
    <3>3. QED
      BY <3>2, <2>2 DEF Matches
  <2>4. Deleted(NameOf[p]) = {0}
    BY <2>1, <2>3 DEF Deleted
  <2>5. DeleteOutcomes(NameOf[p]) = {"none"}
    BY <2>1, <2>2, <2>3, <2>4 DEF DeleteOutcomes
  <2>6. numClients # MAX_CLIENTS
    BY <1>1, <2>1 DEF OneOther
  <2>7. /\ clients' = [clients EXCEPT ![1] = NULL]
        /\ numClients' = 0
        /\ fault' = "none"
    BY <2>1, <2>3, <2>5, <2>6
    DEF Leaves, OnRpcClientDelete, ClearedSlot, CountAfterDelete
  <2>8. QED
    BY <1>1, <2>7 DEF OneOther
<1>4. QED
  BY <1>2, <1>3

\* A client that has only ever had one other player around it at a time has
\* an exact list and touches no freed object, for any number of joins and
\* leaves, of players announced or not (client_rpc.cpp:22-90).
THEOREM ExactCorrect == Spec => []ExactForTwo
<1> DEFINE Exact == ~crowded => OneOther
<1>1. Init => Exact
  <2> SUFFICES ASSUME Init, ~crowded PROVE OneOther
    OBVIOUS
  <2>1. /\ others \subseteq Players
        /\ Cardinality(others) < MAX_CLIENTS /\ ~(Cardinality(others) > 1)
        /\ early = others
    BY DEF Init
  <2>2. Cardinality(others) \in Nat /\ IsFiniteSet(others)
    BY <2>1, Counted
  <2>3. \A p, q \in others : p = q
    BY <2>1, <2>2, OneAtMost
  <2>4. others # {} => MAX_CLIENTS > 1
    BY <2>1, <2>2, FS_EmptySet, PlayerListAssumption
  <2>5. Announced = {}
    BY <2>1 DEF Announced
  <2>6. QED
    BY <2>3, <2>4, <2>5 DEF Init, OneOther
<1>2. IInv /\ Exact /\ [Next]_vars => Exact'
  <2> SUFFICES ASSUME IInv, Exact, [Next]_vars, ~crowded' PROVE OneOther'
    OBVIOUS
  <2>1. CASE UNCHANGED vars
    BY <2>1 DEF vars, OneOther, Announced
  <2>2. ASSUME NEW p \in Players, Joins(p) PROVE OneOther'
    <3>1. ~crowded /\ others = {}
      BY <2>2 DEF Joins
    <3>2. QED
      BY <2>2, <3>1, JoinKeepsOneOther
  <2>3. ASSUME NEW p \in Players, Leaves(p) PROVE OneOther'
    BY <2>3, LeaveKeepsOneOther DEF Leaves
  <2>4. QED
    BY <2>1, <2>2, <2>3 DEF Next
<1>3. IInv /\ Exact => ExactForTwo
  <2> SUFFICES ASSUME IInv, OneOther, ~crowded
               PROVE  numClients = Cardinality(Announced)
    BY DEF ExactForTwo, OneOther
  <2>1. CASE Announced = {}
    BY <2>1, FS_EmptySet DEF OneOther
  <2>2. CASE Announced # {}
    <3>1. PICK p \in Announced : Announced = {p}
      BY <2>2 DEF OneOther, Announced
    <3>2. QED
      BY <3>1, FS_Singleton DEF OneOther
  <2>3. QED
    BY <2>1, <2>2
<1>4. QED
  BY <1>1, <1>2, <1>3, IInvInductive, PTL DEF Spec
=============================================================================
