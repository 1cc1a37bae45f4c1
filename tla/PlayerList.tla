----------------------------- MODULE PlayerList ------------------------------
(***************************************************************************)
(* The list of other players that a client in the game keeps               *)
(* (net/client/client_rpc.cpp), driven by the announcements of the server: *)
(* CLIENT_CREATE when a player joins, CLIENT_DELETE when one leaves, each  *)
(* handled once and in order.  Who was there before this client is never   *)
(* announced to it, and is when leaving.  An announcement names the player *)
(* by the string of its address, so players behind one address share a     *)
(* name.                                                                   *)
(*                                                                         *)
(* As in module Server, a freed Client object keeps its contents until its *)
(* block is allocated again, and a step that touches one goes unnoticed or *)
(* ends in a heap fault.                                                   *)
(***************************************************************************)
EXTENDS Integers, FiniteSets

CONSTANTS
    MAX_CLIENTS,    \* length of clients[] (32 in the code)
    Players,        \* other client processes
    Names,          \* address strings
    NameOf,         \* the name under which each player is announced
    Ptrs,           \* addresses that new Client() can return
    NULL

ASSUME PlayerListAssumption ==
    /\ MAX_CLIENTS \in Nat \ {0}
    /\ IsFiniteSet(Players)
    /\ NameOf \in [Players -> Names]
    /\ NULL \notin Ptrs /\ NULL \notin Names

Slots == 0 .. MAX_CLIENTS - 1

VARIABLES
    clients,        \* the slots
    numClients,
    heap,           \* the Client objects, live and freed
    fault,          \* "none", or undefined behaviour or an assert
    others,         \* history: who is on the server, besides this client
    early,          \* history: those of them that were there before it
    misled,         \* history: how many of those were listed when they left
    crowded         \* history: have there ever been two others at once?

vars == <<clients, numClients, heap, fault, others, early, misled, crowded>>

\* The client enters the game; the server does not tell it who is there.
Init ==
    /\ clients = [i \in Slots |-> NULL]
    /\ numClients = 0
    /\ heap = [p \in Ptrs |-> [live |-> FALSE, name |-> NULL]]
    /\ fault = "none"
    /\ others \in {S \in SUBSET Players : Cardinality(S) < MAX_CLIENTS}
    /\ early = others
    /\ misled = 0
    /\ crowded = (Cardinality(others) > 1)

-----------------------------------------------------------------------------
\* A new object in a slot.
CreatedIn(i, name) ==
    \E p \in {q \in Ptrs : ~heap[q].live} :
        /\ heap' = [heap EXCEPT ![p] = [live |-> TRUE, name |-> name]]
        /\ clients' = [clients EXCEPT ![i] = p]

\* (mutant) The count is not raised.
AddClient_NotCounted(name) == CreatedIn(numClients, name) /\ UNCHANGED numClients

\* The slot after the last.
AddClient(name) == CreatedIn(numClients, name) /\ numClients' = numClients + 1

\* A full list ignores the announcement.  With a negative count an object is
\* written in front of clients[].
OnRpcClientCreate(name) ==
    IF numClients \in Slots
    THEN AddClient(name) /\ UNCHANGED fault
    ELSE /\ fault' = IF numClients < 0 THEN "slots" ELSE fault
         /\ UNCHANGED <<clients, numClients, heap>>

\* The slots whose object has the name, whether it is live or freed.
Listed == {i \in Slots : clients[i] # NULL}
Matches(name) == {i \in Listed : heap[clients[i]].name = name}

\* The first match clears the slot after the last, so the loop does not
\* find a match there any more.
Deleted(name) ==
    LET M == Matches(name)
    IN  IF \E i \in M : i < numClients THEN M \ {numClients} ELSE M

\* The loop compares the names of freed objects, and deletes a freed object
\* if its name matches or if two matching slots hold the same pointer.  The
\* assert that the count is not negative is there in debug builds.
DeleteOutcomes(name) ==
    {"none"}
    \cup (IF \/ \E i \in Listed : ~heap[clients[i]].live
             \/ \E i, j \in Deleted(name) : i # j /\ clients[i] = clients[j]
          THEN {"heap"} ELSE {})
    \cup (IF numClients < 0 THEN {"assert"} ELSE {})

\* (mutant) Each match is counted.
CountAfterDelete_EachMatch(name) == numClients - Cardinality(Deleted(name))

CountAfterDelete(name) == numClients - 1

\* (mutant) The slot that was found is cleared.
ClearedSlot_Found(name) ==
    [i \in Slots |-> IF i \in Matches(name) THEN NULL ELSE clients[i]]

\* clients[numClients]: not the slot that was found, and one too far.
ClearedSlot(name) == [clients EXCEPT ![numClients] = NULL]

\* Every object of the name is freed; a full list ignores the announcement
\* and so does one that does not have the name.
OnRpcClientDelete(name) ==
    IF numClients = MAX_CLIENTS
    THEN UNCHANGED <<clients, numClients, heap, fault>>
    ELSE /\ fault' \in DeleteOutcomes(name)
         /\ IF Matches(name) = {}
            THEN UNCHANGED <<clients, numClients, heap>>
            ELSE /\ heap' = [p \in Ptrs |->
                                IF \E i \in Deleted(name) : clients[i] = p
                                THEN [heap[p] EXCEPT !.live = FALSE] ELSE heap[p]]
                 /\ clients' = ClearedSlot(name)
                 /\ numClients' = CountAfterDelete(name)

-----------------------------------------------------------------------------
\* The server has room for MAX_CLIENTS, and this client is one of them.
Joins(p) ==
    /\ fault = "none"
    /\ p \notin others
    /\ Cardinality(others) < MAX_CLIENTS - 1
    /\ OnRpcClientCreate(NameOf[p])
    /\ others' = others \cup {p}
    /\ crowded' = (crowded \/ others # {})
    /\ UNCHANGED <<early, misled>>

Leaves(p) ==
    /\ fault = "none"
    /\ p \in others
    /\ OnRpcClientDelete(NameOf[p])
    /\ others' = others \ {p}
    /\ early' = early \ {p}
    /\ misled' = IF p \in early /\ numClients' # numClients THEN misled + 1 ELSE misled
    /\ UNCHANGED crowded

Next == \E p \in Players : Joins(p) \/ Leaves(p)

Spec == Init /\ [][Next]_vars

-----------------------------------------------------------------------------
\* Types; the count is never below -1, nor past the array.
TypeOK ==
    /\ clients \in [Slots -> Ptrs \cup {NULL}]
    /\ numClients \in -1 .. MAX_CLIENTS
    /\ heap \in [Ptrs -> [live : BOOLEAN, name : Names \cup {NULL}]]
    /\ fault \in {"none", "heap", "assert", "slots"}
    /\ others \subseteq Players
    /\ early \subseteq others
    /\ misled \in Nat
    /\ crowded \in BOOLEAN

\* However many leave in whatever order, the slots below the count are
\* filled and at most the one after them holds a player that was not
\* cleared: the count never runs ahead of the slots, nor more than one behind.
OneStaleSlot ==
    \A i \in Slots : /\ i < numClients => clients[i] # NULL
                     /\ i > numClients => clients[i] = NULL

\* The players that joined after this client.
Announced == others \ early

\* A deletion that finds a freed entry, or two entries, or none, leaves the
\* list no shorter than the players that were announced, but for those of
\* whom this client was never told: each of them can, when it leaves, take an
\* entry that was left over from another one behind its address.
CountCoversOthers ==
    fault = "none" => Cardinality(Announced) <= numClients + misled

\* The assert of the deletion (client_rpc.cpp:54) and the array hold, unless
\* the client was misled: a list of announced players only never fails them.
NoBoundsFault == fault \in {"assert", "slots"} => misled > 0

\* As long as there has never been more than one other player at a time, the
\* list is exact: the slots below the count hold that player's object, if it
\* was announced, and no step has touched a freed one.
ExactForTwo ==
    ~crowded =>
        /\ fault = "none"
        /\ numClients = Cardinality(Announced)
        /\ \A p \in Announced : /\ heap[clients[0]].live
                                /\ heap[clients[0]].name = NameOf[p]
=============================================================================
