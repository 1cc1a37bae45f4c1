---------------------------- MODULE MessageStack ----------------------------
(***************************************************************************)
(* What the message buffer of class NetMode promises the tick handlers:    *)
(* a bounded stack.  The newest message is handed out first, and a message *)
(* that arrives when the stack is full empties it down to its oldest       *)
(* entry (and is itself discarded).  Nothing is said of arrays, indices or *)
(* payload memory; module NetBuffer implements this one.  Messages are     *)
(* pushed at any time, popped only while the owner of the stack pops.      *)
(***************************************************************************)
EXTENDS Integers, Sequences

CONSTANTS
    Capacity,   \* how many messages the stack can hold
    Message     \* the messages

VARIABLES
    stack,
    popping     \* whether the owner is one that pops

stackVars == <<stack, popping>>

StackInit == stack = <<>> /\ popping \in BOOLEAN

Push(m) ==
    /\ Len(stack) < Capacity
    /\ stack' = Append(stack, m)
    /\ UNCHANGED popping

\* A message arrives at a full stack.
Overflow ==
    /\ Len(stack) = Capacity
    /\ stack' = SubSeq(stack, 1, 1)
    /\ UNCHANGED popping

\* What is popped may stop the owner.
Pop ==
    /\ popping
    /\ stack # <<>>
    /\ stack' = SubSeq(stack, 1, Len(stack) - 1)
    /\ popping' \in BOOLEAN

\* The owner starts or stops popping.
Turn ==
    /\ popping' = ~popping
    /\ UNCHANGED stack

StackNext ==
    \/ \E m \in Message : Push(m)
    \/ Overflow
    \/ Pop
    \/ Turn

\* The safety part, which NetBuffer is proved to implement.
StackSafety == StackInit /\ [][StackNext]_stackVars

\* An owner that goes on popping does pop.
StackSpec == StackSafety /\ WF_stackVars(Pop)
=============================================================================
