------------------------------- MODULE Console -------------------------------
(***************************************************************************)
(* The console of the dedicated server (net/server/server_console.cpp) with *)
(* the commands and convars it drives (core/command/, core/cvar/).         *)
(*                                                                         *)
(* An input thread reads one line into the shared string consoleBuf and    *)
(* ends; the main thread finds the future ready in some frame, executes    *)
(* the line straight from the shared string and starts the next thread.    *)
(*                                                                         *)
(* A convar keeps pointers to the name and the value it is given.  A       *)
(* command passes pointers into the token buffer, which holds the words of *)
(* the command that is being executed: the name of a convar that `set`     *)
(* made is, whenever a `set` is executed, the name that this `set` is      *)
(* given; the same with `create`.  Lines have single blanks and names long *)
(* enough that the buffer of one command does not spell a name at the place *)
(* of the other's.                                                         *)
(***************************************************************************)
EXTENDS Integers, Sequences

CONSTANTS
    StartCvars,     \* the convars there are when the console starts
    Names,          \* names of convars
    Values,         \* numbers a value can be read as
    DEDICATED,      \* the value of netMode on a dedicated server
    MaxLines,       \* bound: lines that are typed
    MaxRepeats      \* bound of the history: repetitions that executed shows

\* What the engine creates and +set names on the command line, each convar
\* under a name of its own.
ASSUME ConsoleAssumption ==
    /\ {"set", "create"} \cap Names = {}
    /\ StartCvars \in Seq([name : Names, value : Values])
    /\ \A i, j \in DOMAIN StartCvars : StartCvars[i].name = StartCvars[j].name => i = j
    /\ \E i \in DOMAIN StartCvars : StartCvars[i] = [name |-> "netMode", value |-> DEDICATED]
    /\ MaxLines \in Nat /\ MaxRepeats \in Nat

\* What is typed: commands on convars, those that end or endanger the
\* program, and any other line (usage errors, lists, unknown commands).
Lines == [cmd : {"set", "create"}, name : Names, value : Values]
            \cup [cmd : {"exec", "shutdown", "other"}]

\* The empty string: while the thread waits, and at the end of input.
NoLine == [cmd |-> "empty"]

VARIABLES
    typed,          \* history: all lines typed so far
    pending,        \* lines that no thread has read
    closed,         \* is the standard input closed?
    cut,            \* closed within a line: the last one has no newline
    eofbit,         \* has std::cin met the end of input?
    inputThread,    \* "starting", "reading", "done", "taken" (its result is)
    consoleBuf,     \* the shared string
    pc,             \* main thread: "frame", "execute", "restart"
    executed,       \* history: lines executed, without further repetitions
    cvars,          \* the list; a name is a name or the command whose argument it is
    wanted,         \* history: value last given to each convar of the start
    running,
    fault           \* "none", "heap" or "hang"

input == <<typed, pending, closed, cut, eofbit>>

vars == <<input, inputThread, consoleBuf, pc, executed, cvars, wanted, running, fault>>

\* The value of the convar with a name of its own.
ValueIn(list, name) ==
    list[CHOOSE i \in DOMAIN list : list[i].name = name].value

StartNames == {StartCvars[i].name : i \in DOMAIN StartCvars}

Init ==
    /\ typed = <<>> /\ pending = <<>> /\ executed = <<>>
    /\ closed = FALSE /\ cut = FALSE /\ eofbit = FALSE
    /\ inputThread = "starting"
    /\ consoleBuf = NoLine
    /\ pc = "frame"
    /\ cvars = StartCvars
    /\ wanted = [n \in StartNames |-> ValueIn(StartCvars, n)]
    /\ running = TRUE
    /\ fault = "none"

-----------------------------------------------------------------------------
\* Standard input.
Enter(line) ==
    /\ ~closed /\ Len(typed) < MaxLines
    /\ typed' = Append(typed, line)
    /\ pending' = Append(pending, line)

InputOnly ==
    UNCHANGED <<eofbit, inputThread, consoleBuf, pc, executed, cvars, wanted,
                running, fault>>

Type(line) ==
    /\ Enter(line)
    /\ UNCHANGED <<closed, cut>> /\ InputOnly

\* Input ends after a newline, or with a line that has none.
CloseInput ==
    /\ ~closed /\ closed' = TRUE
    /\ UNCHANGED <<typed, pending, cut>> /\ InputOnly

CloseWithin(line) ==
    /\ Enter(line)
    /\ closed' = TRUE /\ cut' = TRUE /\ InputOnly

\* getline empties the string before it waits, but leaves it alone once the
\* stream has met the end of input.
StartReading ==
    /\ inputThread = "starting"
    /\ inputThread' = "reading"
    /\ consoleBuf' = IF eofbit THEN consoleBuf ELSE NoLine
    /\ UNCHANGED <<input, pc, executed, cvars, wanted, running, fault>>

\* A line is there when it has its newline or input is closed.  To read the
\* line that is cut off, or nothing, is to meet the end.
ReadLine ==
    /\ inputThread = "reading"
    /\ inputThread' = "done"
    /\ \/ /\ eofbit
          /\ UNCHANGED <<consoleBuf, pending, eofbit>>
       \/ /\ ~eofbit /\ pending # <<>>
          /\ consoleBuf' = Head(pending)
          /\ pending' = Tail(pending)
          /\ eofbit' = (cut /\ Tail(pending) = <<>>)
       \/ /\ ~eofbit /\ pending = <<>> /\ closed
          /\ eofbit' = TRUE
          /\ UNCHANGED <<consoleBuf, pending>>
    /\ UNCHANGED <<typed, closed, cut, pc, executed, cvars, wanted, running, fault>>

-----------------------------------------------------------------------------
\* (mutant) A name is kept as it was when the convar was made.
IsNamed_OwnCopy(cvar, line) == cvar.name = line.name

\* strcasecmp(cvar->name, name) while line is in the token buffer.
IsNamed(cvar, line) == cvar.name \in {line.name, line.cmd}

Matching(line) == {i \in DOMAIN cvars : IsNamed(cvars[i], line)}

\* The first of the list.
Found(line) == CHOOSE i \in Matching(line) : \A j \in Matching(line) : i <= j

\* (mutant) A new convar is put in front.
Cvar_Create_InFront(line) ==
    cvars' = <<[name |-> line.cmd, value |-> line.value]>> \o cvars

\* At the tail, with pointers into the token buffer.
Cvar_Create(line) ==
    cvars' = Append(cvars, [name |-> line.cmd, value |-> line.value])

\* `create` leaves a convar that it finds as it is (Cvar_Get).
Command_CvarCreate(line) ==
    IF Matching(line) = {} THEN Cvar_Create(line) ELSE UNCHANGED cvars

\* `set` sets it.  No convar is protected: the flags are never stored.
Command_CvarSet(line) ==
    IF Matching(line) = {} THEN Cvar_Create(line)
    ELSE cvars' = [cvars EXCEPT ![Found(line)].value = line.value]

\* Opening a file empties it, and a file that cannot be opened is returned all
\* the same (bad() is not set); no file comes back for a missing image.
Opened == {"emptied", "not open", "no file"}

\* Close deletes the file, and so does exec after it.
ClosedTwice == {"none", "heap"}

\* An emptied file has one empty line; one that is not open never ends.
Command_Exec ==
    \E file \in Opened :
        fault' \in CASE file = "emptied" -> ClosedTwice
                    [] file = "not open" -> {"hang"}
                    [] file = "no file" -> {"none"}

Effect(line) ==
    /\ IF line.cmd = "create" THEN Command_CvarCreate(line)
       ELSE IF line.cmd = "set" THEN Command_CvarSet(line)
       ELSE UNCHANGED cvars
    /\ IF line.cmd = "exec" THEN Command_Exec ELSE UNCHANGED fault
    /\ running' = (line.cmd # "shutdown")
    /\ wanted' = IF line.cmd = "set" /\ line.name \in StartNames
                 THEN [wanted EXCEPT ![line.name] = line.value] ELSE wanted

-----------------------------------------------------------------------------
\* The main thread does no step once the program is over or stuck.
MainRuns == running /\ fault = "none"

IsDedicated == ValueIn(cvars, "netMode") = DEDICATED

\* (mutant) The next thread is started before the line is executed.
ConsoleUpdate_RestartsFirst ==
    /\ MainRuns
    /\ pc = "frame" /\ IsDedicated /\ inputThread = "done"
    /\ pc' = "execute"
    /\ inputThread' = "starting"
    /\ UNCHANGED <<input, consoleBuf, executed, cvars, wanted, running, fault>>

\* A frame that finds the future ready takes the pointer to the string.
ConsoleUpdate ==
    /\ MainRuns
    /\ pc = "frame" /\ IsDedicated /\ inputThread = "done"
    /\ pc' = "execute"
    /\ inputThread' = "taken"
    /\ UNCHANGED <<input, consoleBuf, executed, cvars, wanted, running, fault>>

\* The history shows MaxRepeats executions beyond one for each line.
Executed(line) ==
    IF Len(executed) < Len(typed) + MaxRepeats THEN Append(executed, line)
    ELSE executed

\* The line is copied from the shared string and executed.
Command_Execute ==
    /\ MainRuns
    /\ pc = "execute"
    /\ pc' = "restart"
    /\ IF consoleBuf = NoLine
       THEN UNCHANGED <<executed, cvars, wanted, running, fault>>
       ELSE /\ executed' = Executed(consoleBuf)
            /\ Effect(consoleBuf)
    /\ UNCHANGED <<input, inputThread, consoleBuf>>

\* (mutant) The thread is not started again.
RestartInput_Once ==
    /\ MainRuns
    /\ pc = "restart"
    /\ pc' = "frame"
    /\ UNCHANGED <<input, inputThread, consoleBuf, executed, cvars, wanted,
                   running, fault>>

RestartInput ==
    /\ MainRuns
    /\ pc = "restart"
    /\ pc' = "frame"
    /\ inputThread' = "starting"
    /\ UNCHANGED <<input, consoleBuf, executed, cvars, wanted, running, fault>>

\* The window is closed, or the program ended in another way.
Quit ==
    /\ MainRuns /\ pc = "frame"
    /\ running' = FALSE
    /\ UNCHANGED <<input, inputThread, consoleBuf, pc, executed, cvars, wanted,
                   fault>>

InputThread == StartReading \/ ReadLine
MainThread == ConsoleUpdate \/ Command_Execute \/ RestartInput

Next ==
    \/ \E line \in Lines : Type(line) \/ CloseWithin(line)
    \/ CloseInput
    \/ InputThread
    \/ MainThread
    \/ Quit

\* Both threads are scheduled; nobody has to type or quit.
Fairness == WF_vars(InputThread) /\ WF_vars(MainThread)

Spec == Init /\ [][Next]_vars /\ Fairness

-----------------------------------------------------------------------------
Cvars == [name : Names \cup {"set", "create"}, value : Values]

TypeOK ==
    /\ typed \in Seq(Lines) /\ pending \in Seq(Lines) /\ executed \in Seq(Lines)
    /\ {closed, cut, eofbit, running} \subseteq BOOLEAN
    /\ inputThread \in {"starting", "reading", "done", "taken"}
    /\ consoleBuf \in Lines \cup {NoLine}
    /\ pc \in {"frame", "execute", "restart"}
    /\ cvars \in Seq(Cvars)
    /\ wanted \in [StartNames -> Values]
    /\ fault \in {"none", "heap", "hang"}

\* The line that has been read and not executed.
InFlight ==
    IF (inputThread = "done" \/ pc = "execute") /\ consoleBuf # NoLine
    THEN <<consoleBuf>> ELSE <<>>

\* So far every line was executed once.
EachOnce == typed = executed \o InFlight \o pending

\* All lines were executed, and after them only the last one.
ThenTheLast ==
    /\ Len(executed) >= Len(typed)
    /\ \A i \in DOMAIN executed :
          executed[i] = typed[IF i <= Len(typed) THEN i ELSE Len(typed)]

\* Whatever the two threads do in between, lines are executed whole, in order
\* and once: the string is not written while the main thread still needs it
\* (server_console.cpp:14-19).  The one exception is a last line without a
\* newline: getline leaves it in the string, and it is executed again at
\* every restart, but no other line ever is.
LinesInOrder == EachOnce \/ (eofbit /\ cut /\ ThenTheLast)

\* A convar that existed before the console has the value it was last set to
\* at the console, although convars made at the console answer to any name:
\* they are behind it in the list (Cvar_Create, cvar.cpp:39-43).
StartCvarsKept == \A n \in StartNames : ValueIn(cvars, n) = wanted[n]

\* Whatever names are given, at most one convar is ever made by `set` and one
\* by `create`: it answers to every later name (cvar.cpp:47, 108).
OneCvarPerCommand ==
    \A i, j \in DOMAIN cvars : cvars[i].name = cvars[j].name => i = j

\* A line that was typed is executed in the end, unless the program ends, gets
\* stuck, or netMode is changed, which disables the console for good
\* (server_core.cpp, Server::Frame).
LinesExecuted ==
    \A n \in 1 .. MaxLines :
        Len(typed) >= n ~> (Len(executed) >= n \/ ~MainRuns \/ ~IsDedicated)
=============================================================================
