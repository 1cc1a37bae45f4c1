---------------------------- MODULE ConsoleProofs -----------------------------
(***************************************************************************)
(* Theorems about Console: types, that the shared string loses no line,    *)
(* and what becomes of the convars.                                        *)
(***************************************************************************)
EXTENDS Console, SequenceTheorems, TLAPS

\* The empty string is no line.
LEMMA NoLineIsNone == NoLine \notin Lines
  BY DEF NoLine, Lines

\* What a sequence holds at one of its indices.
LEMMA AtIndex ==
  ASSUME NEW S, NEW s \in Seq(S), NEW i \in DOMAIN s
  PROVE  s[i] \in S /\ i \in 1 .. Len(s)
<1>1. DOMAIN s = 1 .. Len(s)
  BY LenProperties
<1>2. i \in 1 .. Len(s)
  BY <1>1
<1>3. QED
  BY <1>2, ElementOfSeq

-----------------------------------------------------------------------------
(* The list of convars *)

\* Type, names of their own, and the convars of the start in their places,
\* those made at the console behind them.
CvarsInv ==
  /\ cvars \in Seq(Cvars)
  /\ wanted \in [StartNames -> Values]
  /\ OneCvarPerCommand
  /\ \A i \in DOMAIN StartCvars :
        /\ i \in DOMAIN cvars
        /\ cvars[i].name = StartCvars[i].name
        /\ cvars[i].value = wanted[StartCvars[i].name]
  /\ \A i \in DOMAIN cvars \ DOMAIN StartCvars : cvars[i].name \in {"set", "create"}

LEMMA StartIsTyped ==
  /\ StartCvars \in Seq(Cvars)
  /\ StartNames \subseteq Names
  /\ \A i \in DOMAIN StartCvars :
        /\ StartCvars[i] \in [name : Names, value : Values]
        /\ ValueIn(StartCvars, StartCvars[i].name) = StartCvars[i].value
<1>1. StartCvars \in Seq(Cvars)
  <2>1. [name : Names, value : Values] \subseteq Cvars
    BY DEF Cvars
  <2>2. QED
    BY <2>1, ConsoleAssumption, SeqMonotonic
<1>2. ASSUME NEW i \in DOMAIN StartCvars
      PROVE  /\ StartCvars[i] \in [name : Names, value : Values]
             /\ ValueIn(StartCvars, StartCvars[i].name) = StartCvars[i].value
  <2>1. StartCvars[i] \in [name : Names, value : Values]
    BY ConsoleAssumption, AtIndex
  <2>2. (CHOOSE k \in DOMAIN StartCvars : StartCvars[k].name = StartCvars[i].name) = i
    BY ConsoleAssumption
  <2>3. QED
    BY <2>1, <2>2 DEF ValueIn
<1>3. StartNames \subseteq Names
  BY <1>2 DEF StartNames
<1>4. QED
  BY <1>1, <1>2, <1>3

LEMMA InitCvars == Init => CvarsInv
<1> SUFFICES ASSUME Init PROVE CvarsInv
  OBVIOUS
<1>1. cvars = StartCvars /\ wanted = [n \in StartNames |-> ValueIn(StartCvars, n)]
  BY DEF Init
<1>2. \A i \in DOMAIN StartCvars :
         wanted[StartCvars[i].name] = StartCvars[i].value
  BY <1>1, StartIsTyped DEF StartNames
<1>3. \A n \in StartNames : ValueIn(StartCvars, n) \in Values
  BY StartIsTyped DEF StartNames
<1>4. QED
  BY <1>1, <1>2, <1>3, StartIsTyped, ConsoleAssumption DEF CvarsInv, OneCvarPerCommand

\* No convar but one of the name given and one of the command's can match, so
\* there is a first match.
LEMMA FirstFound ==
  ASSUME CvarsInv, NEW line \in Lines, Matching(line) # {}
  PROVE  /\ Found(line) \in Matching(line)
         /\ \A j \in Matching(line) : Found(line) <= j
<1> DEFINE M == Matching(line)
<1>1. M \subseteq Int
  BY AtIndex DEF Matching, CvarsInv
<1>2. \E i \in M : \A j \in M : i <= j
  <2>1. PICK a \in M : TRUE
    OBVIOUS
  <2>2. CASE \A j \in M : a <= j
    BY <2>2
  <2>3. CASE ~ \A j \in M : a <= j
    <3>1. PICK b \in M : ~(a <= b)
      BY <2>3
    <3>2. a # b /\ b <= a
      BY <1>1, <2>1, <3>1
    <3>3. \A j \in M : j = a \/ j = b
      BY <3>2 DEF Matching, IsNamed, CvarsInv, OneCvarPerCommand
    <3>4. QED
      BY <1>1, <3>2, <3>3
  <2>4. QED
    BY <2>2, <2>3
<1>3. QED
  BY <1>2 DEF Found

\* What a line can do to the list: nothing, a new convar at the tail under a
\* name that none has, or a new value for the first match.
LEMMA CvarsAfter ==
  ASSUME CvarsInv, NEW line \in Lines, Effect(line)
  PROVE  \/ cvars' = cvars /\ wanted' = wanted /\ line.cmd # "set"
         \/ /\ line.cmd \in {"set", "create"}
            /\ line.name \in Names /\ line.value \in Values
            /\ Matching(line) = {}
            /\ cvars' = Append(cvars, [name |-> line.cmd, value |-> line.value])
         \/ /\ line.cmd = "set"
            /\ line.name \in Names /\ line.value \in Values
            /\ Found(line) \in Matching(line)
            /\ \A j \in Matching(line) : Found(line) <= j
            /\ cvars' = [cvars EXCEPT ![Found(line)].value = line.value]
<1>1. line.cmd \in {"set", "create"} => line.value \in Values /\ line.name \in Names
  BY DEF Lines
<1>2. line.cmd # "set" => wanted' = wanted
  BY DEF Effect
<1>3. CASE line.cmd = "create"
  BY <1>1, <1>2, <1>3 DEF Effect, Command_CvarCreate, Cvar_Create
<1>4. CASE line.cmd = "set"
  BY <1>1, <1>4, FirstFound DEF Effect, Command_CvarSet, Cvar_Create
<1>5. CASE line.cmd \notin {"set", "create"}
  BY <1>2, <1>5 DEF Effect
<1>6. QED
  BY <1>3, <1>4, <1>5

\* The history follows a `set` of a convar of the start.
LEMMA WantedAfter ==
  ASSUME CvarsInv, NEW line \in Lines, Effect(line)
  PROVE  /\ wanted' \in [StartNames -> Values]
         /\ line.cmd = "set" /\ line.name \in StartNames =>
               wanted' = [wanted EXCEPT ![line.name] = line.value]
         /\ ~(line.cmd = "set" /\ line.name \in StartNames) => wanted' = wanted
  BY DEF Effect, CvarsInv, Lines

\* A new convar takes no name away, and none of the start has the name given.
LEMMA AppendKeepsCvars ==
  ASSUME CvarsInv, NEW line \in Lines, Effect(line),
         line.cmd \in {"set", "create"},
         line.name \in Names, line.value \in Values,
         Matching(line) = {},
         cvars' = Append(cvars, [name |-> line.cmd, value |-> line.value])
  PROVE  CvarsInv'
<1> DEFINE new == [name |-> line.cmd, value |-> line.value]
<1>1. new \in Cvars
  BY DEF Cvars
<1>2. cvars \in Seq(Cvars)
  BY DEF CvarsInv
<1>3. /\ cvars' \in Seq(Cvars)
      /\ Len(cvars') = Len(cvars) + 1
      /\ \A i \in 1 .. Len(cvars) : cvars'[i] = cvars[i]
      /\ cvars'[Len(cvars) + 1] = new
  BY <1>1, <1>2, AppendProperties
<1>4. DOMAIN cvars = 1 .. Len(cvars) /\ Len(cvars) \in Nat
  BY <1>2, LenProperties
<1>5. DOMAIN cvars' = 1 .. Len(cvars) + 1
  BY <1>3, LenProperties
<1>6. \A i \in DOMAIN cvars : cvars[i].name # line.cmd /\ cvars[i].name # line.name
  BY DEF Matching, IsNamed
<1>7. line.name \notin StartNames
  BY <1>6 DEF StartNames, CvarsInv
<1>8. wanted' = wanted
  BY <1>7, WantedAfter
<1>9. OneCvarPerCommand'
  BY <1>3, <1>4, <1>5, <1>6 DEF CvarsInv, OneCvarPerCommand
<1>10. ASSUME NEW i \in DOMAIN StartCvars
       PROVE  /\ i \in DOMAIN cvars'
              /\ cvars'[i].name = StartCvars[i].name
              /\ cvars'[i].value = wanted'[StartCvars[i].name]
  BY <1>3, <1>4, <1>5, <1>8 DEF CvarsInv
<1>11. ASSUME NEW i \in DOMAIN cvars' \ DOMAIN StartCvars
       PROVE  cvars'[i].name \in {"set", "create"}
  <2>1. CASE i \in DOMAIN cvars
    BY <1>3, <1>4, <2>1 DEF CvarsInv
  <2>2. CASE i = Len(cvars) + 1
    BY <1>3, <2>2
  <2>3. QED
    BY <1>4, <1>5, <2>1, <2>2
<1>12. QED
  BY <1>3, <1>8, <1>9, <1>10, <1>11 DEF CvarsInv

\* The first match of a name of the start is the convar of the start: one made
\* by `set` is behind it.  Another name matches none of the start.
LEMMA FoundInStart ==
  ASSUME CvarsInv, NEW line \in Lines, line.cmd = "set", line.name \in Names,
         Found(line) \in Matching(line),
         \A j \in Matching(line) : Found(line) <= j,
         NEW i \in DOMAIN StartCvars
  PROVE  i = Found(line) <=> StartCvars[i].name = line.name
<1>1. StartCvars[i].name \in Names /\ StartCvars[i].name \notin {"set", "create"}
  BY StartIsTyped, ConsoleAssumption
<1>2. i = Found(line) => StartCvars[i].name = line.name
  BY <1>1 DEF Matching, IsNamed, CvarsInv
<1>3. ASSUME StartCvars[i].name = line.name PROVE i = Found(line)
  <2>1. i \in Matching(line) /\ Found(line) \in DOMAIN cvars
    BY <1>3 DEF Matching, IsNamed, CvarsInv
  <2>2. Found(line) <= i
    BY <2>1
  <2>3. /\ DOMAIN StartCvars = 1 .. Len(StartCvars)
        /\ DOMAIN cvars = 1 .. Len(cvars)
        /\ Len(StartCvars) \in Nat /\ Len(cvars) \in Nat
    BY StartIsTyped, LenProperties DEF CvarsInv
  <2>4. Found(line) \in DOMAIN StartCvars
    BY <2>1, <2>2, <2>3
  <2>5. StartCvars[Found(line)].name \in Names /\ "set" \notin Names
    BY <2>4, StartIsTyped, ConsoleAssumption
  <2>6. cvars[Found(line)].name = line.name
    BY <2>4, <2>5 DEF Matching, IsNamed, CvarsInv
  <2>7. QED
    BY <1>3, <2>4, <2>6, ConsoleAssumption DEF CvarsInv
<1>4. QED
  BY <1>2, <1>3

LEMMA SetKeepsCvars ==
  ASSUME CvarsInv, NEW line \in Lines, Effect(line),
         line.cmd = "set",
         line.name \in Names, line.value \in Values,
         Found(line) \in Matching(line),
         \A j \in Matching(line) : Found(line) <= j,
         cvars' = [cvars EXCEPT ![Found(line)].value = line.value]
  PROVE  CvarsInv'
<1> DEFINE f == Found(line)
<1>1. cvars \in Seq(Cvars)
  BY DEF CvarsInv
<1>2. f \in DOMAIN cvars /\ f \in 1 .. Len(cvars)
  BY <1>1, AtIndex DEF Matching
<1>3. cvars[f] \in Cvars
  BY <1>1, <1>2, AtIndex
<1> DEFINE new == [cvars[f] EXCEPT !.value = line.value]
<1>4. new \in Cvars /\ new.name = cvars[f].name /\ new.value = line.value
  BY <1>3 DEF Cvars
<1>5. cvars' = [cvars EXCEPT ![f] = new]
  OBVIOUS
<1>6. cvars' \in Seq(Cvars)
  BY <1>1, <1>2, <1>4, <1>5, ExceptSeq
<1>7. /\ DOMAIN cvars' = DOMAIN cvars
      /\ \A i \in DOMAIN cvars : cvars'[i] = IF i = f THEN new ELSE cvars[i]
  BY <1>5
<1>8. \A i \in DOMAIN cvars : cvars'[i].name = cvars[i].name
  BY <1>4, <1>7
<1>9. OneCvarPerCommand'
  BY <1>7, <1>8 DEF CvarsInv, OneCvarPerCommand
<1>10. ASSUME NEW i \in DOMAIN StartCvars
       PROVE  /\ i \in DOMAIN cvars'
              /\ cvars'[i].name = StartCvars[i].name
              /\ cvars'[i].value = wanted'[StartCvars[i].name]
  <2>1. i \in DOMAIN cvars /\ StartCvars[i].name \in StartNames
    BY DEF CvarsInv, StartNames
  <2>2. i = f <=> StartCvars[i].name = line.name
    BY FoundInStart
  <2>3. CASE i = f
    <3>1. line.name \in StartNames
      BY <2>1, <2>2, <2>3
    <3>2. wanted'[StartCvars[i].name] = line.value
      BY <2>2, <2>3, <3>1, WantedAfter DEF CvarsInv
    <3>3. QED
      BY <1>4, <1>7, <1>8, <2>1, <2>3, <3>2 DEF CvarsInv
  <2>4. CASE i # f
    <3>1. wanted'[StartCvars[i].name] = wanted[StartCvars[i].name]
      BY <2>1, <2>2, <2>4, WantedAfter DEF CvarsInv
    <3>2. QED
      BY <1>7, <2>1, <2>4, <3>1 DEF CvarsInv
  <2>5. QED
    BY <2>3, <2>4
<1>11. QED
  BY <1>6, <1>7, <1>8, <1>9, <1>10, WantedAfter DEF CvarsInv

LEMMA EffectKeepsCvars ==
  ASSUME CvarsInv, NEW line \in Lines, Effect(line) PROVE CvarsInv'
<1>1. CASE cvars' = cvars /\ wanted' = wanted
  BY <1>1 DEF CvarsInv, OneCvarPerCommand
<1>2. QED
  BY <1>1, CvarsAfter, AppendKeepsCvars, SetKeepsCvars

-----------------------------------------------------------------------------
(* All variables *)

\* The two threads take turns: the main thread executes while the result of
\* the other is taken and no new one has been started.
ThreadsInv ==
  /\ typed \in Seq(Lines) /\ pending \in Seq(Lines) /\ executed \in Seq(Lines)
  /\ {closed, cut, eofbit, running} \subseteq BOOLEAN
  /\ consoleBuf \in Lines \cup {NoLine}
  /\ fault \in {"none", "heap", "hang"}
  /\ \/ pc = "frame" /\ inputThread \in {"starting", "reading", "done"}
     \/ pc \in {"execute", "restart"} /\ inputThread = "taken"
  /\ inputThread = "reading" /\ ~eofbit => consoleBuf = NoLine
  /\ cut => closed
  /\ eofbit => closed /\ pending = <<>>

\* Once the end of input is met, the string holds the last line or none.
LastLineStays ==
  eofbit /\ consoleBuf # NoLine =>
      cut /\ typed # <<>> /\ consoleBuf = typed[Len(typed)]

IInv == ThreadsInv /\ CvarsInv /\ LastLineStays /\ LinesInOrder

\* What stays as it is while a line comes in.
LEMMA EnterOnly ==
  ASSUME NEW line \in Lines, Type(line) \/ CloseWithin(line)
  PROVE  /\ Enter(line)
         /\ closed' \in {closed, TRUE} /\ cut' \in {cut, TRUE}
         /\ cut' = cut \/ closed'
         /\ UNCHANGED <<eofbit, inputThread, consoleBuf, pc, executed, cvars,
                        wanted, running, fault>>
BY DEF Type, CloseWithin, InputOnly

LEMMA EffectOnFault ==
  ASSUME NEW line \in Lines, Effect(line), fault = "none"
  PROVE  running' \in BOOLEAN /\ fault' \in {"none", "heap", "hang"}
<1>1. Command_Exec => fault' \in {"none", "heap", "hang"}
  BY DEF Command_Exec, Opened, ClosedTwice
<1>2. QED
  BY <1>1 DEF Effect

LEMMA NextKeepsCvars == ASSUME ThreadsInv, CvarsInv, [Next]_vars PROVE CvarsInv'
<1>1. CASE UNCHANGED <<cvars, wanted>>
  BY <1>1 DEF CvarsInv, OneCvarPerCommand
<1>2. CASE Command_Execute
  <2>1. CASE consoleBuf = NoLine
    BY <1>1, <1>2, <2>1 DEF Command_Execute
  <2>2. CASE consoleBuf # NoLine
    BY <1>2, <2>2, EffectKeepsCvars DEF Command_Execute, ThreadsInv
  <2>3. QED
    BY <2>1, <2>2
<1>3. QED
  BY <1>1, <1>2, EnterOnly DEF Next, vars, InputThread, MainThread, CloseInput,
     InputOnly, StartReading, ReadLine, ConsoleUpdate, RestartInput, Quit

LEMMA NextKeepsThreads == ASSUME ThreadsInv, [Next]_vars PROVE ThreadsInv'
<1> USE DEF ThreadsInv
<1>1. ASSUME NEW line \in Lines, Type(line) \/ CloseWithin(line) PROVE ThreadsInv'
  <2>1. typed' \in Seq(Lines) /\ pending' \in Seq(Lines)
    <3>1. typed' = Append(typed, line) /\ pending' = Append(pending, line)
      BY <1>1, EnterOnly DEF Enter
    <3>2. Append(typed, line) \in Seq(Lines) /\ Append(pending, line) \in Seq(Lines)
      BY AppendProperties
    <3>3. QED
      BY <3>1, <3>2
  <2>2. ~closed /\ ~eofbit /\ ~cut
    BY <1>1, EnterOnly DEF Enter
  <2>3. closed' \in BOOLEAN /\ cut' \in BOOLEAN /\ (cut' => closed')
    BY <1>1, <2>2, EnterOnly
  <2>4. QED
    BY <1>1, <2>1, <2>2, <2>3, EnterOnly
<1>2. CASE CloseInput
  BY <1>2 DEF CloseInput, InputOnly
<1>3. CASE StartReading
  BY <1>3 DEF StartReading, input
<1>4. CASE ReadLine
  <2>1. pending # <<>> => Head(pending) \in Lines /\ Tail(pending) \in Seq(Lines)
    BY HeadTailProperties
  <2>2. QED
    BY <1>4, <2>1 DEF ReadLine
<1>5. CASE ConsoleUpdate
  BY <1>5 DEF ConsoleUpdate, input
<1>6. CASE Command_Execute
  <2>1. CASE consoleBuf = NoLine
    BY <1>6, <2>1 DEF Command_Execute, input
  <2>2. CASE consoleBuf # NoLine
    <3>1. Executed(consoleBuf) \in Seq(Lines)
      BY <2>2, AppendProperties DEF Executed
    <3>2. running' \in BOOLEAN /\ fault' \in {"none", "heap", "hang"}
      BY <1>6, <2>2, EffectOnFault DEF Command_Execute, MainRuns
    <3>3. QED
      BY <1>6, <2>2, <3>1, <3>2 DEF Command_Execute, input
  <2>3. QED
    BY <2>1, <2>2
<1>7. CASE RestartInput
  BY <1>7 DEF RestartInput, input
<1>8. CASE Quit
  BY <1>8 DEF Quit, input
<1>9. CASE UNCHANGED vars
  BY <1>9 DEF vars, input
<1>10. QED
  BY <1>1, <1>2, <1>3, <1>4, <1>5, <1>6, <1>7, <1>8, <1>9 DEF Next, InputThread, MainThread

\* The sequences that LinesInOrder joins.
LEMMA LineSeqs ==
  ASSUME ThreadsInv
  PROVE  /\ executed \in Seq(Lines) /\ pending \in Seq(Lines)
         /\ InFlight \in Seq(Lines) /\ executed \o InFlight \in Seq(Lines)
<1>1. InFlight \in Seq(Lines)
  BY EmptySeq, NoLineIsNone DEF ThreadsInv, InFlight
<1>2. QED
  BY <1>1, ConcatProperties DEF ThreadsInv

\* A line comes in at the end of `pending`.
LEMMA EnterKeepsOnce ==
  ASSUME ThreadsInv, EachOnce, NEW line \in Lines, Type(line) \/ CloseWithin(line)
  PROVE  EachOnce'
<1>1. InFlight' = InFlight /\ executed' = executed
  BY EnterOnly DEF InFlight
<1>2. <<line>> \in Seq(Lines)
  OBVIOUS
<1>3. typed' = typed \o <<line>> /\ pending' = pending \o <<line>>
  BY EnterOnly, AppendIsConcat DEF Enter, ThreadsInv
<1>4. (executed \o InFlight \o pending) \o <<line>>
        = (executed \o InFlight) \o (pending \o <<line>>)
  BY <1>2, LineSeqs, ConcatAssociative
<1>5. QED
  BY <1>1, <1>3, <1>4 DEF EachOnce

\* The thread that reads moves a line from `pending` to the shared string.
LEMMA ReadMovesLine ==
  ASSUME ThreadsInv, EachOnce, ReadLine, ~eofbit, pending # <<>>
  PROVE  /\ EachOnce'
         /\ typed = executed \o <<Head(pending)>> \o Tail(pending)
         /\ Head(pending) \in Lines
<1>1. InFlight = <<>>
  BY DEF ReadLine, ThreadsInv, InFlight
<1>2. Head(pending) \in Lines /\ Tail(pending) \in Seq(Lines)
  BY LineSeqs, HeadTailProperties
<1>3. InFlight' = <<Head(pending)>>
  BY <1>2, NoLineIsNone DEF ReadLine, InFlight
<1>4. pending = <<Head(pending)>> \o Tail(pending)
  BY LineSeqs
<1>5. executed \o pending = executed \o <<Head(pending)>> \o Tail(pending)
  <2>1. executed \in Seq(Lines) /\ <<Head(pending)>> \in Seq(Lines)
    BY <1>2, LineSeqs
  <2>2. (executed \o <<Head(pending)>>) \o Tail(pending)
          = executed \o (<<Head(pending)>> \o Tail(pending))
    BY <1>2, <2>1, ConcatAssociative
  <2>3. QED
    BY <1>4, <2>2
<1>6. typed = executed \o pending
  BY <1>1, LineSeqs, ConcatEmptySeq DEF EachOnce
<1>7. typed' = typed /\ executed' = executed /\ pending' = Tail(pending)
  BY DEF ReadLine
<1>8. QED
  BY <1>2, <1>3, <1>5, <1>6, <1>7 DEF EachOnce

\* The main thread moves it to `executed`.
LEMMA ExecuteMovesLine ==
  ASSUME ThreadsInv, EachOnce, Command_Execute, consoleBuf # NoLine
  PROVE  EachOnce'
<1>1. InFlight = <<consoleBuf>> /\ consoleBuf \in Lines
  BY DEF Command_Execute, InFlight, ThreadsInv
<1>2. Len(executed) < Len(typed) + MaxRepeats
  <2>1. Len(executed \o InFlight) = Len(executed) + 1
    BY <1>1, LineSeqs, ConcatProperties
  <2>2. Len(typed) = Len(executed \o InFlight) + Len(pending)
    BY LineSeqs, ConcatProperties DEF EachOnce
  <2>3. Len(executed) \in Nat /\ Len(pending) \in Nat
    BY LineSeqs, LenProperties
  <2>4. QED
    BY <2>1, <2>2, <2>3, ConsoleAssumption
<1>3. executed' = executed \o InFlight
  BY <1>1, <1>2, LineSeqs, AppendIsConcat DEF Command_Execute, Executed
<1>4. InFlight' = <<>>
  BY DEF Command_Execute, InFlight, ThreadsInv
<1>5. executed' \o InFlight' = executed'
  BY <1>3, <1>4, LineSeqs, ConcatEmptySeq
<1>6. typed' = typed /\ pending' = pending
  BY DEF Command_Execute, input
<1>7. QED
  BY <1>3, <1>5, <1>6 DEF EachOnce

\* At the end of input there is nothing but the last line to execute.
LEMMA ExecuteRepeatsLast ==
  ASSUME ThreadsInv, LastLineStays, eofbit, ThenTheLast, Command_Execute,
         consoleBuf # NoLine
  PROVE  ThenTheLast'
<1>1. /\ consoleBuf = typed[Len(typed)] /\ consoleBuf \in Lines
      /\ typed' = typed
      /\ executed' \in {executed, Append(executed, consoleBuf)}
  BY DEF LastLineStays, ThreadsInv, Command_Execute, Executed, input
<1>2. CASE executed' = executed
  BY <1>1, <1>2 DEF ThenTheLast
<1>3. CASE executed' = Append(executed, consoleBuf)
  <2>1. /\ Len(executed) \in Nat /\ Len(typed) \in Nat
        /\ DOMAIN executed = 1 .. Len(executed)
    BY LenProperties DEF ThreadsInv
  <2>2. /\ executed' \in Seq(Lines)
        /\ Len(executed') = Len(executed) + 1
        /\ \A i \in 1 .. Len(executed) : executed'[i] = executed[i]
        /\ executed'[Len(executed) + 1] = consoleBuf
    BY <1>1, <1>3, AppendProperties DEF ThreadsInv
  <2>3. DOMAIN executed' = 1 .. Len(executed) + 1
    BY <2>2, LenProperties
  <2>4. QED
    BY <1>1, <2>1, <2>2, <2>3 DEF ThenTheLast
<1>4. QED
  BY <1>1, <1>2, <1>3

\* While every line has been executed once at most, the next step keeps that up
\* or is the one that reads the last line again.
LEMMA OnceStep ==
  ASSUME ThreadsInv, LastLineStays, EachOnce, [Next]_vars
  PROVE  LinesInOrder'
<1>1. CASE UNCHANGED <<typed, executed, pending>> /\ InFlight' = InFlight
  BY <1>1 DEF LinesInOrder, EachOnce
<1>2. ASSUME NEW line \in Lines, Type(line) \/ CloseWithin(line) PROVE LinesInOrder'
  BY <1>2, EnterKeepsOnce DEF LinesInOrder
<1>3. CASE StartReading
  BY <1>1, <1>3 DEF StartReading, input, ThreadsInv, InFlight
<1>4. CASE ReadLine
  <2>1. InFlight = <<>>
    BY <1>4 DEF ReadLine, ThreadsInv, InFlight
  <2>2. CASE consoleBuf' = NoLine
    <3>1. InFlight' = <<>>
      BY <2>2 DEF InFlight
    <3>2. pending' = pending
      BY <1>4, <2>2, ReadMovesLine, NoLineIsNone DEF ReadLine
    <3>3. QED
      BY <1>1, <1>4, <2>1, <3>1, <3>2 DEF ReadLine
  <2>3. CASE ~eofbit /\ consoleBuf' # NoLine
    <3>1. pending # <<>>
      BY <1>4, <2>3 DEF ReadLine, ThreadsInv
    <3>2. QED
      BY <1>4, <2>3, <3>1, ReadMovesLine DEF LinesInOrder
  <2>4. CASE eofbit /\ consoleBuf' # NoLine
    <3>1. typed = executed
      <4>1. pending = <<>>
        BY <2>4 DEF ThreadsInv
      <4>2. QED
        BY <2>1, <4>1, LineSeqs, ConcatEmptySeq DEF EachOnce
    <3>2. eofbit' /\ cut' /\ typed' = executed'
      BY <1>4, <2>4, <3>1 DEF ReadLine, LastLineStays
    <3>3. ThenTheLast'
      <4>1. Len(executed') \in Nat /\ DOMAIN executed' = 1 .. Len(executed')
        BY <1>4, LineSeqs, LenProperties DEF ReadLine
      <4>2. QED
        BY <3>2, <4>1 DEF ThenTheLast
    <3>4. QED
      BY <3>2, <3>3 DEF LinesInOrder
  <2>5. QED
    BY <2>2, <2>3, <2>4
<1>5. CASE Command_Execute
  <2>1. CASE consoleBuf = NoLine
    BY <1>1, <1>5, <2>1 DEF Command_Execute, input, InFlight
  <2>2. CASE consoleBuf # NoLine
    BY <1>5, <2>2, ExecuteMovesLine DEF LinesInOrder
  <2>3. QED
    BY <2>1, <2>2
<1>6. CASE ConsoleUpdate
  BY <1>1, <1>6 DEF ConsoleUpdate, input, InFlight
<1>7. CASE RestartInput
  BY <1>1, <1>7 DEF RestartInput, input, InFlight, ThreadsInv
<1>8. CASE CloseInput \/ Quit \/ UNCHANGED vars
  BY <1>1, <1>8 DEF CloseInput, InputOnly, Quit, vars, input, InFlight
<1>9. QED
  BY <1>2, <1>3, <1>4, <1>5, <1>6, <1>7, <1>8 DEF Next, InputThread, MainThread

\* Once the last line has been read again, nothing else ever is.
LEMMA RepeatStep ==
  ASSUME ThreadsInv, LastLineStays, eofbit, cut, ThenTheLast, [Next]_vars
  PROVE  LinesInOrder'
<1>1. ASSUME UNCHANGED <<typed, executed, eofbit, cut>> PROVE LinesInOrder'
  BY <1>1 DEF LinesInOrder, ThenTheLast
<1>2. ASSUME NEW line \in Lines, Type(line) \/ CloseWithin(line) PROVE FALSE
  BY <1>2, EnterOnly DEF Enter, ThreadsInv
<1>3. CASE Command_Execute
  <2>1. CASE consoleBuf = NoLine
    BY <1>1, <1>3, <2>1 DEF Command_Execute, input
  <2>2. CASE consoleBuf # NoLine
    <3>1. eofbit' /\ cut'
      BY <1>3 DEF Command_Execute, input
    <3>2. QED
      BY <1>3, <2>2, <3>1, ExecuteRepeatsLast DEF LinesInOrder
  <2>3. QED
    BY <2>1, <2>2
<1>4. ASSUME CloseInput \/ InputThread \/ ConsoleUpdate \/ RestartInput \/ Quit
             \/ UNCHANGED vars
      PROVE  UNCHANGED <<typed, executed, eofbit, cut>>
  BY <1>4 DEF CloseInput, InputOnly, InputThread, StartReading, ReadLine,
     ConsoleUpdate, RestartInput, Quit, vars, input
<1>5. QED
  BY <1>1, <1>2, <1>3, <1>4 DEF Next, MainThread

\* The string is the last line's, or empty, when the end is met.
LEMMA NextKeepsLastLine ==
  ASSUME ThreadsInv, LastLineStays, LinesInOrder, [Next]_vars
  PROVE  LastLineStays'
<1>1. ASSUME NEW line \in Lines, Type(line) \/ CloseWithin(line) PROVE LastLineStays'
  BY <1>1, EnterOnly DEF Enter, ThreadsInv, LastLineStays
<1>2. CASE StartReading
  BY <1>2 DEF StartReading, input, LastLineStays
<1>3. CASE ReadLine
  <2>1. CASE eofbit \/ pending = <<>>
    BY <1>3, <2>1 DEF ReadLine, ThreadsInv, LastLineStays
  <2>2. CASE ~eofbit /\ pending # <<>> /\ ~eofbit'
    BY <2>2 DEF LastLineStays
  <2>3. CASE ~eofbit /\ pending # <<>> /\ eofbit'
    <3>1. typed = executed \o <<Head(pending)>> \o Tail(pending) /\ Head(pending) \in Lines
      BY <1>3, <2>3, ReadMovesLine DEF LinesInOrder
    <3>2. cut /\ Tail(pending) = <<>> /\ consoleBuf' = Head(pending)
      BY <1>3, <2>3 DEF ReadLine
    <3>3. typed = Append(executed, Head(pending))
      <4>1. <<Head(pending)>> \in Seq(Lines) /\ executed \in Seq(Lines)
        BY <3>1, LineSeqs
      <4>2. executed \o <<Head(pending)>> \in Seq(Lines)
        BY <4>1, ConcatProperties
      <4>3. typed = executed \o <<Head(pending)>>
        BY <3>1, <3>2, <4>2, ConcatEmptySeq
      <4>4. QED
        BY <3>1, <4>1, <4>3, AppendIsConcat
    <3>4. typed # <<>> /\ typed[Len(typed)] = Head(pending)
      <4>1. /\ Len(typed) = Len(executed) + 1
            /\ typed[Len(executed) + 1] = Head(pending)
        <5> DEFINE last == Head(pending)
        <5>1. last \in Lines /\ executed \in Seq(Lines)
          BY <3>1, LineSeqs
        <5>2. /\ Len(Append(executed, last)) = Len(executed) + 1
              /\ Append(executed, last)[Len(executed) + 1] = last
          <6> HIDE DEF last
          <6>1. QED
            BY <5>1, AppendProperties
        <5>3. QED
          BY <3>3, <5>2
      <4>2. Len(executed) \in Nat
        BY LineSeqs, LenProperties
      <4>3. typed # <<>>
        BY <4>1, <4>2
      <4>4. QED
        BY <4>1, <4>3
    <3>5. UNCHANGED <<typed, cut>>
      BY <1>3 DEF ReadLine
    <3>6. QED
      BY <3>2, <3>4, <3>5 DEF LastLineStays
  <2>4. QED
    BY <2>1, <2>2, <2>3
<1>4. ASSUME CloseInput \/ MainThread \/ Quit \/ UNCHANGED vars
      PROVE  UNCHANGED <<typed, cut, eofbit, consoleBuf>>
  BY <1>4 DEF CloseInput, InputOnly, MainThread, ConsoleUpdate, Command_Execute,
     RestartInput, Quit, vars, input
<1>5. QED
  BY <1>1, <1>2, <1>3, <1>4 DEF Next, InputThread, LastLineStays

LEMMA InitIInv == Init => IInv
<1> SUFFICES ASSUME Init PROVE IInv
  OBVIOUS
<1>1. <<>> \in Seq(Lines)
  BY EmptySeq
<1>2. ThreadsInv
  BY <1>1 DEF Init, ThreadsInv
<1>3. InFlight = <<>>
  BY DEF Init, InFlight
<1>4. LinesInOrder
  BY <1>1, <1>3, ConcatEmptySeq DEF Init, LinesInOrder, EachOnce
<1>5. QED
  BY <1>2, <1>4, InitCvars DEF IInv, Init, LastLineStays

LEMMA Invariance == Spec => []IInv
<1>1. IInv /\ [Next]_vars => IInv'
  BY NextKeepsCvars, NextKeepsThreads, NextKeepsLastLine, OnceStep, RepeatStep
  DEF IInv, LinesInOrder
<1>2. QED
  BY InitIInv, <1>1, PTL DEF Spec

-----------------------------------------------------------------------------
\* Every variable keeps its type.
THEOREM TypeCorrect == Spec => []TypeOK
<1>1. IInv => TypeOK
  BY DEF IInv, ThreadsInv, CvarsInv, TypeOK
<1>2. QED
  BY <1>1, Invariance, PTL

\* However the threads interleave, no typed line is lost, torn or executed out
\* of order, although both use one string without a lock, and none is executed
\* twice but the last one of an input that ends without a newline
\* (Server::ConsoleInputThread and Server::ConsoleUpdate).
THEOREM LinesCorrect == Spec => []LinesInOrder
<1>1. IInv => LinesInOrder
  BY DEF IInv
<1>2. QED
  BY <1>1, Invariance, PTL

\* Whatever is typed, a name of the list is that of one convar, so `set` and
\* `create` make at most one each (Cvar_Set, Command_CvarCreate).
THEOREM OneEachCorrect == Spec => []OneCvarPerCommand
<1>1. IInv => OneCvarPerCommand
  BY DEF IInv, CvarsInv
<1>2. QED
  BY <1>1, Invariance, PTL

\* Whatever is typed, a convar of the start has the value last set for it: the
\* ones with borrowed names never shadow it (Cvar_Create, Cvar_Get).
THEOREM StartCvarsCorrect == Spec => []StartCvarsKept
<1>1. ASSUME IInv, NEW n \in StartNames PROVE ValueIn(cvars, n) = wanted[n]
  <2>1. PICK i \in DOMAIN StartCvars : StartCvars[i].name = n
    BY DEF StartNames
  <2>2. i \in DOMAIN cvars /\ cvars[i].name = n /\ cvars[i].value = wanted[n]
    BY <1>1, <2>1 DEF IInv, CvarsInv
  <2>3. \A j \in DOMAIN cvars : cvars[j].name = n => j = i
    BY <1>1, <2>2 DEF IInv, CvarsInv, OneCvarPerCommand
  <2>4. (CHOOSE j \in DOMAIN cvars : cvars[j].name = n) = i
    BY <2>2, <2>3
  <2>5. QED
    BY <2>2, <2>4 DEF ValueIn
<1>2. IInv => StartCvarsKept
  BY <1>1 DEF StartCvarsKept
<1>3. QED
  BY <1>2, Invariance, PTL
-----------------------------------------------------------------------------
(* The way of a line *)

\* Line n was typed and is still to be executed.
Waits(n) == n <= Len(typed) /\ Len(executed) < n

\* The steps of the round of the two threads, up to the execution of a line.
Stage ==
    CASE pc = "restart"                               -> 5
      [] pc = "frame" /\ inputThread = "starting"     -> 4
      [] pc = "frame" /\ inputThread = "reading"      -> 3
      [] pc = "frame" /\ inputThread = "done"         -> 2
      [] pc = "execute"                               -> 1

\* The steps of the threads until line n is executed: a round for each line
\* before it and the rest of the one under way.
StepsUntil(n) == 5 * (n - Len(executed)) + Stage

LinesAdvance ==
    \A n \in 1 .. MaxLines : Waits(n) =>
        /\ StepsUntil(n) \in Nat
        /\ InputThread \/ MainThread => StepsUntil(n)' = StepsUntil(n) - 1
        /\ ~(InputThread \/ MainThread) => StepsUntil(n)' = StepsUntil(n)

\* Neither thread waits for anything but the other: the input thread can
\* start or has a line to read, or the main thread can go on.
NoStandstill ==
    \A n \in 1 .. MaxLines : Waits(n) /\ MainRuns /\ IsDedicated =>
        \/ inputThread = "starting"
        \/ inputThread = "reading" /\ pending # <<>>
        \/ pc = "frame" /\ inputThread = "done"
        \/ pc \in {"execute", "restart"}

\* Nothing is read only at the end of a closed input, behind all lines.
EndOfInput ==
    (inputThread = "done" \/ pc = "execute") /\ consoleBuf = NoLine =>
        closed /\ pending = <<>>

LEMMA EndInductive == IInv /\ EndOfInput /\ [Next]_vars => EndOfInput'
<1> SUFFICES ASSUME ThreadsInv, EndOfInput, [Next]_vars PROVE EndOfInput'
  BY DEF IInv
<1>1. ASSUME NEW line \in Lines, Type(line) \/ CloseWithin(line) PROVE EndOfInput'
  BY <1>1, EnterOnly DEF Enter, EndOfInput
<1>2. ASSUME ReadLine PROVE EndOfInput'
  <2>1. pc = "frame"
    BY <1>2 DEF ReadLine, ThreadsInv
  <2>2. pending # <<>> => Head(pending) \in Lines
    BY HeadTailProperties DEF ThreadsInv
  <2>3. pending # <<>> => Head(pending) # NoLine
    BY <2>2, NoLineIsNone
  <2>4. QED
    BY <1>2, <2>1, <2>3 DEF ReadLine, EndOfInput, ThreadsInv
<1>3. ASSUME StartReading PROVE EndOfInput'
  BY <1>3 DEF StartReading, ThreadsInv, EndOfInput
<1>4. ASSUME MainThread PROVE EndOfInput'
  BY <1>4 DEF MainThread, ConsoleUpdate, Command_Execute, RestartInput, input,
     ThreadsInv, EndOfInput
<1>5. ASSUME CloseInput \/ Quit \/ UNCHANGED vars PROVE EndOfInput'
  BY <1>5 DEF CloseInput, InputOnly, Quit, vars, input, EndOfInput
<1>6. QED
  BY <1>1, <1>2, <1>3, <1>4, <1>5 DEF Next, InputThread

\* While a line waits, some line is pending or in the shared string.
LEMMA WaitingLine ==
  ASSUME IInv, EndOfInput, NEW n \in Nat, Waits(n)
  PROVE  /\ Len(executed) \in Nat
         /\ InFlight # <<>> \/ pending # <<>>
         /\ inputThread = "done" \/ pc = "execute" => consoleBuf \in Lines
<1>1. /\ executed \in Seq(Lines) /\ pending \in Seq(Lines)
      /\ consoleBuf \in Lines \cup {NoLine}
  BY DEF IInv, ThreadsInv
<1>2. Len(executed) \in Nat
  BY <1>1, LenProperties
<1>3. ~(InFlight = <<>> /\ pending = <<>>)
  <2>1. SUFFICES ASSUME InFlight = <<>>, pending = <<>> PROVE FALSE
    OBVIOUS
  <2>2. EachOnce => typed = executed
    BY <1>1, <2>1, ConcatEmptySeq DEF EachOnce
  <2>3. EachOnce \/ Len(executed) >= Len(typed)
    BY DEF IInv, LinesInOrder, ThenTheLast
  <2>4. Len(typed) \in Nat
    BY LenProperties DEF IInv, ThreadsInv
  <2>5. QED
    BY <1>2, <2>2, <2>3, <2>4 DEF Waits
<1>4. consoleBuf = NoLine => InFlight = <<>>
  BY DEF InFlight
<1>5. QED
  BY <1>1, <1>2, <1>3, <1>4 DEF EndOfInput

LEMMA StageFacts ==
  ASSUME ThreadsInv
  PROVE  /\ Stage \in 1 .. 5
         /\ pc = "restart" => Stage = 5
         /\ inputThread = "starting" => Stage = 4
         /\ inputThread = "reading" => Stage = 3
         /\ inputThread = "done" => Stage = 2
         /\ pc = "execute" => Stage = 1
BY DEF ThreadsInv, Stage

LEMMA LineStep ==
  ASSUME IInv, EndOfInput, [Next]_vars, NEW n \in Nat, Waits(n)
  PROVE  /\ StepsUntil(n) \in Nat
         /\ InputThread \/ MainThread => StepsUntil(n)' = StepsUntil(n) - 1
         /\ ~(InputThread \/ MainThread) => StepsUntil(n)' = StepsUntil(n)
<1>1. ThreadsInv /\ ThreadsInv'
  BY NextKeepsThreads DEF IInv
<1> DEFINE e == Len(executed)
           f == Len(executed')
           a == Stage
           b == Stage'
<1>2. e \in Nat /\ e < n /\ a \in 1 .. 5
  BY <1>1, StageFacts, WaitingLine DEF Waits
<1>3. StepsUntil(n) = 5 * (n - e) + a /\ StepsUntil(n)' = 5 * (n - f) + b
  BY DEF StepsUntil
<1>4. ASSUME InputThread \/ MainThread
      PROVE  (f = e /\ b = a - 1) \/ (f = e + 1 /\ a = 1 /\ b = 5)
  <2>1. ASSUME StartReading PROVE f = e /\ a = 4 /\ b = 3
    <3>1. pc = "frame"
      BY <1>1, <2>1 DEF StartReading, ThreadsInv
    <3>2. QED
      BY <2>1, <3>1 DEF StartReading, Stage
  <2>2. ASSUME ReadLine PROVE f = e /\ a = 3 /\ b = 2
    <3>1. pc = "frame"
      BY <1>1, <2>2 DEF ReadLine, ThreadsInv
    <3>2. QED
      BY <1>1, <2>2, <3>1 DEF ReadLine, Stage
  <2>3. ASSUME ConsoleUpdate PROVE f = e /\ a = 2 /\ b = 1
    BY <2>3 DEF ConsoleUpdate, Stage
  <2>4. ASSUME RestartInput PROVE f = e /\ a = 5 /\ b = 4
    BY <2>4 DEF RestartInput, Stage
  <2>5. ASSUME Command_Execute PROVE f = e + 1 /\ a = 1 /\ b = 5
    <3>1. pc = "execute" /\ pc' = "restart"
      BY <2>5 DEF Command_Execute
    <3>2. consoleBuf \in Lines /\ consoleBuf # NoLine
      BY <3>1, WaitingLine, NoLineIsNone
    <3>3. executed' = Append(executed, consoleBuf)
      <4>1. Len(typed) \in Nat
        BY <1>1, LenProperties DEF ThreadsInv
      <4>2. e < Len(typed) + MaxRepeats
        BY <1>2, <4>1, ConsoleAssumption DEF Waits
      <4>3. QED
        BY <2>5, <3>2, <4>2 DEF Command_Execute, Executed
    <3>4. f = e + 1
      BY <3>2, <3>3, AppendProperties DEF IInv, ThreadsInv
    <3>5. a = 1 /\ b = 5
      BY <3>1 DEF Stage
    <3>6. QED
      BY <3>4, <3>5
  <2>6. QED
    BY <1>4, <2>1, <2>2, <2>3, <2>4, <2>5 DEF InputThread, MainThread
<1>5. ASSUME ~(InputThread \/ MainThread) PROVE f = e /\ b = a
  <2>1. UNCHANGED <<executed, pc, inputThread>>
    BY <1>5, EnterOnly DEF Next, CloseInput, InputOnly, Quit, vars
  <2>2. QED
    BY <2>1 DEF Stage
<1> HIDE DEF e, f, a, b
<1>6. 5 * (n - e) + a \in Nat
  BY <1>2
<1>7. ASSUME (f = e /\ b = a - 1) \/ (f = e + 1 /\ a = 1 /\ b = 5)
      PROVE  5 * (n - f) + b = 5 * (n - e) + a - 1
  BY <1>2, <1>7
<1>8. StepsUntil(n) \in Nat
  BY <1>3, <1>6
<1>9. ASSUME InputThread \/ MainThread PROVE StepsUntil(n)' = StepsUntil(n) - 1
  <2>1. 5 * (n - f) + b = 5 * (n - e) + a - 1
    BY <1>4, <1>7, <1>9
  <2>2. QED
    BY <1>2, <1>3, <1>8, <2>1
<1>10. ~(InputThread \/ MainThread) => StepsUntil(n)' = StepsUntil(n)
  BY <1>3, <1>5
<1>11. QED
  BY <1>8, <1>9, <1>10

\* What LinesExecuted rests on, in two halves.  The first: the n-th line typed
\* has a number of steps left that each step of either thread lowers by one and
\* nothing else changes, so it is executed when both threads have gone round
\* often enough (Server::ConsoleInputThread, Server::ConsoleUpdate).
THEOREM LinesAdvanceAlways == Spec => [][LinesAdvance]_vars
<1>1. Init => EndOfInput
  BY DEF Init, EndOfInput
<1>2. IInv /\ EndOfInput /\ [Next]_vars => EndOfInput'
  BY EndInductive
<1>3. IInv /\ EndOfInput /\ [Next]_vars => [LinesAdvance]_vars
  BY LineStep DEF LinesAdvance
<1>4. QED
  BY <1>1, <1>2, <1>3, Invariance, PTL DEF Spec

\* The second: until then, and while the program runs as a dedicated server,
\* the threads never wait for each other, so one of them has a step to do.
THEOREM NeverStandsStill == Spec => []NoStandstill
<1>1. Init => EndOfInput
  BY DEF Init, EndOfInput
<1>2. IInv /\ EndOfInput /\ [Next]_vars => EndOfInput'
  BY EndInductive
<1>3. IInv /\ EndOfInput => NoStandstill
  <2> SUFFICES ASSUME IInv, EndOfInput, NEW n \in 1 .. MaxLines, Waits(n)
               PROVE  \/ inputThread = "starting"
                      \/ inputThread = "reading" /\ pending # <<>>
                      \/ pc = "frame" /\ inputThread = "done"
                      \/ pc \in {"execute", "restart"}
    BY DEF NoStandstill
  <2>1. InFlight # <<>> \/ pending # <<>>
    BY WaitingLine
  <2>2. inputThread = "reading" => InFlight = <<>>
    BY DEF IInv, ThreadsInv, InFlight
  <2>3. QED
    BY <2>1, <2>2 DEF IInv, ThreadsInv
<1>4. QED
  BY <1>1, <1>2, <1>3, Invariance, PTL DEF Spec
=============================================================================
