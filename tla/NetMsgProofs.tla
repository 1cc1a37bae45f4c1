---------------------------- MODULE NetMsgProofs -----------------------------
(***************************************************************************)
(* Theorems about NetMsg, for every packet size and every set of messages. *)
(***************************************************************************)
EXTENDS NetMsg, FiniteSetTheorems, WellFoundedInduction, TLAPS

\* The numbers of the state, and the fields.
NumbersOK ==
    /\ fields \in Seq(Fields)
    /\ phase \in {"writing", "reading", "dropped"}
    /\ next \in Nat \ {0}
    /\ size \in Nat
    /\ msgPtrWrite \in Nat
    /\ refused \in BOOLEAN

\* Room for the field that is written next.
IInv == NumbersOK /\ FieldsFit

LEMMA NeededType == ASSUME NEW field \in Fields PROVE Needed(field) \in Nat
  BY DEF Needed, Fields

\* What EnsureCapacityWrite leaves when it does not refuse.
LEMMA CapacityEnsured ==
  ASSUME IInv, ~refused, NEW n \in Nat, ~Overflows(n)
  PROVE  /\ NewSize(n) \in Nat
         /\ DOMAIN NewBlock(n) = Block(NewSize(n))
         /\ msgPtrWrite + n <= NewSize(n)
         /\ NewSize(n) <= MAX_PACKET_SIZE
<1> USE NetMsgAssumption DEF IInv, NumbersOK, FieldsFit
<1>1. CASE Grows(n)
  <2>1. NewSize(n) = size + n /\ NewSize(n) < MAX_PACKET_SIZE
    BY <1>1 DEF NewSize, Overflows
  <2>2. DOMAIN NewBlock(n) = Block(NewSize(n))
    BY <1>1, <2>1 DEF NewBlock
  <2>3. QED
    BY <2>1, <2>2
<1>2. CASE ~Grows(n)
  <2>1. NewSize(n) = size /\ NewBlock(n) = block
    BY <1>2 DEF NewSize, NewBlock
  <2>2. msgPtrWrite + n <= size
    BY <1>2 DEF Grows
  <2>3. QED
    BY <2>1, <2>2
<1>3. QED
  BY <1>1, <1>2

\* A write grows the header and the block alike, or is refused.
LEMMA WriteKeepsIInv == ASSUME IInv, Write PROVE IInv'
<1> DEFINE n == Needed(fields[next])
<1>1. fields[next] \in Fields
  BY DEF IInv, NumbersOK, Write
<1>2. n \in Nat
  BY <1>1, NeededType
<1>3. /\ fields' = fields /\ phase' = phase /\ next' = next + 1
      /\ phase = "writing"
      /\ size' = NewSize(n)
  BY DEF Write
<1>4. NewSize(n) \in Nat
  BY <1>2 DEF NewSize, IInv, NumbersOK
<1>5. CASE Overflows(n)
  <2>1. refused' = TRUE /\ msgPtrWrite' = msgPtrWrite
    BY <1>5 DEF Write
  <2>2. QED
    BY <1>3, <1>4, <2>1 DEF IInv, NumbersOK, FieldsFit
<1>6. CASE ~Overflows(n)
  <2>1. /\ refused' = refused
        /\ msgPtrWrite' = msgPtrWrite + n
        /\ DOMAIN block' = DOMAIN NewBlock(n)
    BY <1>6 DEF Write, WithField
  <2>2. NumbersOK'
    BY <1>2, <1>3, <1>4, <2>1 DEF IInv, NumbersOK
  <2>3. FieldsFit'
    BY <1>2, <1>3, <1>6, <2>1, CapacityEnsured DEF FieldsFit, Block
  <2>4. QED
    BY <2>2, <2>3 DEF IInv
<1>7. QED
  BY <1>5, <1>6

\* Sending copies as many bytes as the header says.
LEMMA SendKeepsIInv == ASSUME IInv, Send PROVE IInv'
<1>1. /\ UNCHANGED <<fields, size, msgPtrWrite, refused>>
      /\ next' = 1
      /\ phase' = IF size > MAX_PACKET_SIZE THEN "dropped" ELSE "reading"
      /\ DOMAIN block' = Block(size)
  BY DEF Send
<1>2. NumbersOK'
  BY <1>1 DEF IInv, NumbersOK
<1>3. FieldsFit'
  BY <1>1, NetMsgAssumption DEF IInv, NumbersOK, FieldsFit, Block
<1>4. QED
  BY <1>2, <1>3 DEF IInv

LEMMA IInvHolds == Spec => []IInv
<1>1. Init => IInv
  <2> SUFFICES ASSUME Init PROVE IInv
    OBVIOUS
  <2>1. PICK m \in Messages : /\ fields = m.fields
                              /\ size = m.size
                              /\ block = [p \in Block(m.size) |-> Garbage]
    BY DEF Init
  <2>2. m.size \in 1 .. MAX_PACKET_SIZE /\ m.fields \in Seq(Fields)
    BY NetMsgAssumption
  <2>3. NumbersOK
    <3>1. fields \in Seq(Fields) /\ size \in Nat
      BY <2>1, <2>2
    <3>2. phase \in {"writing", "reading", "dropped"}
      BY DEF Init
    <3>3. next \in Nat \ {0} /\ msgPtrWrite \in Nat
      BY DEF Init
    <3>4. refused \in BOOLEAN
      BY DEF Init
    <3>5. QED
      BY <3>1, <3>2, <3>3, <3>4, Zenon DEF NumbersOK
  <2>4. FieldsFit
    BY <2>1, <2>2, NetMsgAssumption DEF Init, FieldsFit
  <2>5. QED
    BY <2>3, <2>4 DEF IInv
<1>2. IInv /\ [Next]_vars => IInv'
  <2> SUFFICES ASSUME IInv, [Next]_vars PROVE IInv'
    OBVIOUS
  <2>1. CASE Write
    BY <2>1, WriteKeepsIInv
  <2>2. CASE Send
    BY <2>2, SendKeepsIInv
  <2>3. CASE Read
    BY <2>3 DEF Read, IInv, NumbersOK, FieldsFit, Block
  <2>4. CASE UNCHANGED vars
    BY <2>4 DEF vars, IInv, NumbersOK, FieldsFit, Block
  <2>5. QED
    BY <2>1, <2>2, <2>3, <2>4 DEF Next
<1>3. QED
  BY <1>1, <1>2, PTL DEF Spec

\* For every message of any fields: unless a write was refused, what was
\* written lies in the block, the header is its length, and the receiver
\* takes it (EnsureCapacityWrite, net.hpp:185-212).
THEOREM FieldsFitCorrect == Spec => []FieldsFit
<1>1. IInv => FieldsFit
  BY DEF IInv
<1>2. QED
  BY <1>1, IInvHolds, PTL

-----------------------------------------------------------------------------
\* The bytes of a block, and how many there are beside it.
BlockOK ==
    \A p \in DOMAIN block : p \in Nat /\ block[p] \in 0 .. Len(fields) \cup {Garbage}

LEMMA TypeFacts ==
  ASSUME TypeOK
  PROVE  /\ fields \in Seq(Fields) /\ Len(fields) \in Nat
         /\ phase \in {"writing", "reading", "dropped"}
         /\ next \in 1 .. Len(fields) + 1 /\ size \in Nat
         /\ msgPtrWrite \in 0 .. MAX_PACKET_SIZE - 1
         /\ msgPtrRead \in 0 .. MAX_PACKET_SIZE
         /\ at \in Seq(Nat) /\ overrun \in Nat
         /\ refused \in BOOLEAN /\ intact \in Seq(BOOLEAN)
         /\ BlockOK
         /\ MAX_PACKET_SIZE \in Nat \ {0}
  BY NetMsgAssumption DEF TypeOK, BlockOK

\* The overrun is a number: only so many bytes are padded.
LEMMA PastType ==
  ASSUME TypeOK, NEW field \in Fields, NEW n \in Nat
  PROVE  Past(field, n) \in Nat
<1>1. msgPtrWrite \in Nat /\ NewSize(n) \in Nat
  BY TypeFacts DEF NewSize
<1>2. PaddedTo(n) - 1 \in Int
  BY <1>1 DEF PaddedTo
<1>3. IsFiniteSet(msgPtrWrite .. PaddedTo(n) - 1)
  BY <1>1, <1>2, FS_Interval
<1>4. IsFiniteSet((msgPtrWrite .. PaddedTo(n) - 1) \ DOMAIN NewBlock(n))
  BY <1>3, FS_Difference
<1>5. Cardinality((msgPtrWrite .. PaddedTo(n) - 1) \ DOMAIN NewBlock(n)) \in Nat
  BY <1>4, FS_CardinalityType
<1>6. QED
  BY <1>5 DEF Past

\* A block that grows keeps what is in it.
LEMMA NewBlockType ==
  ASSUME TypeOK, NEW n \in Nat
  PROVE  \A p \in DOMAIN NewBlock(n) :
            p \in Nat /\ NewBlock(n)[p] \in 0 .. Len(fields) \cup {Garbage}
<1>1. BlockOK /\ NewSize(n) \in Nat
  BY TypeFacts DEF NewSize
<1>2. CASE Grows(n) /\ NewSize(n) < MAX_PACKET_SIZE
  <2>1. NewBlock(n) = [p \in Block(NewSize(n)) |->
            IF p < size /\ p \in DOMAIN block THEN block[p] ELSE Garbage]
    BY <1>2 DEF NewBlock
  <2>2. Block(NewSize(n)) \subseteq Nat
    BY <1>1 DEF Block
  <2>3. QED
    BY <1>1, <2>1, <2>2 DEF BlockOK
<1>3. CASE ~(Grows(n) /\ NewSize(n) < MAX_PACKET_SIZE)
  <2>1. NewBlock(n) = block
    BY <1>3 DEF NewBlock
  <2>2. QED
    BY <1>1, <2>1 DEF BlockOK
<1>4. QED
  BY <1>2, <1>3

LEMMA WriteKeepsTypes == ASSUME TypeOK, Write PROVE TypeOK'
<1> DEFINE field == fields[next]
           n == Needed(field)
<1>1. next \in 1 .. Len(fields) /\ field \in Fields
  BY TypeFacts DEF Write
<1>2. n \in Nat
  BY <1>1, NeededType
<1>3. /\ next' = next + 1 /\ size' = NewSize(n) /\ at' = Append(at, msgPtrWrite)
      /\ UNCHANGED <<fields, phase, msgPtrRead, intact>>
  BY DEF Write
<1>4. size' \in Nat /\ at' \in Seq(Nat) /\ next' \in 1 .. Len(fields) + 1
  <2>1. size' \in Nat
    <3>1. size \in Nat
      BY TypeFacts
    <3>2. NewSize(n) \in {size, size + n}
      BY DEF NewSize
    <3> HIDE DEF n
    <3>3. QED
      BY <1>2, <1>3, <3>1, <3>2
  <2>2. at' \in Seq(Nat)
    <3>1. at \in Seq(Nat) /\ msgPtrWrite \in Nat
      BY TypeFacts
    <3>2. QED
      BY <1>3, <3>1
  <2>3. next' \in 1 .. Len(fields) + 1
    BY <1>1, <1>3, TypeFacts
  <2>4. QED
    BY <2>1, <2>2, <2>3
<1>5. CASE Overflows(n)
  <2>1. refused' = TRUE /\ block' = NewBlock(n) /\ UNCHANGED <<msgPtrWrite, overrun>>
    BY <1>5 DEF Write
  <2>2. BlockOK'
    BY <1>2, <1>3, <2>1, NewBlockType DEF BlockOK
  <2>3. QED
    BY <1>3, <1>4, <2>1, <2>2, TypeFacts DEF TypeOK, BlockOK
<1>6. CASE ~Overflows(n)
  <2>1. /\ block' = WithField(field, n) /\ msgPtrWrite' = msgPtrWrite + n
        /\ overrun' = IF Past(field, n) > overrun THEN Past(field, n) ELSE overrun
        /\ refused' = refused
    BY <1>6 DEF Write
  <2>2. msgPtrWrite' \in 0 .. MAX_PACKET_SIZE - 1
    <3>1. msgPtrWrite \in 0 .. MAX_PACKET_SIZE - 1 /\ MAX_PACKET_SIZE \in Nat
      BY TypeFacts
    <3>2. ~(msgPtrWrite + n >= MAX_PACKET_SIZE)
      BY <1>6 DEF Overflows
    <3> HIDE DEF n
    <3>3. QED
      BY <1>2, <2>1, <3>1, <3>2
  <2>3. overrun' \in Nat
    BY <1>1, <1>2, <2>1, TypeFacts, PastType
  <2>4. BlockOK'
    <3>1. DOMAIN WithField(field, n) = DOMAIN NewBlock(n)
      BY DEF WithField
    <3>2. \A p \in DOMAIN NewBlock(n) : WithField(field, n)[p] \in {next, 0, NewBlock(n)[p]}
      BY DEF WithField
    <3>3. next \in 0 .. Len(fields) /\ 0 \in 0 .. Len(fields)
      BY <1>1, TypeFacts
    <3>4. QED
      BY <1>2, <1>3, <2>1, <3>1, <3>2, <3>3, NewBlockType DEF BlockOK
  <2>5. QED
    BY <1>3, <1>4, <2>1, <2>2, <2>3, <2>4, TypeFacts DEF TypeOK, BlockOK
<1>7. QED
  BY <1>5, <1>6

LEMMA SendKeepsTypes == ASSUME TypeOK, Send PROVE TypeOK'
<1>1. /\ phase' \in {"writing", "reading", "dropped"} /\ next' = 1
      /\ block' = [p \in Block(size) |-> IF p \in DOMAIN block THEN block[p] ELSE Garbage]
      /\ UNCHANGED <<fields, size, msgPtrWrite, msgPtrRead, at, overrun, refused, intact>>
  BY DEF Send
<1>2. Block(size) \subseteq Nat
  BY TypeFacts DEF Block
<1>3. BlockOK'
  BY <1>1, <1>2, TypeFacts DEF BlockOK
<1>4. next' \in 1 .. Len(fields) + 1
  BY <1>1, TypeFacts
<1>5. QED
  BY <1>1, <1>3, <1>4, TypeFacts DEF TypeOK, BlockOK

\* The first zero is the least of them.
LEMMA LeastOf ==
  ASSUME NEW T \in SUBSET Nat, T # {}
  PROVE  \E m \in T : \A n \in T : m <= n
<1> DEFINE Less == OpToRel(<, Nat)
<1>1. Less = {ss \in Nat \X Nat : ss[1] < ss[2]}
  BY DEF OpToRel
<1>2. IsWellFoundedOn(Less, Nat)
  BY NatLessThanWellFounded
<1> HIDE DEF Less
<1>3. \E m \in T : \A n \in T : <<n, m>> \notin Less
  BY <1>2, WFMin
<1>4. \A m, n \in Nat : <<n, m>> \notin Less => m <= n
  BY <1>1
<1>5. QED
  BY <1>3, <1>4

LEMMA LengthsType == ASSUME TypeOK PROVE Lengths \subseteq Nat
<1> DEFINE Ends == {p \in DOMAIN block : p >= msgPtrRead /\ block[p] = 0}
           end == CHOOSE p \in Ends : \A q \in Ends : p <= q
<1>1. Ends \in SUBSET Nat
  BY TypeFacts DEF BlockOK
<1>2. ASSUME Ends # {} PROVE end - msgPtrRead \in Nat
  <2>1. end \in Ends
    BY <1>1, <1>2, LeastOf
  <2>2. end \in Nat /\ end >= msgPtrRead
    BY <1>1, <2>1
  <2>3. msgPtrRead \in Nat
    BY TypeFacts
  <2> HIDE DEF end
  <2>4. QED
    BY <2>2, <2>3
<1>3. Lengths \subseteq {end - msgPtrRead} \cup 0 .. MaxGarbage
  BY DEF Lengths
<1>4. CASE Ends # {}
  BY <1>2, <1>3, <1>4, NetMsgAssumption
<1>5. CASE Ends = {}
  BY <1>5, NetMsgAssumption DEF Lengths
<1>6. QED
  BY <1>4, <1>5

LEMMA ReadKeepsTypes == ASSUME TypeOK, Read PROVE TypeOK'
<1>1. next \in 1 .. Len(fields) /\ fields[next] \in Fields
  BY TypeFacts DEF Read
<1>2. PICK length \in IF fields[next].kind = "string" THEN Lengths ELSE {fields[next].len} :
        /\ intact' = Append(intact, Intact(fields[next], length))
        /\ LET n == IF fields[next].kind = "string" THEN length + 1 ELSE length
           IN  msgPtrRead' = IF msgPtrRead + n <= MAX_PACKET_SIZE
                             THEN msgPtrRead + n ELSE msgPtrRead
  BY DEF Read
<1>3. /\ next' = next + 1
      /\ UNCHANGED <<fields, phase, size, block, msgPtrWrite, at, overrun, refused>>
  BY DEF Read
<1>4. length \in Nat
  BY <1>1, LengthsType DEF Fields
<1>5. msgPtrRead' \in 0 .. MAX_PACKET_SIZE
  <2> DEFINE n == IF fields[next].kind = "string" THEN length + 1 ELSE length
  <2>1. n \in Nat
    BY <1>4
  <2>2. msgPtrRead \in Nat /\ MAX_PACKET_SIZE \in Nat /\ msgPtrRead <= MAX_PACKET_SIZE
    BY TypeFacts
  <2>3. msgPtrRead' = IF msgPtrRead + n <= MAX_PACKET_SIZE THEN msgPtrRead + n ELSE msgPtrRead
    BY <1>2
  <2> HIDE DEF n
  <2>4. QED
    BY <2>1, <2>2, <2>3
<1>6. intact' \in Seq(BOOLEAN)
  BY <1>2, TypeFacts DEF Intact
<1>7. next' \in 1 .. Len(fields) + 1
  BY <1>1, <1>3, TypeFacts
<1>8. BlockOK'
  BY <1>3, TypeFacts DEF BlockOK
<1>9. QED
  BY <1>3, <1>5, <1>6, <1>7, <1>8, TypeFacts DEF TypeOK, BlockOK

\* For every message and packet size: the types, with a write position inside
\* a packet and a read position not past it (EnsureCapacityRead and
\* EnsureCapacityWrite, net.hpp:173-212).
THEOREM TypeCorrect == Spec => []TypeOK
<1>1. Init => TypeOK
  <2> SUFFICES ASSUME Init PROVE TypeOK
    OBVIOUS
  <2>1. PICK m \in Messages : /\ fields = m.fields
                              /\ size = m.size
                              /\ block = [p \in Block(m.size) |-> Garbage]
    BY DEF Init
  <2>2. m.size \in 1 .. MAX_PACKET_SIZE /\ m.fields \in Seq(Fields)
    BY NetMsgAssumption
  <2>3. Block(size) \subseteq Nat
    BY <2>1, <2>2 DEF Block
  <2>4. BlockOK
    BY <2>1, <2>3 DEF BlockOK
  <2>5. /\ phase = "writing" /\ next = 1 /\ msgPtrWrite = 0 /\ msgPtrRead = 0
        /\ at = <<>> /\ overrun = 0 /\ refused = FALSE /\ intact = <<>>
    BY DEF Init
  <2>6. next \in 1 .. Len(fields) + 1 /\ at \in Seq(Nat) /\ intact \in Seq(BOOLEAN)
    <3>1. fields \in Seq(Fields) /\ Len(fields) \in Nat
      BY <2>1, <2>2
    <3>2. next \in 1 .. Len(fields) + 1
      BY <2>5, <3>1
    <3>3. \A S : <<>> \in Seq(S)
      OBVIOUS
    <3>4. QED
      BY <2>5, <3>2, <3>3
  <2>7. fields \in Seq(Fields) /\ size \in Nat
    BY <2>1, <2>2
  <2>8. /\ msgPtrWrite \in 0 .. MAX_PACKET_SIZE - 1
        /\ msgPtrRead \in 0 .. MAX_PACKET_SIZE /\ overrun \in Nat
    BY <2>5, NetMsgAssumption
  <2>9. phase \in {"writing", "reading", "dropped"} /\ refused \in BOOLEAN
    BY <2>5
  <2>10. QED
    BY <2>4, <2>6, <2>7, <2>8, <2>9, Zenon DEF TypeOK, BlockOK
<1>2. TypeOK /\ [Next]_vars => TypeOK'
  <2> SUFFICES ASSUME TypeOK, [Next]_vars PROVE TypeOK'
    OBVIOUS
  <2>1. CASE UNCHANGED vars
    BY <2>1 DEF vars, TypeOK
  <2>2. QED
    BY <2>1, WriteKeepsTypes, SendKeepsTypes, ReadKeepsTypes DEF Next
<1>3. QED
  BY <1>1, <1>2, PTL DEF Spec
-----------------------------------------------------------------------------
(* What is read is what was written *)

\* Where the i-th field was written, or the next one will be.
Pos(starts, end, i) == IF i <= Len(starts) THEN starts[i] ELSE end

\* A field lies in the block, with the end of a string.
FieldIn(field, bytes, start, i) ==
    /\ \A p \in start .. start + field.len - 1 : p \in DOMAIN bytes /\ bytes[p] = i
    /\ field.kind = "string" =>
          start + field.len \in DOMAIN bytes /\ bytes[start + field.len] = 0

\* The fields written so far lie in the block one after the other, whatever
\* was written after them.
LaidOut(list, bytes, starts, end) ==
    /\ Len(starts) <= Len(list)
    /\ Pos(starts, end, 1) = 0
    /\ \A i \in 1 .. Len(starts) :
        /\ Pos(starts, end, i + 1) = starts[i] + Needed(list[i])
        /\ starts[i] + Needed(list[i]) <= end
        /\ FieldIn(list[i], bytes, starts[i], i)

FieldsIn == LaidOut(fields, block, at, msgPtrWrite)

\* The writer is at the end of them, and the reader at the field it reads.
RoundInv ==
    /\ ~refused =>
        /\ FieldsIn
        /\ phase = "writing" => Len(at) = next - 1 /\ msgPtrRead = 0 /\ intact = <<>>
        /\ phase = "reading" => Len(at) = Len(fields) /\ msgPtrRead = Pos(at, msgPtrWrite, next)
    /\ RoundTrip
    /\ OverrunBehindFields

LEMMA RoundInit ==
  ASSUME Init
  PROVE  RoundInv
<1>1. /\ phase = "writing" /\ next = 1 /\ msgPtrWrite = 0 /\ msgPtrRead = 0
      /\ at = <<>> /\ overrun = 0 /\ intact = <<>>
  BY DEF Init
<1>2. Len(at) = 0 /\ DOMAIN intact = {}
  BY <1>1
<1>3. fields \in Seq(Fields)
  BY NetMsgAssumption DEF Init
<1>4. FieldsIn
  BY <1>1, <1>2, <1>3 DEF FieldsIn, LaidOut, Pos
<1>5. RoundTrip
  BY <1>2 DEF RoundTrip
<1>6. OverrunBehindFields
  BY <1>1 DEF OverrunBehindFields
<1>7. QED
  BY <1>1, <1>2, <1>4, <1>5, <1>6 DEF RoundInv

\* Writing a field leaves what is before it.
LEMMA WriteKeepsFields ==
  ASSUME TypeOK, IInv, RoundInv, Write, ~refused'
  PROVE  FieldsIn' /\ Len(at') = next' - 1
<1> DEFINE field == fields[next]
           n == Needed(field)
           e == msgPtrWrite + field.len
<1>0. PICK k : k = Len(at)
  OBVIOUS
<1>1. /\ next \in 1 .. Len(fields) /\ field \in Fields /\ phase = "writing"
      /\ Len(fields) \in Nat
  BY TypeFacts DEF Write
<1>2. n \in Nat /\ field.len \in Nat /\ field.kind \in {"number", "string"}
      /\ n = IF field.kind = "string" THEN field.len + 1 ELSE field.len
  BY <1>1 DEF Needed, Fields
<1>3. ~Overflows(n) /\ ~refused
  BY DEF Write
<1>4. /\ at' = Append(at, msgPtrWrite) /\ fields' = fields /\ next' = next + 1
      /\ block' = WithField(field, n) /\ msgPtrWrite' = msgPtrWrite + n
  BY <1>3 DEF Write
<1>5. /\ NewSize(n) \in Nat /\ DOMAIN NewBlock(n) = 0 .. NewSize(n) - 1
      /\ msgPtrWrite + n <= NewSize(n)
      /\ DOMAIN block = 0 .. size - 1 /\ msgPtrWrite <= size /\ size \in Nat
  BY <1>2, <1>3, CapacityEnsured DEF Block, IInv, FieldsFit, NumbersOK
<1>6. /\ msgPtrWrite \in Nat /\ k = next - 1 /\ k \in Nat
      /\ \A i \in 1 .. k : at[i] \in Nat /\ fields[i] \in Fields
  <2>1. k = next - 1
    BY <1>0, <1>1, <1>3 DEF RoundInv
  <2>2. at \in Seq(Nat) /\ fields \in Seq(Fields) /\ msgPtrWrite \in Nat
    BY TypeFacts
  <2>3. k \in Nat /\ \A i \in 1 .. k : i \in 1 .. Len(at) /\ i \in 1 .. Len(fields)
    BY <1>0, <1>1, <2>1, <2>2
  <2>4. \A i \in 1 .. k : at[i] \in Nat /\ fields[i] \in Fields
    BY <2>2, <2>3
  <2>5. QED
    BY <2>1, <2>2, <2>3, <2>4
<1>7. /\ Len(at') = k + 1 /\ at'[k + 1] = msgPtrWrite
      /\ \A i \in 1 .. k : at'[i] = at[i]
  BY <1>0, <1>4, TypeFacts
<1>8. FieldsIn
  BY <1>3 DEF RoundInv
<1> DEFINE Byte(p) ==
             IF p \in msgPtrWrite .. msgPtrWrite + field.len - 1 THEN next
             ELSE IF field.kind = "string" /\ p \in msgPtrWrite + field.len .. PaddedTo(n) - 1
             THEN 0 ELSE NewBlock(n)[p]
<1>9. DOMAIN block' = 0 .. NewSize(n) - 1 /\ \A p \in DOMAIN block' : block'[p] = Byte(p)
  <2>1. block' = [p \in DOMAIN NewBlock(n) |-> Byte(p)]
    BY <1>4 DEF WithField
  <2> HIDE DEF Byte
  <2>2. QED
    BY <1>5, <2>1
<1> HIDE DEF Byte
<1>10. \A p \in 0 .. msgPtrWrite - 1 : p \in DOMAIN block /\ p \in DOMAIN NewBlock(n) /\ NewBlock(n)[p] = block[p]
  <2>1. \A p \in 0 .. msgPtrWrite - 1 : p \in DOMAIN block /\ p \in 0 .. NewSize(n) - 1 /\ p < size
    <3> HIDE DEF n
    <3>1. /\ msgPtrWrite \in Nat /\ size \in Nat /\ NewSize(n) \in Nat
          /\ msgPtrWrite <= size /\ msgPtrWrite <= NewSize(n)
      BY <1>2, <1>5, <1>6
    <3>2. \A p \in 0 .. msgPtrWrite - 1 : p \in 0 .. size - 1 /\ p \in 0 .. NewSize(n) - 1 /\ p < size
      BY <3>1
    <3>3. QED
      BY <1>5, <3>2
  <2>2. CASE Grows(n) /\ NewSize(n) < MAX_PACKET_SIZE
    BY <1>5, <2>1, <2>2 DEF NewBlock, Block
  <2>3. CASE ~(Grows(n) /\ NewSize(n) < MAX_PACKET_SIZE)
    BY <1>5, <2>1, <2>3 DEF NewBlock
  <2>4. QED
    BY <2>2, <2>3
<1>11. \A p \in 0 .. msgPtrWrite - 1 : p \in DOMAIN block' /\ block'[p] = block[p]
  <2> SUFFICES ASSUME NEW p \in 0 .. msgPtrWrite - 1
               PROVE  p \in DOMAIN block' /\ block'[p] = block[p]
    OBVIOUS
  <2>1. p \notin msgPtrWrite .. e - 1 /\ p \notin e .. PaddedTo(n) - 1
    BY <1>2, <1>6
  <2>2. Byte(p) = NewBlock(n)[p]
    BY <1>2, <1>6, <2>1 DEF Byte
  <2>3. QED
    BY <1>5, <1>9, <1>10, <2>2
<1>12. PaddedTo(n) = msgPtrWrite + NewSize(n)
  BY DEF PaddedTo
<1> HIDE DEF field, n, e
<1>13. ASSUME NEW i \in 1 .. k
       PROVE  /\ Pos(at', msgPtrWrite', i + 1) = at'[i] + Needed(fields'[i])
              /\ at'[i] + Needed(fields'[i]) <= msgPtrWrite'
              /\ FieldIn(fields'[i], block', at'[i], i)
  <2>1. /\ Pos(at, msgPtrWrite, i + 1) = at[i] + Needed(fields[i])
        /\ at[i] + Needed(fields[i]) <= msgPtrWrite
        /\ FieldIn(fields[i], block, at[i], i)
    BY <1>0, <1>8 DEF FieldsIn, LaidOut
  <2>2. at'[i] = at[i] /\ fields'[i] = fields[i] /\ at[i] \in Nat /\ fields[i] \in Fields
    BY <1>4, <1>6, <1>7
  <2>3. Needed(fields[i]) \in Nat /\ fields[i].len \in Nat
    BY <2>2 DEF Needed, Fields
  <2>4. Pos(at', msgPtrWrite', i + 1) = Pos(at, msgPtrWrite, i + 1)
    <3>1. CASE i < k
      <4>1. i + 1 \in 1 .. k
        BY <1>6, <3>1
      <4>2. QED
        BY <1>0, <1>6, <1>7, <4>1 DEF Pos
    <3>2. CASE i = k
      BY <1>0, <1>6, <1>7, <3>2 DEF Pos
    <3>3. QED
      BY <1>6, <3>1, <3>2
  <2>5. \A p \in at[i] .. at[i] + fields[i].len - 1 : p \in 0 .. msgPtrWrite - 1
    BY <1>6, <2>1, <2>2, <2>3 DEF Needed
  <2>6. fields[i].kind = "string" => at[i] + fields[i].len \in 0 .. msgPtrWrite - 1
    BY <1>6, <2>1, <2>2, <2>3 DEF Needed
  <2>7. FieldIn(fields'[i], block', at'[i], i)
    BY <1>11, <2>1, <2>2, <2>5, <2>6 DEF FieldIn
  <2>8. at[i] + Needed(fields[i]) <= msgPtrWrite + n
    BY <1>2, <1>6, <2>1, <2>2, <2>3
  <2>9. QED
    BY <1>4, <2>1, <2>2, <2>4, <2>7, <2>8
<1>14. /\ Pos(at', msgPtrWrite', k + 2) = at'[k + 1] + Needed(fields'[k + 1])
       /\ at'[k + 1] + Needed(fields'[k + 1]) <= msgPtrWrite'
       /\ FieldIn(fields'[k + 1], block', at'[k + 1], k + 1)
  <2>1. k + 1 = next /\ fields'[k + 1] = field /\ Needed(field) = n
    BY <1>1, <1>4, <1>6 DEF field, n
  <2>2. Pos(at', msgPtrWrite', k + 2) = msgPtrWrite'
    <3>1. ~(k + 2 <= Len(at'))
      BY <1>6, <1>7
    <3>2. QED
      BY <3>1 DEF Pos
  <2>3. \A p \in msgPtrWrite .. e - 1 : p \in DOMAIN block' /\ block'[p] = next
    <3>1. \A p \in msgPtrWrite .. e - 1 : p \in 0 .. NewSize(n) - 1
      <4>1. e \in Nat /\ e <= msgPtrWrite + n
        BY <1>2, <1>6 DEF e
      <4>2. /\ msgPtrWrite \in Nat /\ n \in Nat /\ NewSize(n) \in Nat
            /\ msgPtrWrite + n <= NewSize(n)
        BY <1>2, <1>5, <1>6
      <4>3. QED
        BY <4>1, <4>2
    <3>2. \A p \in msgPtrWrite .. e - 1 : Byte(p) = next
      BY <1>2, <1>6 DEF Byte, e
    <3>3. QED
      BY <1>9, <3>1, <3>2
  <2>4. field.kind = "string" => e \in DOMAIN block' /\ block'[e] = 0
    <3>1. ASSUME field.kind = "string"
          PROVE  e \in 0 .. NewSize(n) - 1 /\ e \notin msgPtrWrite .. e - 1 /\ e \in e .. PaddedTo(n) - 1
      <4>1. /\ e \in Nat /\ e + 1 = msgPtrWrite + n
        BY <1>2, <1>6, <3>1 DEF e
      <4>2. /\ msgPtrWrite \in Nat /\ n \in Nat /\ NewSize(n) \in Nat
            /\ msgPtrWrite + n <= NewSize(n)
        BY <1>2, <1>5, <1>6
      <4>3. QED
        BY <1>12, <4>1, <4>2
    <3>2. ASSUME field.kind = "string" PROVE Byte(e) = 0
      BY <1>2, <1>6, <3>1, <3>2 DEF Byte, e
    <3>3. QED
      BY <1>9, <3>1, <3>2
  <2>5. FieldIn(fields'[k + 1], block', at'[k + 1], k + 1)
    <3>1. FieldIn(field, block', msgPtrWrite, next)
      BY <1>2, <1>6, <2>3, <2>4 DEF FieldIn, e
    <3>2. QED
      BY <1>7, <2>1, <3>1
  <2>6. QED
    BY <1>2, <1>4, <1>6, <1>7, <2>1, <2>2, <2>5
<1>15. Pos(at', msgPtrWrite', 1) = 0
  <2>1. Pos(at, msgPtrWrite, 1) = 0
    BY <1>8 DEF FieldsIn, LaidOut
  <2>2. CASE k = 0
    BY <1>0, <1>7, <2>1, <2>2 DEF Pos
  <2>3. CASE k # 0
    BY <1>0, <1>6, <1>7, <2>1, <2>3 DEF Pos
  <2>4. QED
    BY <2>2, <2>3
<1>16. Len(at') <= Len(fields') /\ Len(at') = next' - 1
  BY <1>1, <1>4, <1>6, <1>7
<1>17. \A i \in 1 .. Len(at') :
        /\ Pos(at', msgPtrWrite', i + 1) = at'[i] + Needed(fields'[i])
        /\ at'[i] + Needed(fields'[i]) <= msgPtrWrite'
        /\ FieldIn(fields'[i], block', at'[i], i)
  <2> SUFFICES ASSUME NEW i \in 1 .. Len(at')
               PROVE  /\ Pos(at', msgPtrWrite', i + 1) = at'[i] + Needed(fields'[i])
                      /\ at'[i] + Needed(fields'[i]) <= msgPtrWrite'
                      /\ FieldIn(fields'[i], block', at'[i], i)
    OBVIOUS
  <2>1. i \in 1 .. k \/ i = k + 1
    BY <1>6, <1>7
  <2>2. (k + 1) + 1 = k + 2
    BY <1>6
  <2>3. QED
    <3>1. CASE i \in 1 .. k
      BY <1>13, <3>1
    <3>2. CASE i = k + 1
      <4>1. i + 1 = k + 2
        BY <2>2, <3>2
      <4>2. QED
        BY <1>14, <3>2, <4>1
    <3>3. QED
      BY <2>1, <3>1, <3>2
<1>18. QED
  BY <1>15, <1>16, <1>17 DEF FieldsIn, LaidOut

\* A string that runs past the block does so by no more than lies before it.
LEMMA WriteKeepsOverrun ==
  ASSUME TypeOK, IInv, RoundInv, Write, ~refused'
  PROVE  OverrunBehindFields'
<1> DEFINE field == fields[next]
           n == Needed(field)
<1>1. /\ next \in 1 .. Len(fields) /\ field \in Fields /\ phase = "writing"
  BY TypeFacts DEF Write
<1>2. n \in Nat
  BY <1>1, NeededType
<1>3. ~Overflows(n) /\ ~refused
  BY DEF Write
<1>4. /\ at' = Append(at, msgPtrWrite) /\ fields' = fields
      /\ overrun' = IF Past(field, n) > overrun THEN Past(field, n) ELSE overrun
  BY <1>3 DEF Write
<1>5. /\ NewSize(n) \in Nat /\ DOMAIN NewBlock(n) = 0 .. NewSize(n) - 1
      /\ msgPtrWrite + n <= NewSize(n) /\ msgPtrWrite \in Nat
  BY <1>2, <1>3, TypeFacts, CapacityEnsured DEF Block
<1>6. Len(at) = next - 1
  BY <1>1, <1>3 DEF RoundInv
<1>7. /\ DOMAIN at' = 1 .. next /\ at'[next] = msgPtrWrite
      /\ \A i \in DOMAIN at : i \in DOMAIN at' /\ at'[i] = at[i]
  <2>1. at \in Seq(Nat) /\ msgPtrWrite \in Nat /\ Len(fields) \in Nat
    BY TypeFacts
  <2>2. next \in Nat /\ next = Len(at) + 1
    BY <1>1, <1>6, <2>1
  <2>3. QED
    BY <1>4, <2>1, <2>2
<1>8. CASE Past(field, n) > overrun
  <2>1. field.kind = "string" /\ overrun' = Past(field, n)
    <3>1. overrun \in Nat
      BY TypeFacts
    <3>2. field.kind # "number"
      BY <1>8, <3>1 DEF Past
    <3>3. QED
      BY <1>1, <1>4, <1>8, <3>2 DEF Fields
  <2>2. (msgPtrWrite .. PaddedTo(n) - 1) \ DOMAIN NewBlock(n) = NewSize(n) .. msgPtrWrite + NewSize(n) - 1
    BY <1>2, <1>5 DEF PaddedTo
  <2>3. Cardinality(NewSize(n) .. msgPtrWrite + NewSize(n) - 1) = msgPtrWrite
    BY <1>5, FS_Interval
  <2>4. overrun' = at'[next] /\ fields'[next].kind = "string" /\ next \in DOMAIN at'
    <3>1. field.kind # "number"
      BY <2>1
    <3>2. Past(field, n) = msgPtrWrite
      BY <2>2, <2>3, <3>1 DEF Past
    <3>3. next \in DOMAIN at'
      BY <1>1, <1>7
    <3>4. QED
      BY <1>4, <1>7, <2>1, <3>2, <3>3
  <2>5. overrun' <= at'[next]
    BY <1>5, <1>7, <2>4
  <2>6. QED
    BY <2>4, <2>5 DEF OverrunBehindFields
<1>9. CASE ~(Past(field, n) > overrun)
  <2>1. overrun' = overrun
    BY <1>4, <1>9
  <2>2. QED
    BY <1>3, <1>4, <1>7, <2>1 DEF RoundInv, OverrunBehindFields
<1>10. QED
  BY <1>8, <1>9

LEMMA WriteKeepsRound ==
  ASSUME TypeOK, IInv, RoundInv, Write
  PROVE  RoundInv'
<1>1. phase = "writing" /\ UNCHANGED <<phase, msgPtrRead, intact>>
  BY DEF Write
<1>2. CASE refused'
  BY <1>2 DEF RoundInv, RoundTrip, OverrunBehindFields
<1>3. CASE ~refused'
  <2>1. ~refused
    BY <1>3 DEF Write
  <2>2. msgPtrRead' = 0 /\ intact' = <<>> /\ phase' = "writing"
    BY <1>1, <2>1 DEF RoundInv
  <2>3. RoundTrip'
    BY <2>2 DEF RoundTrip
  <2>4. QED
    BY <1>3, <2>2, <2>3, WriteKeepsFields, WriteKeepsOverrun DEF RoundInv
<1>4. QED
  BY <1>2, <1>3

\* All of the fields are sent.
LEMMA SendKeepsRound ==
  ASSUME TypeOK, IInv, RoundInv, Send
  PROVE  RoundInv'
<1>1. /\ phase = "writing" /\ next > Len(fields) /\ next' = 1
      /\ block' = [p \in Block(size) |-> IF p \in DOMAIN block THEN block[p] ELSE Garbage]
      /\ UNCHANGED <<fields, size, msgPtrWrite, msgPtrRead, at, overrun, refused, intact>>
  BY DEF Send
<1>2. RoundTrip' /\ OverrunBehindFields'
  BY <1>1 DEF RoundInv, RoundTrip, OverrunBehindFields
<1>3. ASSUME ~refused
      PROVE  /\ FieldsIn' /\ Len(at') = Len(fields')
             /\ msgPtrRead' = Pos(at', msgPtrWrite', next')
  <2>1. FieldsIn /\ Len(at) = next - 1 /\ msgPtrRead = 0
    BY <1>1, <1>3 DEF RoundInv
  <2>2. DOMAIN block' = DOMAIN block /\ \A p \in DOMAIN block : block'[p] = block[p]
    <3>1. DOMAIN block = Block(size) /\ DOMAIN block' = Block(size)
      BY <1>1, <1>3 DEF IInv, FieldsFit
    <3>2. QED
      BY <1>1, <3>1
  <2>3. FieldsIn'
    <3>1. LaidOut(fields, block, at, msgPtrWrite)
      BY <2>1 DEF FieldsIn
    <3>2. ASSUME NEW i PROVE FieldIn(fields[i], block, at[i], i) => FieldIn(fields[i], block', at[i], i)
      BY <2>2 DEF FieldIn
    <3>3. LaidOut(fields, block', at, msgPtrWrite)
      BY <3>1, <3>2 DEF LaidOut
    <3>4. QED
      BY <1>1, <3>3 DEF FieldsIn
  <2>4. Len(at) = Len(fields)
    BY <1>1, <2>1, TypeFacts
  <2>5. Pos(at', msgPtrWrite', next') = 0
    BY <1>1, <2>3 DEF FieldsIn, LaidOut
  <2>6. QED
    BY <1>1, <2>1, <2>3, <2>4, <2>5
<1>4. phase' # "writing"
  BY DEF Send
<1>5. ~refused' => /\ FieldsIn'
                   /\ Len(at') = Len(fields') /\ msgPtrRead' = Pos(at', msgPtrWrite', next')
  BY <1>1, <1>3
<1>6. QED
  BY <1>2, <1>4, <1>5 DEF RoundInv

\* The reader takes a field for as long as it is.
LEMMA ReadLength ==
  ASSUME TypeOK, FieldsIn, NEW i \in 1 .. Len(at), msgPtrRead = at[i],
         fields[i].kind = "string"
  PROVE  Lengths = {fields[i].len}
<1> DEFINE Ends == {p \in DOMAIN block : p >= msgPtrRead /\ block[p] = 0}
           e == at[i] + fields[i].len
<1>1. /\ FieldIn(fields[i], block, at[i], i) /\ at[i] \in Nat /\ fields[i].len \in Nat
  <2>1. at \in Seq(Nat) /\ fields \in Seq(Fields) /\ Len(at) <= Len(fields)
    BY TypeFacts DEF FieldsIn, LaidOut
  <2>2. i \in 1 .. Len(fields)
    BY <2>1
  <2>3. fields[i] \in Fields /\ at[i] \in Nat
    BY <2>1, <2>2
  <2>4. FieldIn(fields[i], block, at[i], i)
    BY DEF FieldsIn, LaidOut
  <2>5. QED
    BY <2>3, <2>4 DEF Fields
<1>2. /\ e \in DOMAIN block /\ block[e] = 0 /\ e \in Nat /\ i # 0 /\ i \in Nat
      /\ \A p \in msgPtrRead .. e - 1 : p \in DOMAIN block /\ block[p] = i
  BY <1>1 DEF FieldIn
<1>3. Ends \in SUBSET Nat
  BY TypeFacts DEF BlockOK
<1>4. e \in Ends /\ \A q \in Ends : e <= q
  <2>1. e \in Ends
    BY <1>1, <1>2
  <2>2. ASSUME NEW q \in Ends, q < e PROVE FALSE
    BY <1>1, <1>2, <1>3, <2>2
  <2>3. QED
    BY <1>2, <1>3, <2>1, <2>2
<1>5. \A p \in Ends : (\A q \in Ends : p <= q) => p = e
  BY <1>2, <1>3, <1>4
<1>6. (CHOOSE p \in Ends : \A q \in Ends : p <= q) = e
  BY <1>4, <1>5
<1>7. \A p \in msgPtrRead .. e : block[p] # Garbage
  BY <1>1, <1>2, NetMsgAssumption
<1>8. e - msgPtrRead = fields[i].len
  BY <1>1
<1>9. Lengths = {e - msgPtrRead}
  BY <1>4, <1>6, <1>7 DEF Lengths
<1>10. QED
  BY <1>8, <1>9

LEMMA ReadKeepsRound ==
  ASSUME TypeOK, IInv, RoundInv, Read
  PROVE  RoundInv'
<1> DEFINE field == fields[next]
<1>1. /\ phase = "reading" /\ next \in 1 .. Len(fields) /\ next' = next + 1
      /\ UNCHANGED <<fields, phase, size, block, msgPtrWrite, at, overrun, refused>>
  BY TypeFacts DEF Read
<1>2. PICK length \in IF field.kind = "string" THEN Lengths ELSE {field.len} :
        /\ intact' = Append(intact, Intact(field, length))
        /\ LET n == IF field.kind = "string" THEN length + 1 ELSE length
           IN  msgPtrRead' = IF msgPtrRead + n <= MAX_PACKET_SIZE
                             THEN msgPtrRead + n ELSE msgPtrRead
  BY DEF Read
<1>3. OverrunBehindFields'
  BY <1>1 DEF RoundInv, OverrunBehindFields
<1>4. CASE refused
  BY <1>1, <1>3, <1>4 DEF RoundInv, RoundTrip
<1>5. CASE ~refused
  <2>1. FieldsIn /\ Len(at) = Len(fields) /\ msgPtrRead = Pos(at, msgPtrWrite, next)
    BY <1>1, <1>5 DEF RoundInv
  <2>2. /\ msgPtrRead = at[next] /\ next \in 1 .. Len(at) /\ FieldIn(field, block, at[next], next)
        /\ Pos(at, msgPtrWrite, next + 1) = at[next] + Needed(field)
        /\ at[next] + Needed(field) <= msgPtrWrite
    <3>1. next \in 1 .. Len(at)
      BY <1>1, <2>1
    <3>2. Pos(at, msgPtrWrite, next) = at[next]
      BY <3>1 DEF Pos
    <3>3. /\ Pos(at, msgPtrWrite, next + 1) = at[next] + Needed(fields[next])
          /\ at[next] + Needed(fields[next]) <= msgPtrWrite
          /\ FieldIn(fields[next], block, at[next], next)
      BY <2>1, <3>1 DEF FieldsIn, LaidOut
    <3>4. QED
      BY <2>1, <3>1, <3>2, <3>3
  <2>3. length = field.len
    BY <1>2, <2>1, <2>2, ReadLength
  <2>4. Intact(field, length)
    BY <2>2, <2>3 DEF Intact, FieldIn
  <2>5. \A j \in DOMAIN intact' : intact'[j]
    <3>1. \A j \in DOMAIN intact : intact[j]
      BY <1>5 DEF RoundInv, RoundTrip
    <3>2. intact' = Append(intact, TRUE) /\ intact \in Seq(BOOLEAN)
      BY <1>2, <2>4, TypeFacts DEF Intact
    <3>3. \A j \in 1 .. Len(intact) + 1 : j \in DOMAIN intact \/ j = Len(intact) + 1
      BY <3>2
    <3>4. QED
      BY <3>1, <3>2, <3>3
  <2>6. msgPtrRead' = Pos(at, msgPtrWrite, next + 1)
    <3>1. field \in Fields /\ msgPtrWrite \in 0 .. MAX_PACKET_SIZE - 1 /\ MAX_PACKET_SIZE \in Nat
      BY <1>1, TypeFacts
    <3>2. Needed(field) = (IF field.kind = "string" THEN length + 1 ELSE length)
      BY <2>3 DEF Needed
    <3>3. msgPtrRead + Needed(field) <= MAX_PACKET_SIZE
      <4>1. msgPtrRead + Needed(field) \in Nat
        <5>1. Needed(field) \in Nat
          BY <3>1, NeededType
        <5>2. msgPtrRead \in Nat
          BY <3>1, TypeFacts
        <5>3. QED
          BY <5>1, <5>2
      <4>2. QED
        BY <2>2, <3>1, <4>1
    <3>4. QED
      BY <1>2, <2>2, <3>2, <3>3
  <2>7. FieldsIn' /\ msgPtrRead' = Pos(at', msgPtrWrite', next') /\ Len(at') = Len(fields')
    BY <1>1, <2>1, <2>6 DEF FieldsIn
  <2>8. phase' # "writing" /\ RoundTrip'
    BY <1>1, <2>5 DEF RoundTrip
  <2>9. QED
    BY <1>3, <2>7, <2>8 DEF RoundInv
<1>6. QED
  BY <1>4, <1>5

LEMMA RoundInvHolds == Spec => []RoundInv
<1>1. Init => RoundInv
  BY RoundInit
<1>2. TypeOK /\ IInv /\ RoundInv /\ [Next]_vars => RoundInv'
  <2> SUFFICES ASSUME TypeOK, IInv, RoundInv, [Next]_vars PROVE RoundInv'
    OBVIOUS
  <2>1. CASE UNCHANGED vars
    BY <2>1 DEF vars, RoundInv, FieldsIn, RoundTrip, OverrunBehindFields
  <2>2. QED
    BY <2>1, WriteKeepsRound, SendKeepsRound, ReadKeepsRound DEF Next
<1>3. QED
  BY <1>1, <1>2, TypeCorrect, IInvHolds, PTL DEF Spec

\* For every message of any fields and every packet size: unless a write was
\* refused, the receiver reads each field as the sender wrote it, however
\* often the block was moved (NetMsg::Read and Write, net.hpp:163, 215).
THEOREM RoundTripCorrect == Spec => []RoundTrip
<1>1. RoundInv => RoundTrip
  BY DEF RoundInv
<1>2. QED
  BY <1>1, RoundInvHolds, PTL

\* For messages of any number of fields: the padding of a string runs past the
\* block by at most the length of what was written before that string
\* (NetMsg::Write<char*>, net_message.cpp:44).
THEOREM OverrunCorrect == Spec => []OverrunBehindFields
<1>1. RoundInv => OverrunBehindFields
  BY DEF RoundInv
<1>2. QED
  BY <1>1, RoundInvHolds, PTL
=============================================================================
