------------------------------- MODULE NetMsg --------------------------------
(***************************************************************************)
(* The payload of a message (struct NetMsg, net/net.hpp): a sender writes  *)
(* the fields of a message one by one into a block that grows, sends it,   *)
(* and the receiver reads the same fields out of its copy.                 *)
(*                                                                         *)
(* A field is a number of some bytes or a string.  A byte of the block is  *)
(* the index of the field that wrote it, 0 for a zero (the end of a string *)
(* or the padding after it), or Garbage.                                   *)
(***************************************************************************)
EXTENDS Integers, Sequences, FiniteSets

CONSTANTS
    MAX_PACKET_SIZE,
    Messages,       \* [size, fields]: what the packet factory builds
    Garbage,        \* a byte nobody has written
    MaxGarbage      \* bound: the length of a string read from garbage

Fields == [kind : {"number", "string"}, len : Nat]

\* Messages with fields start with a block (net_packetfactory.cpp).
ASSUME NetMsgAssumption ==
    /\ MAX_PACKET_SIZE \in Nat \ {0}
    /\ MaxGarbage \in Nat
    /\ \A m \in Messages :
        /\ m.size \in 1 .. MAX_PACKET_SIZE
        /\ m.fields \in Seq(Fields)
    /\ Garbage \notin Nat

VARIABLES
    fields,         \* the fields of this message
    phase,          \* "writing", "reading", "dropped"
    next,           \* the next field to write or read
    size,           \* header.size
    block,          \* the payload, a function from offsets to bytes
    msgPtrWrite,
    msgPtrRead,
    at,             \* history: where each field was written
    overrun,        \* bytes written past the block, the most by one string
    refused,        \* has a write been refused?
    intact          \* for each field read: is it what was written?

vars == <<fields, phase, next, size, block, msgPtrWrite, msgPtrRead, at, overrun,
          refused, intact>>

Block(length) == 0 .. length - 1

\* The constructor; the block is not cleared.
Init ==
    /\ \E m \in Messages :
        /\ fields = m.fields
        /\ size = m.size
        /\ block = [p \in Block(m.size) |-> Garbage]
    /\ phase = "writing"
    /\ next = 1
    /\ msgPtrWrite = 0 /\ msgPtrRead = 0
    /\ at = <<>>
    /\ overrun = 0
    /\ refused = FALSE
    /\ intact = <<>>

-----------------------------------------------------------------------------
\* (mutant) No byte for the end of a string.
Needed_NoEnd(field) == field.len

Needed(field) == IF field.kind = "string" THEN field.len + 1 ELSE field.len

\* (mutant) The end of the new field is forgotten.
Grows_Late(n) == size < msgPtrWrite

Grows(n) == size < msgPtrWrite + n

\* By all of the new field, whatever is left of the block.
NewSize(n) == IF Grows(n) THEN size + n ELSE size

\* EnsureCapacityWrite returns false; header.size has grown all the same.
Overflows(n) ==
    \/ Grows(n) /\ NewSize(n) >= MAX_PACKET_SIZE
    \/ msgPtrWrite + n >= MAX_PACKET_SIZE

\* A new block, with what is in the old one.
NewBlock(n) ==
    IF Grows(n) /\ NewSize(n) < MAX_PACKET_SIZE
    THEN [p \in Block(NewSize(n)) |->
            IF p < size /\ p \in DOMAIN block THEN block[p] ELSE Garbage]
    ELSE block

\* (mutant) One byte more.
PaddedTo_OneMore(n) == msgPtrWrite + NewSize(n) + 1

\* strncpy fills up as many bytes as the block has, counted from the string on.
PaddedTo(n) == msgPtrWrite + NewSize(n)

WithField(field, n) ==
    [p \in DOMAIN NewBlock(n) |->
        IF p \in msgPtrWrite .. msgPtrWrite + field.len - 1 THEN next
        ELSE IF field.kind = "string" /\ p \in msgPtrWrite + field.len .. PaddedTo(n) - 1
        THEN 0 ELSE NewBlock(n)[p]]

\* How far the padding of this string runs past the block.
Past(field, n) ==
    IF field.kind = "number" THEN 0
    ELSE Cardinality((msgPtrWrite .. PaddedTo(n) - 1) \ DOMAIN NewBlock(n))

Write ==
    /\ phase = "writing" /\ next <= Len(fields)
    /\ next' = next + 1
    /\ LET field == fields[next]
           n == Needed(field)
       IN  /\ size' = NewSize(n)
           /\ at' = Append(at, msgPtrWrite)
           /\ IF Overflows(n)
              THEN /\ refused' = TRUE
                   /\ block' = NewBlock(n)
                   /\ UNCHANGED <<msgPtrWrite, overrun>>
              ELSE /\ block' = WithField(field, n)
                   /\ msgPtrWrite' = msgPtrWrite + n
                   /\ overrun' = IF Past(field, n) > overrun
                                 THEN Past(field, n) ELSE overrun
                   /\ UNCHANGED refused
    /\ UNCHANGED <<fields, phase, msgPtrRead, intact>>

\* SendMessageToPort copies header.size bytes; the receiver allocates as many
\* and drops what is larger than a packet.
Send ==
    /\ phase = "writing" /\ next > Len(fields)
    /\ phase' = IF size > MAX_PACKET_SIZE THEN "dropped" ELSE "reading"
    /\ next' = 1
    /\ block' = [p \in Block(size) |-> IF p \in DOMAIN block THEN block[p] ELSE Garbage]
    /\ UNCHANGED <<fields, size, msgPtrWrite, msgPtrRead, at, overrun, refused, intact>>

-----------------------------------------------------------------------------
\* How long the string at the read position is taken to be: up to the first
\* zero, which may be behind the payload or in bytes nobody wrote.
Lengths ==
    LET Ends == {p \in DOMAIN block : p >= msgPtrRead /\ block[p] = 0}
        end == CHOOSE p \in Ends : \A q \in Ends : p <= q
    IN  IF Ends # {} /\ \A p \in msgPtrRead .. end : block[p] # Garbage
        THEN {end - msgPtrRead} ELSE 0 .. MaxGarbage

Intact(field, length) ==
    /\ length = field.len
    /\ \A p \in msgPtrRead .. msgPtrRead + length - 1 : p \in DOMAIN block /\ block[p] = next

\* The value is taken first; the position moves on if it stays in a packet.
Read ==
    /\ phase = "reading" /\ next <= Len(fields)
    /\ next' = next + 1
    /\ LET field == fields[next]
       IN  \E length \in IF field.kind = "string" THEN Lengths ELSE {field.len} :
            /\ intact' = Append(intact, Intact(field, length))
            /\ LET n == IF field.kind = "string" THEN length + 1 ELSE length
               IN  msgPtrRead' = IF msgPtrRead + n <= MAX_PACKET_SIZE
                                 THEN msgPtrRead + n ELSE msgPtrRead
    /\ UNCHANGED <<fields, phase, size, block, msgPtrWrite, at, overrun, refused>>

Next == Write \/ Send \/ Read

Spec == Init /\ [][Next]_vars

-----------------------------------------------------------------------------
TypeOK ==
    /\ fields \in Seq(Fields)
    /\ phase \in {"writing", "reading", "dropped"}
    /\ next \in 1 .. Len(fields) + 1
    /\ size \in Nat
    /\ \A p \in DOMAIN block : p \in Nat /\ block[p] \in 0 .. Len(fields) \cup {Garbage}
    /\ msgPtrWrite \in 0 .. MAX_PACKET_SIZE - 1
    /\ msgPtrRead \in 0 .. MAX_PACKET_SIZE
    /\ at \in Seq(Nat)
    /\ overrun \in Nat
    /\ refused \in BOOLEAN
    /\ intact \in Seq(BOOLEAN)

\* As long as no write was refused, the header says how long the block is and
\* what was written lies in it, inside a packet: nothing is cut off when it is
\* sent, and the receiver does not drop it (EnsureCapacityWrite, net.hpp:185).
FieldsFit ==
    ~refused => /\ DOMAIN block = Block(size)
                /\ msgPtrWrite <= size
                /\ size <= MAX_PACKET_SIZE
                /\ phase # "dropped"

\* Unless a write was refused, every field is read as it was written, however
\* often the block was moved (NetMsg::Read and Write, net.hpp:163, 215).
RoundTrip == ~refused => \A i \in DOMAIN intact : intact[i]

\* The padding of a string runs past the block by at most what was written
\* before the string: one that comes first does not (NetMsg::Write<char*>,
\* net_message.cpp:44).
OverrunBehindFields ==
    ~refused /\ overrun > 0 =>
        \E i \in DOMAIN at : fields[i].kind = "string" /\ overrun <= at[i]
=============================================================================
