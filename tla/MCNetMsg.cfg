CONSTANTS
    MAX_PACKET_SIZE = 11
    Messages <- MCMessages
    Garbage = Garbage
    MaxGarbage = 2
SPECIFICATION Spec
INVARIANTS FieldsFit RoundTrip OverrunBehindFields
\* A message is read once.
CHECK_DEADLOCK FALSE
