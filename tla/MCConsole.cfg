CONSTANTS
    StartCvars <- MCStartCvars
    Names <- MCNames
    v0 = v0
    v2 = v2
    Values = {v0, v2}
    DEDICATED = v2
    MaxLines = 3
    MaxRepeats = 2
SPECIFICATION Spec
INVARIANTS LinesInOrder StartCvarsKept OneCvarPerCommand
PROPERTIES LinesExecuted
\* The program may end, or wait for a line that nobody types.
CHECK_DEADLOCK FALSE
