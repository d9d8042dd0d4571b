\* One broker on the directory, and a write that may be cut short without an error.
CONSTANTS
    Writers = {w1}
    Bodies = {a, b}
    MaxLines = 3
    CallsFail = TRUE
    ShortWrites = TRUE
    Missing = Missing
    Unreadable = Unreadable
SPECIFICATION Spec
INVARIANT AppendedBeforeHead
