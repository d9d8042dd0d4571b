\* One broker on a directory (calls fail, the process is killed, power is lost)
\* and two on another.
CONSTANTS
    Writers = {w}
    Brokers = {w1, w2}
    Bodies = {a, b}
    MaxLines = 4
    CallsFail = TRUE
    ShortWrites = FALSE
    Missing = Missing
    Unreadable = Unreadable
SPECIFICATION Directories
SYMMETRY DirectoriesSymmetry
INVARIANTS
    TypeOK
    ChainLinear
    HeadNamesDurable
    AckedSurvives
    AcceptingAgrees
PROPERTIES
    AppendOnly
    ImplementsChain
    PairOpensOnlyLinear
