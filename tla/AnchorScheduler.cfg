\* Three records, two requests at a time, any number of restarts.
CONSTANTS
    MaxSeq = 3
    MaxQueue = 2
    MaxHandlers = 2
    MaxPolls = 2
SPECIFICATION Spec
INVARIANTS
    TypeOK
    AnchorsInOrder
    StopAnchorsHead
PROPERTIES
    RecordsGetAnchored
    StartAndCloseEnd
