SPECIFICATION Spec
CONSTANTS
  Requests = {r1, r2}
  Classification = "regulated"
  Window = 8
  MayOmit = TRUE
  RecordsFail = TRUE
  MaxOthers = 8
INVARIANTS
  TypeOK
  ResultNamesItsRecords
  RefusedStaysSealed
  OvertakenOnly
CHECK_DEADLOCK FALSE
