SPECIFICATION Spec
CONSTANTS
    s1 = s1
    u = u
    d = d
    n1 = n1
    n2 = n2
    m = m
    Registrations <- Declarations
    Cosignings <- Receipts
    Sessions = {s1}
    Subjects = {u}
    Devices = {d}
    RoleNames = {"role"}
    SubjectOf <- MCSubjectOf
    DeviceOf <- MCDeviceOf
    RoleOf <- MCRoleOf
    Manifests = {m}
    NoManifest = NoManifest
    Operations = {"read", "export", "unknown", "node", "admin"}
    Granted <- MCGranted
    DualControl = {"admin"}
    Blocked = {"node"}
    Outward = {"export", "admin"}
    Origins = {"user", "web"}
    Untrusted = {"web"}
    RecordsFail = TRUE
    NoToken = NoToken
    Lifetime = 1
    Requests = {r1}
    Invocations <- EveryPath
    Nonces = {n1}
    Revocable <- NamesOthers
    MaxClock = 2
INVARIANTS
    TypeOK
    AnswersMatchRecords
    ActsAdmitted
    RevocationHolds
PROPERTIES
    InvokesAnswered
CHECK_DEADLOCK FALSE
