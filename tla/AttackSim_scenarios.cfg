\* Whether every scenario that runs gets the answers it wants.
SPECIFICATION Spec
CONSTANTS
  u = u
  NoToken = NoToken
  d = d
  Others = {o1, o2, o3}
  OtherSubjects = {u}
  OtherDevices = {d}
  Handles <- MCHandles
  Subjects <- MCSubjects
  Devices <- MCDevices
  RoleNames = {"viewer", "operator", "admin", "egress_agent"}
  Scope = {"tool.invoke"}
  Nonces = {"n"}
  Lifetime = 2
  MaxClock = 2
  Pauses = {284}
  Restarts = {280}
  Origins = {"user", "system", "rag", "tool-output", "mcp-response", "external-channel"}
  Untrusted = {"mcp-response", "external-channel", "rag"}
  Hashes = {"h"}
  Roles <- DefaultRoles
INVARIANT ScenariosPass
SYMMETRY Symmetry
CHECK_DEADLOCK FALSE
