SPECIFICATION Spec
CONSTANTS
  Origins = {"user", "system", "rag", "tool-output", "mcp-response", "external-channel"}
  Untrusted = {"mcp-response", "external-channel", "rag"}
  Sessions = {s1, s2}
  Hashes = {"h1", "h2", "h3", "h4"}
  Elements <- MCElements
  MaxElements = 2
  MaxRegistrations = 2
  Roles <- DefaultRoles
INVARIANTS
  TypeOK
  LabelIsLeastUpperBound
  TaintAlwaysReported
  AllowedIsRouted
PROPERTIES
  NeverLoosens
CHECK_DEADLOCK FALSE
