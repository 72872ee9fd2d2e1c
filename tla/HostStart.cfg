\* Three MCP processes and four desktops.
CONSTANTS
  Clients = {p1, p2, p3}
  Desktops = {1, 2, 3, 4}
SPECIFICATION Spec
INVARIANTS
  TypeOK
  OneHost
  OneDesktop
CHECK_DEADLOCK FALSE
