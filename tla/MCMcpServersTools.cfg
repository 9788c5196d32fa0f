\* One call and a server with tools.
SPECIFICATION FairSpec
CONSTANTS
  Servers = {s1}
  Inits = {i1}
  Nobody = Nobody
INVARIANTS
  ServersWithToolsStayConnected
CHECK_DEADLOCK FALSE
