SPECIFICATION Spec
CONSTANTS
  Clients = {c1, c2}
  Releasers = {c1}
  Operations = {"WRITE_SEGMENT"}
  MountPoints <- MCMountPoints
  Paths <- MCPaths
  Interfaces = {{}}
  Requests = {{}, {"write_file"}}
  MaxInterfaces = 2
  MaxMounts = 1
  MaxItems = 1
  Null = null
INVARIANTS WritesToPermitted
