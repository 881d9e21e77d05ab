SPECIFICATION FairSpec
CONSTANTS
  Clients = {c1, c2}
  Releasers = {c1}
  Operations = {"READ", "DELETE"}
  MountPoints <- MCMountPoints
  Paths <- MCPaths
  Interfaces = {{}}
  Requests = {{}, {"delete_file"}}
  MaxInterfaces = 2
  MaxMounts = 3
  MaxItems = 1
  Null = null
INVARIANTS TypeOK ReadsOverlay WritesToPermitted AsksLiveDevices DevicesOwned NoNullCall
PROPERTY ItemEnds
