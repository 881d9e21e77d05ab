SPECIFICATION Spec
CONSTANTS
  Devices = {1, 2}
  Writable = {2}
  Platforms = {"posix", "windows"}
  Operations = {"EXISTS", "SIZE", "READ", "WRITE", "DELETE", "CREATE_DIR", "DELETE_DIR"}
  Paths <- MCPaths
  Bytes = {"x", "y", "0"}
  Zero = "0"
  Width = 4
  Errors = {"EACCES", "EIO"}
  DwordWidth = 2
  WindowsErrors = {"ERROR_ACCESS_DENIED", "ERROR_DISK_FULL"}
  Reads <- MCReads
  Writes <- MCWrites
  Contents <- MCContents
  MaxItems = 2
  MaxForeign = 1
  Null = null
INVARIANTS TypeOK PassesOnlyEmpty BufferFits ReadsPart WriteReported DeleteDirReported
