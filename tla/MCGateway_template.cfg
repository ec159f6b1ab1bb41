\* The services of the repository as they are configured.
CONSTANTS
  Names <- MCDirectories
  Layouts <- JustRepository
  Paths <- MCPaths
  MaxPort = 4
  MaxPages = 47
  None = None
  Requests <- MCRequests
  DirectoryName <- MCDirectoryName
  IndexOf <- MCIndexOf
  Parameters <- MCParameters
SPECIFICATION GatewaySpec
\* A load may end in an error.
CHECK_DEADLOCK FALSE
INVARIANT DeclaredReachable
