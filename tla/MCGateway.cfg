\* The repository's own services, or three directories with any of the
\* configurations, read in any order; then one exchange after the other.
CONSTANTS
  Names <- MCDirectories
  Layouts <- MCLayouts
  Paths <- MCPaths
  MaxPort = 4
  MaxPages = 47
  None = None
  Requests <- MCRequests
  DirectoryName <- MCDirectoryName
  IndexOf <- MCIndexOf
  Parameters <- MCParameters
SPECIFICATION GatewaySpec
\* A load may end in an error.
CHECK_DEADLOCK FALSE
INVARIANTS
  TypeOK AllOrNothing RoutesByName SchedulesCanRun LimitsHold CopiesApart
  CallsAreServed PublishedAsAsked ForwardsDeclaredOnly
