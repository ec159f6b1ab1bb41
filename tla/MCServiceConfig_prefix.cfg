\* Three directories with any of the configurations, read in any order.
CONSTANTS
  Names <- MCDirectories
  Layouts <- Synthetic
  Paths <- MCPaths
  MaxPort = 4
  MaxPages = 47
  None = None
SPECIFICATION Spec
\* A load ends.
CHECK_DEADLOCK FALSE
INVARIANT PrefixReachesService
