SPECIFICATION FairSpec
CONSTANTS
  sap = sap
  crm = crm
  Loads <- MCLoads
  OtherPorts = {1}
  None = None
INVARIANTS
  TypeOK
  UsageIsLive
PROPERTIES
  RunnersEnd
  DownIsShown
