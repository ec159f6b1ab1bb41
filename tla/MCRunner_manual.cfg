SPECIFICATION Spec
CONSTANTS
  shop = shop
  sap = sap
  crm = crm
  orders = orders
  returns = returns
  pulling = pulling
  pull = pull
  sapOrder = sapOrder
  crmOrder = crmOrder
  invoices = invoices
  Services <- MCServices
  Runners <- MCRunners
  Modulus = 8
  Queues = {orders, returns}
  Endpoints <- MCEndpoints
  Listeners <- MCListeners
  MaxCount = 2
  Schedules <- MCSchedules
  Interval <- MCInterval
  None = None
  Error = Error
  MaxRuns = 1
  MaxTriggers = 2
  ServiceOf <- MCServiceOf
  Hook <- MCHook
  Proxied <- Plain
  Events <- OneEvent
  Replies <- MCReplies
  MaxClients = 2
  Healthy = TRUE
INVARIANTS
  ManualRunAnswers
