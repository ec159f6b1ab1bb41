SPECIFICATION Spec
CONSTANTS
  shop = shop
  sap = sap
  crm = crm
  orders = orders
  returns = returns
  pulling = pulling
  pull = pull
  sapOrder = sapOrder
  crmOrder = crmOrder
  invoices = invoices
  Services <- MCServices
  Runners <- MCRunners
  Modulus = 8
  Queues = {orders, returns}
  Endpoints <- MCEndpoints
  Listeners <- MCListeners
  MaxCount = 2
  Schedules <- MCSchedules
  Interval <- MCInterval
  None = None
  Error = Error
  MaxRuns = 1
  MaxTriggers = 1
  ServiceOf <- MCServiceOf
  Hook <- MCHook
  Proxied <- Webhooks
  Events <- TwoEvents
  Replies <- MCReplies
  MaxClients = 1
  Healthy = FALSE
INVARIANTS
  TypeOK
  InOrder
  DeliveryOrder
  AckMeansOffered
  CountIsAccepted
  ProxiedIsRecorded
  SuccessMeansAccepted
PROPERTIES
  BrokerSpec
  SchedulerSpec
