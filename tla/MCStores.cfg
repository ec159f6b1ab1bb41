\* A counter of 0 .. 4 for each queue, a counter of 4 bits for each service.
\* Two minutes of two ticks are kept; the clock moves within four minutes.
\* Four streams of two lines, three of them into one deque of three.
\* Two pages that load twice, two presses, one run of each kind.
CONSTANTS
  orders = orders  customers = customers  unheard = unheard
  sap = sap  crm = crm  bff = bff
  one = one  two = two  three = three  four = four
  intro = intro  stdout = stdout  stderr = stderr  other = other
  pull = pull
  Queues = {orders, customers, unheard}
  Subscribers = {sap, crm}
  Listeners <- MCListeners
  MaxCount = 4
  Services = {one, two, three, four}
  Runners <- MCRunners
  Modulus = 16
  Endpoints = {ping, push}
  Statuses = {ok, failed}
  MaxMinutes = 2
  MinuteLength = 2
  LastTick = 7
  MaxRecords = 4
  LoggedServices = {sap, bff}
  Forwarders = {intro, stdout, stderr, other}
  ServiceOf <- MCServiceOf
  Seeds = {intro}
  MaxStored = 3
  MaxLines = 2
  Pages = {left, right}
  MaxLoads = 2
  MaxPresses = 2
  Schedules = {pull}
  Interval <- MCInterval
  WebhookStatuses = {}
  None = None
  Error = Error
  MaxRuns = 1
  MaxTriggers = 1
SYMMETRY Interchangeable
SPECIFICATION StoresSpec
INVARIANTS TypeOK EachListenerOnce EveryRunnerInTurn CountsTheWindow ShowsLatest PageIsCurrent
PROPERTY NeverGoesBack
\* Every stream may end, and the operators stop pressing.
CHECK_DEADLOCK FALSE
