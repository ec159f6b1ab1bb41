SPECIFICATION Spec
CONSTANTS
  fast = fast
  slow = slow
  Schedules <- MCSchedules
  Interval <- MCInterval
  Statuses <- MCStatuses
  None = None
  Error = Error
  MaxRuns = 2
  MaxTriggers = 1
PROPERTIES
  LastRunMonotone
