SPECIFICATION Spec
CONSTANTS
  Operators = {o1, o2}
  Bootstraps = {"b1", "b2"}
  Candidate <- MCCandidate
  Schedules <- MCSchedules
  Allowed <- MCAllowed
  FirstRow <- MCFirstRow
  MaxRequests = 2
CHECK_DEADLOCK FALSE
PROPERTY ScheduleUpdatesKept
