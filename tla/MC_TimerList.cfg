SPECIFICATION Spec
CONSTANTS
  NumTimers = 3
  Durations = {1, 5}
  TickMs = 2
INVARIANTS HeadNotDue ListedAreActive
PROPERTY TimerService
