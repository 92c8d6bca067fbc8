SPECIFICATION Spec
CONSTANTS
  Fns <- MCFns
  Periodic <- MCPeriodic
  TickArgs <- MCTickArgs
  NCALLOUT = 3
  Wrap = 16
  clkpertick = 2
  Work <- MCWork
  MaxLag = 4
  MaxLate = 1
  PollCost = 1
  Races <- MCRaces
  NoFn = NoFn
INVARIANTS
  TypeOK
  ClockKeepsTime
  DueIsScheduled
  NotEarly
PROPERTIES
  Refines
  EventuallyRuns
