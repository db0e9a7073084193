SPECIFICATION MCSpec
CONSTANTS
  Client = {c1, c2}
  Second = 2
  Shift = 2
  MaxCommands = 2
  MaxLosses = 1
  MaxClock = 1
  MaxTroubles = 2
  MaxEvents = 4
INVARIANTS
  TypeOK
  OneServer
  NothingLeftRunning
  ResultsHaveAReader
  ReadYourWrites
PROPERTIES
  ImplementsRequestService
  OneExchange
  EveryCommandShown
  StopEnds
\* The programs really end or wait for their users.
CHECK_DEADLOCK FALSE
