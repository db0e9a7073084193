\* The watchdog by itself, for the race of its two threads.
SPECIFICATION HeartSpec
CONSTANT MaxTroubles = 1
INVARIANT EnterStopsTheServer
CHECK_DEADLOCK FALSE
