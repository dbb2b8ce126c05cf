SPECIFICATION FairSpec
CONSTANT Attempts = 3
INVARIANTS TypeOK ClosedLast OneLateRun
PROPERTIES ShutdownAdvances ComesOnline ShutsDown RunsAgain
CHECK_DEADLOCK FALSE
