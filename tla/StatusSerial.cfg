\* The printer's threads taking turns: each call runs to its end.
SPECIFICATION SerialSpec
CONSTANTS
  DispStatusMessage <- MCTable
  Registrations <- MCRegistrations
  Reports <- MCReports
  Listeners = {"copy", "print"}
  Boot = boot
  Callers = {t1}
  TimerThreads = {timer1}
  Blocks = {b1, b2, b3, b4}
  NoBlock = NoBlock
  t1 = t1
INVARIANTS OverallIsWorst NoUseAfterFree OverallHasCurrentData
PROPERTIES FeedbackReachesShown ExpiryEndsTransitory ImplementsBoard
CHECK_DEADLOCK FALSE
