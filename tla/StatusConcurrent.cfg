SPECIFICATION ConcurrentSpec
CONSTANTS
  DispStatusMessage <- TwoTable
  Registrations <- TwoRegistrations
  Reports <- TwoReports
  Listeners = {"print"}
  Boot = boot
  Callers = {t1}
  TimerThreads = {timer1}
  Blocks = {b1, b2}
  NoBlock = NoBlock
  t1 = t1
INVARIANTS TypeOK DataOwnedOnce TransitoryHasTimer TimerOnlyForTransitory NoNullEntry
PROPERTIES TransitoryEnds
CHECK_DEADLOCK FALSE
VIEW WithoutDisplay
