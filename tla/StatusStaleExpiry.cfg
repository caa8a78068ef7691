SPECIFICATION StartedSpec
CONSTANTS
  DispStatusMessage <- TwoTable
  Registrations <- TwoRegistrations
  Reports <- TwoReports
  Listeners = {}
  Boot = boot
  Callers = {t1}
  TimerThreads = {timer1}
  Blocks = {b1, b2}
  NoBlock = NoBlock
  t1 = t1
CHECK_DEADLOCK FALSE
PROPERTY ExpiryEndsTransitory
