SPECIFICATION FairSpec
CONSTANTS
  Boot = boot
  c1 = c1
  c2 = c2
  Posters = {c1, c2}
  Uis = {ui1, ui2}
  NoUi = NoUi
  Starved <- MCStarved
  MAX_NUM_CALLBACKS = 1
  MaxEvents <- MCMaxEvents
INVARIANTS TypeOK QueueExclusive EventOwnedOnce InOrder
PROPERTIES BootFlushes CallsReturn ImplementsMailbox
CHECK_DEADLOCK FALSE
