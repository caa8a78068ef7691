SPECIFICATION Spec
CONSTANTS
  Boot = boot
  c1 = c1
  c2 = c2
  Posters = {c1, c2}
  Uis = {ui1, ui2}
  NoUi = NoUi
  Starved <- MCStarved
  MAX_NUM_CALLBACKS = 1
  MaxEvents <- MCMaxEvents
INVARIANT QueuedIsReceived
CHECK_DEADLOCK FALSE
