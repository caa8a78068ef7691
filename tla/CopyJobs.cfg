SPECIFICATION Spec
CONSTANTS
  Totals = {2}
  MaxScans = 2
  MaxJobs = 4
  MaxStarted = 3
  Unscanned = 1000
INVARIANTS TypeOK PlacesComeBack RoomForTwo TracksJobs CountsPages
CHECK_DEADLOCK FALSE
VIEW WithoutDisplay
