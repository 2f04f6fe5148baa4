SPECIFICATION HostSpec
CONSTANTS
  MaxHidden = 3
  MaxVersion = 2
  MaxStops = 1
  Thread = {thread1, thread2}
  MaxDepth = 2
  MaxEnds = 2
  Accused = {accused1, accused2}
  NoOne = NoOne
  Blank = Blank
  Widget = {widget1, widget2}
  Periodic = {widget1}
  Code = {1, 2}
  MaxPending = 3
  MaxCalls = 3
  Grid = {grid}
  Compact = {compact}
  Page = {page}
  Picture = {picture}
  Activity = {activity}
  Key = {key1, key2}
  MaxFailures = 2
  MaxStrokes = 2
INVARIANTS
  AVersionSurvives
  VisibleIsComplete
  FailedUpdateRestores
  RemovalIsAllOrNothing
  RunningIsInstalled
  BlameIsKept
  OnlyRunningBlamed
  ToldTruth
  DisabledForCause
  IslandCatchesUp
PROPERTIES
  VisibleTimersFire
CHECK_DEADLOCK FALSE
