SPECIFICATION FramesSpec
CONSTANTS
  Grid = {grid}
  Compact = {}
  Page = {}
  Picture = {}
  Activity = {}
  Key = {}
  MaxFailures = 2
  MaxStrokes = 3
PROPERTIES
  ReleasedWidgetsGo
CHECK_DEADLOCK FALSE
