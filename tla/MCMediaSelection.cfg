SPECIFICATION Spec
CONSTANTS
  Plugin = {p, q}
  Source = {x}
  Session = {s}
  Automatic = Automatic
  None = None
  MaxQueue = 2
  MaxRequests = 2
INVARIANTS
  OneAnswerEach
  SelectionIsBacked
  LatestIsObeyed
PROPERTIES
  LostOnlyIfUnknown
SYMMETRY MCPlugins
CHECK_DEADLOCK FALSE
