SPECIFICATION Spec
CONSTANTS
  Media = {m}
  Plain = {}
  Change = {}
  Line = {}
  Batch = 1
  Widgets = 1
  MaxLoads = 1
  NoJob = NoJob
INVARIANTS
  AcceptedIsAnswered
CHECK_DEADLOCK FALSE
