SPECIFICATION FairSpec
CONSTANTS
  Media = {m1, m2, m3}
  Plain = {}
  Change = {}
  Line = {}
  Batch = 1
  Widgets = 0
  MaxLoads = 1
  NoJob = NoJob
PROPERTIES
  ResultsFollow
CHECK_DEADLOCK FALSE
