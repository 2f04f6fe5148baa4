SPECIFICATION FairSpec
CONSTANTS
  Media = {m}
  Plain = {s}
  Change = {c}
  Line = {l}
  Batch = 4
  Widgets = 1
  MaxLoads = 1
  NoJob = NoJob
PROPERTIES
  JobsAreTaken
  CallersHearBack
CHECK_DEADLOCK FALSE
