SPECIFICATION Spec
CONSTANTS
  Media = {m1, m2}
  Plain = {}
  Change = {c}
  Line = {l}
  Batch = 1
  Widgets = 1
  MaxLoads = 2
  NoJob = NoJob
INVARIANTS
  RuntimeOutlivesLibrary
  AnswersMatchFates
PROPERTIES
  ImplementsContract
  LostOnlyAfterFailure
SYMMETRY MCJobs
CHECK_DEADLOCK FALSE
