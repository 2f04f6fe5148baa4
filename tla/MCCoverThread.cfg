SPECIFICATION CoverSpec
CONSTANTS
  Tune = {tune1, tune2}
  MaxTunes = 4
PROPERTIES
  PollsGoOn
CHECK_DEADLOCK FALSE
