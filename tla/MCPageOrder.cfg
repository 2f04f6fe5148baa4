SPECIFICATION PagesSpec
CONSTANTS
  Builtin = {"music", "widgets"}
  PluginPage = {pageA, pageB}
  NoPage = NoPage
  MaxEdits = 3
  MaxTurns = 3
PROPERTIES
  PagesAreRemembered
CHECK_DEADLOCK FALSE
