SPECIFICATION IslandSpec
CONSTANTS
  Plugin = {plugin1, plugin2}
  Source = {source1}
  Session = {session1}
  Automatic = Automatic
  None = None
  MaxQueue = 1
  MaxRequests = 1
  App = {app1, app2}
  Title = {title1}
  MaxPosition = 1
  MaxInputs = 2
  Tune = {tune1, tune2}
  MaxTunes = 4
  MaxNotes = 2
  MaxTroubles = 2
  MaxChanges = 2
  MaxTrouble = 1
  Builtin = {"music", "widgets"}
  PluginPage = {pageA, pageB}
  NoPage = NoPage
  MaxEdits = 3
  MaxTurns = 2
INVARIANTS
  ListedIsShown
  LyricsAreCurrent
  CoverIsCurrent
  ShownOnce
PROPERTIES
  RowsAreKept
  ChoiceIsReleased
  PositionFollows
  NewsIsSeen
  SavesAreWhole
  IslandFollows
CHECK_DEADLOCK FALSE
