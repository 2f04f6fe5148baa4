SPECIFICATION MCSpec
CONSTANTS
  provider = provider
  client = client
  command = command
  Token = {provider, client}
  Handle = {h1, h2, h3}
  Name = {command}
  NameOf <- MCNameOf
  Masks = {{"host"}, {"result"}, {"host", "result"}}
  MaxPending = 2
  MaxEvents = 2
  MaxCommands = 1
  MaxSequence = 2
  None = None
INVARIANTS
  InFlightIsLeased
  TablesAgree
  QueuedDeliveriesAreOwned
  EachRequestHeldOnce
  RevokedOwnsNothing
  CommandsWaitInOrder
PROPERTIES
  ReleaseIsFinal
SYMMETRY MCHandles
CHECK_DEADLOCK FALSE
