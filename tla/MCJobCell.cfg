CONSTANTS
  Kinds = {"stack", "pipeline"}
  Channels = 2
  ChannelCap = 256
  Cancellers = {c1}
  Pollers = {p1}
  Subscribers = {b1, b2}
SPECIFICATION FairSpec
INVARIANTS
  SuccessIsStored
  StreamIsComplete
PROPERTIES
  ClientsLearnTheEnd
  ImplementsJobLife
CHECK_DEADLOCK FALSE
