SPECIFICATION FairSpec
CONSTANTS
  a1 = a1
  c1 = c1
  c2 = c2
  Client = {c1, c2}
  Request <- Requests
  Service <- Services
  Key <- Keys
  Kind = {"instance"}
  Address = {a1}
  Asks <- WhoAsks
  Null = Null
  Cut = Cut
CHECK_DEADLOCK FALSE
INVARIANTS TypeOK ReadyMeansBound
PROPERTIES CallsTakeEffectOnce AckedAsSent EveryCallReturns SignalEndsRegistry
