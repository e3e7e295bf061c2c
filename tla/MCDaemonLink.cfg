SPECIFICATION FairSpec
CONSTANTS
  Peers = {"p1"}
  MaxCalls = 2
  MaxStops = 1
  MaxLosses = 2
  WarmupReplies = 1
  MaxSignals = 1
INVARIANTS AwaitedReplyComes AnswersAreTruthful
PROPERTIES CallsReturn SignalStops
