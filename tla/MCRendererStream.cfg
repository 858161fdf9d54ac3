SPECIFICATION FairSpec
CONSTANTS
  MaxCalls = 3
  MaxUnderflow = 1
  StandbyLimit = 2
INVARIANTS AnswersArrive SinkFollowsManager LayersAgree
PROPERTIES WrittenIsPlayed
CHECK_DEADLOCK FALSE
