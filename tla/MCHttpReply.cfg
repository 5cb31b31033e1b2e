CONSTANTS
  Modes = {"stream", "plain"}
  MaxTokens = 2
  RetryEnabled = TRUE
SPECIFICATION FairSpec
INVARIANTS TypeOK OneReply KeptMeansHandedOver
PROPERTIES EveryReplyEnds
CHECK_DEADLOCK FALSE
