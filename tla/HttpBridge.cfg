SPECIFICATION FairSpec
CHECK_DEADLOCK FALSE
CONSTANTS
  MaxRequests = 4
  MaxSpurious = 2
INVARIANTS
  TypeOK
  HandlerSeesTheRequest
  RespondAfterHandler
  StaleOnlyBeforeBroadcast
PROPERTIES
  AnsweredUnlessWakeupLost
  LostWakeupStopsServer
