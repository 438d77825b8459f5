SPECIFICATION FairSpec
CHECK_DEADLOCK FALSE
CONSTANTS
  MaxRequests = 2
  MaxSpurious = 0
PROPERTIES
  RequestsAreAnswered
