\* Four requests in up to two pieces; the queue is emptied when it would
\* hold more than five elements.  A connection comes to an end.
CONSTANTS
  MaxRequests = 4
  MaxPieces = 2
  MaxText = 5
SPECIFICATION ApiFairSpec
CHECK_DEADLOCK FALSE
INVARIANTS
  ApiTypeOK
  PreviewOnItsWay
  OneResponseAtATime
PROPERTIES
  EveryRequestAnswered
