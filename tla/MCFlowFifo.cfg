SPECIFICATION FairSpec
CONSTANTS
  e1 = e1
  e2 = e2
  Engines = {e1, e2}
  MaxReq = 3
  NumMsgs = 8
  SlowApp = FALSE
CHECK_DEADLOCK FALSE
INVARIANTS
  
  RightRequest
  RequestsSuffice

  
