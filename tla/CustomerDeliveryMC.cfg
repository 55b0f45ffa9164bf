SPECIFICATION Spec
CONSTANTS
  Kinds <- Spoken
  MaxMessages = 3
  MaxCarried = 2
  PageLimit = 1
  History = 1
  Remembered = 1
  MaxDrops = 1
  MaxWire = 1
  Dispatchers = {d1, d2}
  Batch = 2
  MaxSends = 2
INVARIANTS TypeOK NothingIsPassedBy ShownIsSafe SentOnce NoneOvertakes
PROPERTIES EveryMessageArrives
CHECK_DEADLOCK FALSE
