SPECIFICATION Spec
CONSTANTS
  Conns = {1, 2}
  Requests = {"q1", "q2"}
  Types = {"NullifierQuery", "NullifierMetadata"}
  TypeOf <- MCTypeOf
  RequestFrames <- MCFrames
  ResponseFrames <- MCFrames
  None = None
INVARIANTS
  TypeOK
  AnswersMatch
  WaitingIsHeld
  OnlyCurrentWorks
PROPERTIES
  WithdrawnByItsOwn
  DeadSessionWithdrawn
CHECK_DEADLOCK FALSE
