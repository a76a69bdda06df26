CONSTANTS
  Threads = {t1, t2}
  MaxDepth = 2
SPECIFICATION Spec
INVARIANTS
  HandlerStackIsExclusive
  ResumesOwnContext
  FramesFollowNesting
  CaughtLandsInCaller
PROPERTY FaultIsAnswered
