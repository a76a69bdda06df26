CONSTANTS
  Threads = {t1}
  MaxDepth = 2
SPECIFICATION Spec
INVARIANT CalleeSavedRestored
