\* Two game threads run through one holder while the plugins are loaded twice.
CONSTANTS
  GameThreads = {g1, g2}
  Loader = L
  Plugins = {p, q}
  NoEvent = NoEvent
  Capacity = 2
  MaxLoads = 2
SPECIFICATION Spec
INVARIANTS FaultsTraceToAnUnload CountedSlotsAreWritten RegistrationsAreKept
CHECK_DEADLOCK FALSE
