CONSTANTS
  Hashes = {h1, h2}
  BadNro = BadNro
  Garbage = Garbage
  Loader = Loader
  MaxFiles = 3
  MaxSlots = 5
SPECIFICATION Spec
INVARIANTS
  SlotsWithinArray
  NrrListsThePlugins
  ModulesKeepTheirImage
  NoEventOutlivesItsModule
  FlagTellsTheTruth
  NoBufferDangles
PROPERTIES
  ImplementsLifecycle
  OperationsComplete
