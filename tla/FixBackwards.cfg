SPECIFICATION Spec
CONSTANTS
  Count = 1
  Instructions <- MixedInstructions
  InBase <- Function
  OutBases <- Places
  RwDelta <- Alias
INVARIANTS
  PcRelativeFormsAreKept
