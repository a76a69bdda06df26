SPECIFICATION Spec
CONSTANTS
  Count = 3
  Instructions <- MixedInstructions
  InBase <- Function
  OutBases <- Places
  RwDelta <- Alias
INVARIANTS
  TrampolineFits BranchesReachTheirTargets ValuesAreKept LeadsBackToFunction
