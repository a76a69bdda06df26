\* A game thread reads while the presenting thread hands the pad back and forth.
CONSTANTS
  GameThreads = {g}
  StickL = StickL
  StickR = StickR
  PadLeft = PadLeft
  Others = {}
  Mapped = {PadLeft}
SPECIFICATION Spec
INVARIANTS PadHasOneOwner KeysFollowThePad SwitchesCountPresses
