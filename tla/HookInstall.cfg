\* Three functions: at an even word, at an odd one across a page's end, at an odd one before it.
CONSTANTS
  Claims = {"patcher", "jit", "inline", "window"}
  NoClaim = NoClaim
  CodePages = 4
  PageWords = 8
  RangeStarts = {0, 1, 2}
  AslrPages = 5
  Unmapped = Unmapped
  Functions = {0, 5, 11}
  FunctionWords = 5
  MainPages = 2
  HookMax = 1
  InlineMax = 1
  MaxHooks = 3
  MaxPatches = 2
SPECIFICATION Spec
INVARIANTS TypeOK AliasesAreClaimed HooksNest CodeIsCoherent
