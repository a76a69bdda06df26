CONSTANTS
  Files = {f1, f2, f3}
  Plain = Plain
  Unset = Unset
  MaxRoot = 3
  MaxSub = 2
SPECIFICATION ScanSpec
INVARIANTS LoadsFitTheArray CleanUpIsExact
