SPECIFICATION Spec
CONSTANTS
  Units = 9
  MinBlock = 0
  UnitBytes = 16
  Requests = {16, 40}
  Aligns = {2}
  Stamps = {s1}
  Zero = Zero
  Junk = Junk
INVARIANTS Tiling Owned Intact UsedExact NothingLost DoubleFreeCaught PanicJustified
PROPERTY CallsReturn
