\* Programs that use their plans and cursors as they like, on backends that copy a saved plan and on those that refuse to.
SPECIFICATION Spec
CONSTANTS
  Plans = {p1, p2}
  Cursors = {c1}
  MaxDepth = 4
  SavedTwice = {"copied", "refused"}
INVARIANTS NothingFreedIsUsed SavedStays
