SPECIFICATION Spec
CONSTANTS
  Points = {"centre", "p", "q"}
  Centre = "centre"
  MaxLookups = 2
INVARIANTS
  PlacedTogether
  DialogAgrees
