SPECIFICATION Spec
CONSTANTS
  Rosters = {one, two}
  Names <- MCNames
  Values = {v1, v2}
SYMMETRY MCSymmetry
INVARIANTS ListsIntact AsPromised
