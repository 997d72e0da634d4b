SPECIFICATION Spec
CONSTANTS
  Recipes = {r1, r2}
  Cells = {c1, c2}
  StoredLists <- MCStoredLists
  Mock = Mock
  None = None
  Shown = 2
  MaxSaved = 3
  MaxImages = 3
SYMMETRY Symmetry
INVARIANTS
  TypeOK
  TapOpensWhatIsShown
  ImagesMatch
