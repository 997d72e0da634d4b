SPECIFICATION Spec
CONSTANTS
  r1 = r1
  r2 = r2
  soup = soup
  cake = cake
  Recipes = {r1, r2}
  Terms = {soup, cake}
  Hits <- MCHits
  RandomHits <- MCRandomHits
  Screens = {book, plan}
  None = None
  Unbound = Unbound
  MaxCalls = 2
SYMMETRY Symmetry
INVARIANTS
  TypeOK
  RowsShowList
  LatestResults
