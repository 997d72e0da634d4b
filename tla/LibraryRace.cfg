SPECIFICATION Spec
CONSTANTS
  Users = {ann}
  Recipes = {r1}
  Uids = {u1, u2}
  PlanIds = {p1, p2}
  NoUid = NoUid
  NoDoc = NoDoc
  MaxRecipes = 2
  MaxPlans = 1
  MaxFetches = 1
  MaxSignIns = 0
  StoreFaults = TRUE
  FetchFirst = FALSE
SYMMETRY Symmetry
INVARIANTS
  TypeOK
  SelectionExact
