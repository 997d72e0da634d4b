SPECIFICATION Spec
CONSTANTS
  Users = {ann, bob}
  Recipes = {r1}
  Uids = {u1, u2}
  PlanIds = {p1, p2, p3}
  NoUid = NoUid
  NoDoc = NoDoc
  MaxRecipes = 2
  MaxPlans = 2
  MaxFetches = 2
  MaxSignIns = 1
  StoreFaults = FALSE
  FetchFirst = TRUE
SYMMETRY Symmetry
INVARIANTS
  RowsCurrent
  ListsAreComplete
  ListsAreOwn
