SPECIFICATION Spec
CONSTANTS
  MaxId = 2
  MaxRun = 1
  MaxTasks = 2
  Grace = 1
  p1 = p1
  p2 = p2
  f1 = f1
  c1 = c1
  l1 = l1
  l2 = l2
  Pid = {p1, p2}
  Forking = {}
  Foreign = {}
  Lost = {}
  Label = {l1, l2}
  Recipes <- MCRecipes
  NoPid = NoPid
SYMMETRY MCPids
PROPERTIES FlagshipHolds RecipeChangeArms
\* The daemon really stops once its fleet is gone.
CHECK_DEADLOCK FALSE
