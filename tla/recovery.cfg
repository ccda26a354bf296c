SPECIFICATION RecoverySpec
CONSTANTS
  r1 = r1
  r2 = r2
  x = x
  y = y
  None = None
  Torn = Torn
  NoTasks = NoTasks
  Writer = {1, 2, 3, 4}
  Old = {1, 3}
  Running = {2}
  Me = 2
  Root = {r1, r2}
  Theirs = {r1}
  Recipe = {x, y}
  Keep = 2
  Debounce = 1
  Cadence = 2
  Days <- MCDays
SYMMETRY Alike
INVARIANTS NewestKept RecipeIsSaved
\* Every daemon may be dead.
CHECK_DEADLOCK FALSE
