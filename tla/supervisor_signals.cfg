SPECIFICATION FairSpec
CONSTANTS
  MaxId = 1
  MaxRun = 2
  MaxTasks = 1
  Grace = 2
  p1 = p1
  p2 = p2
  f1 = f1
  c1 = c1
  l1 = l1
  l2 = l2
  Pid = {p1, p2}
  Forking <- MCForking
  Foreign = {f1}
  Lost = {c1}
  Label = {l1}
  Recipes <- MCRecipes
  NoPid = NoPid
INVARIANTS NoStraySignal EveryRunHeld NoSurvivors
PROPERTIES GraceRespected RunsEnd FleetSafe FleetPromise
