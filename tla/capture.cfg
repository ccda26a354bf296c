SPECIFICATION Spec
CONSTANTS
  Kind = {"claude", "codex", "grok", "omp"}
  Registered = {"claude", "codex", "grok", "omp"}
  Command = {"make"}
  Label = {"l"}
  Odd = {"not a uuid"}
  Absent = Absent
  Name = {"a.b", "a:b"}
  Stem = {"a_b"}
  sanitize <- MCsanitize
  Edits <- MCEdits
  c1 = c1
  c2 = c2
  fork = fork
  p1 = p1
  p2 = p2
  Id = {c1, c2, fork}
  Pid = {p1, p2}
  Fork = fork
  Sub = Sub
  Title = Title
  MaxLife = 2
  MaxId = 1
  MaxRun = 1
  MaxProc = 2
  MaxWriters = 2
SYMMETRY Alike
CONSTRAINT MCBound
INVARIANTS OwnConversation SavedIsLoaded
PROPERTY KnownIsKept
\* The bounds end it.
CHECK_DEADLOCK FALSE
