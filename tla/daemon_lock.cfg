SPECIFICATION FairAutoSpec
CONSTANTS
  d1 = d1
  d2 = d2
  k1 = k1
  k2 = k2
  Daemon = {d1, d2}
  Killer = {k1, k2}
  c1 = c1
  Client = {c1}
  Nobody = Nobody
  Absent = Absent
  Empty = Empty
INVARIANTS OneDaemon FleetUnderLock KillMeansOver
PROPERTY TermEndsDaemon
\* Daemons and --kill runs end.
CHECK_DEADLOCK FALSE
