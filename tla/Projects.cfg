CONSTANTS
  a = a
  b = b
  c = c
  d = d
  plain = plain
  repo = repo
  fork = fork
  twin = twin
  NoRepo = NoRepo
  Afar = Afar
  Paths = {a, b, c, d, Afar}
  Repos = {plain, repo}
  OldRepo = plain
  SharedRepo = fork
  Parent <- MCParent
  Base <- MCBase
  Start <- MCStart
  Origin <- MCOrigin
  Commit <- MCCommit
  Commands = {c1, c2}
  MaxProjects = 4
  MaxRuns = 3
  MaxUpsets = 1
SPECIFICATION Spec
SYMMETRY CommandSymmetry
CHECK_DEADLOCK FALSE
INVARIANT BoundComplete
INVARIANT StaysBound
INVARIANT Followed
INVARIANT TrueGenesis
INVARIANT LegacyKept
