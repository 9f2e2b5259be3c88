CONSTANTS
  Machines <- MCMachines
  Earlier = {"claude", "cursor"}
  Projects = {p1}
  Commands = {c1, c2}
  MaxEdits = 1
SPECIFICATION Spec
SYMMETRY InstallSymmetry
CHECK_DEADLOCK FALSE
INVARIANT OneHookEach
INVARIANT HooksKept
INVARIANT TextKept
INVARIANT ApprovedHooks
