SPECIFICATION Spec
CONSTANTS
  Passes = {p1, p2}
  Sessions = {r1, r2}
  Loops = {loop}
  Lists = {list}
  Viewers = {}
  UseCelery = FALSE
  Minutes = {1}
  DayEnd = 2
  MaxTime = 1
  MaxVersion = 3
  MaxWait = 1
  MaxFaults = 2
  NoRef = NoRef
SYMMETRY Symmetric
INVARIANTS TypeOK RevocableAccess TerminalCutsAccess
PROPERTIES OnlyScanCommitsBreakContract
