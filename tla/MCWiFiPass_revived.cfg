SPECIFICATION Spec
CONSTANTS
  Passes = {p1}
  Sessions = {r1}
  Loops = {loop}
  Lists = {}
  Viewers = {}
  UseCelery = FALSE
  Minutes = {1}
  DayEnd = 1
  MaxTime = 2
  MaxVersion = 4
  MaxWait = 1
  MaxFaults = 0
  NoRef = NoRef
PROPERTIES StaffEndingIsFinal
