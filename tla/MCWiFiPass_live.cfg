SPECIFICATION FairSpec
CONSTANTS
  Passes = {p1}
  Sessions = {r1}
  Loops = {beat}
  Lists = {list}
  Viewers = {view}
  UseCelery = TRUE
  Minutes = {1}
  DayEnd = 2
  MaxTime = 2
  MaxVersion = 3
  MaxWait = 1
  MaxFaults = 1
  NoRef = NoRef
PROPERTIES OverdueEnds
