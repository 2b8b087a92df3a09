SPECIFICATION FairSpec
CONSTANTS
  Passes = {1}
  Sessions = {s1}
  Tasks = {t1}
  Base = 1
  Bonus = {0, 1}
  Granted = {1}
  Notice = 1
  QuietUntil = 2
  DayEnd = 2
  MaxTime = 3
  MaxVersion = 3
  MaxFaults = 2
  NoRef = NoRef
INVARIANTS TypeOK OpenSessionsAreFound
PROPERTIES PaidTimeIsKept OverdueIsEnded ExpiredAccessIsClosed
