SPECIFICATION FairSpec
CONSTANTS
  Callers = {poll, request}
  Networks = {n1, n2}
  Blank = Blank
  None = None
  TTL = 2
  MaxChanges = 1
  MaxFailures = 1
INVARIANTS
  TypeOK
PROPERTIES
  OldOnlyWhileFetched
  OverviewCatchesUp
