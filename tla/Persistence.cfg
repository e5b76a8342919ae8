\* First joins of new users and rooms, with failures and a restart.
CONSTANTS
  Connections = {c1, c2, c3}
  Names = {n1, n2}
  Slugs = {r1, r2}
  None = None
  PoolSize = 2
  MaxFaults = 1
SPECIFICATION FairSpec
CHECK_DEADLOCK FALSE
INVARIANTS TypeOK RefsExist OpenIsLive RaceHasWinner
PROPERTIES JoinsEnd
