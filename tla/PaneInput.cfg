CONSTANTS Panes = {p1, p2}
          Moody = {p2}
          Watched = {p1}
          Sessions = {s1}
          Workers = 3
          InCap = 1
          OutCap = 1
          TextSize = 2
          MaxRequests = 3
          None = None
SPECIFICATION FairSpec
INVARIANTS TypeOK WritesAreWhole EnterFollowsItsBody
PROPERTY InputIsServed
CHECK_DEADLOCK FALSE
