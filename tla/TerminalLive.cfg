CONSTANTS p1 = p1
          p2 = p2
          Panes = {p1, p2}
          Sessions = {s1}
          Starts <- TwoStarts
          MaxRestarts = 1
          MaxMail = 2
          MaxEvents = 3
          None = None
SPECIFICATION FairSpec
INVARIANTS TypeOK ScreenIsOfSelected SubscribedToSelected
PROPERTIES ShowsLatest StreamReturns
CHECK_DEADLOCK FALSE
