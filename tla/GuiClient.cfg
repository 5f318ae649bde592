CONSTANTS Servers = {s1, s2}
          FirstServer = s1
          Ids = {1}
          Capacity = 1
          MaxConnects = 2
          MaxStreams = 1
          MaxRequests = 1
SPECIFICATION FairSpec
INVARIANTS TypeOK SelectedIsDrawable TasksAreThoseShown
PROPERTIES FrameEnds ListConverges
