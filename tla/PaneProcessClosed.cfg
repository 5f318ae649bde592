CONSTANTS Panes = {p1}
          Jobbers = {p1}
          Used = {p1}
          Faulty = {}
          Conns = {c1}
          PoolSize = 1
          Buffer = 1
SPECIFICATION FairSpec
PROPERTY DeletedPaneClosesStreams
CHECK_DEADLOCK FALSE
