\* Two panes compete for the one thread of the pool; one of them may have jobs,
\* and the other inputs that its shell does not read.
CONSTANTS Panes = {p1, p2}
          Jobbers = {p1}
          Used = {p2}
          Faulty = {p2}
          Conns = {c1}
          PoolSize = 1
          Buffer = 1
SPECIFICATION FairSpec
INVARIANTS TypeOK NoShellOutlivesServer
PROPERTIES ExitIsShown DeletionFreesThreads ServerExits
CHECK_DEADLOCK FALSE
