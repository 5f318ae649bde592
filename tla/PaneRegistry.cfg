CONSTANTS Panes = {p1, p2}
          Named = {p1, p2}
          Deletes = {d1, d2}
          Watchers = {w1}
          Capacity = 1
          Name = Name
          None = None
SPECIFICATION FairSpec
INVARIANTS TypeOK EveryPaneAccountedFor DeletedOnce
PROPERTIES AmbiguousDeletesNothing WatchersConverge
