CONSTANTS Panes = {p1}
          Named = {}
          Deletes = {d1, d2}
          Watchers = {w1}
          Capacity = 1
          Name = Name
          None = None
SPECIFICATION FairSpec
PROPERTY OvertakingDeletionIsSeen
