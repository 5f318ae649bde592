\* Sizes of 1 at first and 2 when asked for; up to 3 requests may overlap.
CONSTANTS Panes = {p1, p2}
          Slots = {s1, s2}
          Dims = {0, 2}
          Limits = {0}
          MinEvents = 2
          InitialSize <- SmallSize
          InitialMax = 1
          MaxRequests = 4
          MaxOverlap = 3
          MaxDropped = 1
SPECIFICATION Spec
INVARIANTS TypeOK SizesAgreeAtRest AppliedToAll NothingDegenerate
SYMMETRY Symmetry
CHECK_DEADLOCK FALSE
