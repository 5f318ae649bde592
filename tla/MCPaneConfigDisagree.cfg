CONSTANTS Panes = {p1}
          Slots = {s1, s2}
          Dims = {1, 2}
          Limits = {3}
          MinEvents = 2
          InitialSize <- SmallSize
          InitialMax = 1
          MaxRequests = 3
          MaxOverlap = 3
          MaxDropped = 0
SPECIFICATION Spec
INVARIANT SizesAgree
CHECK_DEADLOCK FALSE
SYMMETRY Symmetry
