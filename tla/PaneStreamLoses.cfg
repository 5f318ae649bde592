CONSTANTS MaxEvents = 2
          Capacity = 1
          MaxOutput = 4
          Conns = {c1}
SPECIFICATION Spec
PROPERTY ResubscribeLosesNothing
