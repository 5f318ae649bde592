\* A client that may be slow: the receiver lags once it is 3 events behind, and
\* the log has forgotten the first chunks of a client that connects late.
CONSTANTS MaxEvents = 2
          Capacity = 2
          MaxOutput = 6
          Conns = {c1}
          Pollers = {p1}
SPECIFICATION PollSpec
INVARIANTS TypeOK RawStreamComplete DiffAppliesToItsBaseline ResyncCoversLastSent
           RetainsTheLastEvents SkipsOnlyEvicted
PROPERTIES ImplementsMirror StaysConnectedConverges
