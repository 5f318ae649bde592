------------------------------ MODULE EventLog ------------------------------
(***************************************************************************)
(* The bounded event log of a pane (server/src/event.rs).  It is pure data *)
(* behind a read-write lock: the operators below are its methods, and the  *)
(* modules that EXTEND this one decide who calls them and when.            *)
(*                                                                         *)
(* An event keeps its sequence number and its data; the data is the number *)
(* of the chunk of PTY output it carries.  Timestamps are left out.        *)
(***************************************************************************)
EXTENDS Naturals, Sequences

CONSTANT MaxEvents      \* max_events: how many events the log retains

\* AppState rejects a limit of 0 and `PATCH /config' raises one to 100 or more.
ASSUME MaxEventsAssumption == MaxEvents \in Nat \ {0}

Event(seq, data) == [seq |-> seq, data |-> data]

\* EventLog::with_max_events
NewLog == [events |-> << >>, next_seq |-> 1]

\* Mutant of Push: makes room one event too late.
PushEvictsLate(log, data) ==
    LET kept == IF Len(log.events) > MaxEvents THEN Tail(log.events)
                                               ELSE log.events
    IN  [events   |-> Append(kept, Event(log.next_seq, data)),
         next_seq |-> log.next_seq + 1]

\* EventLog::push: the oldest event makes room, the new one takes next_seq.
Push(log, data) ==
    LET kept == IF Len(log.events) >= MaxEvents THEN Tail(log.events)
                                                ELSE log.events
    IN  [events   |-> Append(kept, Event(log.next_seq, data)),
         next_seq |-> log.next_seq + 1]

\* Mutant of PartitionPoint: skips only what is before `after'.
PartitionPointInclusive(events, after) ==
    CHOOSE n \in 0..Len(events) :
        /\ \A i \in 1..n : events[i].seq < after
        /\ \A i \in n+1..Len(events) : events[i].seq >= after

\* How many events `partition_point(|e| e.seq <= after)' skips.
PartitionPoint(events, after) ==
    CHOOSE n \in 0..Len(events) :
        /\ \A i \in 1..n : events[i].seq <= after
        /\ \A i \in n+1..Len(events) : events[i].seq > after

\* EventLog::since
Since(log, after) ==
    SubSeq(log.events, PartitionPoint(log.events, after) + 1, Len(log.events))

\* Mutant of LatestSeq: computed from next_seq, and one too low.
LatestSeqUnderflows(log) == log.next_seq - 2

\* latest_seq().unwrap_or(0)
LatestSeq(log) == IF log.events = << >> THEN 0 ELSE log.events[Len(log.events)].seq

=============================================================================
