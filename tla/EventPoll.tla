------------------------------ MODULE EventPoll ------------------------------
(***************************************************************************)
(* PaneStream with clients that poll GET /panes/{id}/events?after=<seq>    *)
(* (server/src/handlers/events.rs, and get_events of the Rust client).  A  *)
(* poller keeps the seq of the last event it was given and asks for what   *)
(* follows it, at any point of the read loop; between two polls the log    *)
(* may have evicted events the poller has not seen.                        *)
(***************************************************************************)
EXTENDS PaneStream

CONSTANT Pollers        \* clients that poll

VARIABLES cursor,       \* cursor[p]: the `after' of p's next request
          given         \* history: the events p was given, in order

pollVars == <<cursor, given>>
allVars == <<vars, pollVars>>

PollInit == /\ Init
            /\ cursor = [p \in Pollers |-> 0]
            /\ given = [p \in Pollers |-> << >>]

\* A step of the pane or of a connection.
PaneStep == Next /\ UNCHANGED pollVars

\* get_events_handler, and the poller taking note of the reply.
Poll(p) ==
    LET reply == Since(log, cursor[p])
    IN  /\ reply # << >>
        /\ given' = [given EXCEPT ![p] = @ \o reply]
        /\ cursor' = [cursor EXCEPT ![p] = reply[Len(reply)].seq]
        /\ UNCHANGED vars

PollNext == PaneStep \/ \E p \in Pollers : Poll(p)

PollSpec == PollInit /\ [][PollNext]_allVars /\ Fairness

-----------------------------------------------------------------------------
\* The log retains exactly the last MaxEvents chunks, each under the number of
\* its push, however the evictions and pushes of EventLog::push fall.
RetainsTheLastEvents ==
    LET n == log.next_seq - 1
        kept == IF n < MaxEvents THEN n ELSE MaxEvents
    IN  log.events = [i \in 1..kept |-> Event(n - kept + i, n - kept + i)]

\* Polling repeats nothing and skips only what was evicted before it was asked for:
\* a poller that uses the last seq as cursor is given rising seqs, and was given
\* every event up to its cursor that the log still has.
SkipsOnlyEvicted ==
    \A p \in Pollers :
        /\ \A i, j \in 1..Len(given[p]) : i < j => given[p][i].seq < given[p][j].seq
        /\ \A i \in 1..Len(log.events) : log.events[i].seq <= cursor[p] =>
              \E j \in 1..Len(given[p]) : given[p][j] = log.events[i]

=============================================================================
