----------------------------- MODULE PaneStream -----------------------------
(***************************************************************************)
(* The output path of one pane: its PTY read loop (server/src/pane.rs)     *)
(* and the WebSocket stream connections that follow it                     *)
(* (server/src/handlers/stream.rs).                                        *)
(*                                                                         *)
(* The read loop hands each chunk of output to three shared objects, one   *)
(* lock at a time: the VT100 parser, the event log and the broadcast       *)
(* channel.  A connection reads the same three, also one at a time, so     *)
(* each of its steps may see them at a different moment.                   *)
(*                                                                         *)
(* Chunk k is the k-th chunk the shell writes.  A terminal screen is       *)
(* represented by the sequence of the chunks it is the result of: the      *)
(* server's parser only ever processes chunks in order, so its screen is   *)
(* Chunks(n) for some n; what a client shows may be anything.              *)
(***************************************************************************)
EXTENDS EventLog

CONSTANTS Conns,        \* stream connections
          Capacity,     \* slots of the broadcast channel (4096 in create_pane)
          MaxOutput     \* bound: chunks of output the shell writes

ASSUME CapacityAssumption == Capacity \in Nat \ {0}

VARIABLES reader,       \* the PTY read loop: where it is, and what it holds
          parser,       \* how many chunks the VT100 parser has processed
          log,          \* the event log
          chan,         \* every event ever sent on broadcast_tx
          conn          \* conn[c]: handle_ws of connection c and its client

vars == <<reader, parser, log, chan, conn>>

Chunks(n) == [i \in 1..n |-> i]

Larger(a, b) == IF a >= b THEN a ELSE b

-----------------------------------------------------------------------------
(***************************************************************************)
(* What a client's terminal shows after each kind of frame.                *)
(***************************************************************************)
\* The raw bytes of a chunk act on whatever the screen shows.
ApplyChunk(view, k) == Append(view, k)

\* A resync frame (state_formatted) replaces the whole screen.
ApplyResync(view, n) == Chunks(n)

Garbled == 0            \* stands for a diff applied to a screen it is not for

\* A diff (state_diff) turns Chunks(from) into Chunks(to), and any other
\* screen into garbage.  Between equal screens it is empty and never sent.
ApplyDiff(view, from, to) ==
    IF from = to THEN view
    ELSE IF view = Chunks(from) THEN Chunks(to)
    ELSE Append(view, Garbled)

-----------------------------------------------------------------------------
NoBaseline == [some |-> FALSE, screen |-> 0]
Baseline(n) == [some |-> TRUE, screen |-> n]

Idle == [pc |-> "idle", fmt |-> "Raw", rx |-> 0, last_sent_seq |-> 0,
         history |-> << >>, pending |-> 0, snapshot_seq |-> 0,
         lagged |-> FALSE, diff_baseline |-> NoBaseline, view |-> << >>]

Init == /\ reader = [pc |-> "read", chunk |-> 0, event |-> Event(0, 0)]
        /\ parser = 0
        /\ log = NewLog
        /\ chan = << >>
        /\ conn = [c \in Conns |-> Idle]

-----------------------------------------------------------------------------
(***************************************************************************)
(* The read loop of the pane, on a thread of the blocking pool.            *)
(***************************************************************************)
\* reader.read(&mut buf) = Ok(n): the shell has written one more chunk.
Read == /\ reader.pc = "read"
        /\ reader.chunk < MaxOutput
        /\ reader' = [reader EXCEPT !.pc = "process", !.chunk = @ + 1]
        /\ UNCHANGED <<parser, log, chan, conn>>

\* parser.blocking_write().process(&data)
Process == /\ reader.pc = "process"
           /\ parser' = reader.chunk
           /\ reader' = [reader EXCEPT !.pc = "push"]
           /\ UNCHANGED <<log, chan, conn>>

\* event_log.blocking_write().push(data), and the event to broadcast.
PushEvent == /\ reader.pc = "push"
             /\ log' = Push(log, reader.chunk)
             /\ reader' = [reader EXCEPT !.pc = "send",
                                         !.event = Event(log.next_seq, reader.chunk)]
             /\ UNCHANGED <<parser, chan, conn>>

\* tx.send(event): it never waits, a full channel overwrites its oldest slot.
Send == /\ reader.pc = "send"
        /\ chan' = Append(chan, reader.event)
        /\ reader' = [reader EXCEPT !.pc = "read"]
        /\ UNCHANGED <<parser, log, conn>>

\* Ok(0), EIO or another error: the loop ends.  (An interrupted read is
\* retried and changes nothing.)
ReadEnds == /\ reader.pc = "read"
            /\ reader' = [reader EXCEPT !.pc = "done"]
            /\ UNCHANGED <<parser, log, chan, conn>>

-----------------------------------------------------------------------------
(***************************************************************************)
(* handle_ws of connection c.                                              *)
(***************************************************************************)
\* The handler is at `from' and moves on: its connection becomes k.
Step(c, from, k) == /\ conn[c].pc = from
                    /\ conn' = [conn EXCEPT ![c] = k]
                    /\ UNCHANGED <<reader, parser, log, chan>>

\* The upgrade, and broadcast_tx.subscribe(): receive what is sent from now.
Subscribe(c, fmt) ==
    Step(c, "idle",
         [Idle EXCEPT !.pc = "read_history", !.fmt = fmt, !.rx = Len(chan)])

\* log.since(0)
ReadHistory(c) ==
    Step(c, "read_history",
         [conn[c] EXCEPT !.pc = "history", !.history = Since(log, 0)])

\* Mutant of SendHistory: counts everything logged by now as sent.
SendHistoryUpToLatest(c) ==
    LET event == Head(conn[c].history)
    IN  /\ conn[c].history # << >>
        /\ Step(c, "history",
                [conn[c] EXCEPT !.history = Tail(@),
                                !.last_sent_seq = LatestSeq(log),
                                !.view = ApplyChunk(@, event.data)])

\* One turn of `for event in history'.
SendHistory(c) ==
    LET event == Head(conn[c].history)
    IN  /\ conn[c].history # << >>
        /\ Step(c, "history",
                [conn[c] EXCEPT !.history = Tail(@),
                                !.last_sent_seq = event.seq,
                                !.view = ApplyChunk(@, event.data)])

\* Mutant of EndHistory: subscribes after the history instead of before it.
EndHistoryThenSubscribe(c) ==
    /\ conn[c].history = << >>
    /\ Step(c, "history",
            [conn[c] EXCEPT !.pc = IF conn[c].fmt = "ScreenDiff" THEN "resync_seq"
                                                                 ELSE "loop",
                            !.rx = Len(chan)])

\* The history is sent: screen_diff starts with a resync, raw does not.
EndHistory(c) ==
    /\ conn[c].history = << >>
    /\ Step(c, "history",
            [conn[c] EXCEPT !.pc = IF conn[c].fmt = "ScreenDiff" THEN "resync_seq"
                                                                 ELSE "loop"])

\* Mutant of SnapshotSeq: takes the seq of the next event for the latest.
SnapshotNextSeq(c) ==
    Step(c, "resync_seq",
         [conn[c] EXCEPT !.pc = "resync_screen", !.snapshot_seq = log.next_seq])

\* current_screen_snapshot, first half: the seq of the snapshot.
SnapshotSeq(c) ==
    Step(c, "resync_seq",
         [conn[c] EXCEPT !.pc = "resync_screen", !.snapshot_seq = LatestSeq(log)])

\* Mutant of SendResync: a resync after a lag leaves the baseline as it was.
SendResyncKeepsBaseline(c) ==
    Step(c, "resync_screen",
         [conn[c] EXCEPT
            !.pc = IF conn[c].lagged THEN "resubscribe" ELSE "loop",
            !.last_sent_seq = Larger(@, conn[c].snapshot_seq),
            !.diff_baseline = IF conn[c].lagged THEN @ ELSE Baseline(parser),
            !.view = ApplyResync(@, parser)])

\* Second half: the screen; it is sent as a resync frame and becomes the
\* baseline, on a lag only where there was one.
SendResync(c) ==
    LET keeps == conn[c].lagged /\ ~conn[c].diff_baseline.some
    IN  Step(c, "resync_screen",
             [conn[c] EXCEPT
                !.pc = IF conn[c].lagged THEN "resubscribe" ELSE "loop",
                !.last_sent_seq = Larger(@, conn[c].snapshot_seq),
                !.diff_baseline = IF keeps THEN @ ELSE Baseline(parser),
                !.view = ApplyResync(@, parser)])

\* The receiver is more than Capacity events behind: its slots are overwritten.
LagsBehind(c) == Len(chan) - conn[c].rx > Capacity

\* broadcast_rx.recv() = Ok(event), and what the loop makes of the event.
Receive(c) ==
    LET event == chan[conn[c].rx + 1]
        took == [conn[c] EXCEPT !.rx = @ + 1]
    IN  /\ conn[c].rx < Len(chan)
        /\ ~LagsBehind(c)
        /\ Step(c, "loop",
                IF event.seq <= conn[c].last_sent_seq THEN took
                ELSE IF conn[c].fmt = "Raw"
                THEN [took EXCEPT !.view = ApplyChunk(@, event.data),
                                  !.last_sent_seq = Larger(@, event.seq)]
                ELSE [took EXCEPT !.pc = "diff", !.pending = event.seq])

\* Mutant of SendDiff: the baseline does not move on to the screen just sent.
SendDiffKeepsBaseline(c) ==
    Step(c, "diff",
         [conn[c] EXCEPT
            !.pc = "loop",
            !.view = ApplyDiff(@, conn[c].diff_baseline.screen, parser),
            !.last_sent_seq = Larger(@, conn[c].pending)])

\* send_screen_diff: the parser is read again, after the event was received.
SendDiff(c) ==
    Step(c, "diff",
         [conn[c] EXCEPT
            !.pc = "loop",
            !.view = ApplyDiff(@, conn[c].diff_baseline.screen, parser),
            !.diff_baseline = Baseline(parser),
            !.last_sent_seq = Larger(@, conn[c].pending)])

\* recv() = Err(Lagged): tokio moves the receiver to the oldest slot left.
Lagged(c) ==
    /\ LagsBehind(c)
    /\ Step(c, "loop", [conn[c] EXCEPT !.pc = "resync_seq", !.lagged = TRUE,
                                       !.rx = Len(chan) - Capacity])

\* broadcast_rx = pane.broadcast_tx.subscribe(), once the resync is sent.
Resubscribe(c) ==
    Step(c, "resubscribe", [conn[c] EXCEPT !.pc = "loop", !.rx = Len(chan)])

\* A frame cannot be sent, or the client has closed its end.
Disconnect(c) ==
    \E from \in {"history", "resync_screen", "loop", "diff"} : Step(c, from, Idle)

-----------------------------------------------------------------------------
ReadLoop == Read \/ Process \/ PushEvent \/ Send \/ ReadEnds

Handle(c) ==
    \/ ReadHistory(c) \/ SendHistory(c) \/ EndHistory(c)
    \/ SnapshotSeq(c) \/ SendResync(c)
    \/ Receive(c) \/ SendDiff(c) \/ Lagged(c) \/ Resubscribe(c)

Next == \/ ReadLoop
        \/ \E c \in Conns : \/ \E fmt \in {"Raw", "ScreenDiff"} : Subscribe(c, fmt)
                            \/ Handle(c)
                            \/ Disconnect(c)

Spec == Init /\ [][Next]_vars

-----------------------------------------------------------------------------
(***************************************************************************)
(* Fairness.  What the loop has read it goes on to publish: its thread     *)
(* runs.  A handler whose next step is possible takes it: its task is      *)
(* scheduled, and its client goes on reading its socket.  Nothing makes    *)
(* the shell write, or a client connect or disconnect.                     *)
(***************************************************************************)
Fairness == /\ WF_vars(Process) /\ WF_vars(PushEvent) /\ WF_vars(Send)
            /\ \A c \in Conns : WF_vars(Handle(c))

FairSpec == Spec /\ Fairness

-----------------------------------------------------------------------------
EventType == [seq : Nat, data : Nat]

ConnType == [pc : {"idle", "read_history", "history", "resync_seq",
                   "resync_screen", "loop", "diff", "resubscribe"},
             fmt : {"Raw", "ScreenDiff"},
             rx : Nat, last_sent_seq : Nat, history : Seq(EventType),
             pending : Nat, snapshot_seq : Nat, lagged : BOOLEAN,
             diff_baseline : [some : BOOLEAN, screen : Nat], view : Seq(Nat)]

TypeOK ==
    /\ reader \in [pc : {"read", "process", "push", "send", "done"},
                   chunk : Nat, event : EventType]
    /\ parser \in Nat
    /\ log \in [events : Seq(EventType), next_seq : Nat]
    /\ chan \in Seq(EventType)
    /\ conn \in [Conns -> ConnType]

\* A run of chunks, and the last chunk a client shows.
Consecutive(view) ==
    \A i \in DOMAIN view : view[Len(view)] = view[i] + (Len(view) - i)

LastShown(c) == IF conn[c].view = << >> THEN 0
                ELSE conn[c].view[Len(conn[c].view)]

\* "Subscribe before reading history avoids a race": as long as it does not
\* lag, a raw client is sent every retained chunk exactly once and in order,
\* whatever the read loop does between the subscription and the history, and
\* last_sent_seq is the last one it has been sent.
RawStreamComplete ==
    \A c \in Conns :
        conn[c].fmt = "Raw" /\ ~conn[c].lagged =>
            /\ Consecutive(conn[c].view)
            /\ LastShown(c) = conn[c].last_sent_seq

\* diff_baseline is what a screen_diff client really shows, so that no diff is
\* ever applied to another screen than the one it was computed from, and that
\* screen holds every event up to last_sent_seq: the events the loop skips as
\* already sent are on the screen.  All of it, across lags too.
DiffAppliesToItsBaseline ==
    \A c \in Conns :
        conn[c].diff_baseline.some =>
            /\ conn[c].view = Chunks(conn[c].diff_baseline.screen)
            /\ conn[c].last_sent_seq <= conn[c].diff_baseline.screen

\* The comment in current_screen_snapshot: a resync's screen "is guaranteed to
\* represent at least" the seq read before it, so after a resync for either
\* format nothing up to last_sent_seq is missing from the client's screen.
ResyncCoversLastSent ==
    \A c \in Conns :
        conn[c].pc = "resubscribe" =>
            /\ conn[c].view = Chunks(Len(conn[c].view))
            /\ conn[c].last_sent_seq <= Len(conn[c].view)

CaughtUp(c) == Consecutive(conn[c].view) /\ LastShown(c) = parser

\* A client that stays connected and never lags ends up showing everything the
\* pane has processed, in order, from where the retained history began.
StaysConnectedConverges ==
    \A c \in Conns :
        <>[](conn[c].pc # "idle" /\ ~conn[c].lagged) => <>[]CaughtUp(c)

\* What a connection's client shows, in the terms of PaneMirror.  A raw client
\* that has lagged is no longer promised anything: see the two properties below.
Shown(k) ==
    LET Run(first, last) == [on |-> TRUE, first |-> first, last |-> last]
    IN  IF k.pc = "idle" \/ (k.fmt = "Raw" /\ k.lagged)
        THEN [on |-> FALSE, first |-> 0, last |-> 0]
        ELSE IF k.view = << >> THEN Run(1, 0)
        ELSE IF Consecutive(k.view) THEN Run(k.view[1], k.view[Len(k.view)])
        ELSE Run(0, 0)

Mirror == INSTANCE PaneMirror WITH
              output <- parser, shown <- [c \in Conns |-> Shown(conn[c])]

\* The connections implement PaneMirror: the screen of a client shows a run of
\* consecutive chunks that only grows at its end, for raw clients until they
\* lag, for screen_diff clients always.
ImplementsMirror == Mirror!Spec

-----------------------------------------------------------------------------
(***************************************************************************)
(* What the source says of a lag and the code does not do.                 *)
(***************************************************************************)
\* "Skip any buffered events older than the resync snapshot we just sent": the
\* events the new subscription leaves behind are all in that snapshot.
ResubscribeLosesNothing ==
    [][\A c \in Conns :
          conn[c].pc = "resubscribe" /\ conn'[c].pc = "loop" =>
              \A i \in conn[c].rx + 1 .. conn'[c].rx :
                  \E j \in DOMAIN conn[c].view : conn[c].view[j] = chan[i].data]_vars

=============================================================================
