-------------------------- MODULE PaneStreamProofs --------------------------
(***************************************************************************)
(* What PaneStream and EventPoll guarantee for any number of connections   *)
(* and pollers, any channel capacity, any retention limit and any amount   *)
(* of output.                                                              *)
(***************************************************************************)
EXTENDS EventPoll, SequenceTheorems, TLAPS

-----------------------------------------------------------------------------
(***************************************************************************)
(* Lemmas about the event log and the screens.                             *)
(***************************************************************************)
LogType == [events : Seq(EventType), next_seq : Nat]

\* EventLog::push keeps the log a log: bounded, and no longer empty.
LEMMA PushType ==
    ASSUME NEW l \in LogType, NEW d \in Nat
    PROVE  /\ Push(l, d) \in LogType
           /\ Push(l, d).next_seq = l.next_seq + 1
           /\ Push(l, d).events # << >>
<1> DEFINE kept == IF Len(l.events) >= MaxEvents THEN Tail(l.events) ELSE l.events
<1>1. MaxEvents \in Nat \ {0}
  BY MaxEventsAssumption
<1>2. kept \in Seq(EventType)
  BY <1>1 DEF LogType
<1>3. Event(l.next_seq, d) \in EventType
  BY DEF Event, EventType, LogType
<1>4. Append(kept, Event(l.next_seq, d)) \in Seq(EventType) \ {<< >>}
  BY <1>2, <1>3
<1> QED
  BY <1>4 DEF Push, LogType

\* EventLog::since(0) returns every retained event.
LEMMA SinceZero ==
    ASSUME NEW l \in LogType, \A i \in 1..Len(l.events) : l.events[i].seq > 0
    PROVE  Since(l, 0) = l.events
<1> DEFINE Point(n) == /\ \A i \in 1..n : l.events[i].seq <= 0
                       /\ \A i \in n+1..Len(l.events) : l.events[i].seq > 0
<1>1. Point(0) /\ 0 \in 0..Len(l.events)
  BY DEF LogType
<1>2. ASSUME NEW n \in 0..Len(l.events), Point(n)
      PROVE  n = 0
  <2> SUFFICES ASSUME n # 0 PROVE FALSE
    OBVIOUS
  <2>1. 1 \in 1..n /\ 1 \in 1..Len(l.events)
    BY DEF LogType
  <2>2. l.events[1].seq \in Nat
    <3>1. l.events \in Seq(EventType)
      BY DEF LogType
    <3>2. l.events[1] \in EventType
      BY <2>1, <3>1
    <3> QED
      BY <3>2 DEF EventType
  <2>3. l.events[1].seq <= 0 /\ l.events[1].seq > 0
    BY <1>2, <2>1
  <2> QED
    BY <2>2, <2>3
<1>3. PartitionPoint(l.events, 0) = 0
  BY <1>1, <1>2 DEF PartitionPoint
<1> QED
  BY <1>3, SubSeqProperties DEF Since, LogType

\* Sequences of consecutive chunks, and what each frame makes of them.
LEMMA ChunksType ==
    ASSUME NEW n \in Nat
    PROVE  /\ Chunks(n) \in Seq(Nat)
           /\ Len(Chunks(n)) = n
           /\ \A i \in 1..n : Chunks(n)[i] = i
           /\ Consecutive(Chunks(n))
           /\ Chunks(n) = << >> <=> n = 0
BY DEF Chunks, Consecutive

LEMMA ConsecutiveAppend ==
    ASSUME NEW v \in Seq(Nat), Consecutive(v), NEW k \in Nat,
           v # << >> => k = v[Len(v)] + 1
    PROVE  /\ Consecutive(Append(v, k))
           /\ Append(v, k) \in Seq(Nat)
           /\ Append(v, k) # << >>
           /\ Append(v, k)[Len(Append(v, k))] = k
           /\ v # << >> => Append(v, k)[1] = v[1]
           /\ v = << >> => Append(v, k)[1] = k
<1> DEFINE w == Append(v, k)
<1>1. /\ w \in Seq(Nat)
      /\ Len(w) = Len(v) + 1
      /\ w[Len(w)] = k
      /\ \A i \in 1..Len(v) : w[i] = v[i]
  BY AppendProperties
<1>2. DOMAIN v = 1..Len(v) /\ DOMAIN w = 1..Len(w) /\ Len(v) \in Nat
  BY <1>1
<1>3. v # << >> <=> Len(v) > 0
  OBVIOUS
<1>4. ASSUME NEW i \in 1..Len(w)
      PROVE  w[Len(w)] = w[i] + (Len(w) - i)
  <2>1. CASE i = Len(w)
    BY <1>1, <2>1
  <2>2. CASE i # Len(w)
    <3>1. i \in 1..Len(v) /\ v # << >>
      BY <1>1, <1>2, <1>3, <2>2
    <3>2. v[Len(v)] = v[i] + (Len(v) - i) /\ w[i] = v[i]
      BY <1>1, <1>2, <3>1 DEF Consecutive
    <3>3. v[i] \in Nat
      BY <3>1
    <3> QED
      BY <1>1, <1>2, <3>1, <3>2, <3>3
  <2> QED
    BY <2>1, <2>2
<1> HIDE DEF w
<1>5. Consecutive(w)
  BY <1>2, <1>4 DEF Consecutive
<1> QED
  BY <1>1, <1>2, <1>3, <1>5 DEF w

-----------------------------------------------------------------------------
(***************************************************************************)
(* Type correctness.                                                       *)
(***************************************************************************)
LEMMA IdleType == Idle \in ConnType
BY DEF Idle, ConnType, NoBaseline

LEMMA TypeInit == Init => TypeOK
BY IdleType DEF Init, TypeOK, Event, EventType, NewLog

LEMMA TypeReadLoop == TypeOK /\ ReadLoop => TypeOK'
<1> SUFFICES ASSUME TypeOK, ReadLoop PROVE TypeOK'
  OBVIOUS
<1> USE DEF TypeOK, EventType
<1>1. CASE Read
  <2>1. reader.chunk + 1 \in Nat
    OBVIOUS
  <2> QED
    BY <1>1, <2>1 DEF Read
<1>2. CASE Process
  BY <1>2 DEF Process
<1>3. CASE PushEvent
  <2>1. Push(log, reader.chunk) \in LogType
    BY PushType DEF LogType
  <2> QED
    BY <1>3, <2>1 DEF PushEvent, Event, LogType
<1>4. CASE Send
  <2>1. Append(chan, reader.event) \in Seq(EventType)
    BY AppendProperties
  <2> QED
    BY <1>4, <2>1 DEF Send
<1>5. CASE ReadEnds
  BY <1>5 DEF ReadEnds
<1> QED
  BY <1>1, <1>2, <1>3, <1>4, <1>5 DEF ReadLoop

LEMMA SinceType ==
    ASSUME NEW l \in LogType, \A i \in 1..Len(l.events) : l.events[i].seq > 0
    PROVE  Since(l, 0) \in Seq(EventType)
BY SinceZero DEF LogType

LEMMA LatestSeqType ==
    ASSUME NEW l \in LogType
    PROVE  LatestSeq(l) \in Nat
<1>1. l.events \in Seq(EventType)
  BY DEF LogType
<1>2. ASSUME l.events # << >>
      PROVE  l.events[Len(l.events)] \in EventType
  BY <1>1, <1>2
<1> QED
  BY <1>2 DEF LatestSeq, EventType

\* A handler's step keeps the types if what the connection becomes has its type.
LEMMA StepType ==
    ASSUME TypeOK, NEW c \in Conns, NEW from, NEW k \in ConnType, Step(c, from, k)
    PROVE  TypeOK'
BY DEF TypeOK, Step

LEMMA TypeHandle ==
    ASSUME TypeOK, \A i \in 1..Len(log.events) : log.events[i].seq > 0,
           NEW c \in Conns, Handle(c) \/ Disconnect(c)
           \/ \E fmt \in {"Raw", "ScreenDiff"} : Subscribe(c, fmt)
    PROVE  TypeOK'
<1> DEFINE k == conn[c]
<1>0. k \in ConnType /\ log \in LogType /\ parser \in Nat /\ chan \in Seq(EventType)
  BY DEF TypeOK, LogType
<1>0a. Len(chan) \in Nat
  BY <1>0
<1>1. ASSUME NEW fmt \in {"Raw", "ScreenDiff"}, Subscribe(c, fmt)
      PROVE  TypeOK'
  <2>1. [Idle EXCEPT !.pc = "read_history", !.fmt = fmt, !.rx = Len(chan)] \in ConnType
    BY <1>0a, IdleType DEF ConnType
  <2> QED
    BY <1>1, <2>1, StepType DEF Subscribe
<1>2. CASE ReadHistory(c)
  <2>1. [k EXCEPT !.pc = "history", !.history = Since(log, 0)] \in ConnType
    BY <1>0, SinceType DEF ConnType
  <2> QED
    BY <1>2, <2>1, StepType DEF ReadHistory
<1>3. CASE SendHistory(c)
  <2> DEFINE event == Head(k.history)
  <2>1. k.history \in Seq(EventType) /\ k.history # << >> /\ k.view \in Seq(Nat)
    BY <1>0, <1>3 DEF SendHistory, ConnType
  <2>2. event.seq \in Nat /\ event.data \in Nat /\ Tail(k.history) \in Seq(EventType)
    <3>1. event \in EventType /\ Tail(k.history) \in Seq(EventType)
      BY <2>1, HeadTailProperties
    <3> QED
      BY <3>1 DEF EventType
  <2>3. Append(k.view, event.data) \in Seq(Nat)
    BY <2>1, <2>2
  <2>4. [k EXCEPT !.history = Tail(@), !.last_sent_seq = event.seq,
                  !.view = ApplyChunk(@, event.data)] \in ConnType
    BY <1>0, <2>2, <2>3 DEF ConnType, ApplyChunk
  <2> QED
    BY <1>3, <2>4, StepType DEF SendHistory
<1>4. CASE EndHistory(c)
  <2>1. ASSUME NEW pc \in {"resync_seq", "loop"}
        PROVE  [k EXCEPT !.pc = pc] \in ConnType
    BY <1>0 DEF ConnType
  <2> QED
    BY <1>4, <2>1, StepType DEF EndHistory
<1>5. CASE SnapshotSeq(c)
  <2>1. [k EXCEPT !.pc = "resync_screen", !.snapshot_seq = LatestSeq(log)] \in ConnType
    BY <1>0, LatestSeqType DEF ConnType
  <2> QED
    BY <1>5, <2>1, StepType DEF SnapshotSeq
<1>6. CASE SendResync(c)
  <2>1. Larger(k.last_sent_seq, k.snapshot_seq) \in Nat
    BY <1>0 DEF ConnType, Larger
  <2>2. Chunks(parser) \in Seq(Nat)
    BY <1>0, ChunksType
  <2>3. ASSUME NEW pc \in {"resubscribe", "loop"},
               NEW baseline \in [some : BOOLEAN, screen : Nat]
        PROVE  [k EXCEPT !.pc = pc, !.last_sent_seq = Larger(@, k.snapshot_seq),
                         !.diff_baseline = baseline, !.view = ApplyResync(@, parser)]
               \in ConnType
    BY <1>0, <2>1, <2>2 DEF ConnType, ApplyResync
  <2>4. k.diff_baseline \in [some : BOOLEAN, screen : Nat]
        /\ Baseline(parser) \in [some : BOOLEAN, screen : Nat]
    BY <1>0 DEF ConnType, Baseline
  <2> QED
    BY <1>6, <2>3, <2>4, StepType DEF SendResync
<1>7. CASE Receive(c)
  <2> DEFINE event == chan[k.rx + 1]
             took == [k EXCEPT !.rx = @ + 1]
  <2>1. k.rx + 1 \in 1..Len(chan)
    BY <1>0, <1>0a, <1>7 DEF Receive, ConnType
  <2>2. event \in EventType
    BY <1>0, <2>1
  <2>3. event.seq \in Nat /\ event.data \in Nat
    BY <2>2 DEF EventType
  <2>4. Append(k.view, event.data) \in Seq(Nat) /\ Larger(k.last_sent_seq, event.seq) \in Nat
    <3>1. k.view \in Seq(Nat) /\ k.last_sent_seq \in Nat
      BY <1>0 DEF ConnType
    <3> QED
      BY <2>3, <3>1 DEF Larger
  <2>5. took \in ConnType
    <3>1. k.rx + 1 \in Nat
      BY <2>1
    <3>2. took = [k EXCEPT !.rx = k.rx + 1]
      BY <1>0 DEF ConnType
    <3> HIDE DEF k
    <3>3. ASSUME NEW n \in Nat PROVE [k EXCEPT !.rx = n] \in ConnType
      BY <1>0 DEF ConnType
    <3> QED
      BY <3>1, <3>2, <3>3
  <2>6. [took EXCEPT !.view = ApplyChunk(@, event.data),
                     !.last_sent_seq = Larger(@, event.seq)] \in ConnType
    <3> DEFINE seen == Append(k.view, event.data)
               sent == Larger(k.last_sent_seq, event.seq)
    <3>1. seen \in Seq(Nat) /\ sent \in Nat
      BY <2>4
    <3>2. [took EXCEPT !.view = ApplyChunk(@, event.data),
                       !.last_sent_seq = Larger(@, event.seq)]
          = [took EXCEPT !.view = seen, !.last_sent_seq = sent]
      BY <1>0 DEF ConnType, ApplyChunk
    <3> HIDE DEF seen, sent, took
    <3>3. [took EXCEPT !.view = seen, !.last_sent_seq = sent] \in ConnType
      BY <2>5, <3>1 DEF ConnType
    <3> QED
      BY <3>2, <3>3
  <2>7. [took EXCEPT !.pc = "diff", !.pending = event.seq] \in ConnType
    BY <1>0, <2>3, <2>5 DEF ConnType
  <2> QED
    BY <1>7, <2>5, <2>6, <2>7, StepType DEF Receive
<1>8. CASE SendDiff(c)
  <2>1. ApplyDiff(k.view, k.diff_baseline.screen, parser) \in Seq(Nat)
    BY <1>0, ChunksType DEF ConnType, ApplyDiff, Garbled
  <2>2. Baseline(parser) \in [some : BOOLEAN, screen : Nat]
        /\ Larger(k.last_sent_seq, k.pending) \in Nat
    BY <1>0 DEF ConnType, Baseline, Larger
  <2>3. [k EXCEPT !.pc = "loop", !.view = ApplyDiff(@, k.diff_baseline.screen, parser),
                  !.diff_baseline = Baseline(parser),
                  !.last_sent_seq = Larger(@, k.pending)] \in ConnType
    BY <1>0, <2>1, <2>2 DEF ConnType
  <2> QED
    BY <1>8, <2>3, StepType DEF SendDiff
<1>9. CASE Lagged(c)
  <2>1. Len(chan) - Capacity \in Nat
    BY <1>0, <1>0a, <1>9, CapacityAssumption DEF Lagged, LagsBehind, ConnType
  <2>2. [k EXCEPT !.pc = "resync_seq", !.lagged = TRUE, !.rx = Len(chan) - Capacity]
        \in ConnType
    BY <1>0, <2>1 DEF ConnType
  <2> QED
    BY <1>9, <2>2, StepType DEF Lagged
<1>10. CASE Resubscribe(c)
  <2>1. [k EXCEPT !.pc = "loop", !.rx = Len(chan)] \in ConnType
    BY <1>0, <1>0a DEF ConnType
  <2> QED
    BY <1>10, <2>1, StepType DEF Resubscribe
<1>11. CASE Disconnect(c)
  BY <1>11, IdleType, StepType DEF Disconnect
<1> QED
  BY <1>1, <1>2, <1>3, <1>4, <1>5, <1>6, <1>7, <1>8, <1>9, <1>10, <1>11 DEF Handle

-----------------------------------------------------------------------------
(***************************************************************************)
(* The inductive invariant.                                                *)
(*                                                                         *)
(* Pipeline says how far apart the read loop's three writes may be, and    *)
(* that chunk n is event n everywhere.  Connected says of a connection,    *)
(* given how many events have been sent, what the latest logged one is and *)
(* how much the parser has processed, what its cursors and its client's    *)
(* screen have to do with each other at each point of handle_ws.           *)
(***************************************************************************)
latest_seq == log.next_seq - 1

Pipeline ==
    /\ log.next_seq >= 1
    /\ Len(log.events) <= latest_seq
    /\ latest_seq > 0 => log.events # << >>
    /\ \A i \in 1..Len(log.events) :
          LET n == latest_seq - Len(log.events) + i
          IN  log.events[i] = Event(n, n)
    /\ \A i \in 1..Len(chan) : chan[i] = Event(i, i)
    /\ reader.pc \in {"read", "done"} =>
          parser = reader.chunk /\ latest_seq = parser /\ Len(chan) = parser
    /\ reader.pc = "process" =>
          reader.chunk = parser + 1 /\ latest_seq = parser /\ Len(chan) = parser
    /\ reader.pc = "push" =>
          reader.chunk = parser /\ latest_seq = parser - 1 /\ Len(chan) = parser - 1
    /\ reader.pc = "send" =>
          /\ reader.chunk = parser /\ latest_seq = parser /\ Len(chan) = parser - 1
          /\ reader.event = Event(parser, parser)

LastOf(view) == IF view = << >> THEN 0 ELSE view[Len(view)]

\* A run of chunks the parser has processed.
IsRun(view, screen) ==
    /\ Consecutive(view)
    /\ view # << >> => view[1] >= 1 /\ view[Len(view)] <= screen

\* The history still to be sent continues the screen and reaches the
\* subscription: what it leaves out the receiver will still be given.
HistoryContinues(k, latest) ==
    LET h == k.history
    IN  /\ h = << >> => k.rx <= k.last_sent_seq
        /\ h # << >> => /\ h[1].seq >= 1
                        /\ k.rx <= h[1].seq + Len(h) - 1
                        /\ h[1].seq + Len(h) - 1 <= latest
                        /\ k.view # << >> => h[1].seq = k.last_sent_seq + 1
        /\ \A i \in 1..Len(h) : h[i] = Event(h[1].seq + i - 1, h[1].seq + i - 1)

Connected(k, sent, latest, screen) ==
    /\ k.rx <= sent
    /\ k.last_sent_seq <= latest
    /\ k.fmt = "ScreenDiff" \/ ~k.lagged => IsRun(k.view, screen)
    /\ k.fmt = "Raw" => ~k.diff_baseline.some
    /\ k.fmt = "Raw" /\ ~k.lagged =>
          /\ LastOf(k.view) = k.last_sent_seq
          /\ k.pc \in {"idle", "read_history", "history", "loop"}
          /\ k.pc = "loop" => k.rx <= k.last_sent_seq
    /\ k.pc \in {"idle", "read_history"} => k.view = << >> /\ k.last_sent_seq = 0
    /\ k.pc = "history" => HistoryContinues(k, latest) /\ LastOf(k.view) = k.last_sent_seq
    /\ k.pc \in {"idle", "read_history", "history"} =>
          ~k.lagged /\ ~k.diff_baseline.some
    /\ k.fmt = "ScreenDiff" /\ k.pc \in {"loop", "diff", "resubscribe"} =>
          k.diff_baseline.some
    /\ k.fmt = "ScreenDiff" /\ k.lagged => k.diff_baseline.some
    /\ k.diff_baseline.some =>
          /\ k.view = Chunks(k.diff_baseline.screen)
          /\ k.last_sent_seq <= k.diff_baseline.screen
          /\ k.diff_baseline.screen <= screen
    /\ k.pc = "resync_screen" => k.snapshot_seq <= latest
    /\ k.pc = "diff" => k.fmt = "ScreenDiff" /\ k.pending <= latest
    /\ k.pc = "resubscribe" =>
          /\ k.lagged
          /\ k.view = Chunks(Len(k.view))
          /\ k.last_sent_seq <= Len(k.view)

Inv == /\ TypeOK
       /\ Pipeline
       /\ \A c \in Conns : Connected(conn[c], Len(chan), latest_seq, parser)

LEMMA ChunksRun ==
    ASSUME NEW n \in Nat
    PROVE  /\ Chunks(n) \in Seq(Nat)
           /\ Len(Chunks(n)) = n
           /\ IsRun(Chunks(n), n)
<1>1. /\ Chunks(n) \in Seq(Nat) /\ Len(Chunks(n)) = n /\ Consecutive(Chunks(n))
      /\ \A i \in 1..n : Chunks(n)[i] = i
  BY ChunksType
<1>2. ASSUME Chunks(n) # << >>
      PROVE  Chunks(n)[1] = 1 /\ Chunks(n)[n] = n
  <2>1. 1 \in 1..n /\ n \in 1..n
    BY <1>2, ChunksType
  <2> QED
    BY <1>1, <2>1
<1> QED
  BY <1>1, <1>2 DEF IsRun

LEMMA InvInit == Init => Inv
<1> SUFFICES ASSUME Init PROVE Inv
  OBVIOUS
<1>1. TypeOK
  BY TypeInit
<1>2. Pipeline
  BY DEF Init, Pipeline, NewLog, latest_seq
<1>3. ASSUME NEW c \in Conns
      PROVE  Connected(conn[c], Len(chan), latest_seq, parser)
  BY DEF Init, Connected, Idle, NoBaseline, IsRun, Consecutive, LastOf, NewLog, latest_seq
<1> QED
  BY <1>1, <1>2, <1>3 DEF Inv

\* What has been sent, logged and processed only grows, and that disturbs no
\* connection.
LEMMA ConnectedGrows ==
    ASSUME NEW k \in ConnType,
           NEW s \in Nat, NEW l \in Nat, NEW p \in Nat,
           NEW s1 \in Nat, NEW l1 \in Nat, NEW p1 \in Nat,
           s <= s1, l <= l1, p <= p1, Connected(k, s, l, p)
    PROVE  Connected(k, s1, l1, p1)
<1>1. /\ k.rx \in Nat /\ k.last_sent_seq \in Nat /\ k.snapshot_seq \in Nat
      /\ k.pending \in Nat /\ k.diff_baseline.screen \in Nat
      /\ k.view \in Seq(Nat) /\ k.history \in Seq(EventType)
  BY DEF ConnType
<1>2. ASSUME k.view # << >> PROVE k.view[Len(k.view)] \in Nat
  BY <1>1, <1>2
<1>3. ASSUME k.history # << >> PROVE k.history[1].seq + Len(k.history) - 1 \in Int
  <2>1. k.history[1] \in EventType /\ Len(k.history) \in Nat
    BY <1>1, <1>3
  <2> QED
    BY <2>1 DEF EventType
<1>4. IsRun(k.view, p) => IsRun(k.view, p1)
  BY <1>2 DEF IsRun
<1>5. HistoryContinues(k, l) => HistoryContinues(k, l1)
  BY <1>3 DEF HistoryContinues
<1> QED
  BY <1>1, <1>4, <1>5 DEF Connected

LEMMA PipelineReadLoop ==
    ASSUME TypeOK, Pipeline, ReadLoop
    PROVE  /\ Pipeline'
           /\ Len(chan) <= Len(chan') /\ latest_seq <= latest_seq' /\ parser <= parser'
<1>1. /\ reader.pc \in {"read", "process", "push", "send", "done"}
      /\ reader.chunk \in Nat /\ parser \in Nat /\ log.next_seq \in Nat
      /\ log.events \in Seq(EventType) /\ chan \in Seq(EventType) /\ log \in LogType
      /\ reader = [pc |-> reader.pc, chunk |-> reader.chunk, event |-> reader.event]
  BY DEF TypeOK, LogType
<1>2. Len(chan) \in Nat /\ Len(log.events) \in Nat
  BY <1>1
<1>3. CASE Read
  BY <1>1, <1>2, <1>3 DEF Read, Pipeline, latest_seq
<1>4. CASE Process
  BY <1>1, <1>2, <1>4 DEF Process, Pipeline, latest_seq
<1>5. CASE PushEvent
  <2> DEFINE n == log.next_seq
             kept == IF Len(log.events) >= MaxEvents THEN Tail(log.events) ELSE log.events
             d == IF Len(log.events) >= MaxEvents THEN 1 ELSE 0
  <2>1. reader.chunk = n /\ parser = n /\ Len(chan) = n - 1
    BY <1>1, <1>5 DEF PushEvent, Pipeline, latest_seq
  <2>2. /\ kept \in Seq(EventType) /\ Len(kept) = Len(log.events) - d
        /\ \A i \in 1..Len(kept) : kept[i] = log.events[i + d]
    <3>1. CASE Len(log.events) >= MaxEvents
      <4>1. log.events # << >>
        BY <1>1, <3>1, MaxEventsAssumption
      <4> QED
        BY <1>1, <3>1, <4>1, HeadTailProperties
    <3>2. CASE ~(Len(log.events) >= MaxEvents)
      BY <1>1, <1>2, <3>2
    <3> QED
      BY <3>1, <3>2
  <2>3. log' = [events |-> Append(kept, Event(n, n)), next_seq |-> n + 1]
    BY <1>5, <2>1 DEF PushEvent, Push
  <2>4. Event(n, n) \in EventType
    BY <1>1 DEF Event, EventType
  <2> DEFINE after == Append(kept, Event(n, n))
  <2>5. /\ after \in Seq(EventType) /\ Len(after) = Len(kept) + 1 /\ after # << >>
        /\ after[Len(after)] = Event(n, n)
        /\ \A i \in 1..Len(kept) : after[i] = kept[i]
    BY <2>2, <2>4, AppendProperties
  <2>6. Len(kept) \in Nat /\ d \in {0, 1}
    BY <2>2
  <2> HIDE DEF kept, d
  <2>7. ASSUME NEW i \in 1..Len(after)
        PROVE  after[i] = Event(n - Len(after) + i, n - Len(after) + i)
    <3>1. CASE i = Len(after)
      BY <1>1, <2>5, <2>6, <3>1
    <3>2. CASE i # Len(after)
      <4>1. i \in 1..Len(kept) /\ i + d \in 1..Len(log.events)
        BY <1>2, <2>2, <2>5, <2>6, <3>2
      <4>2. after[i] = log.events[i + d]
        BY <2>2, <2>5, <4>1
      <4>3. latest_seq - Len(log.events) + (i + d) = n - Len(after) + i
        <5>1. Len(after) = Len(log.events) - d + 1 /\ i \in Int /\ n \in Int
          BY <1>1, <2>2, <2>5, <2>6
        <5>2. latest_seq = n - 1
          BY DEF latest_seq
        <5> HIDE DEF after, n
        <5> QED
          BY <1>2, <2>6, <5>1, <5>2
      <4>4. \A j \in 1..Len(log.events) :
              log.events[j] = Event(latest_seq - Len(log.events) + j,
                                    latest_seq - Len(log.events) + j)
        BY DEF Pipeline
      <4>5. log.events[i + d] = Event(latest_seq - Len(log.events) + (i + d),
                                      latest_seq - Len(log.events) + (i + d))
        BY <4>1, <4>4
      <4> QED
        BY <4>2, <4>3, <4>5
    <3> QED
      BY <3>1, <3>2
  <2>8. Len(after) <= n
    BY <1>1, <1>2, <2>2, <2>5, <2>6 DEF Pipeline, latest_seq
  <2> HIDE DEF after
  <2>9. log'.events = after /\ log'.next_seq = n + 1
    BY <2>3 DEF after
  <2>10. /\ chan' = chan /\ parser' = parser /\ reader'.pc = "send"
         /\ reader'.chunk = n /\ reader'.event = Event(n, n)
    BY <1>1, <1>5, <2>1 DEF PushEvent
  <2> QED
    BY <1>1, <1>2, <2>1, <2>5, <2>7, <2>8, <2>9, <2>10 DEF Pipeline, latest_seq
<1>6. CASE Send
  <2>1. reader.event = Event(parser, parser) /\ Len(chan) = parser - 1
        /\ reader.chunk = parser /\ latest_seq = parser
    BY <1>6 DEF Send, Pipeline
  <2>2. reader.event \in EventType
    BY DEF TypeOK
  <2>3. /\ Len(chan') = Len(chan) + 1
        /\ chan'[Len(chan) + 1] = reader.event
        /\ \A i \in 1..Len(chan) : chan'[i] = chan[i]
    BY <1>1, <1>6, <2>2, AppendProperties DEF Send
  <2>4. \A i \in 1..Len(chan') : chan'[i] = Event(i, i)
    <3>1. ASSUME NEW i \in 1..Len(chan') PROVE i \in 1..Len(chan) \/ i = parser
      BY <1>1, <1>2, <2>1, <2>3
    <3> QED
      BY <1>1, <1>2, <2>1, <2>3, <3>1 DEF Pipeline
  <2>5. UNCHANGED <<parser, log>> /\ reader'.pc = "read" /\ reader'.chunk = reader.chunk
    BY <1>1, <1>6 DEF Send
  <2> QED
    BY <1>1, <1>2, <2>1, <2>3, <2>4, <2>5 DEF Pipeline, latest_seq
<1>7. CASE ReadEnds
  BY <1>1, <1>2, <1>7 DEF ReadEnds, Pipeline, latest_seq
<1> QED
  BY <1>3, <1>4, <1>5, <1>6, <1>7 DEF ReadLoop

LEMMA InvReadLoop ==
    ASSUME Inv, ReadLoop
    PROVE  Inv'
<1>1. TypeOK'
  BY TypeReadLoop DEF Inv
<1>2. Pipeline' /\ Len(chan) <= Len(chan') /\ latest_seq <= latest_seq' /\ parser <= parser'
  BY PipelineReadLoop DEF Inv
<1>3. conn' = conn
  BY DEF ReadLoop, Read, Process, PushEvent, Send, ReadEnds
<1>4. /\ Len(chan) \in Nat /\ latest_seq \in Nat /\ parser \in Nat
      /\ Len(chan') \in Nat /\ latest_seq' \in Nat /\ parser' \in Nat
  BY <1>1, <1>2 DEF Inv, TypeOK, Pipeline, latest_seq
<1>5. ASSUME NEW c \in Conns
      PROVE  Connected(conn'[c], Len(chan'), latest_seq', parser')
  <2>1. conn[c] \in ConnType /\ Connected(conn[c], Len(chan), latest_seq, parser)
    BY DEF Inv, TypeOK
  <2> HIDE DEF latest_seq, Connected, ConnType
  <2>2. Connected(conn[c], Len(chan'), latest_seq', parser')
    BY <1>2, <1>4, <2>1, ConnectedGrows
  <2> QED
    BY <1>3, <2>2
<1> QED
  BY <1>1, <1>2, <1>5 DEF Inv

\* What the invariant says of the numbers a handler compares.
LEMMA InvNumbers ==
    ASSUME Inv, NEW c \in Conns
    PROVE  /\ Len(chan) \in Nat /\ latest_seq \in Nat /\ parser \in Nat
           /\ Len(chan) <= latest_seq /\ latest_seq <= parser
           /\ conn[c] \in ConnType
           /\ conn[c].rx \in Nat /\ conn[c].last_sent_seq \in Nat
           /\ conn[c].snapshot_seq \in Nat /\ conn[c].pending \in Nat
           /\ conn[c].diff_baseline.screen \in Nat
           /\ conn[c].view \in Seq(Nat) /\ conn[c].history \in Seq(EventType)
           /\ Connected(conn[c], Len(chan), latest_seq, parser)
           /\ LatestSeq(log) = latest_seq
           /\ \A i \in 1..Len(log.events) : log.events[i].seq > 0
<1>1. /\ TypeOK /\ Pipeline /\ Connected(conn[c], Len(chan), latest_seq, parser)
      /\ log.events \in Seq(EventType) /\ log.next_seq \in Nat
  BY DEF Inv, TypeOK
<1>2. Len(chan) \in Nat /\ Len(log.events) \in Nat /\ latest_seq \in Nat /\ parser \in Nat
  BY <1>1 DEF TypeOK, Pipeline, latest_seq
<1>3. Len(chan) <= latest_seq /\ latest_seq <= parser
  BY <1>1, <1>2 DEF TypeOK, Pipeline
<1>4. conn[c] \in ConnType
  BY <1>1 DEF TypeOK
<1>5. ASSUME NEW i \in 1..Len(log.events)
      PROVE  log.events[i].seq = (latest_seq - Len(log.events)) + i
  <2>1. \A j \in 1..Len(log.events) :
           log.events[j] = Event(latest_seq - Len(log.events) + j,
                                 latest_seq - Len(log.events) + j)
    BY <1>1 DEF Pipeline
  <2>2. log.events[i] = Event(latest_seq - Len(log.events) + i,
                              latest_seq - Len(log.events) + i)
    BY <2>1
  <2> QED
    BY <2>2 DEF Event
<1>6. ASSUME NEW i \in 1..Len(log.events)
      PROVE  log.events[i].seq > 0
  <2>1. Len(log.events) <= latest_seq
    BY <1>1 DEF Pipeline
  <2>2. log.events[i].seq = (latest_seq - Len(log.events)) + i
    BY <1>5
  <2>3. i \in Nat /\ i >= 1 /\ latest_seq - Len(log.events) \in Nat
    BY <1>2, <2>1
  <2> QED
    BY <2>2, <2>3
<1>7. LatestSeq(log) = latest_seq
  <2>1. CASE log.events = << >>
    <3>1. ~(latest_seq > 0)
      BY <1>1, <2>1 DEF Pipeline
    <3> QED
      BY <1>2, <2>1, <3>1 DEF LatestSeq
  <2>2. CASE log.events # << >>
    <3>1. Len(log.events) \in 1..Len(log.events)
      BY <1>1, <1>2, <2>2
    <3>2. log.events[Len(log.events)].seq = latest_seq
      <4>1. log.events[Len(log.events)].seq
            = (latest_seq - Len(log.events)) + Len(log.events)
        BY <1>5, <3>1
      <4> QED
        BY <1>2, <4>1
    <3> QED
      BY <2>2, <3>2 DEF LatestSeq
  <2> QED
    BY <2>1, <2>2
<1> QED
  BY <1>1, <1>2, <1>3, <1>4, <1>6, <1>7 DEF ConnType

\* A handler's step keeps the invariant if what its connection becomes has the
\* type and the invariant of a connection.
LEMMA InvStep ==
    ASSUME Inv, TypeOK', NEW c \in Conns, NEW from, NEW k, Step(c, from, k),
           Connected(k, Len(chan), latest_seq, parser)
    PROVE  Inv'
<1>1. /\ conn' = [conn EXCEPT ![c] = k] /\ chan' = chan /\ log' = log
      /\ parser' = parser /\ reader' = reader
  BY DEF Step
<1>2. conn \in [Conns -> ConnType] /\ Pipeline
  BY DEF Inv, TypeOK
<1>3. Pipeline'
  BY <1>1, <1>2 DEF Pipeline, latest_seq
<1>4. latest_seq' = latest_seq
  BY <1>1 DEF latest_seq
<1>5. ASSUME NEW d \in Conns
      PROVE  Connected(conn'[d], Len(chan'), latest_seq', parser')
  <2>1. conn'[d] = IF d = c THEN k ELSE conn[d]
    BY <1>1, <1>2
  <2>2. Connected(conn[d], Len(chan), latest_seq, parser)
    BY DEF Inv
  <2> HIDE DEF Connected, latest_seq
  <2> QED
    BY <1>1, <1>4, <2>1, <2>2
<1> QED
  BY <1>3, <1>5 DEF Inv

LEMMA InvHandle ==
    ASSUME Inv, NEW c \in Conns,
           Handle(c) \/ Disconnect(c)
           \/ \E fmt \in {"Raw", "ScreenDiff"} : Subscribe(c, fmt)
    PROVE  Inv'
<1> DEFINE k == conn[c]
           OK(r) == Connected(r, Len(chan), latest_seq, parser)
<1>0. TypeOK'
  BY InvNumbers, TypeHandle DEF Inv
<1>1. /\ Len(chan) \in Nat /\ latest_seq \in Nat /\ parser \in Nat
      /\ Len(chan) <= latest_seq /\ latest_seq <= parser
      /\ k \in ConnType
      /\ k.rx \in Nat /\ k.last_sent_seq \in Nat
      /\ k.snapshot_seq \in Nat /\ k.pending \in Nat
      /\ k.diff_baseline.screen \in Nat
      /\ k.view \in Seq(Nat) /\ k.history \in Seq(EventType)
      /\ OK(k)
      /\ LatestSeq(log) = latest_seq
      /\ \A i \in 1..Len(log.events) : log.events[i].seq > 0
  BY InvNumbers
<1>2. OK(Idle)
  BY <1>1 DEF Connected, Idle, NoBaseline, IsRun, Consecutive, LastOf
<1> HIDE DEF latest_seq, OK, k
<1>3. ASSUME NEW fmt \in {"Raw", "ScreenDiff"}, Subscribe(c, fmt)
      PROVE  Inv'
  <2>1. OK([Idle EXCEPT !.pc = "read_history", !.fmt = fmt, !.rx = Len(chan)])
    BY <1>1 DEF OK, Connected, Idle, NoBaseline, IsRun, Consecutive, LastOf
  <2> QED
    BY <1>0, <1>3, <2>1, InvStep DEF Subscribe, OK
<1>4. CASE ReadHistory(c)
  <2> DEFINE h == Since(log, 0)
  <2>1. k.pc = "read_history"
    BY <1>4 DEF ReadHistory, Step, k
  <2>2. h = log.events /\ h \in Seq(EventType) /\ Len(h) \in Nat
    BY <1>1, SinceZero DEF Inv, TypeOK, LogType
  <2>3. /\ \A i \in 1..Len(h) : h[i] = Event(latest_seq - Len(h) + i,
                                             latest_seq - Len(h) + i)
        /\ Len(h) <= latest_seq
        /\ latest_seq > 0 => h # << >>
    BY <2>2 DEF Inv, Pipeline
  <2> HIDE DEF h
  <2>4. ASSUME h # << >>
        PROVE  h[1].seq = latest_seq - Len(h) + 1 /\ h[1].seq \in Int
    <3>1. 1 \in 1..Len(h)
      BY <2>2, <2>4
    <3>2. h[1] = Event(latest_seq - Len(h) + 1, latest_seq - Len(h) + 1)
      BY <2>3, <3>1
    <3>3. latest_seq - Len(h) + 1 \in Int
      BY <1>1, <2>2
    <3> QED
      BY <3>2, <3>3 DEF Event
  <2>5. ASSUME NEW i \in 1..Len(h)
        PROVE  h[i] = Event(h[1].seq + i - 1, h[1].seq + i - 1)
    <3>1. h # << >> /\ i \in Int
      BY <2>2
    <3>2. latest_seq - Len(h) + i = h[1].seq + i - 1
      <4>1. h[1].seq = latest_seq - Len(h) + 1 /\ h[1].seq \in Int
        BY <2>4, <3>1
      <4>2. latest_seq \in Int /\ Len(h) \in Int
        BY <1>1, <2>2
      <4> QED
        BY <3>1, <4>1, <4>2
    <3> QED
      BY <2>3, <3>2
  <2>6. HistoryContinues([k EXCEPT !.pc = "history", !.history = h], latest_seq)
    <3>1. h = << >> => latest_seq = 0 /\ k.rx = 0
      BY <1>1, <2>3 DEF OK, Connected
    <3>2. h # << >> => h[1].seq + Len(h) - 1 = latest_seq /\ h[1].seq >= 1
      <4>1. h # << >> => h[1].seq = latest_seq - Len(h) + 1 /\ h[1].seq \in Int
        BY <2>4
      <4>2. latest_seq \in Nat /\ Len(h) \in Nat /\ Len(h) <= latest_seq
        BY <1>1, <2>2, <2>3
      <4> QED
        BY <4>1, <4>2
    <3>3. k.rx <= latest_seq /\ k.view = << >>
      BY <1>1, <2>1 DEF OK, Connected
    <3> QED
      BY <1>1, <2>5, <3>1, <3>2, <3>3 DEF HistoryContinues, ConnType
  <2>7. OK([k EXCEPT !.pc = "history", !.history = h])
    BY <1>1, <2>1, <2>6 DEF OK, Connected, ConnType, LastOf
  <2> QED
    BY <1>0, <1>4, <2>7, InvStep DEF ReadHistory, OK, k, h
<1>5. CASE SendHistory(c)
  <2> DEFINE h == k.history
             event == Head(h)
             t == Tail(h)
             v == Append(k.view, event.data)
             r == [k EXCEPT !.history = t, !.last_sent_seq = event.seq, !.view = v]
  <2>1. k.pc = "history" /\ h # << >>
    BY <1>5 DEF SendHistory, Step, k
  <2>2. HistoryContinues(k, latest_seq) /\ LastOf(k.view) = k.last_sent_seq
        /\ IsRun(k.view, parser)
    BY <1>1, <2>1 DEF OK, Connected
  <2>3. /\ event = h[1] /\ t \in Seq(EventType) /\ Len(t) = Len(h) - 1
        /\ \A i \in 1..Len(t) : t[i] = h[i + 1]
        /\ Len(h) \in Nat \ {0} /\ h[1] \in EventType
    BY <1>1, <2>1, HeadTailProperties
  <2>4. /\ event.seq \in Nat /\ event.data = event.seq
        /\ event.seq >= 1 /\ event.seq <= latest_seq
        /\ k.rx <= event.seq + Len(h) - 1 /\ event.seq + Len(h) - 1 <= latest_seq
        /\ k.view # << >> => event.seq = k.last_sent_seq + 1
    <3>1. 1 \in 1..Len(h) /\ h[1].seq \in Nat
      BY <2>3 DEF EventType
    <3>2. h[1] = Event(h[1].seq + 1 - 1, h[1].seq + 1 - 1)
      BY <2>2, <3>1 DEF HistoryContinues
    <3>3. h[1].data = h[1].seq
      BY <3>1, <3>2 DEF Event
    <3> QED
      BY <1>1, <2>1, <2>2, <2>3, <3>1, <3>3 DEF HistoryContinues
  <2>5. ASSUME NEW i \in 1..Len(t)
        PROVE  t[i] = Event(event.seq + i, event.seq + i)
    <3>1. i + 1 \in 1..Len(h)
      BY <2>3
    <3>2. h[i + 1] = Event(h[1].seq + (i + 1) - 1, h[1].seq + (i + 1) - 1)
      BY <2>2, <3>1 DEF HistoryContinues
    <3>3. h[1].seq + (i + 1) - 1 = event.seq + i
      BY <2>3, <2>4
    <3> QED
      BY <2>3, <3>2, <3>3
  <2>6. t # << >> => t[1].seq = event.seq + 1 /\ Len(t) \in Nat \ {0}
    <3> SUFFICES ASSUME t # << >> PROVE t[1].seq = event.seq + 1 /\ Len(t) \in Nat \ {0}
      OBVIOUS
    <3>1. 1 \in 1..Len(t)
      BY <2>3
    <3>2. t[1] = Event(event.seq + 1, event.seq + 1)
      BY <2>5, <3>1
    <3> QED
      BY <2>3, <3>1, <3>2 DEF Event
  <2>7. /\ v \in Seq(Nat) /\ v # << >> /\ v[Len(v)] = event.seq /\ Consecutive(v)
        /\ v[1] >= 1
    <3>1. Consecutive(k.view) /\ (k.view # << >> => event.seq = k.view[Len(k.view)] + 1)
      BY <2>2, <2>4 DEF IsRun, LastOf
    <3>2. /\ v \in Seq(Nat) /\ v # << >> /\ v[Len(v)] = event.data /\ Consecutive(v)
          /\ k.view # << >> => v[1] = k.view[1]
          /\ k.view = << >> => v[1] = event.data
      <4>1. k.view \in Seq(Nat) /\ event.data \in Nat
            /\ (k.view # << >> => event.data = k.view[Len(k.view)] + 1)
        BY <1>1, <2>4, <3>1
      <4> HIDE DEF event
      <4> QED
        BY <3>1, <4>1, ConsecutiveAppend
    <3>3. k.view # << >> => k.view[1] >= 1
      BY <2>2 DEF IsRun
    <3> HIDE DEF v, event
    <3> QED
      BY <2>4, <3>2, <3>3
  <2> HIDE DEF event, t, v, h
  <2>8. /\ r.pc = "history" /\ r.fmt = k.fmt /\ r.lagged = k.lagged /\ r.rx = k.rx
        /\ r.history = t /\ r.last_sent_seq = event.seq /\ r.view = v
        /\ r.diff_baseline = k.diff_baseline
    BY <1>1, <2>1 DEF ConnType
  <2> HIDE DEF r
  <2>9. HistoryContinues(r, latest_seq)
    <3>0. /\ Len(t) = Len(h) - 1 /\ Len(h) \in Nat \ {0}
          /\ t = << >> => Len(t) = 0
          /\ k.rx \in Nat /\ latest_seq \in Nat
      BY <1>1, <2>3
    <3>1. t = << >> => k.rx <= event.seq
      <4>1. t = << >> => Len(h) = 1
        BY <3>0
      <4>2. k.rx <= event.seq + Len(h) - 1 /\ event.seq \in Nat
        BY <2>4
      <4>3. t = << >> => k.rx <= event.seq + 1 - 1
        BY <4>1, <4>2
      <4> QED
        BY <4>2, <4>3
    <3>2. t # << >> => /\ t[1].seq >= 1 /\ k.rx <= t[1].seq + Len(t) - 1
                       /\ t[1].seq + Len(t) - 1 <= latest_seq
      BY <2>4, <2>6, <3>0
    <3>3. \A i \in 1..Len(t) : t[i] = Event(t[1].seq + i - 1, t[1].seq + i - 1)
      <4> SUFFICES ASSUME NEW i \in 1..Len(t)
                   PROVE  t[i] = Event(t[1].seq + i - 1, t[1].seq + i - 1)
        OBVIOUS
      <4>1. t # << >>
        BY <2>3
      <4>2. t[1].seq + i - 1 = event.seq + i
        <5>1. t[1].seq = event.seq + 1 /\ event.seq \in Int /\ i \in Int
          BY <2>4, <2>6, <4>1
        <5> QED
          BY <5>1
      <4> QED
        BY <2>5, <4>2
    <3> QED
      BY <2>6, <2>8, <3>1, <3>2, <3>3 DEF HistoryContinues
  <2>10. OK(r)
    <3>1. IsRun(v, parser) /\ LastOf(v) = event.seq
      BY <1>1, <2>4, <2>7 DEF IsRun, LastOf
    <3> QED
      BY <1>1, <2>1, <2>4, <2>8, <2>9, <3>1 DEF OK, Connected
  <2>11. Step(c, "history", r)
    <3>1. r = [conn[c] EXCEPT !.history = Tail(@),
                              !.last_sent_seq = Head(conn[c].history).seq,
                              !.view = ApplyChunk(@, Head(conn[c].history).data)]
      BY <1>1 DEF ApplyChunk, ConnType, r, v, t, event, h, k
    <3> QED
      BY <1>5, <3>1 DEF SendHistory
  <2> QED
    BY <1>0, <2>10, <2>11, InvStep DEF OK
<1>6. CASE EndHistory(c)
  <2>1. k.pc = "history" /\ k.history = << >>
    BY <1>6 DEF EndHistory, Step, k
  <2>2. ASSUME NEW pc, pc = IF k.fmt = "ScreenDiff" THEN "resync_seq" ELSE "loop"
        PROVE  OK([k EXCEPT !.pc = pc])
    BY <1>1, <2>1, <2>2 DEF OK, Connected, ConnType, HistoryContinues
  <2> QED
    BY <1>0, <1>6, <2>2, InvStep DEF EndHistory, OK, k
<1>7. CASE SnapshotSeq(c)
  <2>1. k.pc = "resync_seq"
    BY <1>7 DEF SnapshotSeq, Step, k
  <2>2. OK([k EXCEPT !.pc = "resync_screen", !.snapshot_seq = LatestSeq(log)])
    BY <1>1, <2>1 DEF OK, Connected, ConnType
  <2> QED
    BY <1>0, <1>7, <2>2, InvStep DEF SnapshotSeq, OK, k
<1>8. CASE SendResync(c)
  <2> DEFINE keeps == k.lagged /\ ~k.diff_baseline.some
             sent == Larger(k.last_sent_seq, k.snapshot_seq)
             baseline == IF keeps THEN k.diff_baseline ELSE Baseline(parser)
             pc == IF k.lagged THEN "resubscribe" ELSE "loop"
             r == [k EXCEPT !.pc = pc, !.last_sent_seq = sent,
                            !.diff_baseline = baseline, !.view = Chunks(parser)]
  <2>1. k.pc = "resync_screen" /\ Step(c, "resync_screen", r)
    <3>1. r = [conn[c] EXCEPT
                 !.pc = IF conn[c].lagged THEN "resubscribe" ELSE "loop",
                 !.last_sent_seq = Larger(@, conn[c].snapshot_seq),
                 !.diff_baseline = IF keeps THEN @ ELSE Baseline(parser),
                 !.view = ApplyResync(@, parser)]
      BY <1>1 DEF ApplyResync, ConnType, k
    <3> QED
      BY <1>8, <3>1 DEF SendResync, Step, k
  <2>2. sent \in Nat /\ sent <= latest_seq
    BY <1>1, <2>1 DEF OK, Connected, Larger
  <2>3. /\ Chunks(parser) \in Seq(Nat) /\ Len(Chunks(parser)) = parser
        /\ IsRun(Chunks(parser), parser)
    BY <1>1, ChunksRun
  <2>4. /\ k.fmt = "ScreenDiff" => baseline = Baseline(parser)
        /\ k.fmt = "Raw" => k.lagged /\ baseline = k.diff_baseline /\ ~baseline.some
    BY <1>1, <2>1 DEF OK, Connected, ConnType
  <2> HIDE DEF sent, baseline
  <2>5. /\ r.pc = pc /\ r.fmt = k.fmt /\ r.lagged = k.lagged /\ r.rx = k.rx
        /\ r.last_sent_seq = sent /\ r.view = Chunks(parser) /\ r.diff_baseline = baseline
    BY <1>1 DEF ConnType
  <2> HIDE DEF r
  <2>6. k.fmt \in {"Raw", "ScreenDiff"} /\ k.lagged \in BOOLEAN
    BY <1>1 DEF ConnType
  <2>7. Baseline(parser).some = TRUE /\ Baseline(parser).screen = parser
    BY DEF Baseline
  <2>8. k.rx <= Len(chan) /\ sent <= parser
    BY <1>1, <2>2 DEF OK, Connected
  <2>9. OK(r)
    BY <1>1, <2>2, <2>3, <2>4, <2>5, <2>6, <2>7, <2>8 DEF OK, Connected
  <2> QED
    BY <1>0, <2>1, <2>9, InvStep DEF OK
<1>9. CASE Receive(c)
  <2> DEFINE n == k.rx + 1
             event == chan[n]
             took == [k EXCEPT !.rx = n]
             sent == Larger(k.last_sent_seq, n)
             shown == [took EXCEPT !.view = Append(k.view, n), !.last_sent_seq = sent]
             diff == [took EXCEPT !.pc = "diff", !.pending = n]
  <2>1. k.pc = "loop" /\ k.rx < Len(chan)
    BY <1>9 DEF Receive, Step, k
  <2>2. n \in 1..Len(chan) /\ event = Event(n, n)
    <3>1. n \in 1..Len(chan)
      BY <1>1, <2>1
    <3> QED
      BY <3>1 DEF Inv, Pipeline
  <2>3. event.seq = n /\ event.data = n /\ n \in Nat /\ n <= latest_seq
        /\ sent \in Nat /\ sent <= latest_seq /\ n <= Len(chan)
    BY <1>1, <2>2 DEF Event, Larger, OK, Connected
  <2>4. Step(c, "loop", IF n <= k.last_sent_seq THEN took
                        ELSE IF k.fmt = "Raw" THEN shown ELSE diff)
    <3>1. /\ took = [conn[c] EXCEPT !.rx = @ + 1]
          /\ shown = [took EXCEPT !.view = ApplyChunk(@, event.data),
                                  !.last_sent_seq = Larger(@, event.seq)]
          /\ diff = [took EXCEPT !.pc = "diff", !.pending = event.seq]
      BY <1>1, <2>3 DEF ApplyChunk, ConnType, k
    <3>2. event = chan[conn[c].rx + 1]
      BY DEF k
    <3> HIDE DEF event, took, shown, diff, n
    <3> QED
      BY <1>9, <2>3, <3>1, <3>2 DEF Receive, k
  <2> HIDE DEF event, n
  <2>5. k.fmt \in {"Raw", "ScreenDiff"} /\ k.lagged \in BOOLEAN
    BY <1>1 DEF ConnType
  <2>6. ASSUME n <= k.last_sent_seq
        PROVE  OK(took)
    <3>1. /\ took.pc = "loop" /\ took.fmt = k.fmt /\ took.lagged = k.lagged
          /\ took.rx = n /\ took.last_sent_seq = k.last_sent_seq /\ took.view = k.view
          /\ took.diff_baseline = k.diff_baseline
      BY <1>1, <2>1 DEF ConnType
    <3> HIDE DEF took
    <3> QED
      BY <1>1, <2>1, <2>3, <2>6, <3>1 DEF OK, Connected
  <2>7. ASSUME ~(n <= k.last_sent_seq), k.fmt = "Raw"
        PROVE  OK(shown)
    <3>1. /\ shown.pc = "loop" /\ shown.fmt = "Raw" /\ shown.lagged = k.lagged
          /\ shown.rx = n /\ shown.last_sent_seq = sent
          /\ shown.view = Append(k.view, n)
          /\ shown.diff_baseline = k.diff_baseline
      BY <1>1, <2>1, <2>7 DEF ConnType
    <3>2. sent = n
      BY <1>1, <2>3, <2>7 DEF Larger
    <3>3. ~k.lagged => IsRun(Append(k.view, n), parser) /\ LastOf(Append(k.view, n)) = n
      <4> SUFFICES ASSUME ~k.lagged
                   PROVE  IsRun(Append(k.view, n), parser) /\ LastOf(Append(k.view, n)) = n
        OBVIOUS
      <4>1. LastOf(k.view) = k.last_sent_seq /\ k.rx <= k.last_sent_seq
            /\ IsRun(k.view, parser)
        BY <1>1, <2>1, <2>7 DEF OK, Connected
      <4>2. n = k.last_sent_seq + 1
        BY <1>1, <2>7, <4>1 DEF n
      <4>3. Consecutive(k.view) /\ (k.view # << >> => n = k.view[Len(k.view)] + 1)
        BY <4>1, <4>2 DEF IsRun, LastOf
      <4>4. /\ Append(k.view, n) # << >> /\ Consecutive(Append(k.view, n))
            /\ Append(k.view, n)[Len(Append(k.view, n))] = n
            /\ k.view # << >> => Append(k.view, n)[1] = k.view[1]
            /\ k.view = << >> => Append(k.view, n)[1] = n
        BY <1>1, <2>3, <4>3, ConsecutiveAppend
      <4>5. (k.view # << >> => k.view[1] >= 1) /\ n >= 1 /\ n <= parser
        BY <1>1, <2>2, <2>3, <4>1 DEF IsRun
      <4> QED
        BY <4>4, <4>5 DEF IsRun, LastOf
    <3> HIDE DEF shown, sent
    <3> QED
      BY <1>1, <2>1, <2>3, <2>7, <3>1, <3>2, <3>3 DEF OK, Connected
  <2>8. ASSUME k.fmt = "ScreenDiff"
        PROVE  OK(diff)
    <3>1. /\ diff.pc = "diff" /\ diff.fmt = k.fmt /\ diff.lagged = k.lagged
          /\ diff.rx = n /\ diff.last_sent_seq = k.last_sent_seq /\ diff.view = k.view
          /\ diff.diff_baseline = k.diff_baseline /\ diff.pending = n
      BY <1>1, <2>1 DEF ConnType
    <3> HIDE DEF diff
    <3> QED
      BY <1>1, <2>1, <2>3, <2>8, <3>1 DEF OK, Connected
  <2> HIDE DEF took, shown, diff
  <2> QED
    BY <1>0, <2>4, <2>5, <2>6, <2>7, <2>8, InvStep DEF OK
<1>10. CASE SendDiff(c)
  <2> DEFINE sent == Larger(k.last_sent_seq, k.pending)
             r == [k EXCEPT !.pc = "loop", !.view = Chunks(parser),
                            !.diff_baseline = Baseline(parser), !.last_sent_seq = sent]
  <2>1. k.pc = "diff" /\ k.fmt = "ScreenDiff"
    BY <1>1, <1>10 DEF SendDiff, Step, k, OK, Connected
  <2>2. k.diff_baseline.some /\ k.view = Chunks(k.diff_baseline.screen)
    BY <1>1, <2>1 DEF OK, Connected
  <2>3. ApplyDiff(k.view, k.diff_baseline.screen, parser) = Chunks(parser)
    BY <2>2 DEF ApplyDiff
  <2>4. Step(c, "diff", r)
    <3>1. r = [conn[c] EXCEPT !.pc = "loop",
                 !.view = ApplyDiff(@, conn[c].diff_baseline.screen, parser),
                 !.diff_baseline = Baseline(parser),
                 !.last_sent_seq = Larger(@, conn[c].pending)]
      BY <1>1, <2>3 DEF ConnType, k
    <3> QED
      BY <1>10, <3>1 DEF SendDiff
  <2>5. sent \in Nat /\ sent <= latest_seq
    BY <1>1, <2>1 DEF OK, Connected, Larger
  <2>6. IsRun(Chunks(parser), parser)
    BY <1>1, ChunksRun
  <2> HIDE DEF sent
  <2>7. /\ r.pc = "loop" /\ r.fmt = k.fmt /\ r.lagged = k.lagged /\ r.rx = k.rx
        /\ r.last_sent_seq = sent /\ r.view = Chunks(parser)
        /\ r.diff_baseline = Baseline(parser)
    BY <1>1 DEF ConnType
  <2> HIDE DEF r
  <2>8. Baseline(parser).some = TRUE /\ Baseline(parser).screen = parser
    BY DEF Baseline
  <2>9. k.rx <= Len(chan) /\ sent <= parser
    BY <1>1, <2>5 DEF OK, Connected
  <2>10. OK(r)
    BY <1>1, <2>1, <2>5, <2>6, <2>7, <2>8, <2>9 DEF OK, Connected
  <2> QED
    BY <1>0, <2>4, <2>10, InvStep DEF OK
<1>11. CASE Lagged(c)
  <2>1. k.pc = "loop" /\ Len(chan) - k.rx > Capacity
    BY <1>11 DEF Lagged, LagsBehind, Step, k
  <2>2. OK([k EXCEPT !.pc = "resync_seq", !.lagged = TRUE, !.rx = Len(chan) - Capacity])
    BY <1>1, <2>1, CapacityAssumption DEF OK, Connected, ConnType
  <2> QED
    BY <1>0, <1>11, <2>2, InvStep DEF Lagged, OK, k
<1>12. CASE Resubscribe(c)
  <2>1. k.pc = "resubscribe"
    BY <1>12 DEF Resubscribe, Step, k
  <2>2. OK([k EXCEPT !.pc = "loop", !.rx = Len(chan)])
    BY <1>1, <2>1 DEF OK, Connected, ConnType
  <2> QED
    BY <1>0, <1>12, <2>2, InvStep DEF Resubscribe, OK, k
<1>13. CASE Disconnect(c)
  BY <1>0, <1>2, <1>13, InvStep DEF Disconnect, OK
<1> QED
  BY <1>3, <1>4, <1>5, <1>6, <1>7, <1>8, <1>9, <1>10, <1>11, <1>12, <1>13 DEF Handle

-----------------------------------------------------------------------------
(***************************************************************************)
(* The theorems.                                                           *)
(***************************************************************************)
LEMMA InvNext == Inv /\ [Next]_vars => Inv'
<1> SUFFICES ASSUME Inv, [Next]_vars PROVE Inv'
  OBVIOUS
<1>1. CASE ReadLoop
  BY <1>1, InvReadLoop
<1>2. ASSUME NEW c \in Conns,
             Handle(c) \/ Disconnect(c)
             \/ \E fmt \in {"Raw", "ScreenDiff"} : Subscribe(c, fmt)
      PROVE  Inv'
  BY <1>2, InvHandle
<1>3. CASE UNCHANGED vars
  BY <1>3 DEF vars, Inv, TypeOK, Pipeline, latest_seq
<1> QED
  BY <1>1, <1>2, <1>3 DEF Next

\* The invariant that the results below rest on: no step of the read loop, of a
\* connection or of its client leads out of it.
THEOREM Invariance == Spec => []Inv
<1>1. Init => Inv
  BY InvInit
<1>2. Inv /\ [Next]_vars => Inv'
  BY InvNext
<1> QED
  BY <1>1, <1>2, PTL DEF Spec

\* The state of the read loop and of every connection stays within its types.
THEOREM TypeCorrect == Spec => []TypeOK
<1>1. Inv => TypeOK
  BY DEF Inv
<1> QED
  BY <1>1, Invariance, PTL

\* Subscribing before reading the history loses and repeats nothing: a raw
\* client that has not lagged has been sent consecutive chunks, ending with
\* last_sent_seq, however the read loop and the handler interleave.
THEOREM RawStreamIsComplete == Spec => []RawStreamComplete
<1>1. Inv => RawStreamComplete
  <2> SUFFICES ASSUME Inv, NEW c \in Conns, conn[c].fmt = "Raw", ~conn[c].lagged
               PROVE  Consecutive(conn[c].view) /\ LastShown(c) = conn[c].last_sent_seq
    BY DEF RawStreamComplete
  <2> QED
    BY InvNumbers DEF Connected, IsRun, LastOf, LastShown
<1> QED
  BY <1>1, Invariance, PTL

\* A diff is only ever applied to the screen it was computed from, and what the
\* loop skips as sent is on the screen, lags included.
THEOREM DiffsApply == Spec => []DiffAppliesToItsBaseline
<1>1. Inv => DiffAppliesToItsBaseline
  <2> SUFFICES ASSUME Inv, NEW c \in Conns, conn[c].diff_baseline.some
               PROVE  /\ conn[c].view = Chunks(conn[c].diff_baseline.screen)
                      /\ conn[c].last_sent_seq <= conn[c].diff_baseline.screen
    BY DEF DiffAppliesToItsBaseline
  <2> QED
    BY InvNumbers DEF Connected
<1> QED
  BY <1>1, Invariance, PTL

\* A resync after a lag leaves nothing up to last_sent_seq off the screen.
THEOREM ResyncCovers == Spec => []ResyncCoversLastSent
<1>1. Inv => ResyncCoversLastSent
  <2> SUFFICES ASSUME Inv, NEW c \in Conns, conn[c].pc = "resubscribe"
               PROVE  /\ conn[c].view = Chunks(Len(conn[c].view))
                      /\ conn[c].last_sent_seq <= Len(conn[c].view)
    BY DEF ResyncCoversLastSent
  <2> QED
    BY InvNumbers DEF Connected
<1> QED
  BY <1>1, Invariance, PTL

-----------------------------------------------------------------------------
(***************************************************************************)
(* The connections implement PaneMirror.                                   *)
(***************************************************************************)
\* The screens a step of connection c leaves: c's is that of k, the others stay.
LEMMA StepShown ==
    ASSUME Inv, NEW c \in Conns, NEW from, NEW k, Step(c, from, k)
    PROVE  /\ parser' = parser
           /\ [d \in Conns |-> Shown(conn[d])]' =
                 [[d \in Conns |-> Shown(conn[d])] EXCEPT ![c] = Shown(k)]
BY DEF Step, Inv, TypeOK

\* A step that leaves c's screen alone is a stutter of PaneMirror.
LEMMA MirrorStutter ==
    ASSUME Inv, NEW c \in Conns, NEW from, NEW k, Step(c, from, k),
           Shown(k) = Shown(conn[c])
    PROVE  UNCHANGED Mirror!vars
<1> DEFINE before == [d \in Conns |-> Shown(conn[d])]
<1>1. parser' = parser /\ before' = [before EXCEPT ![c] = Shown(k)]
  BY StepShown
<1>2. [before EXCEPT ![c] = Shown(k)] = before
  <2>1. before[c] = Shown(k)
    OBVIOUS
  <2>2. before = [d \in Conns |-> before[d]]
    OBVIOUS
  <2> HIDE DEF before
  <2> QED
    BY <2>1, <2>2
<1> QED
  BY <1>1, <1>2 DEF Mirror!vars

\* A step after which c has a longer run of the output, or the same from the
\* first chunk on, is an Advance.
LEMMA MirrorAdvance ==
    ASSUME Inv, NEW c \in Conns, NEW from, NEW k, Step(c, from, k),
           NEW first \in 1..parser, NEW last \in 1..parser, first <= last,
           Shown(k) = [on |-> TRUE, first |-> first, last |-> last],
           Shown(conn[c]).on, Shown(conn[c]).last <= last,
           \/ Shown(conn[c]) = [on |-> TRUE, first |-> 1, last |-> 0]
           \/ first \in {1, Shown(conn[c]).first}
    PROVE  Mirror!Advance(c)
<1> DEFINE before == [d \in Conns |-> Shown(conn[d])]
<1>1. before[c] = Shown(conn[c])
  OBVIOUS
<1>2. parser' = parser /\ before' = [before EXCEPT ![c] = Shown(k)]
  BY StepShown
<1> QED
  BY <1>1, <1>2 DEF Mirror!Advance, Mirror!Run, Mirror!Blank

\* A step after which c shows nothing is a Close, or a stutter if it did not.
LEMMA MirrorClose ==
    ASSUME Inv, NEW c \in Conns, NEW from, NEW k, Step(c, from, k),
           Shown(k) = [on |-> FALSE, first |-> 0, last |-> 0]
    PROVE  Mirror!Close(c) \/ UNCHANGED Mirror!vars
<1> DEFINE before == [d \in Conns |-> Shown(conn[d])]
<1>1. before[c] = Shown(conn[c])
  OBVIOUS
<1>2. parser' = parser /\ before' = [before EXCEPT ![c] = Shown(k)]
  BY StepShown
<1>3. CASE Shown(conn[c]).on
  BY <1>1, <1>2, <1>3 DEF Mirror!Close, Mirror!Off
<1>4. CASE ~Shown(conn[c]).on
  <2>1. Shown(conn[c]) = Shown(k)
    BY <1>4 DEF Shown
  <2> QED
    BY <2>1, MirrorStutter
<1> QED
  BY <1>3, <1>4

\* What a connection shows, when it is on and its screen is a run.
LEMMA ShownRun ==
    ASSUME NEW k \in ConnType, k.pc # "idle", k.fmt = "ScreenDiff" \/ ~k.lagged,
           NEW screen \in Nat, IsRun(k.view, screen)
    PROVE  /\ k.view = << >> => Shown(k) = [on |-> TRUE, first |-> 1, last |-> 0]
           /\ k.view # << >> =>
                 /\ Shown(k) = [on |-> TRUE, first |-> k.view[1],
                                last |-> k.view[Len(k.view)]]
                 /\ k.view[1] \in 1..screen /\ k.view[Len(k.view)] \in 1..screen
                 /\ k.view[1] <= k.view[Len(k.view)]
<1>1. k.fmt \in {"Raw", "ScreenDiff"} /\ k.lagged \in BOOLEAN /\ k.view \in Seq(Nat)
  BY DEF ConnType
<1>2. ~(k.pc = "idle" \/ (k.fmt = "Raw" /\ k.lagged))
  BY <1>1
<1>3. CASE k.view = << >>
  BY <1>2, <1>3 DEF Shown
<1>4. CASE k.view # << >>
  <2>1. Len(k.view) \in Nat \ {0} /\ k.view[1] \in Nat /\ k.view[Len(k.view)] \in Nat
    BY <1>1, <1>4
  <2>2. k.view[Len(k.view)] = k.view[1] + (Len(k.view) - 1)
    <3>1. 1 \in DOMAIN k.view
      BY <1>1, <2>1
    <3> QED
      BY <3>1 DEF IsRun, Consecutive
  <2>3. k.view[1] >= 1 /\ k.view[Len(k.view)] <= screen /\ Consecutive(k.view)
    BY <1>4 DEF IsRun
  <2>4. k.view[1] <= k.view[Len(k.view)]
    BY <2>1, <2>2
  <2> QED
    BY <1>2, <1>4, <2>1, <2>3, <2>4 DEF Shown
<1> QED
  BY <1>3, <1>4

\* A step of a connected client's handler after which it shows the same screen,
\* or, when it shows a run at all, a longer run.
LEMMA MirrorStep ==
    ASSUME Inv, Inv', NEW c \in Conns, NEW from, NEW k, Step(c, from, k),
           conn[c].pc # "idle", k.pc # "idle", k.fmt = conn[c].fmt,
           k.lagged = conn[c].lagged \/ k.fmt = "ScreenDiff",
           \/ k.view = conn[c].view
           \/ k.fmt = "ScreenDiff" \/ ~k.lagged =>
                 /\ k.view # << >>
                 /\ LastOf(conn[c].view) <= LastOf(k.view)
                 /\ conn[c].view # << >> => k.view[1] \in {1, conn[c].view[1]}
    PROVE  Mirror!Advance(c) \/ UNCHANGED Mirror!vars
<1>1. conn[c] \in ConnType /\ k \in ConnType /\ parser \in Nat
      /\ conn'[c] = k /\ parser' = parser
  BY DEF Inv, TypeOK, Step
<1>2. CASE k.view = conn[c].view \/ (k.fmt = "Raw" /\ k.lagged)
  <2>1. Shown(k) = Shown(conn[c])
    BY <1>1, <1>2 DEF Shown, ConnType
  <2> QED
    BY <2>1, MirrorStutter
<1>3. CASE k.view # conn[c].view /\ ~(k.fmt = "Raw" /\ k.lagged)
  <2>1. /\ k.fmt = "ScreenDiff" \/ ~k.lagged
        /\ conn[c].fmt = "ScreenDiff" \/ ~conn[c].lagged
    BY <1>1, <1>3 DEF ConnType
  <2>2. /\ k.view # << >>
        /\ LastOf(conn[c].view) <= LastOf(k.view)
        /\ conn[c].view # << >> => k.view[1] \in {1, conn[c].view[1]}
    BY <1>3, <2>1
  <2>3. IsRun(conn[c].view, parser)
    BY <2>1 DEF Inv, Connected
  <2>4. IsRun(k.view, parser)
    BY <1>1, <2>1 DEF Inv, Connected
  <2> DEFINE first == k.view[1]
             last == k.view[Len(k.view)]
  <2>5. /\ Shown(k) = [on |-> TRUE, first |-> first, last |-> last]
        /\ first \in 1..parser /\ last \in 1..parser /\ first <= last
    BY <1>1, <2>1, <2>2, <2>4, ShownRun
  <2>6. CASE conn[c].view = << >>
    <3>1. Shown(conn[c]) = [on |-> TRUE, first |-> 1, last |-> 0]
      BY <1>1, <2>1, <2>3, <2>6, ShownRun
    <3>2. Shown(conn[c]).on /\ Shown(conn[c]).last <= last
      BY <1>1, <2>5, <3>1
    <3> HIDE DEF first, last
    <3> QED
      BY <2>5, <3>1, <3>2, MirrorAdvance
  <2>7. CASE conn[c].view # << >>
    <3>1. Shown(conn[c]) = [on |-> TRUE, first |-> conn[c].view[1],
                            last |-> conn[c].view[Len(conn[c].view)]]
      BY <1>1, <2>1, <2>3, <2>7, ShownRun
    <3>2. Shown(conn[c]).on /\ Shown(conn[c]).last <= last
      BY <2>2, <2>7, <3>1 DEF LastOf
    <3>3. first \in {1, Shown(conn[c]).first}
      BY <2>2, <2>7, <3>1
    <3> HIDE DEF first, last
    <3> QED
      BY <2>5, <3>2, <3>3, MirrorAdvance
  <2> QED
    BY <2>6, <2>7
<1> QED
  BY <1>2, <1>3

\* A resync or a diff leaves a screen_diff client with all of the output.
LEMMA ChunksExtend ==
    ASSUME NEW k \in ConnType, NEW screen \in Nat, k.pc # "idle",
           k.fmt = "ScreenDiff", IsRun(k.view, screen)
    PROVE  \/ Chunks(screen) = k.view
           \/ /\ Chunks(screen) # << >>
              /\ LastOf(k.view) <= LastOf(Chunks(screen))
              /\ Chunks(screen)[1] = 1
<1>1. /\ k.view # << >> => k.view[Len(k.view)] \in 1..screen
      /\ k.view \in Seq(Nat)
  BY ShownRun DEF ConnType
<1>2. CASE screen = 0
  <2>1. k.view = << >> /\ Chunks(screen) = << >>
    BY <1>1, <1>2, ChunksType
  <2> QED
    BY <2>1
<1>3. CASE screen # 0
  <2>1. /\ Chunks(screen) # << >> /\ Len(Chunks(screen)) = screen
        /\ Chunks(screen)[1] = 1 /\ Chunks(screen)[screen] = screen
    <3>1. 1 \in 1..screen /\ screen \in 1..screen
      BY <1>3
    <3> QED
      BY <1>3, <3>1, ChunksType
  <2> QED
    BY <1>1, <2>1 DEF LastOf
<1> QED
  BY <1>2, <1>3

\* Every step of a connection is one of PaneMirror's, or a stutter.
LEMMA MirrorHandle ==
    ASSUME Inv, Inv', NEW c \in Conns,
           Handle(c) \/ Disconnect(c)
           \/ \E fmt \in {"Raw", "ScreenDiff"} : Subscribe(c, fmt)
    PROVE  \/ Mirror!Open(c) \/ Mirror!Advance(c) \/ Mirror!Close(c)
           \/ UNCHANGED Mirror!vars
<1> DEFINE k == conn[c]
           before == [d \in Conns |-> Shown(conn[d])]
<1>1. /\ k \in ConnType /\ parser \in Nat /\ chan \in Seq(EventType)
      /\ Connected(k, Len(chan), latest_seq, parser)
  BY DEF Inv, TypeOK
<1>2. /\ k.view \in Seq(Nat) /\ k.history \in Seq(EventType) /\ k.rx \in Nat
      /\ k.last_sent_seq \in Nat /\ k.fmt \in {"Raw", "ScreenDiff"}
      /\ k.lagged \in BOOLEAN
  BY <1>1 DEF ConnType
<1>3. k.fmt = "ScreenDiff" \/ ~k.lagged => IsRun(k.view, parser)
  BY <1>1 DEF Connected
<1> HIDE DEF k
<1>4. ASSUME NEW fmt \in {"Raw", "ScreenDiff"}, Subscribe(c, fmt)
      PROVE  Mirror!Open(c)
  <2> DEFINE r == [Idle EXCEPT !.pc = "read_history", !.fmt = fmt, !.rx = Len(chan)]
  <2>1. Step(c, "idle", r)
    BY <1>4 DEF Subscribe
  <2>2. Shown(r) = [on |-> TRUE, first |-> 1, last |-> 0]
    BY DEF Idle, Shown
  <2>3. before[c] = [on |-> FALSE, first |-> 0, last |-> 0]
    BY <2>1 DEF Step, Shown
  <2>4. parser' = parser /\ before' = [before EXCEPT ![c] = Shown(r)]
    BY <2>1, StepShown
  <2> QED
    BY <2>2, <2>3, <2>4 DEF Mirror!Open, Mirror!Off, Mirror!Blank, Mirror!Run
<1>5. CASE ReadHistory(c)
  <2> DEFINE r == [k EXCEPT !.pc = "history", !.history = Since(log, 0)]
  <2>1. Step(c, "read_history", r) /\ k.pc # "idle"
    BY <1>5 DEF ReadHistory, Step, k
  <2>2. r.pc # "idle" /\ r.fmt = k.fmt /\ r.lagged = k.lagged /\ r.view = k.view
    BY <1>1 DEF ConnType
  <2> QED
    BY <2>1, <2>2, MirrorStep DEF k
<1>6. CASE SendHistory(c)
  <2> DEFINE event == Head(k.history)
             r == [k EXCEPT !.history = Tail(@), !.last_sent_seq = event.seq,
                            !.view = Append(@, event.data)]
  <2>1. Step(c, "history", r) /\ k.pc = "history" /\ k.history # << >>
    BY <1>6 DEF SendHistory, Step, ApplyChunk, k
  <2>2. r.pc = "history" /\ r.fmt = k.fmt /\ r.lagged = k.lagged
        /\ r.view = Append(k.view, event.data)
    BY <1>1, <2>1 DEF ConnType
  <2>3. event = k.history[1] /\ event \in EventType
    BY <1>2, <2>1, HeadTailProperties
  <2>4. event.seq \in Nat /\ event.data \in Nat
    BY <2>3 DEF EventType
  <2>5. /\ r.view # << >>
        /\ r.view[Len(r.view)] = event.data
        /\ k.view # << >> => r.view[1] = k.view[1]
    BY <1>2, <2>2, <2>4, AppendProperties
  <2>6. HistoryContinues(k, latest_seq) /\ LastOf(k.view) = k.last_sent_seq
    BY <1>1, <2>1 DEF Connected
  <2>7. event.data = event.seq
    <3>1. 1 \in 1..Len(k.history)
      BY <1>2, <2>1
    <3>2. k.history[1] = Event(k.history[1].seq + 1 - 1, k.history[1].seq + 1 - 1)
      BY <2>6, <3>1 DEF HistoryContinues
    <3> QED
      BY <2>3, <2>4, <3>2 DEF Event
  <2>8. LastOf(k.view) <= LastOf(r.view)
    <3>1. CASE k.view = << >>
      BY <2>4, <2>5, <3>1 DEF LastOf
    <3>2. CASE k.view # << >>
      <4>1. event.seq = k.last_sent_seq + 1
        BY <2>1, <2>3, <2>6, <3>2 DEF HistoryContinues
      <4>2. LastOf(r.view) = event.data
        BY <2>5 DEF LastOf
      <4> HIDE DEF r, event
      <4> QED
        BY <1>2, <2>6, <2>7, <4>1, <4>2
    <3> QED
      BY <3>1, <3>2
  <2> HIDE DEF r
  <2> QED
    BY <2>1, <2>2, <2>5, <2>8, MirrorStep DEF k
<1>7. CASE EndHistory(c)
  <2> DEFINE r == [k EXCEPT !.pc = IF k.fmt = "ScreenDiff" THEN "resync_seq" ELSE "loop"]
  <2>1. Step(c, "history", r) /\ k.pc # "idle"
    BY <1>7 DEF EndHistory, Step, k
  <2>2. r.pc # "idle" /\ r.fmt = k.fmt /\ r.lagged = k.lagged /\ r.view = k.view
    BY <1>1 DEF ConnType
  <2> QED
    BY <2>1, <2>2, MirrorStep DEF k
<1>8. CASE SnapshotSeq(c)
  <2> DEFINE r == [k EXCEPT !.pc = "resync_screen", !.snapshot_seq = LatestSeq(log)]
  <2>1. Step(c, "resync_seq", r) /\ k.pc # "idle"
    BY <1>8 DEF SnapshotSeq, Step, k
  <2>2. r.pc # "idle" /\ r.fmt = k.fmt /\ r.lagged = k.lagged /\ r.view = k.view
    BY <1>1 DEF ConnType
  <2> QED
    BY <2>1, <2>2, MirrorStep DEF k
<1>9. CASE SendResync(c)
  <2> DEFINE kept == IF k.lagged /\ ~k.diff_baseline.some THEN k.diff_baseline
                                                          ELSE Baseline(parser)
             pc == IF k.lagged THEN "resubscribe" ELSE "loop"
             sent == Larger(k.last_sent_seq, k.snapshot_seq)
             r == [k EXCEPT !.pc = pc, !.last_sent_seq = sent,
                            !.diff_baseline = kept, !.view = Chunks(parser)]
  <2>1. Step(c, "resync_screen", r) /\ k.pc = "resync_screen"
    <3>1. r = [conn[c] EXCEPT
                 !.pc = IF conn[c].lagged THEN "resubscribe" ELSE "loop",
                 !.last_sent_seq = Larger(@, conn[c].snapshot_seq),
                 !.diff_baseline = IF conn[c].lagged /\ ~conn[c].diff_baseline.some
                                   THEN @ ELSE Baseline(parser),
                 !.view = ApplyResync(@, parser)]
      BY <1>1 DEF ConnType, k, ApplyResync
    <3> QED
      BY <1>9, <3>1 DEF SendResync, Step, k
  <2>2. r.pc # "idle" /\ r.fmt = k.fmt /\ r.lagged = k.lagged /\ r.view = Chunks(parser)
    BY <1>1 DEF ConnType
  <2> HIDE DEF r
  <2>3. CASE k.fmt = "ScreenDiff"
    <3>1. \/ Chunks(parser) = k.view
          \/ /\ Chunks(parser) # << >>
             /\ LastOf(k.view) <= LastOf(Chunks(parser))
             /\ Chunks(parser)[1] = 1
      BY <1>1, <1>3, <2>1, <2>3, ChunksExtend
    <3> QED
      BY <2>1, <2>2, <3>1, MirrorStep DEF k
  <2>4. CASE k.fmt = "Raw"
    <3>1. k.lagged
      BY <1>1, <2>1, <2>4 DEF Connected
    <3> QED
      BY <2>1, <2>2, <2>4, <3>1, MirrorStep DEF k
  <2> QED
    BY <1>2, <2>3, <2>4
<1>10. CASE Receive(c)
  <2> DEFINE n == k.rx + 1
             event == chan[n]
             took == [k EXCEPT !.rx = n]
             shows == [took EXCEPT !.view = Append(@, event.data),
                                   !.last_sent_seq = Larger(@, event.seq)]
             waits == [took EXCEPT !.pc = "diff", !.pending = event.seq]
  <2>1. k.pc = "loop" /\ k.rx < Len(chan)
    BY <1>10 DEF Receive, Step, k
  <2>2. event = Event(n, n) /\ n \in Nat
    <3>1. n \in 1..Len(chan)
      BY <1>1, <1>2, <2>1
    <3>2. \A i \in 1..Len(chan) : chan[i] = Event(i, i)
      BY DEF Inv, Pipeline
    <3> QED
      BY <1>2, <3>1, <3>2
  <2>3. event.seq = n /\ event.data = n
    BY <2>2 DEF Event
  <2>4. CASE event.seq <= k.last_sent_seq
    <3>1. Step(c, "loop", took)
      BY <1>10, <2>4 DEF Receive, k
    <3>2. took.pc # "idle" /\ took.fmt = k.fmt /\ took.lagged = k.lagged
          /\ took.view = k.view
      BY <1>1, <2>1 DEF ConnType
    <3> HIDE DEF took
    <3> QED
      BY <2>1, <3>1, <3>2, MirrorStep DEF k
  <2>5. CASE ~(event.seq <= k.last_sent_seq) /\ k.fmt = "Raw"
    <3>1. Step(c, "loop", shows)
      BY <1>10, <2>5 DEF Receive, ApplyChunk, k
    <3>2. shows.pc # "idle" /\ shows.fmt = k.fmt /\ shows.lagged = k.lagged
          /\ shows.view = Append(k.view, n)
      BY <1>1, <2>1, <2>3 DEF ConnType
    <3>3. /\ shows.view # << >>
          /\ shows.view[Len(shows.view)] = n
          /\ k.view # << >> => shows.view[1] = k.view[1]
      BY <1>2, <2>2, <3>2, AppendProperties
    <3>4. ~k.lagged => LastOf(k.view) = k.last_sent_seq
      BY <1>1, <2>5 DEF Connected
    <3>5. ~k.lagged => LastOf(k.view) <= n
      <4> HIDE DEF n
      <4> QED
        BY <1>2, <2>2, <2>3, <2>5, <3>4
    <3>6. LastOf(shows.view) = n
      BY <3>3 DEF LastOf
    <3> HIDE DEF shows, n
    <3> QED
      BY <2>1, <2>5, <3>1, <3>2, <3>3, <3>5, <3>6, MirrorStep DEF k
  <2>6. CASE ~(event.seq <= k.last_sent_seq) /\ k.fmt # "Raw"
    <3>1. Step(c, "loop", waits)
      BY <1>10, <2>6 DEF Receive, k
    <3>2. waits.pc # "idle" /\ waits.fmt = k.fmt /\ waits.lagged = k.lagged
          /\ waits.view = k.view
      BY <1>1 DEF ConnType
    <3> HIDE DEF waits
    <3> QED
      BY <2>1, <3>1, <3>2, MirrorStep DEF k
  <2> QED
    BY <2>4, <2>5, <2>6
<1>11. CASE SendDiff(c)
  <2> DEFINE r == [k EXCEPT !.pc = "loop", !.view = Chunks(parser),
                            !.diff_baseline = Baseline(parser),
                            !.last_sent_seq = Larger(@, k.pending)]
  <2>1. k.pc = "diff" /\ k.fmt = "ScreenDiff"
    BY <1>1, <1>11 DEF SendDiff, Step, k, Connected
  <2>2. k.diff_baseline.some /\ k.view = Chunks(k.diff_baseline.screen)
    BY <1>1, <2>1 DEF Connected
  <2>3. Step(c, "diff", r)
    <3>1. ApplyDiff(k.view, k.diff_baseline.screen, parser) = Chunks(parser)
      BY <2>2 DEF ApplyDiff
    <3>2. r = [conn[c] EXCEPT !.pc = "loop",
                 !.view = ApplyDiff(@, conn[c].diff_baseline.screen, parser),
                 !.diff_baseline = Baseline(parser),
                 !.last_sent_seq = Larger(@, conn[c].pending)]
      BY <1>1, <3>1 DEF ConnType, k
    <3> QED
      BY <1>11, <3>2 DEF SendDiff
  <2>4. r.pc # "idle" /\ r.fmt = k.fmt /\ r.lagged = k.lagged /\ r.view = Chunks(parser)
    BY <1>1 DEF ConnType
  <2> HIDE DEF r
  <2>5. \/ Chunks(parser) = k.view
        \/ /\ Chunks(parser) # << >>
           /\ LastOf(k.view) <= LastOf(Chunks(parser))
           /\ Chunks(parser)[1] = 1
    BY <1>1, <1>3, <2>1, ChunksExtend
  <2> QED
    BY <2>1, <2>3, <2>4, <2>5, MirrorStep DEF k
<1>12. CASE Lagged(c)
  <2> DEFINE r == [k EXCEPT !.pc = "resync_seq", !.lagged = TRUE,
                            !.rx = Len(chan) - Capacity]
  <2>1. Step(c, "loop", r) /\ k.pc # "idle"
    BY <1>12 DEF Lagged, Step, k
  <2>2. r.pc # "idle" /\ r.fmt = k.fmt /\ r.lagged /\ r.view = k.view
    BY <1>1 DEF ConnType
  <2> HIDE DEF r
  <2>3. CASE k.fmt = "ScreenDiff"
    BY <2>1, <2>2, <2>3, MirrorStep DEF k
  <2>4. CASE k.fmt = "Raw"
    <3>1. Shown(r) = [on |-> FALSE, first |-> 0, last |-> 0]
      BY <2>2, <2>4 DEF Shown
    <3> QED
      BY <2>1, <3>1, MirrorClose
  <2> QED
    BY <1>2, <2>3, <2>4
<1>13. CASE Resubscribe(c)
  <2> DEFINE r == [k EXCEPT !.pc = "loop", !.rx = Len(chan)]
  <2>1. Step(c, "resubscribe", r) /\ k.pc # "idle"
    BY <1>13 DEF Resubscribe, Step, k
  <2>2. r.pc # "idle" /\ r.fmt = k.fmt /\ r.lagged = k.lagged /\ r.view = k.view
    BY <1>1 DEF ConnType
  <2> QED
    BY <2>1, <2>2, MirrorStep DEF k
<1>14. CASE Disconnect(c)
  <2>1. Shown(Idle) = [on |-> FALSE, first |-> 0, last |-> 0]
    BY DEF Shown, Idle
  <2> QED
    BY <1>14, <2>1, MirrorClose DEF Disconnect
<1> QED
  BY <1>4, <1>5, <1>6, <1>7, <1>8, <1>9, <1>10, <1>11, <1>12, <1>13, <1>14 DEF Handle

\* So is every step of the read loop: the parser processes one chunk at a time.
LEMMA MirrorReadLoop ==
    ASSUME Inv, ReadLoop
    PROVE  Mirror!Produce \/ UNCHANGED Mirror!vars
<1>1. [d \in Conns |-> Shown(conn[d])]' = [d \in Conns |-> Shown(conn[d])]
  BY DEF ReadLoop, Read, Process, PushEvent, Send, ReadEnds
<1>2. CASE Process
  <2>1. parser' = parser + 1
    BY <1>2 DEF Process, Inv, Pipeline
  <2> QED
    BY <1>1, <2>1 DEF Mirror!Produce
<1>3. CASE Read \/ PushEvent \/ Send \/ ReadEnds
  BY <1>1, <1>3 DEF Read, PushEvent, Send, ReadEnds, Mirror!vars
<1> QED
  BY <1>2, <1>3 DEF ReadLoop

LEMMA MirrorInit == Init => Mirror!Init
BY DEF Init, Mirror!Init, Mirror!Off, Shown, Idle

LEMMA MirrorNext == Inv /\ Inv' /\ [Next]_vars => [Mirror!Next]_(Mirror!vars)
<1> SUFFICES ASSUME Inv, Inv', [Next]_vars PROVE Mirror!Next \/ UNCHANGED Mirror!vars
  OBVIOUS
<1>1. CASE ReadLoop
  BY <1>1, MirrorReadLoop DEF Mirror!Next
<1>2. ASSUME NEW c \in Conns,
             Handle(c) \/ Disconnect(c)
             \/ \E fmt \in {"Raw", "ScreenDiff"} : Subscribe(c, fmt)
      PROVE  Mirror!Next \/ UNCHANGED Mirror!vars
  BY <1>2, MirrorHandle DEF Mirror!Next
<1>3. CASE UNCHANGED vars
  BY <1>3 DEF vars, Mirror!vars
<1> QED
  BY <1>1, <1>2, <1>3 DEF Next

\* However the read loop and the connections interleave, and through every lag
\* of a screen_diff client, a connection keeps PaneMirror's promise.
THEOREM ConnectionsMirror == Spec => ImplementsMirror
<1>1. Init => Mirror!Init
  BY MirrorInit
<1>2. Inv /\ Inv' /\ [Next]_vars => [Mirror!Next]_(Mirror!vars)
  BY MirrorNext
<1>3. Spec => []Inv
  BY Invariance
<1> QED
  BY <1>1, <1>2, <1>3, PTL DEF Spec, Mirror!Spec, ImplementsMirror

-----------------------------------------------------------------------------
(***************************************************************************)
(* Pollers.  The log holds the last events there were, as many as it may,  *)
(* and nothing up to a poller's cursor but what the poller was given.      *)
(***************************************************************************)
Retained ==
    Len(log.events) = IF latest_seq < MaxEvents THEN latest_seq ELSE MaxEvents

Polled(p) ==
    /\ cursor[p] <= latest_seq
    /\ \A i, j \in 1..Len(given[p]) : i < j => given[p][i].seq < given[p][j].seq
    /\ \A i \in 1..Len(given[p]) : given[p][i].seq <= cursor[p]
    /\ \A i \in 1..Len(log.events) : log.events[i].seq <= cursor[p] =>
          \E j \in 1..Len(given[p]) : given[p][j] = log.events[i]

PollInv ==
    /\ Inv
    /\ Retained
    /\ cursor \in [Pollers -> Nat]
    /\ given \in [Pollers -> Seq(EventType)]
    /\ \A p \in Pollers : Polled(p)

\* The log by its numbers: what its i-th event is.
LogNumbered ==
    /\ log \in LogType /\ log.events \in Seq(EventType)
    /\ Len(log.events) \in Nat /\ latest_seq \in Nat
    /\ Len(log.events) <= latest_seq
    /\ \A i \in 1..Len(log.events) :
          LET n == latest_seq - Len(log.events) + i
          IN  /\ log.events[i] = Event(n, n) /\ log.events[i].seq = n
              /\ log.events[i] \in EventType

LEMMA LogNumbers == Inv => LogNumbered
<1> SUFFICES ASSUME Inv PROVE LogNumbered
  OBVIOUS
<1>1. /\ log \in LogType /\ log.events \in Seq(EventType) /\ Len(log.events) \in Nat
      /\ latest_seq \in Nat /\ Len(log.events) <= latest_seq
  BY DEF Inv, TypeOK, LogType, Pipeline, latest_seq
<1>2. ASSUME NEW i \in 1..Len(log.events), NEW n, n = latest_seq - Len(log.events) + i
      PROVE  log.events[i] = Event(n, n) /\ log.events[i].seq = n
             /\ log.events[i] \in EventType
  BY <1>1, <1>2 DEF Inv, Pipeline, Event
<1> QED
  BY <1>1, <1>2 DEF LogNumbered

LEMMA LogNumbersNext == Inv' => LogNumbered'
BY LogNumbers, PTL

\* Between pushes and evictions the log has its last events.
LEMMA RetainedNext ==
    ASSUME Inv, Retained, [Next]_vars
    PROVE  Retained' /\ latest_seq <= latest_seq'
<1>1. /\ Len(log.events) \in Nat /\ latest_seq \in Nat
      /\ log.events \in Seq(EventType) /\ log \in LogType
  BY LogNumbers DEF LogNumbered
<1>2. CASE PushEvent
  <2> DEFINE kept == IF Len(log.events) >= MaxEvents THEN Tail(log.events) ELSE log.events
             e == Event(log.next_seq, reader.chunk)
  <2>1. /\ kept \in Seq(EventType)
        /\ Len(kept) = IF Len(log.events) >= MaxEvents THEN Len(log.events) - 1
                       ELSE Len(log.events)
    <3>1. Len(log.events) >= MaxEvents => log.events # << >>
      BY <1>1, MaxEventsAssumption
    <3> QED
      BY <1>1, <3>1, HeadTailProperties
  <2>2. e \in EventType
    BY DEF Inv, TypeOK, Event, EventType
  <2>3. log'.events = Append(kept, e) /\ log'.next_seq = log.next_seq + 1
    BY <1>2 DEF PushEvent, Push
  <2> HIDE DEF kept, e
  <2>4. Len(log'.events) = Len(kept) + 1
    BY <2>1, <2>2, <2>3, AppendProperties
  <2>5. latest_seq' = latest_seq + 1
    BY <1>1, <2>3 DEF latest_seq, LogType
  <2> HIDE DEF latest_seq
  <2> QED
    BY <1>1, <2>1, <2>4, <2>5, MaxEventsAssumption DEF Retained
<1>3. CASE UNCHANGED log
  BY <1>1, <1>3 DEF Retained, latest_seq
<1>4. PushEvent \/ UNCHANGED log
  <2>1. ReadLoop => PushEvent \/ UNCHANGED log
    BY DEF ReadLoop, Read, Process, Send, ReadEnds
  <2>2. ASSUME NEW c \in Conns, NEW fmt, Subscribe(c, fmt) PROVE UNCHANGED log
    BY <2>2 DEF Subscribe, Step
  <2>3. ASSUME NEW c \in Conns, Handle(c) PROVE UNCHANGED log
    BY <2>3 DEF Handle, ReadHistory, SendHistory, EndHistory, SnapshotSeq, SendResync,
                Receive, SendDiff, Lagged, Resubscribe, Step
  <2>4. ASSUME NEW c \in Conns, Disconnect(c) PROVE UNCHANGED log
    BY <2>4 DEF Disconnect, Step
  <2>5. UNCHANGED vars => UNCHANGED log
    BY DEF vars
  <2> QED
    BY <2>1, <2>2, <2>3, <2>4, <2>5 DEF Next
<1> QED
  BY <1>2, <1>3, <1>4

\* What the log has after a step and is not new it had before.
LEMMA LogForgets ==
    ASSUME Inv, Inv', Retained, Retained', latest_seq <= latest_seq',
           NEW i \in 1..Len(log'.events), log'.events[i].seq <= latest_seq
    PROVE  \E j \in 1..Len(log.events) : log.events[j] = log'.events[i]
<1> DEFINE L == Len(log.events)
           M == Len(log'.events)
           n == latest_seq' - M + i
           j == n - (latest_seq - L)
<1>1. /\ L \in Nat /\ latest_seq \in Nat /\ L <= latest_seq
      /\ \A k \in 1..L : log.events[k] = Event(latest_seq - L + k, latest_seq - L + k)
  BY LogNumbers DEF LogNumbered
<1>2. /\ M \in Nat /\ latest_seq' \in Nat /\ M <= latest_seq'
      /\ log'.events[i] = Event(n, n) /\ log'.events[i].seq = n
  BY LogNumbersNext DEF LogNumbered
<1>3. L = (IF latest_seq < MaxEvents THEN latest_seq ELSE MaxEvents)
      /\ M = (IF latest_seq' < MaxEvents THEN latest_seq' ELSE MaxEvents)
  BY DEF Retained
<1>4. i \in 1..M /\ n <= latest_seq
  BY <1>2
<1>5. j \in 1..L /\ latest_seq - L + j = n
  <2>1. PICK a, b, l, m : /\ a = latest_seq /\ b = latest_seq' /\ l = L /\ m = M
    OBVIOUS
  <2>2. /\ a \in Nat /\ b \in Nat /\ l \in Nat /\ m \in Nat /\ a <= b
        /\ i \in 1..m /\ b - m + i <= a
        /\ l = (IF a < MaxEvents THEN a ELSE MaxEvents)
        /\ m = (IF b < MaxEvents THEN b ELSE MaxEvents)
    BY <1>1, <1>2, <1>3, <1>4, <2>1
  <2> HIDE DEF L, M
  <2>3. /\ (b - m + i) - (a - l) \in 1..l
        /\ a - l + ((b - m + i) - (a - l)) = b - m + i
    BY <2>2, MaxEventsAssumption
  <2> QED
    BY <2>1, <2>3
<1> HIDE DEF j, n
<1>6. log.events[j] = Event(n, n)
  BY <1>1, <1>5
<1> QED
  BY <1>2, <1>5, <1>6

\* EventLog::since: all that is newer, and nothing else.
LEMMA SinceGives ==
    ASSUME Inv, NEW after \in Nat, after <= latest_seq
    PROVE  LET reply == Since(log, after)
               L == Len(log.events)
           IN  /\ reply \in Seq(EventType)
               /\ \E k \in 0..L :
                     /\ Len(reply) = L - k
                     /\ \A i \in 1..(L - k) : reply[i] = log.events[k + i]
                     /\ \A i \in 1..L : log.events[i].seq <= after <=> i <= k
<1> DEFINE L == Len(log.events)
           base == latest_seq - L
           Point(n) == /\ \A i \in 1..n : log.events[i].seq <= after
                       /\ \A i \in n+1..L : log.events[i].seq > after
           first == IF after <= base THEN 0 ELSE after - base
           k == PartitionPoint(log.events, after)
<1>1. /\ L \in Nat /\ latest_seq \in Nat /\ base \in Nat /\ log.events \in Seq(EventType)
      /\ \A i \in 1..L : log.events[i].seq = base + i
  BY LogNumbers DEF LogNumbered
<1>2. first \in 0..L /\ Point(first)
  <2>1. base + L = latest_seq
    BY <1>1
  <2> HIDE DEF base, L
  <2>2. first \in 0..L
    BY <1>1, <2>1
  <2> QED
    BY <1>1, <2>2
<1>3. k \in 0..L /\ Point(k)
  BY <1>2 DEF PartitionPoint
<1> HIDE DEF k
<1>4. \A i \in 1..L : log.events[i].seq <= after <=> i <= k
  <2> HIDE DEF base, L
  <2> QED
    BY <1>1, <1>3
<1>5. Since(log, after) = SubSeq(log.events, k + 1, L)
  BY DEF Since, k
<1>6. /\ SubSeq(log.events, k + 1, L) \in Seq(EventType)
      /\ Len(SubSeq(log.events, k + 1, L)) = L - k
      /\ \A i \in 1..(L - k) : SubSeq(log.events, k + 1, L)[i] = log.events[k + i]
  BY <1>1, <1>3
<1> QED
  BY <1>3, <1>4, <1>5, <1>6

LEMMA PollInvInit == PollInit => PollInv
<1> SUFFICES ASSUME PollInit PROVE PollInv
  OBVIOUS
<1>1. Inv
  BY InvInit DEF PollInit
<1>2. log.events = << >> /\ latest_seq = 0
  BY DEF PollInit, Init, NewLog, latest_seq
<1>3. Retained
  BY <1>2, MaxEventsAssumption DEF Retained
<1> QED
  BY <1>1, <1>2, <1>3 DEF PollInit, PollInv, Polled

LEMMA PollInvNext == PollInv /\ [PollNext]_allVars => PollInv'
<1> SUFFICES ASSUME PollInv, [PollNext]_allVars PROVE PollInv'
  OBVIOUS
<1>0. Inv /\ Retained
  BY DEF PollInv
<1>1. [Next]_vars
  BY DEF PollNext, PaneStep, Poll, allVars
<1>2. Inv' /\ Retained' /\ latest_seq <= latest_seq'
  BY <1>0, <1>1, InvNext, RetainedNext
<1>3. /\ latest_seq \in Nat /\ latest_seq' \in Nat
      /\ Len(log.events) \in Nat /\ log.events \in Seq(EventType)
      /\ \A i \in 1..Len(log.events) :
            /\ log.events[i] \in EventType
            /\ log.events[i].seq = latest_seq - Len(log.events) + i
  <2>1. latest_seq' \in Nat
    BY <1>2, LogNumbersNext DEF LogNumbered
  <2> QED
    BY <1>0, <2>1, LogNumbers DEF LogNumbered
<1>4. CASE UNCHANGED pollVars
  <2>1. ASSUME NEW p \in Pollers PROVE Polled(p)'
    <3>1. Polled(p) /\ cursor[p] \in Nat /\ cursor' = cursor /\ given' = given
      BY <1>4 DEF PollInv, pollVars
    <3>2. cursor[p] <= latest_seq'
      BY <1>2, <1>3, <3>1 DEF Polled
    <3>3. ASSUME NEW i \in 1..Len(log'.events), log'.events[i].seq <= cursor[p]
          PROVE  \E j \in 1..Len(given[p]) : given[p][j] = log'.events[i]
      <4>1. log'.events[i].seq <= latest_seq
        <5>1. log'.events[i].seq \in Nat
          <6>1. log'.events \in Seq(EventType)
            BY <1>2, LogNumbersNext DEF LogNumbered
          <6>2. log'.events[i] \in EventType
            BY <6>1
          <6> QED
            BY <6>2 DEF EventType
        <5> QED
          BY <1>3, <3>1, <3>3, <5>1 DEF Polled
      <4>2. PICK k \in 1..Len(log.events) : log.events[k] = log'.events[i]
        BY <1>0, <1>2, <4>1, LogForgets
      <4> QED
        BY <3>1, <3>3, <4>2 DEF Polled
    <3> QED
      BY <3>1, <3>2, <3>3 DEF Polled
  <2> QED
    BY <1>2, <1>4, <2>1 DEF PollInv, pollVars
<1>5. ASSUME NEW p \in Pollers, Poll(p) PROVE PollInv'
  <2> DEFINE L == Len(log.events)
             reply == Since(log, cursor[p])
             g == given[p]
             R == Len(reply)
             new == g \o reply
  <2>0. UNCHANGED vars /\ log' = log /\ latest_seq' = latest_seq
    BY <1>5 DEF Poll, vars, latest_seq
  <2>1. /\ cursor[p] \in Nat /\ cursor[p] <= latest_seq /\ g \in Seq(EventType)
        /\ Polled(p) /\ cursor \in [Pollers -> Nat]
        /\ given \in [Pollers -> Seq(EventType)]
    BY DEF PollInv, Polled
  <2>2. reply \in Seq(EventType) /\ reply # << >>
    BY <1>0, <1>5, <2>1, SinceGives DEF Poll
  <2>3. PICK k \in 0..L :
          /\ R = L - k
          /\ \A i \in 1..(L - k) : reply[i] = log.events[k + i]
          /\ \A i \in 1..L : log.events[i].seq <= cursor[p] <=> i <= k
    BY <1>0, <2>1, SinceGives
  <2>4. /\ given' = [given EXCEPT ![p] = new]
        /\ cursor' = [cursor EXCEPT ![p] = reply[R].seq]
    BY <1>5 DEF Poll
  <2> HIDE DEF reply
  <2>5. /\ new \in Seq(EventType) /\ Len(new) = Len(g) + R /\ Len(g) \in Nat /\ R \in Nat
        /\ \A i \in 1..Len(g) : new[i] = g[i]
        /\ \A i \in 1..R : new[Len(g) + i] = reply[i]
        /\ R >= 1
    BY <2>1, <2>2
  <2> HIDE DEF new, g, R, L
  <2>6. L \in Nat /\ L = Len(log.events) /\ k \in Nat
    BY <1>3 DEF L
  <2>7. \A i \in 1..R : /\ reply[i] = log.events[k + i] /\ k + i \in 1..L
                        /\ reply[i].seq = latest_seq - L + (k + i)
                        /\ reply[i].seq > cursor[p] /\ reply[i].seq \in Nat
    <3> SUFFICES ASSUME NEW i \in 1..R
                 PROVE  /\ reply[i] = log.events[k + i] /\ k + i \in 1..L
                        /\ reply[i].seq = latest_seq - L + (k + i)
                        /\ reply[i].seq > cursor[p] /\ reply[i].seq \in Nat
      OBVIOUS
    <3>1. k + i \in 1..L /\ ~(k + i <= k) /\ reply[i] = log.events[k + i]
      BY <2>3, <2>5, <2>6
    <3>2. reply[i].seq = latest_seq - L + (k + i) /\ reply[i].seq \in Nat
      BY <1>3, <2>6, <3>1 DEF EventType
    <3> QED
      BY <2>1, <2>3, <3>1, <3>2
  <2>8. R \in 1..R /\ k + R = L
    BY <2>3, <2>5, <2>6
  <2>9. reply[R].seq = latest_seq
    <3>1. reply[R].seq = latest_seq - L + (k + R)
      BY <2>7, <2>8
    <3> QED
      BY <1>3, <2>6, <2>8, <3>1
  <2>10. /\ cursor' \in [Pollers -> Nat] /\ cursor'[p] = latest_seq
         /\ given' \in [Pollers -> Seq(EventType)] /\ given'[p] = new
         /\ \A q \in Pollers \ {p} : cursor'[q] = cursor[q] /\ given'[q] = given[q]
    BY <1>3, <2>1, <2>4, <2>5, <2>9
  <2>11. \A i \in 1..Len(new) :
            \/ i \in 1..Len(g) /\ new[i] = g[i]
            \/ i - Len(g) \in 1..R /\ new[i] = reply[i - Len(g)]
    <3> SUFFICES ASSUME NEW i \in 1..Len(new), i > Len(g)
                 PROVE  i - Len(g) \in 1..R /\ new[i] = reply[i - Len(g)]
      BY <2>5
    <3>1. i - Len(g) \in 1..R /\ Len(g) + (i - Len(g)) = i
      BY <2>5
    <3> QED
      BY <2>5, <3>1
  <2>12. \A i \in 1..Len(g) : g[i].seq \in Nat /\ g[i].seq <= cursor[p]
    <3>1. \A i \in 1..Len(g) : g[i] \in EventType
      BY <2>1
    <3> QED
      BY <2>1, <3>1 DEF Polled, g, EventType
  <2>13. \A i \in 1..Len(new) : new[i].seq <= latest_seq
    <3>1. ASSUME NEW i \in 1..R PROVE reply[i].seq <= latest_seq
      <4>1. k + i <= L /\ reply[i].seq = latest_seq - L + (k + i)
        BY <2>7, <2>6
      <4> QED
        BY <1>3, <2>5, <2>6, <4>1
    <3> QED
      BY <1>3, <2>1, <2>11, <2>12, <3>1
  <2>14. ASSUME NEW i \in 1..Len(new), NEW j \in 1..Len(new), i < j
         PROVE  new[i].seq < new[j].seq
    <3>1. CASE j \in 1..Len(g)
      <4>1. i \in 1..Len(g) /\ new[i] = g[i] /\ new[j] = g[j]
        BY <2>5, <2>14, <3>1
      <4> QED
        BY <2>1, <2>14, <3>1, <4>1 DEF Polled, g
    <3>2. CASE i \in 1..Len(g) /\ j \notin 1..Len(g)
      <4>1. new[j] = reply[j - Len(g)] /\ j - Len(g) \in 1..R
        BY <2>11, <3>2
      <4>2. new[j].seq > cursor[p] /\ new[j].seq \in Nat
        BY <2>7, <4>1
      <4>3. new[i].seq <= cursor[p] /\ new[i].seq \in Nat
        BY <2>5, <2>12, <3>2
      <4> QED
        BY <2>1, <4>2, <4>3
    <3>3. CASE i \notin 1..Len(g)
      <4>1. /\ i - Len(g) \in 1..R /\ new[i] = reply[i - Len(g)]
            /\ j - Len(g) \in 1..R /\ new[j] = reply[j - Len(g)]
        BY <2>5, <2>11, <2>14, <3>3
      <4>2. /\ new[i].seq = latest_seq - L + (k + (i - Len(g)))
            /\ new[j].seq = latest_seq - L + (k + (j - Len(g)))
        BY <2>7, <4>1
      <4> QED
        BY <1>3, <2>5, <2>6, <2>14, <4>2
    <3> QED
      BY <3>1, <3>2, <3>3
  <2>15. ASSUME NEW i \in 1..Len(log.events)
         PROVE  \E j \in 1..Len(new) : new[j] = log.events[i]
    <3>1. CASE i <= k
      <4>1. log.events[i].seq <= cursor[p]
        BY <2>3, <2>6, <3>1
      <4>2. PICK j \in 1..Len(g) : g[j] = log.events[i]
        BY <2>1, <4>1 DEF Polled, g
      <4>3. j \in 1..Len(new) /\ new[j] = g[j]
        BY <2>5
      <4> QED
        BY <4>2, <4>3
    <3>2. CASE i > k
      <4>1. i - k \in 1..R /\ k + (i - k) = i
        BY <2>3, <2>6, <3>2
      <4>2. Len(g) + (i - k) \in 1..Len(new) /\ new[Len(g) + (i - k)] = reply[i - k]
        BY <2>5, <4>1
      <4>3. reply[i - k] = log.events[i]
        BY <2>7, <4>1
      <4> QED
        BY <4>2, <4>3
    <3> QED
      BY <2>6, <3>1, <3>2
  <2>16. Polled(p)'
    BY <1>3, <2>0, <2>10, <2>13, <2>14, <2>15 DEF Polled
  <2>17. ASSUME NEW q \in Pollers \ {p} PROVE Polled(q)'
    <3>1. Polled(q) /\ cursor'[q] = cursor[q] /\ given'[q] = given[q]
      BY <2>10 DEF PollInv
    <3> QED
      BY <2>0, <3>1 DEF Polled
  <2> QED
    BY <1>2, <2>10, <2>16, <2>17 DEF PollInv
<1> QED
  BY <1>4, <1>5 DEF PollNext, PaneStep, allVars

\* Polling between any steps of the read loop and the connections stays in the
\* invariant that the two results below rest on.
THEOREM PollInvariance == PollSpec => []PollInv
<1> QED
  BY PollInvInit, PollInvNext, PTL DEF PollSpec

\* The log retains the last MaxEvents events, under their numbers (EventLog::push).
THEOREM LastEventsRetained == PollSpec => []RetainsTheLastEvents
<1>1. PollInv => RetainsTheLastEvents
  <2> SUFFICES ASSUME PollInv PROVE RetainsTheLastEvents
    OBVIOUS
  <2> DEFINE n == log.next_seq - 1
             kept == IF n < MaxEvents THEN n ELSE MaxEvents
  <2>1. /\ log.events \in Seq(EventType) /\ Len(log.events) = kept /\ latest_seq = n
        /\ \A i \in 1..Len(log.events) :
              log.events[i] = Event(n - kept + i, n - kept + i)
    BY LogNumbers DEF LogNumbered, PollInv, Retained, latest_seq
  <2> HIDE DEF n, kept
  <2>2. log.events = [i \in 1..kept |-> Event(n - kept + i, n - kept + i)]
    BY <2>1
  <2> QED
    BY <2>2 DEF RetainsTheLastEvents, n, kept
<1> QED
  BY <1>1, PollInvariance, PTL

\* A poller that asks for what follows the last event it was given (get_events_handler)
\* is given nothing twice, and everything that was not evicted before it asked.
THEOREM PollsSkipOnlyEvicted == PollSpec => []SkipsOnlyEvicted
<1>1. PollInv => SkipsOnlyEvicted
  BY DEF PollInv, Polled, SkipsOnlyEvicted
<1> QED
  BY <1>1, PollInvariance, PTL

=============================================================================
