---------------------------- MODULE GuiClientProofs ----------------------------
(***************************************************************************)
(* What GuiClient guarantees for any servers and panes, any size of the    *)
(* message queue and any number of clients, tasks and requests.            *)
(***************************************************************************)
EXTENDS GuiClient, SequenceTheorems, TLAPS

-----------------------------------------------------------------------------
(***************************************************************************)
(* Types.                                                                  *)
(***************************************************************************)
GuiType == [pc : {"waiting", "draining", "drawing"},
            server : Servers, panes : SUBSET Panes, selected : SUBSET Panes]

MessageType == [kind : {"panes", "output", "error"}, panes : SUBSET Panes]

LifecycleSteps == {"listing", "first", "connecting", "subscribed", "sending",
                   "receiving", "relisting", "failed", "ended"}

LifecycleType == [server : Servers, pc : LifecycleSteps,
                  got : SUBSET Panes, aborted : BOOLEAN]

StreamSteps == {"connecting", "streaming", "locked", "sending", "failed", "ended"}

StreamType == [pane : Panes, server : Servers, pc : StreamSteps, aborted : BOOLEAN]

UpdatesType == [unseen : Nat, missed : BOOLEAN]

Typed == /\ status \in [Panes -> {"none", "alive", "gone"}]
         /\ gui \in GuiType
         /\ DOMAIN states \subseteq Panes
         /\ \A p \in DOMAIN states : states[p] \in DOMAIN streams
         /\ queue \in Seq(MessageType) /\ Len(queue) <= Capacity
         /\ lifecycle \in Seq(LifecycleType)
         /\ updates \in UpdatesType
         /\ streams \in Seq(StreamType)
         /\ requests \in 0..MaxRequests

Inv == Typed /\ SelectedIsDrawable /\ TasksAreThoseShown

LEMMA TypedIsTypeOK == Typed => TypeOK
<1> SUFFICES ASSUME Typed PROVE TypeOK
  OBVIOUS
<1>1. /\ \A i \in DOMAIN queue : queue[i] \in MessageType
      /\ \A t \in DOMAIN lifecycle : lifecycle[t] \in LifecycleType
      /\ \A t \in DOMAIN streams : streams[t] \in StreamType
  BY ElementOfSeq, LenProperties DEF Typed
<1> QED
  BY <1>1 DEF Typed, TypeOK, GuiType, MessageType, LifecycleType, LifecycleSteps, StreamType,
              StreamSteps, UpdatesType

\* The elements of the sequences.
LEMMA Elements ==
    ASSUME Typed
    PROVE  /\ DOMAIN queue = 1..Len(queue) /\ Len(queue) \in Nat
           /\ DOMAIN lifecycle = 1..Len(lifecycle) /\ Len(lifecycle) \in Nat
           /\ DOMAIN streams = 1..Len(streams) /\ Len(streams) \in Nat
           /\ \A t \in DOMAIN lifecycle : lifecycle[t] \in LifecycleType
           /\ \A t \in DOMAIN streams : streams[t] \in StreamType
BY ElementOfSeq, LenProperties DEF Typed

\* One task's record is replaced.
LEMMA ReplacedIs ==
    ASSUME NEW T, NEW tasks \in Seq(T), NEW t \in DOMAIN tasks, NEW r \in T
    PROVE  LET new == [tasks EXCEPT ![t] = r]
           IN  /\ new \in Seq(T) /\ DOMAIN new = DOMAIN tasks /\ Len(new) = Len(tasks)
               /\ new[t] = r
               /\ \A u \in DOMAIN tasks \ {t} : new[u] = tasks[u]
<1>1. DOMAIN tasks = 1..Len(tasks)
  BY LenProperties
<1> QED
  BY <1>1, ExceptSeq

LEMMA AppendedIs ==
    ASSUME NEW T, NEW tasks \in Seq(T), NEW r \in T
    PROVE  LET new == Append(tasks, r)
           IN  /\ new \in Seq(T) /\ Len(tasks) \in Nat /\ Len(new) = Len(tasks) + 1
               /\ DOMAIN tasks = 1..Len(tasks) /\ DOMAIN new = 1..(Len(tasks) + 1)
               /\ new[Len(tasks) + 1] = r
               /\ \A u \in DOMAIN tasks : new[u] = tasks[u]
<1>1. DOMAIN tasks = 1..Len(tasks) /\ Len(tasks) \in Nat
  BY LenProperties
<1> QED
  BY <1>1, AppendProperties

\* What abort() does to each of the tasks: it is over, or was past its await.
LEMMA AbortIs ==
    ASSUME NEW T, NEW tasks \in Seq(T), NEW ts, NEW late,
           T = LifecycleType \/ T = StreamType
    PROVE  LET new == Abort(tasks, ts, late)
           IN  /\ new \in Seq(T) /\ DOMAIN new = DOMAIN tasks /\ Len(new) = Len(tasks)
               /\ \A t \in DOMAIN tasks :
                     /\ t \notin ts => new[t] = tasks[t]
                     /\ t \in ts => new[t].aborted \/ new[t].pc = "ended"
                     /\ new[t].server = tasks[t].server
                     /\ T = StreamType => new[t].pane = tasks[t].pane
                     /\ new[t].pc = tasks[t].pc \/ new[t].pc = "ended"
                     /\ tasks[t].aborted => new[t].aborted
<1>1. DOMAIN tasks = 1..Len(tasks) /\ Len(tasks) \in Nat
  BY LenProperties
<1>2. \A t \in DOMAIN tasks : tasks[t] \in T
  BY <1>1, ElementOfSeq
<1> DEFINE new == Abort(tasks, ts, late)
<1>3. ASSUME NEW t \in DOMAIN tasks
      PROVE  /\ new[t] \in T
             /\ t \notin ts => new[t] = tasks[t]
             /\ t \in ts => new[t].aborted \/ new[t].pc = "ended"
             /\ new[t].server = tasks[t].server
             /\ T = StreamType => new[t].pane = tasks[t].pane
             /\ new[t].pc = tasks[t].pc \/ new[t].pc = "ended"
             /\ tasks[t].aborted => new[t].aborted
  <2> DEFINE r == tasks[t]
  <2>1. r \in T
    BY <1>2
  <2>2. CASE t \notin ts \/ r.pc = "ended"
    BY <1>2, <2>2 DEF Abort
  <2>3. CASE t \in ts /\ r.pc # "ended"
    <3>1. PICK pc \in {r.pc, "ended"} : new[t] = [r EXCEPT !.aborted = TRUE, !.pc = pc]
      BY <2>3 DEF Abort
    <3>0. r = tasks[t]
      OBVIOUS
    <3> HIDE DEF r, new
    <3>2. CASE T = LifecycleType /\ T # StreamType
      <4>1. pc \in LifecycleSteps
        BY <2>1, <3>2 DEF LifecycleType, LifecycleSteps
      <4> QED
        BY <2>1, <2>3, <3>0, <3>1, <3>2, <4>1 DEF LifecycleType
    <3>3. CASE T = StreamType
      <4>1. pc \in StreamSteps
        BY <2>1, <3>3 DEF StreamType, StreamSteps
      <4> QED
        BY <2>1, <2>3, <3>0, <3>1, <3>3, <4>1 DEF StreamType
    <3> QED
      BY <3>2, <3>3
  <2> QED
    BY <2>2, <2>3
<1>4. DOMAIN new = 1..Len(tasks)
  BY <1>1 DEF Abort
<1>5. new \in [1..Len(tasks) -> T]
  BY <1>1, <1>3, <1>4 DEF Abort
<1> HIDE DEF new
<1>6. new \in Seq(T)
  BY <1>1, <1>5, SeqDef
<1>7. Len(new) = Len(tasks)
  BY <1>1, <1>4, <1>6, LenProperties
<1> QED
  BY <1>1, <1>3, <1>4, <1>6, <1>7 DEF new

-----------------------------------------------------------------------------
(***************************************************************************)
(* Every task that goes on is the task of a pane shown, and no other's.    *)
(*                                                                         *)
(* Nothing has to be added to the three invariants: that pane_states gives *)
(* each pane a task of its own follows from the pane the task names, so an *)
(* aborted task is never still the task of another pane.                   *)
(***************************************************************************)
Listed == DOMAIN states \subseteq gui.panes

Shown == \A t \in DOMAIN streams :
            ~streams[t].aborted /\ streams[t].pc # "ended" =>
                \E p \in DOMAIN states : states[p] = t

Own == \A p \in DOMAIN states :
          /\ streams[states[p]].pane = p
          /\ streams[states[p]].server = gui.server
          /\ ~streams[states[p]].aborted

Latest == \A t \in DOMAIN lifecycle :
             ~lifecycle[t].aborted /\ lifecycle[t].pc # "ended" =>
                t = Len(lifecycle) /\ lifecycle[t].server = gui.server

LEMMA Parts == TasksAreThoseShown <=> Listed /\ Shown /\ Own /\ Latest
BY DEF TasksAreThoseShown, Listed, Shown, Own, Latest

LEMMA InvInit == Init => Inv
<1> SUFFICES ASSUME Init PROVE Inv
  OBVIOUS
<1>1. LifecycleTask(FirstServer) \in LifecycleType
  BY ServerAssumption DEF LifecycleTask, LifecycleType, LifecycleSteps
<1>2. /\ lifecycle \in Seq(LifecycleType) /\ DOMAIN lifecycle = 1..1 /\ Len(lifecycle) = 1
      /\ lifecycle[1] = LifecycleTask(FirstServer)
  BY <1>1 DEF Init
<1>3. DOMAIN states = {} /\ DOMAIN streams = {} /\ DOMAIN queue = {}
      /\ Len(queue) = 0 /\ queue \in Seq(MessageType) /\ streams \in Seq(StreamType)
  BY DEF Init
<1>4. gui \in GuiType
  BY ServerAssumption DEF Init, GuiType
<1>5. updates \in UpdatesType
  BY DEF Init, NoUpdates, UpdatesType
<1>6. status \in [Panes -> {"none", "alive", "gone"}]
  BY DEF Init
<1>7. requests \in 0..MaxRequests
  BY BoundsAssumption DEF Init
<1>8. Typed
  BY <1>2, <1>3, <1>4, <1>5, <1>6, <1>7, CapacityAssumption DEF Typed
<1>9. SelectedIsDrawable
  BY DEF Init, SelectedIsDrawable
<1>10. Listed /\ Shown /\ Own /\ Latest
  BY <1>2, <1>3 DEF Init, Listed, Shown, Own, Latest, LifecycleTask
<1> QED
  BY <1>8, <1>9, <1>10, Parts DEF Inv

\* The queue, whoever sends.
LEMMA SendType ==
    ASSUME Typed, NEW msg \in MessageType, Send(msg)
    PROVE  queue' \in Seq(MessageType) /\ Len(queue') <= Capacity
<1>1. queue \in Seq(MessageType) /\ Len(queue) \in Nat
  BY LenProperties DEF Typed
<1> QED
  BY <1>1, AppendProperties, CapacityAssumption DEF Send

LEMMA MessageTypes ==
    /\ \A ps \in SUBSET Panes : PanesUpdated(ps) \in MessageType
    /\ PaneOutput \in MessageType /\ Error \in MessageType
BY DEF PanesUpdated, PaneOutput, Error, MessageType

\* A lifecycle task goes on, or ends: who is whose task is as it was.
LEMMA LifecycleStep ==
    ASSUME Inv, NEW t \in DOMAIN lifecycle, NEW r \in LifecycleType,
           lifecycle' = [lifecycle EXCEPT ![t] = r],
           r.server = lifecycle[t].server, r.aborted = lifecycle[t].aborted,
           lifecycle[t].pc # "ended",
           UNCHANGED <<status, gui, states, streams, requests>>,
           queue' \in Seq(MessageType), Len(queue') <= Capacity,
           updates' \in UpdatesType
    PROVE  Inv'
<1>1. /\ lifecycle' \in Seq(LifecycleType) /\ DOMAIN lifecycle' = DOMAIN lifecycle
      /\ Len(lifecycle') = Len(lifecycle) /\ lifecycle'[t] = r
      /\ \A u \in DOMAIN lifecycle \ {t} : lifecycle'[u] = lifecycle[u]
  BY ReplacedIs DEF Inv, Typed
<1>2. Typed'
  BY <1>1 DEF Inv, Typed
<1>3. SelectedIsDrawable' /\ Shown' /\ Own'
  BY Parts DEF Inv, SelectedIsDrawable, Shown, Own
<1>4. Latest'
  <2>1. Latest
    BY Parts DEF Inv
  <2>2. ASSUME NEW u \in DOMAIN lifecycle, ~lifecycle'[u].aborted, lifecycle'[u].pc # "ended"
        PROVE  u = Len(lifecycle) /\ lifecycle'[u].server = gui.server
    <3>1. CASE u = t
      BY <1>1, <2>1, <2>2, <3>1 DEF Latest
    <3>2. CASE u # t
      BY <1>1, <2>1, <2>2, <3>2 DEF Latest
    <3> QED
      BY <3>1, <3>2
  <2> QED
    BY <1>1, <2>2 DEF Latest
<1> QED
  BY <1>2, <1>3, <1>4 DEF Inv, TasksAreThoseShown, Listed, Shown, Own, Latest

\* What the steps of a lifecycle task make of its record.
LEMMA LifecycleGoesOnIs ==
    ASSUME Inv, NEW t \in DOMAIN lifecycle, NEW from, NEW to \in LifecycleSteps,
           LifecycleGoesOn(t, from, to) \/ Answered(t, from, to),
           from # "ended",
           queue' \in Seq(MessageType), Len(queue') <= Capacity,
           updates' \in UpdatesType
    PROVE  Inv'
<1> DEFINE task == lifecycle[t]
<1>0. task \in LifecycleType /\ Alive(task.server) \in SUBSET Panes
  BY Elements DEF Inv, Alive
<1>1. CASE LifecycleGoesOn(t, from, to)
  <2>1. PICK pc \in {to, "ended"} :
          lifecycle' = [lifecycle EXCEPT ![t] = [task EXCEPT !.got = {}, !.pc = pc]]
    BY <1>1 DEF LifecycleGoesOn
  <2>2. task.pc # "ended"
    BY <1>1 DEF LifecycleGoesOn
  <2> DEFINE r == [task EXCEPT !.got = {}, !.pc = pc]
  <2>3. lifecycle' = [lifecycle EXCEPT ![t] = r]
    BY <2>1
  <2>4. r \in LifecycleType /\ r.server = task.server /\ r.aborted = task.aborted
    <3> HIDE DEF task
    <3>1. pc \in LifecycleSteps
      BY DEF LifecycleSteps
    <3> QED
      BY <1>0, <3>1 DEF LifecycleType
  <2> HIDE DEF r
  <2> QED
    BY <1>1, <2>2, <2>3, <2>4, LifecycleStep DEF LifecycleGoesOn
<1>2. CASE Answered(t, from, to)
  <2> DEFINE got == Alive(task.server)
  <2> DEFINE r == [task EXCEPT !.pc = to, !.got = got]
  <2>1. lifecycle' = [lifecycle EXCEPT ![t] = r] /\ task.pc # "ended"
    BY <1>2 DEF Answered
  <2>2. r \in LifecycleType /\ r.server = task.server /\ r.aborted = task.aborted
    <3>1. got \in SUBSET Panes
      BY <1>0
    <3> HIDE DEF task, got
    <3> QED
      BY <1>0, <3>1 DEF LifecycleType
  <2> HIDE DEF r
  <2> QED
    BY <1>2, <2>1, <2>2, LifecycleStep DEF Answered
<1> QED
  BY <1>1, <1>2

LEMMA LifecycleStepsAre ==
    /\ "listing" \in LifecycleSteps /\ "first" \in LifecycleSteps
    /\ "connecting" \in LifecycleSteps /\ "subscribed" \in LifecycleSteps
    /\ "sending" \in LifecycleSteps /\ "receiving" \in LifecycleSteps
    /\ "relisting" \in LifecycleSteps /\ "failed" \in LifecycleSteps
    /\ "ended" \in LifecycleSteps
BY DEF LifecycleSteps

LEMMA InvLifecycle ==
    ASSUME Inv, NEW t \in DOMAIN lifecycle, Lifecycle(t) \/ LifecycleFails(t)
    PROVE  Inv'
<1>0. /\ queue \in Seq(MessageType) /\ Len(queue) <= Capacity
      /\ updates \in UpdatesType
      /\ NoUpdates \in UpdatesType
      /\ \A b \in BOOLEAN : [updates EXCEPT !.missed = b] \in UpdatesType
      /\ updates.unseen > 0 => [updates EXCEPT !.unseen = @ - 1] \in UpdatesType
  BY DEF Inv, Typed, UpdatesType, NoUpdates
<1>1. PanesUpdated(lifecycle[t].got) \in MessageType /\ Error \in MessageType
  BY Elements, MessageTypes DEF Inv, LifecycleType
<1>2. /\ Send(PanesUpdated(lifecycle[t].got)) => queue' \in Seq(MessageType) /\ Len(queue') <= Capacity
      /\ Send(Error) => queue' \in Seq(MessageType) /\ Len(queue') <= Capacity
  BY <1>1, SendType DEF Inv
<1>3. CASE FirstList(t)
  BY <1>0, <1>3, LifecycleGoesOnIs, LifecycleStepsAre DEF FirstList
<1>4. CASE SendFirst(t)
  BY <1>0, <1>2, <1>4, LifecycleGoesOnIs, LifecycleStepsAre DEF SendFirst
<1>5. CASE Subscribe(t)
  BY <1>0, <1>5, LifecycleGoesOnIs, LifecycleStepsAre DEF Subscribe
<1>6. CASE Snapshot(t)
  BY <1>0, <1>6, LifecycleGoesOnIs, LifecycleStepsAre DEF Snapshot
<1>7. CASE SendPanes(t)
  BY <1>0, <1>2, <1>7, LifecycleGoesOnIs, LifecycleStepsAre DEF SendPanes
<1>8. CASE Receive(t)
  BY <1>0, <1>8, LifecycleGoesOnIs, LifecycleStepsAre DEF Receive
<1>9. CASE Relist(t)
  BY <1>0, <1>9, LifecycleGoesOnIs, LifecycleStepsAre DEF Relist
<1>10. CASE LifecycleFails(t)
  BY <1>0, <1>2, <1>10, LifecycleGoesOnIs, LifecycleStepsAre DEF LifecycleFails
<1> QED
  BY <1>3, <1>4, <1>5, <1>6, <1>7, <1>8, <1>9, <1>10 DEF Lifecycle

\* A stream task goes on, or ends.
LEMMA StreamStep ==
    ASSUME Inv, NEW t \in DOMAIN streams, NEW pc \in StreamSteps,
           streams' = [streams EXCEPT ![t].pc = pc],
           streams[t].pc # "ended",
           UNCHANGED <<status, gui, states, lifecycle, updates, requests>>,
           queue' \in Seq(MessageType), Len(queue') <= Capacity
    PROVE  Inv'
<1> DEFINE task == streams[t]
<1> DEFINE r == [task EXCEPT !.pc = pc]
<1>0. task \in StreamType
  BY Elements DEF Inv
<1>1. streams' = [streams EXCEPT ![t] = r]
  OBVIOUS
<1>2. r \in StreamType /\ r.pane = task.pane /\ r.server = task.server /\ r.aborted = task.aborted
  <2> HIDE DEF task
  <2> QED
    BY <1>0 DEF StreamType
<1> HIDE DEF r
<1>3. /\ streams' \in Seq(StreamType) /\ DOMAIN streams' = DOMAIN streams
      /\ streams'[t] = r
      /\ \A u \in DOMAIN streams \ {t} : streams'[u] = streams[u]
  <2>1. streams \in Seq(StreamType) /\ r \in StreamType
    BY <1>2 DEF Inv, Typed
  <2> QED
    BY <1>1, <2>1, ReplacedIs
<1>4. Typed'
  BY <1>3 DEF Inv, Typed
<1>5. \A u \in DOMAIN streams :
         /\ streams'[u].pane = streams[u].pane /\ streams'[u].server = streams[u].server
         /\ streams'[u].aborted = streams[u].aborted
         /\ streams'[u].pc # "ended" => streams[u].pc # "ended"
  <2> SUFFICES ASSUME NEW u \in DOMAIN streams
               PROVE  /\ streams'[u].pane = streams[u].pane /\ streams'[u].server = streams[u].server
                      /\ streams'[u].aborted = streams[u].aborted
                      /\ streams'[u].pc # "ended" => streams[u].pc # "ended"
    OBVIOUS
  <2>1. CASE u = t
    BY <1>2, <1>3, <2>1
  <2>2. CASE u # t
    BY <1>3, <2>2
  <2> QED
    BY <2>1, <2>2
<1>6. SelectedIsDrawable' /\ Latest'
  BY Parts DEF Inv, SelectedIsDrawable, Latest
<1>7. Shown'
  BY <1>3, <1>5, Parts DEF Inv, Shown
<1>8. Own'
  BY <1>5, Parts DEF Inv, Typed, Own
<1> QED
  BY <1>4, <1>6, <1>7, <1>8 DEF Inv, TasksAreThoseShown, Listed, Shown, Own, Latest

LEMMA InvStream ==
    ASSUME Inv, NEW t \in DOMAIN streams,
           Stream(t) \/ Lock(t) \/ Unlock(t) \/ SendOutput(t) \/ StreamFails(t)
    PROVE  Inv'
<1>0. /\ queue \in Seq(MessageType) /\ Len(queue) <= Capacity
      /\ Send(PaneOutput) => queue' \in Seq(MessageType) /\ Len(queue') <= Capacity
      /\ Send(Error) => queue' \in Seq(MessageType) /\ Len(queue') <= Capacity
  BY MessageTypes, SendType DEF Inv, Typed
<1>1. /\ "connecting" \in StreamSteps /\ "streaming" \in StreamSteps /\ "locked" \in StreamSteps
      /\ "sending" \in StreamSteps /\ "failed" \in StreamSteps /\ "ended" \in StreamSteps
  BY DEF StreamSteps
<1>2. ASSUME NEW from \in StreamSteps \ {"ended"}, NEW to \in StreamSteps, StreamGoesOn(t, from, to),
             queue' \in Seq(MessageType), Len(queue') <= Capacity
      PROVE  Inv'
  BY <1>2, StreamStep DEF StreamGoesOn
<1>3. CASE Stream(t)
  BY <1>0, <1>1, <1>2, <1>3 DEF Stream
<1>4. CASE Lock(t)
  BY <1>0, <1>1, <1>2, <1>4 DEF Lock
<1>5. CASE Unlock(t)
  BY <1>0, <1>1, <1>2, <1>5 DEF Unlock
<1>6. CASE SendOutput(t)
  <2>1. PICK pc \in {"ended", "streaming"} : streams' = [streams EXCEPT ![t].pc = pc]
    BY <1>6 DEF SendOutput
  <2> QED
    BY <1>0, <1>1, <1>6, <2>1, StreamStep DEF SendOutput
<1>7. CASE StreamFails(t)
  BY <1>0, <1>1, <1>2, <1>7 DEF StreamFails
<1> QED
  BY <1>3, <1>4, <1>5, <1>6, <1>7

-----------------------------------------------------------------------------
\* A list drops panes, and aborts their tasks: another pane's task is not one of
\* them, because a task names its pane.
LEMMA InvDrain ==
    ASSUME Inv, Drain
    PROVE  Inv'
<1>0. /\ queue \in Seq(MessageType) /\ queue # << >>
      /\ Head(queue) \in MessageType /\ Tail(queue) \in Seq(MessageType)
      /\ Len(Tail(queue)) = Len(queue) - 1 /\ Len(queue) \in Nat
  <2>1. queue \in Seq(MessageType) /\ queue # << >>
    BY DEF Inv, Typed, Drain
  <2> QED
    BY <2>1, HeadTailProperties, LenProperties
<1>1. queue' \in Seq(MessageType) /\ Len(queue') <= Capacity
  BY <1>0, CapacityAssumption DEF Drain, Inv, Typed
<1>2. CASE UNCHANGED <<gui, states, streams>>
  <2>1. Typed'
    BY <1>1, <1>2 DEF Drain, Inv, Typed
  <2> QED
    BY <1>2, <2>1 DEF Drain, Inv, SelectedIsDrawable, TasksAreThoseShown
<1>3. CASE TakePanes(Head(queue).panes)
  <2> DEFINE ps == Head(queue).panes
  <2>0. ps \in SUBSET Panes
    BY <1>0 DEF MessageType
  <2> DEFINE ts == {states[p] : p \in DOMAIN states \ ps}
  <2>1. PICK late : streams' = Abort(streams, ts, late)
    BY <1>3 DEF TakePanes
  <2>2. /\ gui' = [gui EXCEPT !.panes = ps, !.selected = gui.selected \cap ps]
        /\ DOMAIN states' = ps \cap DOMAIN states
        /\ \A p \in DOMAIN states' : states'[p] = states[p]
        /\ UNCHANGED <<status, lifecycle, updates, requests>>
    BY <1>3 DEF TakePanes, Keep, Drain
  <2>3. \A u : u \in ts <=> \E p \in DOMAIN states : p \notin ps /\ states[p] = u
    OBVIOUS
  <2> HIDE DEF ps, ts
  <2>4. /\ streams' \in Seq(StreamType) /\ DOMAIN streams' = DOMAIN streams
        /\ \A u \in DOMAIN streams :
              /\ u \notin ts => streams'[u] = streams[u]
              /\ u \in ts => streams'[u].aborted \/ streams'[u].pc = "ended"
    <3>1. streams \in Seq(StreamType)
      BY DEF Inv, Typed
    <3> QED
      BY <2>1, <3>1, AbortIs
  <2>5. gui' \in GuiType /\ gui'.server = gui.server /\ gui'.selected = gui.selected \cap ps
        /\ gui'.panes = ps
    BY <2>0, <2>2 DEF Inv, Typed, GuiType
  <2>6. Typed'
    BY <1>1, <2>2, <2>4, <2>5 DEF Inv, Typed
  <2>7. SelectedIsDrawable'
    BY <2>2, <2>5 DEF Inv, SelectedIsDrawable
  <2>8. Shown /\ Own /\ Latest
    BY Parts DEF Inv
  <2>9. Shown'
    BY <2>2, <2>3, <2>4, <2>8 DEF Shown
  <2>10. Own'
    <3>1. \A p \in DOMAIN states' : states[p] \notin ts
      BY <2>2, <2>3, <2>8 DEF Own
    <3>2. \A p \in DOMAIN states : states[p] \in DOMAIN streams
      BY DEF Inv, Typed
    <3> QED
      BY <2>2, <2>4, <2>5, <2>8, <3>1, <3>2 DEF Own
  <2>11. Latest' /\ Listed'
    BY <2>2, <2>5, <2>8 DEF Latest, Listed
  <2> QED
    BY <2>6, <2>7, <2>9, <2>10, <2>11 DEF Inv, TasksAreThoseShown, Listed, Shown, Own, Latest
<1> QED
  BY <1>2, <1>3 DEF Drain

\* A click on a pane that is not followed yet spawns its one task.
LEMMA InvSelect ==
    ASSUME Inv, Select
    PROVE  Inv'
<1>0. PICK p \in gui.panes :
        /\ gui' = [gui EXCEPT !.pc = "drawing", !.selected = {p}]
        /\ IF p \in DOMAIN states
           THEN UNCHANGED <<states, streams>>
           ELSE /\ streams' = Append(streams, StreamTask(p, gui.server))
                /\ states' = [q \in DOMAIN states \cup {p} |->
                                IF q = p THEN Len(streams) + 1 ELSE states[q]]
        /\ UNCHANGED <<status, queue, lifecycle, updates, requests>>
  BY DEF Select
<1>1. p \in Panes /\ gui \in GuiType /\ gui.server \in Servers
  BY DEF Inv, Typed, GuiType
<1>2. /\ gui' \in GuiType /\ gui'.server = gui.server
      /\ gui'.selected = {p} /\ gui'.panes = gui.panes
  BY <1>0, <1>1 DEF GuiType
<1>3. Listed /\ Shown /\ Own /\ Latest /\ Typed
  BY Parts DEF Inv
<1>4. Latest'
  BY <1>0, <1>2, <1>3 DEF Latest
<1>5. CASE p \in DOMAIN states
  <2>1. Typed' /\ SelectedIsDrawable'
    BY <1>0, <1>2, <1>3, <1>5 DEF Typed, SelectedIsDrawable
  <2>2. Listed' /\ Shown' /\ Own'
    BY <1>0, <1>2, <1>3, <1>5 DEF Listed, Shown, Own
  <2> QED
    BY <1>4, <2>1, <2>2 DEF Inv, TasksAreThoseShown, Listed, Shown, Own, Latest
<1>6. CASE p \notin DOMAIN states
  <2> DEFINE r == StreamTask(p, gui.server)
  <2>1. r \in StreamType /\ r.pane = p /\ r.server = gui.server /\ ~r.aborted
    BY <1>1 DEF StreamTask, StreamType, StreamSteps
  <2>2. streams' = Append(streams, r)
    BY <1>0, <1>6
  <2> HIDE DEF r
  <2>3. /\ streams' \in Seq(StreamType) /\ Len(streams) \in Nat
        /\ DOMAIN streams = 1..Len(streams) /\ DOMAIN streams' = 1..(Len(streams) + 1)
        /\ streams'[Len(streams) + 1] = r
        /\ \A u \in DOMAIN streams : streams'[u] = streams[u]
    <3>1. streams \in Seq(StreamType)
      BY <1>3 DEF Typed
    <3> QED
      BY <2>1, <2>2, <3>1, AppendedIs
  <2>4. /\ DOMAIN states' = DOMAIN states \cup {p}
        /\ states'[p] = Len(streams) + 1
        /\ \A q \in DOMAIN states : states'[q] = states[q]
    BY <1>0, <1>6
  <2>5. DOMAIN streams' = DOMAIN streams \cup {Len(streams) + 1}
    BY <2>3
  <2>6. Typed'
    <3>1. \A q \in DOMAIN states' : states'[q] \in DOMAIN streams'
      BY <1>3, <2>4, <2>5 DEF Typed
    <3> QED
      BY <1>0, <1>1, <1>2, <1>3, <2>3, <2>4, <3>1 DEF Typed
  <2>7. SelectedIsDrawable' /\ Listed'
    BY <1>2, <1>3, <2>4 DEF SelectedIsDrawable, Listed
  <2>8. Shown'
    BY <1>3, <2>3, <2>4, <2>5 DEF Shown
  <2>9. Own'
    <3>1. \A q \in DOMAIN states : states[q] \in DOMAIN streams
      BY <1>3 DEF Typed
    <3> QED
      BY <1>2, <1>3, <2>1, <2>3, <2>4, <3>1 DEF Own
  <2> QED
    BY <1>4, <2>6, <2>7, <2>8, <2>9 DEF Inv, TasksAreThoseShown, Listed, Shown, Own, Latest
<1> QED
  BY <1>5, <1>6

\* A new client: every task of the old one is over or about to be.
LEMMA InvReconnect ==
    ASSUME Inv, Reconnect
    PROVE  Inv'
<1>0. PICK s \in Servers, late \in SUBSET Sending(lifecycle),
            lateStreams \in SUBSET Sending(streams) :
        /\ gui' = [gui EXCEPT !.pc = "drawing", !.server = s, !.panes = {}, !.selected = {}]
        /\ lifecycle' = Append(Abort(lifecycle, DOMAIN lifecycle, late), LifecycleTask(s))
        /\ streams' = Abort(streams, DOMAIN streams, lateStreams)
        /\ states' = << >> /\ updates' = NoUpdates
        /\ UNCHANGED <<status, queue, requests>>
  BY DEF Reconnect
<1> DEFINE old == Abort(lifecycle, DOMAIN lifecycle, late)
<1> DEFINE task == LifecycleTask(s)
<1>1. lifecycle \in Seq(LifecycleType) /\ streams \in Seq(StreamType)
  BY DEF Inv, Typed
<1>2. /\ old \in Seq(LifecycleType) /\ Len(old) = Len(lifecycle)
      /\ \A t \in DOMAIN old : old[t].aborted \/ old[t].pc = "ended"
  BY <1>1, AbortIs
<1>3. /\ streams' \in Seq(StreamType) /\ DOMAIN streams' = DOMAIN streams
      /\ \A t \in DOMAIN streams' : streams'[t].aborted \/ streams'[t].pc = "ended"
  BY <1>0, <1>1, AbortIs
<1>4. task \in LifecycleType /\ task.server = s
  BY DEF LifecycleTask, LifecycleType, LifecycleSteps
<1>5. lifecycle' = Append(old, task)
  BY <1>0
<1> HIDE DEF old, task
<1>6. /\ lifecycle' \in Seq(LifecycleType) /\ Len(old) \in Nat /\ Len(lifecycle') = Len(old) + 1
      /\ DOMAIN old = 1..Len(old) /\ DOMAIN lifecycle' = 1..(Len(old) + 1)
      /\ lifecycle'[Len(old) + 1] = task
      /\ \A u \in DOMAIN old : lifecycle'[u] = old[u]
  BY <1>2, <1>4, <1>5, AppendedIs
<1>7. gui' \in GuiType /\ gui'.server = s /\ gui'.selected = {}
  BY <1>0 DEF Inv, Typed, GuiType
<1>8. DOMAIN states' = {} /\ updates' \in UpdatesType
  BY <1>0 DEF NoUpdates, UpdatesType
<1>9. Typed'
  BY <1>0, <1>3, <1>6, <1>7, <1>8 DEF Inv, Typed
<1>10. SelectedIsDrawable' /\ Listed' /\ Shown' /\ Own'
  BY <1>3, <1>7, <1>8 DEF SelectedIsDrawable, Listed, Shown, Own
<1>11. Latest'
  BY <1>2, <1>4, <1>6, <1>7 DEF Latest
<1> QED
  BY <1>9, <1>10, <1>11 DEF Inv, TasksAreThoseShown, Listed, Shown, Own, Latest

LEMMA InvRest ==
    ASSUME Inv,
           \/ \E p \in Panes : Change(p, "none", "alive") \/ Change(p, "alive", "gone")
           \/ BeginFrame \/ ActRequest \/ Draw \/ RequestEnds
    PROVE  Inv'
<1>0. Typed
  BY DEF Inv
<1>1. ASSUME NEW p \in Panes, Change(p, "none", "alive") \/ Change(p, "alive", "gone")
      PROVE  Inv'
  <2>1. status' \in [Panes -> {"none", "alive", "gone"}]
    BY <1>0, <1>1 DEF Change, Typed
  <2>2. updates' \in UpdatesType
    <3>1. updates \in UpdatesType
      BY <1>0 DEF Typed
    <3>2. [updates EXCEPT !.unseen = updates.unseen + 1] \in UpdatesType
      BY <3>1 DEF UpdatesType
    <3>3. updates' = updates \/ updates' = [updates EXCEPT !.unseen = updates.unseen + 1]
      <4>1. updates = [updates EXCEPT !.unseen = updates.unseen]
        BY <3>1 DEF UpdatesType
      <4> QED
        BY <1>1, <4>1 DEF Change
    <3> QED
      BY <3>1, <3>2, <3>3
  <2>3. UNCHANGED <<gui, states, queue, lifecycle, streams, requests>>
    BY <1>1 DEF Change
  <2>4. Typed'
    BY <1>0, <2>1, <2>2, <2>3 DEF Typed
  <2> QED
    BY <2>3, <2>4 DEF Inv, SelectedIsDrawable, TasksAreThoseShown
<1>2. ASSUME gui' \in GuiType, gui'.server = gui.server, gui'.selected = gui.selected,
             gui'.panes = gui.panes, requests' \in 0..MaxRequests,
             queue' \in Seq(MessageType), Len(queue') <= Capacity,
             UNCHANGED <<status, states, lifecycle, updates, streams>>
      PROVE  Inv'
  <2>1. Typed'
    BY <1>0, <1>2 DEF Typed
  <2> QED
    BY <1>2, <2>1 DEF Inv, SelectedIsDrawable, TasksAreThoseShown
<1>3. \A pc \in {"waiting", "draining", "drawing"} :
         /\ [gui EXCEPT !.pc = pc] \in GuiType
         /\ [gui EXCEPT !.pc = pc].server = gui.server
         /\ [gui EXCEPT !.pc = pc].selected = gui.selected
         /\ [gui EXCEPT !.pc = pc].panes = gui.panes
  BY <1>0 DEF Typed, GuiType
<1>4. requests \in 0..MaxRequests /\ queue \in Seq(MessageType) /\ Len(queue) <= Capacity
  BY <1>0 DEF Typed
<1>5. CASE BeginFrame
  BY <1>2, <1>3, <1>4, <1>5 DEF BeginFrame
<1>6. CASE ActRequest
  <2>1. requests' \in 0..MaxRequests
    BY <1>4, <1>6, BoundsAssumption DEF ActRequest
  <2> QED
    BY <1>2, <1>3, <1>4, <1>6, <2>1 DEF ActRequest
<1>7. CASE Draw
  BY <1>2, <1>3, <1>4, <1>7 DEF Draw
<1>8. CASE RequestEnds
  <2>1. requests' \in 0..MaxRequests
    BY <1>4, <1>8, BoundsAssumption DEF RequestEnds
  <2>2. queue' \in Seq(MessageType) /\ Len(queue') <= Capacity
    BY <1>0, <1>4, <1>8, SendType, MessageTypes DEF RequestEnds
  <2>3. gui' \in GuiType /\ gui' = gui
    BY <1>0, <1>8 DEF RequestEnds, Typed
  <2> QED
    BY <1>2, <1>8, <2>1, <2>2, <2>3 DEF RequestEnds
<1> QED
  BY <1>1, <1>5, <1>6, <1>7, <1>8

LEMMA InvNext == Inv /\ [Next]_vars => Inv'
<1> SUFFICES ASSUME Inv, [Next]_vars PROVE Inv'
  OBVIOUS
<1>1. CASE UNCHANGED vars
  BY <1>1 DEF vars, Inv, Typed, SelectedIsDrawable, TasksAreThoseShown
<1>2. CASE Next
  BY <1>2, InvLifecycle, InvStream, InvDrain, InvSelect, InvReconnect, InvRest DEF Next
<1> QED
  BY <1>1, <1>2

\* The three invariants together are inductive.
THEOREM Invariance == Spec => []Inv
BY InvInit, InvNext, PTL DEF Spec

\* Queue, tasks and selection stay within their types; the queue within its limit.
THEOREM TypeCorrect == Spec => []TypeOK
<1>1. Inv => TypeOK
  BY TypedIsTypeOK DEF Inv
<1> QED
  BY <1>1, Invariance, PTL

\* A selected pane always has a parser to draw, however late lists and clicks
\* and reconnections cross.
THEOREM SelectionCanBeDrawn == Spec => []SelectedIsDrawable
<1>1. Inv => SelectedIsDrawable
  BY DEF Inv
<1> QED
  BY <1>1, Invariance, PTL

\* The tasks that go on are those of panes in the list shown, each with the parser of its
\* own pane and on the server the client is connected to.
THEOREM TasksBelongToPanes == Spec => []TasksAreThoseShown
<1>1. Inv => TasksAreThoseShown
  BY DEF Inv
<1> QED
  BY <1>1, Invariance, PTL
=============================================================================
