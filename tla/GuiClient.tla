------------------------------ MODULE GuiClient ------------------------------
(***************************************************************************)
(* The desktop client (gui_client_rs/src/main.rs): the GUI thread, which   *)
(* drains the message queue, acts on clicks and draws, once a frame; and   *)
(* the tasks it spawns, which ask the server, feed the parsers and report  *)
(* through a bounded queue whose send blocks.                              *)
(*                                                                         *)
(* Aborting a task ends it where it awaits; one that is at its send, with  *)
(* an answer in hand, still sends it.  The GUI thread and a stream task    *)
(* share the lock of their pane's parser.                                  *)
(*                                                                         *)
(* Servers are external: they create and delete panes, whose ids are never *)
(* used again, and tell their subscribers.  Pane p is p[2] of server p[1]. *)
(***************************************************************************)
EXTENDS Naturals, Sequences, FiniteSets

CONSTANTS Servers,
          FirstServer,      \* the one in the settings at start
          Ids,              \* bound: the panes a server may ever have
          Capacity,         \* messages the queue holds (512)
          MaxConnects,      \* bound: clients built, the first included
          MaxStreams,       \* bound: stream tasks spawned
          MaxRequests       \* bound: requests under way at once

Panes == Servers \X Ids

ASSUME ServerAssumption == FirstServer \in Servers
ASSUME CapacityAssumption == Capacity \in Nat \ {0}
ASSUME BoundsAssumption == MaxConnects \in Nat /\ MaxStreams \in Nat /\ MaxRequests \in Nat

VARIABLES status,       \* status[p]: none, alive or gone, at p's server
          gui,          \* the App: where its frame is, server, panes, selected_id
          states,       \* pane_states: the panes that have one, and its task
          queue,        \* messages sent and not yet received
          lifecycle,    \* the lifecycle tasks ever spawned; the last is current
          updates,      \* of the current one's connection: events it has not yet
                        \* received; whether it could not list after the last
          streams,      \* the stream tasks ever spawned
          requests      \* requests under way: create, delete, resize, input

vars == <<status, gui, states, queue, lifecycle, updates, streams, requests>>

Alive(s) == {p \in Panes : p[1] = s /\ status[p] = "alive"}

PanesUpdated(ps) == [kind |-> "panes", panes |-> ps]
PaneOutput == [kind |-> "output", panes |-> {}]
Error == [kind |-> "error", panes |-> {}]

\* Mutant of Send: the queue has no limit.
SendUnbounded(msg) == queue' = Append(queue, msg)

\* tx.send, which blocks while the queue is full.
Send(msg) == /\ Len(queue) < Capacity
             /\ queue' = Append(queue, msg)

LifecycleTask(s) == [server |-> s, pc |-> "listing", got |-> {}, aborted |-> FALSE]

NoUpdates == [unseen |-> 0, missed |-> FALSE]

StreamTask(p, s) == [pane |-> p, server |-> s, pc |-> "connecting", aborted |-> FALSE]

Init == /\ status = [p \in Panes |-> "none"]
        /\ gui = [pc |-> "waiting", server |-> FirstServer, panes |-> {}, selected |-> {}]
        /\ lifecycle = <<LifecycleTask(FirstServer)>>
        /\ states = << >>
        /\ queue = << >>
        /\ updates = NoUpdates
        /\ streams = << >>
        /\ requests = 0

-----------------------------------------------------------------------------
(***************************************************************************)
(* The servers.                                                            *)
(***************************************************************************)
Current == lifecycle[Len(lifecycle)]

Subscribed == Current.pc \in {"subscribed", "sending", "receiving", "relisting"}

\* p is created or deleted, and every subscriber of its server told.
Change(p, from, to) ==
    /\ status[p] = from
    /\ status' = [status EXCEPT ![p] = to]
    /\ updates' = [updates EXCEPT !.unseen = IF Subscribed /\ Current.server = p[1]
                                             THEN @ + 1 ELSE @]
    /\ UNCHANGED <<gui, states, queue, lifecycle, streams, requests>>

-----------------------------------------------------------------------------
(***************************************************************************)
(* lifecycle_task                                                          *)
(***************************************************************************)
LifecycleGoesOn(t, from, to) ==
    /\ lifecycle[t].pc = from
    /\ lifecycle' = [lifecycle EXCEPT ![t] =
                        [lifecycle[t] EXCEPT !.got = {},
                                             !.pc = IF lifecycle[t].aborted THEN "ended" ELSE to]]
    /\ UNCHANGED <<status, gui, states, streams, requests>>

\* The server's answer to a list: its panes at that moment.
Answered(t, from, to) ==
    /\ lifecycle[t].pc = from
    /\ lifecycle' = [lifecycle EXCEPT ![t] =
                        [lifecycle[t] EXCEPT !.pc = to, !.got = Alive(lifecycle[t].server)]]
    /\ UNCHANGED <<status, gui, states, streams, requests>>

\* list_panes, whose answer is sent; its failure is passed over.
FirstList(t) == /\ \/ Answered(t, "listing", "first")
                   \/ LifecycleGoesOn(t, "listing", "connecting")
                /\ UNCHANGED <<queue, updates>>

SendFirst(t) == /\ LifecycleGoesOn(t, "first", "connecting")
                /\ Send(PanesUpdated(lifecycle[t].got))
                /\ UNCHANGED updates

\* stream_lifecycle: the server subscribes the connection ...
Subscribe(t) == /\ LifecycleGoesOn(t, "connecting", "subscribed")
                /\ updates' = NoUpdates
                /\ UNCHANGED queue

\* Mutant of Snapshot: the first list will do.
SnapshotIgnored(t) == /\ LifecycleGoesOn(t, "subscribed", "receiving")
                      /\ UNCHANGED <<queue, updates>>

\* ... and then lists its panes for it.
Snapshot(t) == Answered(t, "subscribed", "sending") /\ UNCHANGED <<queue, updates>>

SendPanes(t) == /\ LifecycleGoesOn(t, "sending", "receiving")
                /\ Send(PanesUpdated(lifecycle[t].got))
                /\ UNCHANGED updates

\* A created or deleted event: the panes are listed again.
Receive(t) == /\ updates.unseen > 0
              /\ LifecycleGoesOn(t, "receiving", "relisting")
              /\ updates' = [updates EXCEPT !.unseen = @ - 1]
              /\ UNCHANGED queue

Relist(t) == /\ \/ Answered(t, "relisting", "sending") /\ updates' = [updates EXCEPT !.missed = FALSE]
                \/ /\ LifecycleGoesOn(t, "relisting", "receiving")
                   /\ updates' = [updates EXCEPT !.missed = TRUE]
             /\ UNCHANGED queue

\* Connecting or receiving fails, which is reported, or the stream ends.
LifecycleFails(t) ==
    /\ \/ LifecycleGoesOn(t, "connecting", "failed") /\ UNCHANGED queue
       \/ LifecycleGoesOn(t, "receiving", "failed") /\ UNCHANGED queue
       \/ LifecycleGoesOn(t, "receiving", "ended") /\ UNCHANGED queue
       \/ LifecycleGoesOn(t, "failed", "ended") /\ Send(Error)
    /\ UNCHANGED updates

Lifecycle(t) == \/ FirstList(t) \/ SendFirst(t) \/ Subscribe(t) \/ Snapshot(t)
                \/ SendPanes(t) \/ Receive(t) \/ Relist(t)

-----------------------------------------------------------------------------
(***************************************************************************)
(* stream_pane_task                                                        *)
(***************************************************************************)
StreamGoesOn(t, from, to) ==
    /\ streams[t].pc = from
    /\ streams' = [streams EXCEPT ![t].pc = to]
    /\ UNCHANGED <<status, gui, states, lifecycle, updates, requests>>

\* Only the pane's own server knows it.
Stream(t) == streams[t].server = streams[t].pane[1]
             /\ status[streams[t].pane] = "alive"
             /\ StreamGoesOn(t, "connecting", "streaming")
             /\ UNCHANGED queue

\* An event arrives: parser.lock() ...
Lock(t) == StreamGoesOn(t, "streaming", "locked") /\ UNCHANGED queue

\* Mutant of Unlock: the lock is held until the message is sent.
UnlockAfterSend(t) == StreamGoesOn(t, "locked", "streaming") /\ Send(PaneOutput)

\* ... .process(), and the lock is released before the message is sent.
Unlock(t) == StreamGoesOn(t, "locked", "sending") /\ UNCHANGED queue

SendOutput(t) ==
    /\ streams[t].pc = "sending"
    /\ Send(PaneOutput)
    /\ streams' = [streams EXCEPT ![t].pc = IF streams[t].aborted THEN "ended" ELSE "streaming"]
    /\ UNCHANGED <<status, gui, states, lifecycle, updates, requests>>

\* Connecting or receiving fails, which is reported, or the stream ends.
StreamFails(t) == \/ StreamGoesOn(t, "connecting", "failed") /\ UNCHANGED queue
                  \/ StreamGoesOn(t, "streaming", "failed") /\ UNCHANGED queue
                  \/ StreamGoesOn(t, "streaming", "ended") /\ UNCHANGED queue
                  \/ StreamGoesOn(t, "failed", "ended") /\ Send(Error)

-----------------------------------------------------------------------------
(***************************************************************************)
(* The GUI thread: App::update, once a frame.                              *)
(***************************************************************************)
\* The toolkit runs a frame: on the user's input, or because a stream task or the
\* frame before asked for one, which they do only while a pane is selected.
BeginFrame ==
    /\ gui.pc = "waiting"
    /\ gui' = [gui EXCEPT !.pc = "draining"]
    /\ UNCHANGED <<status, states, queue, lifecycle, updates, streams, requests>>

\* abort() of the tasks ts of a kind: those in late are past their await and
\* finish their send first.
Abort(tasks, ts, late) ==
    [t \in DOMAIN tasks |->
        IF t \notin ts \/ tasks[t].pc = "ended" THEN tasks[t]
        ELSE [tasks[t] EXCEPT !.aborted = TRUE, !.pc = IF t \in late THEN @ ELSE "ended"]]

\* The tasks that are between an await and a send.
Sending(tasks) == {t \in DOMAIN tasks : tasks[t].pc \in {"first", "sending", "locked", "failed"}}

\* pane_states with the panes ps only.
Keep(ps) == [p \in ps \cap DOMAIN states |-> states[p]]

\* Mutant of TakePanes: the selection stays on a pane that is gone.
TakePanesKeepsSelection(ps) ==
    /\ states' = Keep(ps)
    /\ \E late \in SUBSET Sending(streams) :
          streams' = Abort(streams, {states[p] : p \in DOMAIN states \ ps}, late)
    /\ gui' = [gui EXCEPT !.panes = ps]

\* Mutant of TakePanes: panes that are gone keep their state and task.
TakePanesKeepsStates(ps) ==
    /\ gui' = [gui EXCEPT !.panes = ps, !.selected = @ \cap ps]
    /\ UNCHANGED <<states, streams>>

\* PanesUpdated: panes that are not listed lose their state, task and selection.
TakePanes(ps) ==
    /\ states' = Keep(ps)
    /\ \E late \in SUBSET Sending(streams) :
          streams' = Abort(streams, {states[p] : p \in DOMAIN states \ ps}, late)
    /\ gui' = [gui EXCEPT !.panes = ps, !.selected = @ \cap ps]

\* PaneOutput is counted and Error shown: neither matters here.
Drain ==
    /\ gui.pc = "draining"
    /\ queue # << >>
    /\ queue' = Tail(queue)
    /\ IF Head(queue).kind = "panes" THEN TakePanes(Head(queue).panes)
                                     ELSE UNCHANGED <<gui, states, streams>>
    /\ UNCHANGED <<status, lifecycle, updates, requests>>

\* The queue was found empty: what the user clicked is done.
Acting == gui.pc = "draining" /\ queue = << >>

\* No click, or one that spawns a request.
ActRequest ==
    /\ Acting
    /\ gui' = [gui EXCEPT !.pc = "drawing"]
    /\ requests' \in {requests, requests + 1}
    /\ requests' <= MaxRequests
    /\ UNCHANGED <<status, states, queue, lifecycle, updates, streams>>

\* select_pane, of a listed pane: a known one is shown, another one followed.
Select ==
    \E p \in gui.panes :
        /\ Acting
        /\ gui' = [gui EXCEPT !.pc = "drawing", !.selected = {p}]
        /\ IF p \in DOMAIN states
           THEN UNCHANGED <<states, streams>>
           ELSE /\ Len(streams) < MaxStreams
                /\ streams' = Append(streams, StreamTask(p, gui.server))
                /\ states' = [q \in DOMAIN states \cup {p} |->
                                IF q = p THEN Len(streams) + 1 ELSE states[q]]
        /\ UNCHANGED <<status, queue, lifecycle, updates, requests>>

\* reconnect, once a client has been built: everything of the old one is
\* aborted and forgotten, except what is in the queue.
Reconnect ==
    /\ Acting
    /\ Len(lifecycle) < MaxConnects
    /\ \E s \in Servers, late \in SUBSET Sending(lifecycle) :
          /\ gui' = [gui EXCEPT !.pc = "drawing", !.server = s, !.panes = {},
                                !.selected = {}]
          /\ lifecycle' = Append(Abort(lifecycle, DOMAIN lifecycle, late), LifecycleTask(s))
    /\ \E late \in SUBSET Sending(streams) :
          streams' = Abort(streams, DOMAIN streams, late)
    /\ states' = << >>
    /\ updates' = NoUpdates
    /\ UNCHANGED <<status, queue, requests>>

\* render_terminal needs the lock of the selected pane's parser.
Draw ==
    /\ gui.pc = "drawing"
    /\ gui' = [gui EXCEPT !.pc = "waiting"]
    /\ \A p \in gui.selected : p \in DOMAIN states => streams[states[p]].pc # "locked"
    /\ UNCHANGED <<status, states, queue, lifecycle, updates, streams, requests>>

\* A request is answered, or fails, which is reported.
RequestEnds ==
    /\ requests > 0
    /\ requests' = requests - 1
    /\ UNCHANGED queue \/ Send(Error)
    /\ UNCHANGED <<status, gui, states, lifecycle, updates, streams>>

-----------------------------------------------------------------------------
Next == \/ \E p \in Panes : Change(p, "none", "alive") \/ Change(p, "alive", "gone")
        \/ \E t \in DOMAIN lifecycle : Lifecycle(t) \/ LifecycleFails(t)
        \/ \E t \in DOMAIN streams : \/ Stream(t) \/ Lock(t) \/ Unlock(t)
                                      \/ SendOutput(t) \/ StreamFails(t)
        \/ BeginFrame \/ Drain \/ ActRequest \/ Select \/ Reconnect
        \/ Draw \/ RequestEnds

Spec == Init /\ [][Next]_vars

\* The runtime polls its tasks, and a frame that has begun goes on; nothing makes
\* the user act, a pane write or a connection fail.  A full queue wakes those that
\* wait to send one by one, so a pane's output does not keep a list out for ever.
Fairness ==
    /\ WF_vars(\E t \in DOMAIN lifecycle : Lifecycle(t))
    /\ SF_vars(\E t \in DOMAIN lifecycle : SendFirst(t) \/ SendPanes(t))
    /\ \A t \in 1..MaxStreams : WF_vars(t \in DOMAIN streams /\ (Unlock(t) \/ SendOutput(t)))
    /\ WF_vars(Drain \/ ActRequest)
    /\ WF_vars(Draw)

FairSpec == Spec /\ Fairness

-----------------------------------------------------------------------------
TypeOK ==
    /\ status \in [Panes -> {"none", "alive", "gone"}]
    /\ gui \in [pc : {"waiting", "draining", "drawing"},
                server : Servers, panes : SUBSET Panes, selected : SUBSET Panes]
    /\ DOMAIN states \subseteq Panes
    /\ \A p \in DOMAIN states : states[p] \in DOMAIN streams
    /\ Len(queue) <= Capacity
    /\ \A i \in DOMAIN queue : queue[i] \in [kind : {"panes", "output", "error"},
                                            panes : SUBSET Panes]
    /\ \A t \in DOMAIN lifecycle :
          lifecycle[t] \in [server : Servers,
                            pc : {"listing", "first", "connecting", "subscribed", "sending",
                                  "receiving", "relisting", "failed", "ended"},
                            got : SUBSET Panes, aborted : BOOLEAN]
    /\ updates \in [unseen : Nat, missed : BOOLEAN]
    /\ \A t \in DOMAIN streams :
          streams[t] \in [pane : Panes, server : Servers,
                          pc : {"connecting", "streaming", "locked", "sending", "failed",
                                "ended"},
                          aborted : BOOLEAN]
    /\ requests \in 0..MaxRequests

\* A selected pane has a parser to draw, whatever lists arrive late, from this
\* server or the one before, and however they cross with clicks.
SelectedIsDrawable == gui.selected \subseteq DOMAIN states

\* After any sequence of selections, lists and reconnections the tasks that go on
\* are those of panes in the list that is shown, each with the parser of its own
\* pane and on the server the client is connected to: none runs on unseen or
\* paints a stranger's screen.
TasksAreThoseShown ==
    /\ DOMAIN states \subseteq gui.panes
    /\ \A t \in DOMAIN streams :
          ~streams[t].aborted /\ streams[t].pc # "ended" =>
              \E p \in DOMAIN states : states[p] = t
    /\ \A p \in DOMAIN states :
          /\ streams[states[p]].pane = p
          /\ streams[states[p]].server = gui.server
          /\ ~streams[states[p]].aborted
    /\ \A t \in DOMAIN lifecycle :
          ~lifecycle[t].aborted /\ lifecycle[t].pc # "ended" =>
              t = Len(lifecycle) /\ lifecycle[t].server = gui.server

\* The GUI thread gets out of every frame, although it waits for parsers whose
\* tasks wait, when the queue is full, for it to drain the queue.
FrameEnds == gui.pc = "drawing" ~> gui.pc = "waiting"

\* A task of an earlier client that will still send what it has.
Straggler == \E t \in DOMAIN lifecycle : lifecycle[t].aborted /\ lifecycle[t].pc # "ended"

\* The list shown ends up being that of the server, however the answers, events
\* and snapshots of its own task and messages of an earlier one cross: provided
\* that the task's connection lasts and its last question is answered, that
\* frames go on, and that no task of an earlier client was caught at its send.
ListConverges ==
    /\ <>[][FALSE]_(Len(lifecycle))
    /\ <>[](Current.pc \notin {"failed", "ended"} /\ ~updates.missed)
    /\ []<>(gui.pc = "drawing")
    /\ []~Straggler
    => <>[](gui.panes = Alive(gui.server))

=============================================================================
