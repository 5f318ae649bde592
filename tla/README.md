# TLA+ specifications of biome_term

This directory models the concurrent core of biome_term, a server of shared
terminals: shells run under PTYs ("panes") in one Rust process (`server/`), and
clients in Rust (`client_rs/`, `gui_client_rs/`) and Elixir (`client/`) follow
and drive them over HTTP and WebSockets. TLC checks the models on small
instances; TLAPS proves their safety properties for every size.

Modules are checked with `tlc -config X.cfg M`, proofs with `tlapm M.tla` for
each module `*Proofs` (minutes each). `PROJECT.json` maps every definition to the lines
it models and lists the runs, the mutants, the findings and the hazards.

## 1. Inventory

| Part | State it keeps | Operations | What makes it correct |
|---|---|---|---|
| **Read loop** `server/src/pane.rs` | the chunk it has read, the event it will send | read, process, push, send, end | parser, log and channel see every chunk, in this order |
| **Event log** `event.rs` | at most `max_events` events, `next_seq` | `push`, `since`, `latest_seq` | the last events, numbered without a gap |
| **Stream connections** `handlers/stream.rs` | receiver, `last_sent_seq`, `diff_baseline` | subscribe, history, resync, diff, lag, end | nothing lost or repeated; a diff acts on its own baseline |
| **Event polling** `handlers/events.rs`, `client_rs` | the client's cursor | `GET events?after=` | only evicted events are skipped |
| **Registry** `state.rs`, `create.rs`, `delete.rs`, `list.rs` | a concurrent map of panes | insert, resolve a name, remove, reinsert, list | a pane is in one place; deleted once; an ambiguous name deletes nothing |
| **Lifecycle stream** `handlers/lifecycle.rs` | lifecycle channel, receivers | created, deleted, snapshot, lag | a connected client converges to the map |
| **Sizes and configuration** `config.rs`, `resize.rs`, `create.rs` | default size and limit; per pane the PTY's, the parser's, the advertised size | create, PATCH, resize | sizes agree and are never zero; partial updates keep the rest |
| **Process lifetime** `pane.rs`, `delete.rs` | shell, pid, `child`, `terminated` | spawn, exit, kill, read error | no shell outlives the server; an exit is shown; a deleted pane gives its threads back |
| **Input** `input.rs` | the writer's lock, a worker thread while it writes | write | writes are whole; a shell that does not read stops only itself |
| **Start-up, shutdown** `main.rs` | shutdown watch, listeners | signal, listener error, `shutdown_panes` | no shell outlives the server |
| **GUI** `gui_client_rs/src/main.rs` | message queue, tasks, selection, history, throughput window | drain, select, reconnect | what is shown is what the connected server has |
| **PaneSocket** `client/lib/terminal_ui/pane_socket.ex` | heartbeat token, timers | heartbeat, answer, timeout, reconnect | a dead connection is noticed, a live one not ended |
| **TerminalLive** `terminal_live.ex`, `pane_supervisor.ex` | panes, buffers, selection, subscriptions; one socket per pane for all sessions | sync, poll, select, published screens, snippets | shows the selected pane, in the end its latest screen; its socket comes back; Enter follows its text |
| Auth, errors, OpenAPI, CLI, web shell | none | — | — |

How they interact. `create_pane` gives the read loop (a thread of tokio's
blocking pool) the parser, the log and the sender of the pane's broadcast
channel; handlers are tokio tasks that reach the same objects through the pane
map. There is no lock over two of them: each `await` or lock is a point where
others run. Clients see only the frames.

What is hard here: the order of the read loop's three writes against the two
reads of a snapshot; subscription against history; bounded channels that
overwrite (`Lagged`); read–merge–write of the configuration under separate
locks; a deletion that fails half-way; handlers dropped at an `await` when their
client goes; threads that block on a terminal, of which there are few, while a
shutdown waits for them. There is no persistence, so nothing recovers from a crash.

## 2. Modules

| Module | Models | Composes |
|---|---|---|
| `EventLog` | `event.rs`, as operators on a log | — |
| `EventPoll` | pollers of the log, between the steps of everything in `PaneStream` | `PaneStream` |
| `PaneStream` | read loop, channel, stream connections and their clients' screens | `EventLog`, implements `PaneMirror` |
| `PaneMirror` | what a stream connection promises, abstractly | — |
| `PaneRegistry` | map, creation, deletion, lifecycle stream | — |
| `PaneConfig`, `MCPaneConfig` | sizes, defaults and their requests | — |
| `PaneProcess` | shells, blocking pool, `DELETE`, blocked inputs, server shutdown | — |
| `GuiClient` | the desktop client's frames, tasks, queue and connections | — |
| `PaneSocket` | the Elixir socket process and its heartbeat | — |
| `TerminalLive`, `MCTerminalLive` | web sessions, the sockets they share and their supervisor | — |
| `PaneInput` | input handlers, workers, terminals, and the clients that write | — |
| `PaneStreamProofs` | theorems about `PaneStream` and `EventPoll` | `EventPoll` |
| `PaneRegistryProofs`, `PaneProcessProofs`, `PaneConfigProofs`, `GuiClientProofs`, `TerminalLiveProofs`, `PaneInputProofs`, `PaneSocketProofs` | theorems about the module of that name | that module |

**EventLog / EventPoll.** A log is `[events, next_seq]`; `Push`, `Since` and
`LatestSeq` are `EventLog::push`, `since`, `latest_seq`. `since` uses a binary
search (`partition_point`), modelled by the index it defines. `EventPoll` is
`PaneStream` with pollers: `PaneStep` is any step of it, `Poll` asks for what
follows the seq of the last event given, under the log's lock. `given` is
history: every event a poller was given.

**PaneStream.** `Read`, `Process`, `PushEvent`, `Send`, `ReadEnds` are the lines
of `spawn_pty_read_loop`, one per lock. `conn[c]` is the local state of
`handle_ws` with a program counter that stops at each `await`: `Subscribe`,
`ReadHistory`, `SendHistory`, `EndHistory`, `SnapshotSeq` and `SendResync` (the
two halves of `current_screen_snapshot`, then the frame), `Receive`, `SendDiff`,
`Lagged`, `Resubscribe`, `Disconnect`. `conn[c].view` is what the client shows.
Chunk *k* stands for the bytes of the *k*-th read; a screen is the sequence of
chunks it results from, which is all the properties tell apart: the server's
parser shows `Chunks(parser)`, a resync sets that, a diff between two screens
is garbage on any third. The channel is the sequence of all events sent, and a
receiver whose distance from its end exceeds `Capacity` lags, as in tokio.
Interrupted reads, pings, timestamps and encodings change nothing here. Left out is
what `resize_pane` does to the parser's screen (`pane.rs:216-219`), which no event
announces: a screen here changes by output only, and `StaysConnectedConverges` says
nothing of a screen resized since.

**PaneRegistry.** One creation per pane, any number of deletions, by id or by
the name that the panes of `Named` share. `BeginWalk`, `Look` and `EndWalk` are
the walk of `resolve_pane_id`, which stops at the second match; `Remove` is a
second step, after which an earlier answer may be out of date. A name that
looks like the id of a pane is not modelled. The listing of a snapshot visits the map pane by pane (`Visit`), because DashMap
locks one shard at a time. A client applies what the stream says to a set.
`kill` may fail (`KillFails`), upon which the pane is put back.

**PaneConfig.** A slot serves one request at a time, step by step; `Slots` is
how many overlap. `Optional(S)` is a body field that may be omitted. `Drop`
abandons a handler where it waits for a lock. `overlapped` is history: whether
two requests have ever been served at once. What the code guarantees one
request after the other only is stated for `Sequential` behaviours.

**PaneProcess.** `shell`, `job` and `unread` are the kernel's side of a pane: its
shell, a background job that keeps the terminal open, and what is written and
not yet read. `reader` is the read loop, a task of the blocking pool (`queue`,
`running`, `PoolSize`) until its terminal is closed and read to the end (`ReadEnds`)
or gives another error, at any time (`ReadFails`); then it stores `terminated`
(`ended`). `child` says which of read loop, delete handler and `shutdown_panes` took
the pane's `Child` (`take_child`). Dropping it waits for nothing: behind
`portable_pty`'s `Child` is a `std::process::Child`, which has no `Drop`, so a dead
shell is a `zombie` from then on. A zombie keeps its pid, and a signal to it
succeeds without effect. `input` is a write in progress, which
`StartInput` begins by either listener and which ends as the shell reads it, or
fails when the terminal closes; a write that blocks keeps a worker, of which there are
assumed to be enough (they are counted in `PaneInput`). `HasSender` collects who
keeps a pane's channel open. `server` is `run`: serving, then stopping, while the
listeners wait for the requests in progress, without a limit over HTTP and 30 seconds
over HTTPS (`ListenersDone`; time is not modelled, so an HTTPS write may be left at
any moment), then killing pane by pane, then an exit that joins the pool's threads and
the workers or, after a listener's error, does not. A creation has no `await` and is
one step. The model ends with the server.

**GuiClient.** A frame of `App::update` is `BeginFrame`, a `Drain` per message,
one of `ActRequest`, `Select`, `Reconnect` when the queue was found empty, and
`Draw`: one click a frame. `lifecycle[t]` and `streams[t]` are the tasks ever
spawned, with a program counter that stops at each `await`, lock and send.
`Send` blocks while the queue (`sync_channel`) is full. `Abort` ends a task at
its `await`, but one past it finishes its send: `late` chooses among those
in `Sending`. `states` maps the panes in `pane_states` to their tasks. The
servers are external; `updates` counts the events that the current connection
has not received. A snapshot after a lag is one more list and has no action of
its own. Sizes, the input history, the throughput window and what a screen
shows are left out; resizing locks the parser as `Draw` does.

**PaneSocket.** Each callback clause is an action that takes the message at the
head of `mailbox`. `timers` holds the running timers; one that fires (`Fire`)
puts its message into the mailbox, whence `Cancel` cannot take it back. `state`
is the Elixir map (`last_activity_ms` as its distance from now, `idle`). While
`busy` the process waits for `get_screen` and time passes. `peer` says whether
the other end answers a ping within `Timeout`, later, or never; `quiet` is
history: how long the process has been waiting for a sign of life. References
are fresh ones of `Refs`, used again once nothing holds them; a tick waits if
there are none, which in the run never happens. What is in the mailbox of a
connection that has ended is passed over by the next one (`StaleMail`).

**TerminalLive.** `session[s]` holds the assigns of a LiveView process and, in
`todo`, what is left of the handler it is in: `Mount`, `Poll`, `SelectPane`,
`SelectGroup`, `NewPane`, `KillPane`, `ApplySizeSettings` and `ScreenUpdate`
begin one when the process is idle, the actions under `Handle` are its steps.
A handler is cut between the server's answer with a list (`Listed`) and the
acting on it (`SyncPanes`), and around the calls that change the server; a
screen it fetches changes only the session and needs no step of its own.
`sock[p]` is the socket process of a pane: connecting, connected, with a screen
fetched and not yet published, or looking the pane up after a disconnection.
A screen is a pane and a version, `mail` the published screens not yet handled.
`PaneSocket` is declared a permanent child (WebSockex's default `child_spec`), so
one that ends is started again, and more than `MaxRestarts` restarts in a
window end the supervisor with all sockets; one that finds it alive, or cannot look
it up, connects again (`Looked`). The server tells a socket nothing of a resize, so
its screen stays the last one fetched until there is output. Sessions meet only in
sockets and server: one session is modelled in full, and `Others(p)` and
`Change(p)` are whatever the rest may do to them at any time.

**PaneInput.** `request[n]` is the *n*-th `POST input` with its handler:
`ready` to be polled, `waiting` for the writer, `granted` it but not yet taken
up by a worker, `writing`, `done`. `queue[p]` is tokio's fair mutex: its head
has it. `Write` puts one chunk into the terminal when there is room and keeps
the worker (`Busy`) until then; `HangUp` drops a handler at its `await`, never
in `write_all`. The shell makes room by reading and echoes; its output is taken
by the read loop, which needs the parser; `LoopProcesses` hands the lock to a
handler that waits (`granted`), which must be taken up by a worker before the
loop can go on. A web session waits for each answer (`Waiting`) and forgets
everything if it does not come (`GiveUp`); the desktop client's inputs are tasks
of their own. Whether a session still lists the pane of a pending Enter is left
open (`SendEnter`, `SkipEnter`).

## 3. Runs, bounds and what they show

| Run | Instance | Shows |
|---|---|---|
| `stream` (`EventPoll`) | 6 chunks, log of 2, channel of 2, 1 connection, 1 poller | `RawStreamComplete`, `DiffAppliesToItsBaseline`, `ResyncCoversLastSent`, `ImplementsMirror`, `StaysConnectedConverges`, `RetainsTheLastEvents`, `SkipsOnlyEvicted` |
| `registry` | 2 panes of one name, 2 deletions, 1 watcher, channel of 1 | `EveryPaneAccountedFor`, `DeletedOnce`, `AmbiguousDeletesNothing`, `WatchersConverge` |
| `config` | 2 slots, 2 panes, 4 requests, 3 if any overlap, 1 abandoned | `NothingDegenerate`; one after the other `SizesAgreeAtRest`, `AppliedToAll` |
| `process` | 2 panes, 1 with jobs, 1 with clients, read errors and refused signals, 1 connection, pool of 1, terminals of 1 chunk | `NoShellOutlivesServer`, `ExitIsShown`, `DeletionFreesThreads`, `ServerExits` |
| `gui_client` | 2 servers of 1 pane, queue of 1, 2 connections, 1 stream task, 1 request | `SelectedIsDrawable`, `TasksAreThoseShown`, `FrameEnds`, `ListConverges` |
| `pane_socket` | interval and timeout of 3 units, 3 queued messages, 12 references | `LiveNeverTimedOut`, `DeadNoticedInTime`, `OneHeartbeat` |
| `terminal_live` | 1 session, 2 panes, 3 events, 1 restart, 2 queued screens | `ScreenIsOfSelected`, `SubscribedToSelected`, `ShowsLatest`, `StreamReturns` |
| `pane_input` | 2 panes, 1 moody, 1 session, 3 workers, 3 requests of 2 chunks, terminals of 1 | `WritesAreWhole`, `EnterFollowsItsBody`, `InputIsServed` |
| `stream_loses`, `registry_overtaken`, `process_closed`, `config_disagree` | smaller | each violated: section 5 |

Why the bounds are enough. Connections read shared state and write only their
own, so one connection meets every interleaving another could; the theorems
hold for any number. With a channel of 2 and 6 chunks a receiver lags, resyncs
and lags again, and the log of 2 has forgotten chunks before a late client's
subscription. Two deletions may race for one pane or hit different ones. Four
requests are enough to create two panes, change a default and apply it. Two panes
compete for a pool of one thread as 513 do for the real one; `Jobbers`, `Used` and
`Faulty` give jobs to one of them and inputs and failures to the other, to keep the
run short, and the two meet in the pool; one pane with all of these passes as well
(5829 states). A queue of one is
full at once, so senders block and messages of a first connection meet a second.
In
`terminal_live` three events are enough for another session to stop a socket,
output to follow and a pane to go, in any order, around handlers of two steps
and more. In `pane_input` a text of two chunks does not fit a terminal of one, so
writers block; three requests are a snippet, its Enter and a competitor; three
workers for two panes is the least number `InputIsServed` is about.
With three units to an interval a peer can be active just before, at and just
after every tick, and interval and timeout are equal as in the code. The real constants
(4096, 1024, 10000, 100) only move the limits; `Capacity` and
`MaxEvents` are at least 1. `MaxOutput`, `MaxRequests`, `MaxOverlap`,
`MaxDropped`, `MaxConnects`, `MaxStreams`, `MaxEvents` (of `TerminalLive`) and
`MaxMail` are bounds of the models and occur in
guards only.

Deadlock is checked where the model has no end (`EventPoll` with `PaneStream`,
`PaneRegistry`: a client can always come or go; `GuiClient`: there is always a
next frame); `PaneConfig`, `TerminalLive` and `PaneInput` stop at their bounds,
`PaneProcess` when the server has exited, `PaneSocket` when its pane is gone, and
say `CHECK_DEADLOCK FALSE`. `MCPaneConfig` uses symmetry of panes
and slots, in runs without liveness properties.

Fairness. In `PaneStream`, `WF` of `Process`, `PushEvent`, `Send` (the thread
runs) and of `Handle(c)` (the task is polled and the client reads its socket);
none of `Read`, `Subscribe`, `Disconnect`. In `PaneRegistry`, `WF` of the rest
of a creation and of a deletion once begun, and of a watcher's handler. In
`PaneProcess`, `WF` of the read loops, the pool, the handlers and the shutdown,
and of the death of a killed shell; none of what shells, jobs and clients do of
their own accord. A connection ends without its client only by the `Closed`
branch (`EndsOnClosed`), an input without its shell's reading only because the
terminal is closed (`InputFails`). That jobs end, that signals are not refused, that a
pool thread is free now and then and that no input over HTTP blocks for ever are
hypotheses of the properties, where they need them. In `GuiClient`, `WF` of the tasks' own steps and of a frame
once begun, and `SF` of the lifecycle task's send: a full queue wakes those that
wait to send one by one, so stream tasks do not keep a list out for ever. None of
frames, clicks, server changes or failures; that frames go on is a hypothesis of
`ListConverges`. In `TerminalLive`, `WF` of a handler once begun, of the tick and
of the sockets' steps, and `SF` of handling a published screen: the mailbox is a
queue, so ticks do not keep a screen waiting for ever; none of what users, panes
and other sessions do. In `PaneInput`, `WF` of the handlers, of the read loops and
of shells that are not moody; none of clients. No other strong fairness is used;
`PaneSocket` has none.

Each property of a passing run has a mutant: a plausible slip in the code,
written next to the definition it replaces, under which TLC finds the property
violated.

## 4. Proofs

Each `*Proofs` module proves `Invariance == Spec => []Inv` for an inductive `Inv`,
which TLC checked first, and from it that the types are right (`TypeCorrect`)
and what the table names, for every value of the constants.

| Module | Proved | Assumed of the constants |
|---|---|---|
| `PaneStreamProofs` | `RawStreamComplete`, `DiffAppliesToItsBaseline`, `ResyncCoversLastSent`, the refinement `ImplementsMirror`; `RetainsTheLastEvents`, `SkipsOnlyEvicted` | `Capacity` and `MaxEvents` at least 1 |
| `PaneRegistryProofs` | `EveryPaneAccountedFor`, `DeletedOnce`, `AmbiguousDeletesNothing` | `Named` a finite set of panes, `Name` none of them, `Capacity` at least 1 |
| `PaneProcessProofs` | `NoShellOutlivesServer` | `PoolSize` and `Buffer` at least 1 |
| `PaneConfigProofs` | `NothingDegenerate`, `SizesAgreeAtRest`, `AppliedToAll` | requests hold natural numbers; the initial sizes and limits are at least 1 |
| `GuiClientProofs` | `SelectedIsDrawable`, `TasksAreThoseShown` | there is a server, `Capacity` at least 1 |
| `TerminalLiveProofs` | `ScreenIsOfSelected`, `SubscribedToSelected` | `None` is no pane |
| `PaneSocketProofs` | `LiveNeverTimedOut`, `DeadNoticedInTime`, `OneHeartbeat` | interval and timeout at least 1, `None` no reference or number |
| `PaneInputProofs` | `WritesAreWhole`, `EnterFollowsItsBody` | `TextSize` and `Workers` at least 1, `None` no pane or session |

The bounds of section 3 are any numbers there.

**PaneStreamProofs.** `Inv` strengthens the invariants in two ways. `Pipeline` says how far apart the
read loop's writes can be at each of its steps, that event *n* carries chunk *n*
in log and channel alike, and that the log's events are consecutive and end at
the latest. Without it nothing can be said of a snapshot taken between two
writes. `Connected` relates, at every program counter of a connection, the
receiver's position, `last_sent_seq`, the history still to send, the baseline
and the client's screen: e.g. that in the raw loop `rx <= last_sent_seq` until a
lag (what the receiver will still give leaves no gap after what was sent), and
that history and subscription overlap (`HistoryContinues`). Both are monotone in
what the read loop does (`ConnectedGrows`), so read-loop steps and connection
steps are treated apart. For the refinement every step of a connection that is
on maps to `Advance` or a stutter (`MirrorStep`), `Process` to `Produce`.

Pollers add to it (`PollInv`) that the log holds exactly the last events there
were (`Retained`), and of each poller (`Polled`) that it was given events in
rising order, none beyond its cursor, and every event still in the log up to it.
A step of `PaneStream` takes events out of the log and adds newer ones, both of
which leave `Polled` alone; `SinceGives` says what a poll adds.

**PaneRegistryProofs.** That a pane is always in one place depends on every
deletion at once: `Accounted` says which deletion holds a pane that is not in the
map, that it is one only, that a killed pane is in no hands that would put it
back, and that what is in hand, killed or gone had been inserted. `Announced`
adds that what was announced as deleted is gone, and was so only once.
`AmbiguousDeletesNothing` speaks of a whole behaviour, in which two named panes stay
in the map: while they do, a walk that has passed both has found at least one
and one that has passed one more stops (`Undecided`), and no step goes from
there to a removal.

**PaneProcessProofs.** A shell must be in somebody's charge until it is dying:
`InHand` says that a running one is in the map or in the hands of the deletion
that will signal it, and, once the listeners have ended, on the list of
`shutdown_panes` or among those whose kill has failed.

**PaneConfigProofs.** `Safe` adds to `NothingDegenerate` what a handler carries
between its steps (`Carries`): sizes validated or read from where all are sound.
It holds under any overlap. `Quiet`, for behaviours without one, says that at
most one slot holds a request or its answer (`Alone`), that the sizes of every pane it is not
resizing agree, and how far the request in progress has come (`Resized`, `Applied`); the two
properties are what is left of it when no request is in progress.

**GuiClientProofs.** The two invariants are inductive only together and with the
types: what is drawn is looked up in `states`, whose tasks must exist, and a list
that takes a pane away must take selection, state and task with it, so that the states
kept are among the panes in the list (`Listed`). The lemmas say what
`Abort` makes of a list of tasks, with any stragglers.

**TerminalLiveProofs.** A handler changes the selection in one step and fetches
the screen in the next, so `ScreenIsOfSelected` is not inductive: `Good` says that
a screen is of the selection (`Settled`) unless fetching it is the very next
step, that no other step waits before a fetch (`FetchesFirst`), that each buffer
holds screens of its own pane, and that a closed session keeps nothing
(`Forgets`), since `Mount` starts from there.

**PaneInputProofs.** `Locked` is the fair mutex: a request that waits is in the
queue of its pane once, and the head alone writes. `Written` says that what a
terminal was given is runs of chunks from the first to the last of a request,
the last run perhaps in progress, and then that of the writer (`LastIsWhole`,
`WritesAtEnd`). `Followed` carries this to the Enters: one that was made is for a
text that is there or a terminal that is closed (`EnterIsLate`); one not yet made
is for a text that is there, or that its session waits for (`Awaited`), whose
handler therefore nobody drops.

**PaneSocketProofs.** Time is in the invariant. `Answered`: while a ping is out to a
prompt peer, a sign of life is in the mailbox before its timeout, or due before
the timer of it ends. `TickIsDue` and `Awaited` bound the silence: without a
ping out, `quiet` and what is left to the tick are less than two intervals
together, since a tick that finds the connection active comes within one of
`quiet`'s start (`Active`); with one, a timeout more, and that timeout is running or
in the mailbox. Between these `Beats` has the one tick and `Referred` keeps a
cancelled timeout from taking the tick with it. Time passes for an idle process
only with an empty mailbox, which is why a timer that has fired costs nothing.

Only model-checked are the liveness properties, which rest on fairness and
`ENABLED`: `StaysConnectedConverges`, `WatchersConverge`, `ExitIsShown`,
`DeletionFreesThreads`, `ServerExits`, `FrameEnds`, `ListConverges`, `ShowsLatest`, `StreamReturns` and
`InputIsServed`. The four violated properties have no theorem, of course.

## 5. Where the code and its text disagree

* `ResubscribeLosesNothing` — events between a lag's resync and the new
  subscription reach nobody (`stream.rs:177`); a screen_diff client is stale
  until the next output, a raw client has a hole.
* `OvertakingDeletionIsSeen` — `deleted` may precede `created`
  (`create.rs:76-79`); clients keep a pane that is gone.
* `DeletedPaneClosesStreams` — the comment at `delete.rs:10` promises subscribers
  of a deleted pane a `Closed`; each connection holds the pane, and thereby a
  sender of the channel it waits on (`stream.rs:92`), so none is ever closed.
* `SizesAgree` — overlapping resizes leave the three sizes
  different (`pane.rs:201-223`).

Met while modelling, without a run of their own. Nobody reaps a shell:
`pane.rs:31` ("race to take() and reap it exactly once"), `pane.rs:195` ("Reap the child (calls
waitpid)") and `delete.rs:42` ("Child::drop calls waitpid()") say that dropping the
`Child` waits for it, which `std::process::Child` does not do; the blocking task of
`delete.rs:44-46` returns at once, and every shell that has died stays a zombie
until the server exits. `terminated`, "true when the shell process has exited"
(`docs/api.md:97`), is stored when the read loop ends: a read error other than `EIO`
stores it while the shell runs on, unread (`pane.rs:187-190`), and a job that holds
the terminal keeps it false after the exit; `ExitIsShown` is the direction that holds.
A shutdown does not end if an input over HTTP is blocked by a shell that does not
read: the listener waits for the handler before `shutdown_panes` would kill the shell
(`main.rs:80-84`, `input.rs:49`); TLC finds it when `ServerExits` drops that
hypothesis.

A resync's screen may be newer
than its seq, and a raw client is then sent the difference again
(`stream.rs:239-253`); overlapping partial
updates of the configuration undo each other (`config.rs:81-89`), and a resize
that is abandoned leaves the sizes different. In the desktop
client the messages of a connection carry no mark of it: a lifecycle task that
is aborted at its send (`Straggler`) may have the last word on the list
(`main.rs:203-244`); a list that arrives while no pane is selected is shown only
at the next input, since only stream tasks and the selection ask for a repaint
(`main.rs:253`).

With no more workers than panes the server can stop for good: shells that do not
read hold a worker each (`input.rs:49`); and even one that reads can be caught in
a circle, its output waiting for the read loop, the loop for the parser's lock,
which tokio has handed to a handler that waits for the last worker, which is
writing to that shell. TLC finds it with one pane, one worker and two requests
when the hypothesis of `InputIsServed` is dropped. Two snippets within half a
second arrive as two texts and then two Enters; a change of the group filter in
that time leaves a snippet without its Enter (`terminal_live.ex:62-68`). The
desktop client posts each batch of keys by a task of its own
(`main.rs:296-306`), so batches may change places.

Nobody stops the socket of a pane that a session did not list any more when it
was deleted, and the server does not close it; a socket that finds its pane
ended is restarted until the supervisor gives up and takes the sockets of all
panes down (`pane_socket.ex:117-122`), which is why `StreamReturns` relies on
the poll's `ensure_selected_pane_stream`. A name that two panes bear at any
time, but not the same two all along, may still be resolved to one
(`state.rs:97-107`).

After a lag `PaneMirror` promises a raw client nothing (`Shown` is off then); the
screen_diff promise has no such exception.
`WatchersConverge` excludes by hypothesis an overtaking deletion and a deletion
that fails: a pane put back (`delete.rs:32-35`) is not announced again.

## 6. Not modelled, and the plan

1. Every safety property of a passing run has its theorem. To be stated and proved
   next: what holds of a connection after a lag, and lemmas that say of the
   disagreements of section 5 how far they can go.
2. Not modelled: the input history and the throughput window of the desktop
   client and the snippet history of `terminal_hooks.js`, local data of one
   user's screen; idle times, forms and panels of `terminal_live.ex`; the
   timeouts of HTTP requests other than input; `client_rs` beyond what pollers and
   watchers make of the replies, one request per call.

Authentication, error formatting, OpenAPI generation, the command-line client
and the Phoenix shell keep no state of interest and are left out. The Elixir
lifecycle socket is not started by anything.
