---------------------------- MODULE PaneProcess ----------------------------
(***************************************************************************)
(* The processes and threads behind the panes: shells and what they leave  *)
(* in the background, the PTY read loops on tokio's blocking pool, DELETE, *)
(* the stream connections that hold a pane, and the end of the server      *)
(* (server/src/pane.rs, handlers/delete.rs, main.rs).                      *)
(*                                                                         *)
(* A read loop is one task of the blocking pool for as long as its PTY is  *)
(* open.  The child of a pane is an Option that the read loop, the delete  *)
(* handler and shutdown_panes race to take; whoever takes it drops it.     *)
(* What is dropped is a std::process::Child, which has no Drop: nobody     *)
(* waits for a shell, and a dead one stays a zombie until the server has   *)
(* exited, although the comments at pane.rs:195 and delete.rs:42 say that  *)
(* the drop calls waitpid.                                                 *)
(*                                                                         *)
(* The listeners wait for requests in progress.  Those that can last are   *)
(* inputs, whose write_all blocks on a shell that does not read; each      *)
(* keeps a worker thread, of which there are enough here (PaneInput has    *)
(* them).  A stream is no request once it is upgraded.  A creation has no  *)
(* await, so it is one step; PaneRegistry has its parts.                   *)
(***************************************************************************)
EXTENDS Naturals, Sequences, FiniteSets

CONSTANTS Panes,        \* panes that may be created
          Jobbers,      \* bound: those whose shell may start background jobs
          Used,         \* bound: those that clients follow, and send input to
          Faulty,       \* bound: those whose terminal may give a read error, and
                        \* whose shell the system may refuse to signal
          Conns,        \* stream connections
          PoolSize,     \* threads of the blocking pool (512)
          Buffer        \* chunks a terminal holds for the read loop

ASSUME PoolSizeAssumption == PoolSize \in Nat \ {0}
ASSUME BufferAssumption == Buffer \in Nat \ {0}

VARIABLES shell,        \* shell[p]: none, running, dying (killed), zombie
          job,          \* job[p]: a background job keeps p's terminal open
          unread,       \* unread[p]: chunks written to p's terminal, not yet read
          reader,       \* reader[p]: none, reading, ended (terminated), done
          child,        \* child[p]: who has the Child of p's shell
          map,          \* the panes in the map
          deletion,     \* deletion[p]: the handler that removed p
          failed,       \* panes whose shell could not be signalled
          queue,        \* tasks that wait for a thread of the pool
          running,      \* tasks that have one
          input,        \* input[p]: the listener of an input in progress, or none
          stream,       \* stream[c]: {p}, the pane connection c holds, or {}
          server        \* the server: where it is, and the panes it has to kill

vars == <<shell, job, unread, reader, child, map, deletion, failed, queue,
          running, input, stream, server>>

shells == <<shell, job, unread>>
pool == <<queue, running>>
clients == <<input, stream>>

ReadTask(p) == <<"read", p>>
DropTask(p) == <<"drop", p>>

Init == /\ shell = [p \in Panes |-> "none"]
        /\ job = [p \in Panes |-> FALSE]
        /\ unread = [p \in Panes |-> 0]
        /\ reader = [p \in Panes |-> "none"]
        /\ child = [p \in Panes |-> "none"]
        /\ map = {}
        /\ deletion = [p \in Panes |-> "none"]
        /\ failed = {}
        /\ queue = << >>
        /\ running = {}
        /\ input = [p \in Panes |-> "none"]
        /\ stream = [c \in Conns |-> {}]
        /\ server = [pc |-> "serving", todo |-> {}]

-----------------------------------------------------------------------------
(***************************************************************************)
(* The shell and the kernel.                                               *)
(***************************************************************************)
\* The shell, or a job it left behind, writes to the terminal; a write to a full
\* terminal waits.
Write(p) ==
    /\ shell[p] = "running" \/ job[p]
    /\ unread[p] < Buffer
    /\ unread' = [unread EXCEPT ![p] = @ + 1]
    /\ UNCHANGED <<shell, job, reader, child, map, deletion, failed,
                   pool, clients, server>>

\* The shell puts a job in the background; the job ends, if it does.
StartJob(p) ==
    /\ shell[p] = "running"
    /\ p \in Jobbers
    /\ job' = [job EXCEPT ![p] = TRUE]
    /\ UNCHANGED <<shell, unread, reader, child, map, deletion,
                   failed, pool, clients, server>>

EndJob(p) ==
    /\ job[p]
    /\ job' = [job EXCEPT ![p] = FALSE]
    /\ UNCHANGED <<shell, unread, reader, child, map, deletion,
                   failed, pool, clients, server>>

\* The shell exits of its own accord, or because it was killed.
Die(p, from) ==
    /\ shell[p] = from
    /\ shell' = [shell EXCEPT ![p] = "zombie"]
    /\ UNCHANGED <<job, unread, reader, child, map, deletion,
                   failed, pool, clients, server>>

\* The terminal is closed: nobody can write to it any more.
Closed(p) == shell[p] = "zombie" /\ ~job[p]

\* kill(pid, SIGKILL) that succeeds, also when there is no such process.
Signalled(p) == [shell EXCEPT ![p] = IF @ = "running" THEN "dying" ELSE @]

-----------------------------------------------------------------------------
(***************************************************************************)
(* POST /panes, and the read loop.                                         *)
(***************************************************************************)
\* The shell is spawned, the read loop handed to the pool, the pane inserted.
Create(p) ==
    /\ server.pc = "serving"
    /\ shell[p] = "none"
    /\ shell' = [shell EXCEPT ![p] = "running"]
    /\ child' = [child EXCEPT ![p] = "pane"]
    /\ queue' = Append(queue, ReadTask(p))
    /\ map' = map \cup {p}
    /\ UNCHANGED <<job, unread, reader, deletion, failed, running,
                   clients, server>>

\* A thread of the pool takes the task that has waited longest.
StartTask ==
    /\ queue # << >>
    /\ Cardinality(running) < PoolSize
    /\ server.pc \notin {"joining", "exited"}
    /\ queue' = Tail(queue)
    /\ running' = running \cup {Head(queue)}
    /\ reader' = [p \in Panes |-> IF Head(queue) = ReadTask(p) THEN "reading"
                                                               ELSE reader[p]]
    /\ UNCHANGED <<shells, child, map, deletion, failed, clients, server>>

\* Mutant of ReadChunk: a read that returns although nothing was written.
ReadChunkOfNothing(p) ==
    /\ reader[p] = "reading"
    /\ unread' = [unread EXCEPT ![p] = @ - 1]
    /\ UNCHANGED <<shell, job, reader, child, map, deletion, failed, pool, clients,
                   server>>

\* One turn of the loop: PaneStream has its parts.
ReadChunk(p) ==
    /\ reader[p] = "reading"
    /\ unread[p] > 0
    /\ unread' = [unread EXCEPT ![p] = @ - 1]
    /\ UNCHANGED <<shell, job, reader, child, map, deletion, failed, pool, clients,
                   server>>

\* Mutant of ReadEnds: ends at Ok(0) alone, which a PTY does not give; EIO is
\* taken for an error that passes.
ReadEndsAtZero(p) ==
    /\ reader[p] = "reading"
    /\ Closed(p) /\ unread[p] = 0
    /\ UNCHANGED vars

\* Ok(0) or EIO, which a PTY gives once it is closed and read to its end: the
\* loop ends and stores terminated.
ReadEnds(p) ==
    /\ reader[p] = "reading"
    /\ Closed(p) /\ unread[p] = 0
    /\ reader' = [reader EXCEPT ![p] = "ended"]
    /\ UNCHANGED <<shells, child, map, deletion, failed, pool, clients, server>>

\* Any other error ends the loop as well, whatever is unread or still runs.
ReadFails(p) ==
    /\ p \in Faulty
    /\ reader[p] = "reading"
    /\ reader' = [reader EXCEPT ![p] = "ended"]
    /\ UNCHANGED <<shells, child, map, deletion, failed, pool, clients, server>>

\* drop(take_child(&child)), and the end of the task.
ReaderDrops(p) ==
    /\ reader[p] = "ended"
    /\ child' = [child EXCEPT ![p] = IF @ = "pane" THEN "dropped" ELSE @]
    /\ reader' = [reader EXCEPT ![p] = "done"]
    /\ running' = running \ {ReadTask(p)}
    /\ UNCHANGED <<shells, map, deletion, failed, queue, clients, server>>

-----------------------------------------------------------------------------
(***************************************************************************)
(* DELETE /panes/{id}                                                      *)
(***************************************************************************)
\* remove_pane: from here on the handler alone has the pane.
Remove(p) ==
    /\ server.pc = "serving"
    /\ p \in map
    /\ map' = map \ {p}
    /\ deletion' = [deletion EXCEPT ![p] = "removed"]
    /\ UNCHANGED <<shells, reader, child, failed, pool, clients, server>>

\* Mutant of Kill: with a signal that an interactive shell ignores.
KillIgnored(p) ==
    /\ deletion[p] = "removed"
    /\ deletion' = [deletion EXCEPT ![p] = "killed"]
    /\ UNCHANGED <<shells, reader, child, map, failed, pool, clients, server>>

\* kill_process(SIGKILL), and the lifecycle event.
Kill(p) ==
    /\ deletion[p] = "removed"
    /\ shell' = Signalled(p)
    /\ deletion' = [deletion EXCEPT ![p] = "killed"]
    /\ UNCHANGED <<job, unread, reader, child, map, failed, pool,
                   clients, server>>

\* The signal is refused: the pane goes back into the map.
KillFails(p) ==
    /\ deletion[p] = "removed"
    /\ p \in Faulty /\ shell[p] = "running"
    /\ failed' = failed \cup {p}
    /\ map' = map \cup {p}
    /\ deletion' = [deletion EXCEPT ![p] = "none"]
    /\ UNCHANGED <<shells, reader, child, pool, clients, server>>

\* take_child(), to be dropped on the pool unless the read loop was first.
TakeChild(p) ==
    /\ deletion[p] = "killed"
    /\ deletion' = [deletion EXCEPT ![p] = "done"]
    /\ IF child[p] = "pane"
       THEN /\ child' = [child EXCEPT ![p] = "task"]
            /\ queue' = Append(queue, DropTask(p))
       ELSE UNCHANGED <<child, queue>>
    /\ UNCHANGED <<shells, reader, map, failed, running, clients, server>>

\* spawn_blocking(move || drop(child))
DropChild(p) ==
    /\ DropTask(p) \in running
    /\ child' = [child EXCEPT ![p] = "dropped"]
    /\ running' = running \ {DropTask(p)}
    /\ UNCHANGED <<shells, reader, map, deletion, failed, queue, clients, server>>

-----------------------------------------------------------------------------
(***************************************************************************)
(* POST /panes/{id}/input: the handler has an Arc of the pane, and writes. *)
(***************************************************************************)
\* get_pane, and write_all begins.
StartInput(p, listener) ==
    /\ server.pc = "serving"
    /\ p \in map \cap Used
    /\ input[p] = "none"
    /\ input' = [input EXCEPT ![p] = listener]
    /\ UNCHANGED <<shells, reader, child, map, deletion, failed, pool, stream, server>>

\* The terminal has taken all of it, or is closed.
EndInput(p) ==
    /\ input[p] # "none"
    /\ input' = [input EXCEPT ![p] = "none"]
    /\ UNCHANGED <<shells, reader, child, map, deletion, failed, pool, stream, server>>

\* write_all fails, for nobody is left to read what is written.
InputFails(p) == Closed(p) /\ EndInput(p)

-----------------------------------------------------------------------------
(***************************************************************************)
(* Stream connections: handle_ws has an Arc of its pane.                   *)
(***************************************************************************)
Connect(c, p) ==
    /\ server.pc = "serving"
    /\ stream[c] = {}
    /\ p \in map \cap Used
    /\ stream' = [stream EXCEPT ![c] = {p}]
    /\ UNCHANGED <<shells, reader, child, map, deletion, failed, pool, input,
                   server>>

\* The connection ends, whoever ends it.
Disconnect(c) ==
    /\ stream[c] # {}
    /\ stream' = [stream EXCEPT ![c] = {}]
    /\ UNCHANGED <<shells, reader, child, map, deletion, failed, pool, input,
                   server>>

\* Somebody can still send on p's channel: the read loop, or a pane that is in
\* the map or in the hands of a handler or of a connection.
HasSender(p) ==
    \/ reader[p] # "done"
    \/ p \in map
    \/ deletion[p] \in {"removed", "killed"}
    \/ input[p] # "none"
    \/ \E c \in Conns : stream[c] = {p}

\* recv() = Err(Closed): every sender is gone, the handler ends.
EndsOnClosed(c) == /\ \A p \in stream[c] : ~HasSender(p)
                   /\ Disconnect(c)

-----------------------------------------------------------------------------
(***************************************************************************)
(* The end of the server: run, shutdown_panes and the drop of the runtime. *)
(***************************************************************************)
\* A signal, or a listener fails and the other is told to stop.  (A request that
\* begins later might as well have begun before: serving ends with the last one.)
Stop ==
    /\ server.pc = "serving"
    /\ server' = [server EXCEPT !.pc = "stopping"]
    /\ UNCHANGED <<shells, reader, child, map, deletion, failed, pool, clients>>

\* Deletions in progress, which last no longer than their calls.
Deleting == {p \in Panes : deletion[p] \in {"removed", "killed"}}

\* Mutant of ListenersDone: does not wait for the requests in progress.
ListenersDoneAtOnce ==
    /\ server.pc = "stopping"
    /\ server' = [server EXCEPT !.pc = "killing", !.todo = map]
    /\ UNCHANGED <<shells, reader, child, map, deletion, failed, pool, clients>>

\* Mutant of ListenersDone: graceful_shutdown(None), so HTTPS has no limit either.
ListenersDoneUnlimited ==
    /\ server.pc = "stopping"
    /\ Deleting = {}
    /\ \A p \in Panes : input[p] = "none"
    /\ server' = [server EXCEPT !.pc = "killing", !.todo = map]
    /\ UNCHANGED <<shells, reader, child, map, deletion, failed, pool, clients>>

\* The graceful shutdown is over: HTTP has answered every request, HTTPS waits for
\* 30 seconds at most, and leaves what still blocks a worker then.
ListenersDone ==
    /\ server.pc = "stopping"
    /\ Deleting = {}
    /\ \A p \in Panes : input[p] # "http"
    /\ server' = [server EXCEPT !.pc = "killing", !.todo = map]
    /\ UNCHANGED <<shells, reader, child, map, deletion, failed, pool, clients>>

\* kill_process, whose error is only logged, and drop(take_child()).
ShutdownPane(p) ==
    /\ server.pc = "killing"
    /\ p \in server.todo
    /\ \/ shell' = Signalled(p) /\ failed' = failed
       \/ /\ p \in Faulty /\ shell[p] = "running"
          /\ shell' = shell /\ failed' = failed \cup {p}
    /\ child' = [child EXCEPT ![p] = IF @ = "pane" THEN "dropped" ELSE @]
    /\ server' = [server EXCEPT !.todo = @ \ {p}]
    /\ UNCHANGED <<job, unread, reader, map, deletion, pool, clients>>

\* All panes are done, and run returns what serving came to.  An error ends the
\* process at once; otherwise the runtime is dropped, which waits for the tasks
\* that have a thread, and for the workers.
PanesDone(failure) ==
    /\ server.pc = "killing"
    /\ server.todo = {}
    /\ server' = [server EXCEPT !.pc = IF failure THEN "exited" ELSE "joining"]
    /\ UNCHANGED <<shells, reader, child, map, deletion, failed, pool, clients>>

ThreadsJoined ==
    /\ server.pc = "joining"
    /\ running = {}
    /\ \A p \in Panes : input[p] = "none"
    /\ server' = [server EXCEPT !.pc = "exited"]
    /\ UNCHANGED <<shells, reader, child, map, deletion, failed, pool, clients>>

-----------------------------------------------------------------------------
Kernel(p) == Write(p) \/ StartJob(p) \/ EndJob(p) \/ Die(p, "running") \/ Die(p, "dying")

Read(p) == ReadChunk(p) \/ ReadEnds(p) \/ ReaderDrops(p)

Delete(p) == Kill(p) \/ KillFails(p) \/ TakeChild(p)

Type(p) == EndInput(p) \/ \E listener \in {"http", "https"} : StartInput(p, listener)

Shutdown == \/ ListenersDone \/ ThreadsJoined
            \/ \E p \in Panes : ShutdownPane(p)
            \/ \E failure \in BOOLEAN : PanesDone(failure)

\* The model ends with the server: what is left of the shells concerns nobody.
Up == server.pc # "exited"

Next ==
    /\ Up
    /\ \/ \E p \in Panes : \/ Kernel(p) \/ Create(p) \/ Read(p) \/ ReadFails(p)
                           \/ Remove(p) \/ Delete(p) \/ DropChild(p) \/ Type(p)
       \/ StartTask
       \/ \E c \in Conns : Disconnect(c) \/ \E p \in Panes : Connect(c, p)
       \/ Stop \/ Shutdown

Spec == Init /\ [][Next]_vars

\* Threads and handlers that can go on do, and a killed shell dies.  Nothing
\* makes a shell write, read or exit, a job end, or a client come or go: a
\* connection ends without its client only by EndsOnClosed, and an input without
\* its shell's reading only by InputFails.
Fairness ==
    /\ \A p \in Panes : /\ WF_vars(Up /\ Die(p, "dying"))
                        /\ WF_vars(Up /\ Read(p))
                        /\ WF_vars(Up /\ Delete(p))
                        /\ WF_vars(Up /\ DropChild(p))
                        /\ WF_vars(Up /\ InputFails(p))
    /\ \A c \in Conns : WF_vars(Up /\ EndsOnClosed(c))
    /\ WF_vars(Up /\ StartTask)
    /\ WF_vars(Up /\ Shutdown)

FairSpec == Spec /\ Fairness

-----------------------------------------------------------------------------
Tasks == {ReadTask(p) : p \in Panes} \cup {DropTask(p) : p \in Panes}

TypeOK ==
    /\ shell \in [Panes -> {"none", "running", "dying", "zombie"}]
    /\ job \in [Panes -> BOOLEAN]
    /\ unread \in [Panes -> 0..Buffer]
    /\ reader \in [Panes -> {"none", "reading", "ended", "done"}]
    /\ child \in [Panes -> {"none", "pane", "task", "dropped"}]
    /\ map \subseteq Panes
    /\ deletion \in [Panes -> {"none", "removed", "killed", "done"}]
    /\ failed \subseteq Panes
    /\ queue \in Seq(Tasks)
    /\ running \subseteq Tasks
    /\ input \in [Panes -> {"none", "http", "https"}]
    /\ stream \in [Conns -> SUBSET Panes]
    /\ server \in [pc : {"serving", "stopping", "killing", "joining", "exited"},
                   todo : SUBSET Panes]

\* However shutdown falls among creations, deletions and exits, and whichever of
\* its two ends run() takes, no shell outlives the server unless the system
\* refused to signal it.
NoShellOutlivesServer ==
    server.pc = "exited" =>
        \A p \in Panes : shell[p] = "running" => p \in failed

\* The read loop of p has a thread, or there is a free one.
HasThread(p) == reader[p] # "none" \/ Cardinality(running) < PoolSize

Stopped == server.pc # "serving"

\* Every exit is shown: a shell that is gone, killed or not, makes its pane show
\* `terminated', although its read loop may have to wait for a thread, and then
\* for the shell's background jobs and for all they have written: provided that
\* the jobs end, and that no other loops keep the threads of the pool for ever.
ExitIsShown ==
    \A p \in Panes :
        <>[](~job[p]) /\ []<>HasThread(p) =>
            (shell[p] = "zombie" ~> reader[p] \in {"ended", "done"} \/ Stopped)

\* A deletion gives back the threads that the pane has kept: the one of its read
\* loop, and the worker that an input to a shell that does not read has blocked,
\* under the same conditions.
DeletionFreesThreads ==
    \A p \in Panes :
        <>[](~job[p]) /\ []<>HasThread(p) =>
            (deletion[p] = "done" ~> (reader[p] = "done" /\ input[p] = "none") \/ Stopped)

\* A server that is told to stop exits, although it waits for every thread of the
\* pool and every worker: provided that the background jobs that hold terminals
\* end, that no shell refuses its signal, and that no input over HTTP is blocked
\* for ever by a shell that does not read.  One over HTTPS may be: the shutdown
\* comes to kill its shell.
ServerExits ==
    /\ <>[](\A p \in Panes : ~job[p])
    /\ [](failed = {})
    /\ \A p \in Panes : input[p] = "http" ~> input[p] # "http"
    => (server.pc = "stopping" ~> server.pc = "exited")

-----------------------------------------------------------------------------
(***************************************************************************)
(* What the source says and the code does not do.                          *)
(***************************************************************************)
\* "Any connected WebSocket subscribers will receive a `Closed` error": the
\* stream connections of a deleted pane end.
DeletedPaneClosesStreams ==
    \A p \in Panes, c \in Conns :
        deletion[p] = "done" /\ stream[c] = {p} ~>
            stream[c] # {p} \/ job[p] \/ input[p] # "none" \/ server.pc # "serving"

=============================================================================
