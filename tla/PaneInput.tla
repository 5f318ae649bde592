------------------------------ MODULE PaneInput ------------------------------
(***************************************************************************)
(* The way of input to a shell: POST /panes/{id}/input (server/src/        *)
(* handlers/input.rs) with the clients that send it, a session of the web  *)
(* client (terminal_live.ex), which waits for each answer, and tasks of    *)
(* the desktop client (gui_client_rs/src/main.rs), which do not.           *)
(*                                                                         *)
(* Handlers are tasks on a few worker threads.  One that waits for a lock  *)
(* leaves its worker to others; one that writes to a terminal with a full  *)
(* input queue keeps it.  The shell makes room by reading, and reads only  *)
(* while its output is taken: by the read loop (pane.rs), which needs the  *)
(* parser's lock, which tokio may have handed to a handler that waits for  *)
(* a worker.                                                               *)
(***************************************************************************)
EXTENDS Naturals, Sequences, FiniteSets, SequencesExt

CONSTANTS Panes,
          Moody,        \* panes whose shell may stop reading, or exit
          Watched,      \* panes whose screen is asked for; the output of
                        \* the others is taken as it comes
          Sessions,     \* web sessions
          Workers,      \* worker threads of the runtime
          InCap,        \* chunks of input a terminal holds
          OutCap,       \* chunks of output a terminal holds
          TextSize,     \* chunks of a text; an Enter is one
          MaxRequests,  \* bound: requests made in all
          None

ASSUME WorkersAssumption == Workers \in Nat \ {0}
ASSUME NoneAssumption == None \notin Panes \cup Sessions
ASSUME SizeAssumption == TextSize \in Nat \ {0} /\ OutCap \in Nat
ASSUME BoundsAssumption == MaxRequests \in Nat

VARIABLES request,      \* request[n]: the n-th request, its handler and what it wrote
          queue,        \* queue[p]: who has and who waits for the writer of p
          term,         \* term[p]: the terminal, the shell and the read loop of p
          screen,       \* screen[p]: a handler that reads the parser of p
          session       \* session[s]: selection, pending Enters, request waited for

vars == <<request, queue, term, screen, session>>

Requests == 1..MaxRequests

NoRequest == [pc |-> "new", from |-> None, pane |-> None, size |-> 0, body |-> 0, wrote |-> 0]

Init == /\ request = [n \in Requests |-> NoRequest]
        /\ queue = [p \in Panes |-> << >>]
        /\ term = [p \in Panes |-> [open |-> TRUE, input |-> << >>, read |-> 0,
                                    out |-> 0, loop |-> "read"]]
        /\ screen = [p \in Panes |-> "none"]
        /\ session = [s \in Sessions |-> [open |-> TRUE, selected |-> None,
                                          enters |-> << >>, waits |-> 0]]

-----------------------------------------------------------------------------
(***************************************************************************)
(* The clients.                                                            *)
(***************************************************************************)
Made == Cardinality({n \in Requests : request[n].pc # "new"})

\* The next request; an Enter has the number of its snippet's body.
Post(n, from, p, size, body) ==
    /\ n = Made + 1
    /\ n \in Requests
    /\ request' = [request EXCEPT ![n] = [pc |-> "ready", from |-> from, pane |-> p,
                                          size |-> size, body |-> body, wrote |-> 0]]
    /\ UNCHANGED <<queue, term, screen>>

\* Each batch of keys and each line of the desktop client is a task of its own.
GuiInput == \E n \in Requests, p \in Panes :
               Post(n, None, p, TextSize, 0) /\ UNCHANGED session

InProgress(s) == session[s].waits # 0 /\ request[session[s].waits].pc # "done"

Idle(s) == session[s].open /\ ~InProgress(s)

\* Req.post! returns when the answer has come.
Waiting(s, n, enters) ==
    [session EXCEPT ![s] = [session[s] EXCEPT !.waits = n, !.enters = enters]]

SelectPane(s) == \E p \in Panes : /\ Idle(s)
                                  /\ session' = [session EXCEPT ![s].selected = p]
                                  /\ UNCHANGED <<request, queue, term, screen>>

\* send_input
WebInput(s) == \E n \in Requests :
    /\ Idle(s) /\ session[s].selected # None
    /\ Post(n, s, session[s].selected, TextSize, 0)
    /\ session' = Waiting(s, n, session[s].enters)

\* Mutant of InjectSnippet: sends the Enter of no text to no pane.
InjectSnippetUnchecked(s) == \E n \in Requests :
    /\ Idle(s)
    /\ Post(n, s, session[s].selected, TextSize, 0)
    /\ session' = Waiting(s, n, Append(session[s].enters, <<session[s].selected, n>>))

\* inject_snippet: the body is sent, and its Enter after a delay.
InjectSnippet(s) == \E n \in Requests :
    /\ Idle(s) /\ session[s].selected # None
    /\ Post(n, s, session[s].selected, TextSize, 0)
    /\ session' = Waiting(s, n, Append(session[s].enters, <<session[s].selected, n>>))

\* Mutant of SendEnter: to the pane that is selected now.
SendEnterToSelected(s) ==
    /\ Idle(s) /\ session[s].enters # << >>
    /\ LET body == Head(session[s].enters)[2]
       IN  \E n \in Requests :
              /\ Post(n, s, session[s].selected, 1, body)
              /\ session' = Waiting(s, n, Tail(session[s].enters))

\* {:send_snippet_enter, id}: to the pane of the body ...
SendEnter(s) ==
    /\ Idle(s) /\ session[s].enters # << >>
    /\ LET p == Head(session[s].enters)[1]
           body == Head(session[s].enters)[2]
       IN  \E n \in Requests :
              /\ Post(n, s, p, 1, body)
              /\ session' = Waiting(s, n, Tail(session[s].enters))

\* ... unless the session's list does not have it, which TerminalLive is about.
SkipEnter(s) ==
    /\ Idle(s) /\ session[s].enters # << >>
    /\ session' = [session EXCEPT ![s].enters = Tail(@)]
    /\ UNCHANGED <<request, queue, term, screen>>

\* The answer does not come in time: Req.post! raises, and the session is gone.
GiveUp(s) ==
    /\ InProgress(s)
    /\ session' = [session EXCEPT ![s] = [session[s] EXCEPT !.open = FALSE, !.enters = << >>,
                                                            !.waits = 0]]
    /\ UNCHANGED <<request, queue, term, screen>>

-----------------------------------------------------------------------------
(***************************************************************************)
(* send_input_handler                                                      *)
(***************************************************************************)
\* Mutant of Busy: the read loops run on workers too.
BusyWithLoops == Cardinality({n \in Requests : request[n].pc = "writing"})
                 + Cardinality({p \in Panes : term[p].open})

\* Workers kept by a handler: write_all blocks its thread.  (The read loops
\* have threads of their own: spawn_blocking.)
Busy == Cardinality({n \in Requests : request[n].pc = "writing"})

AWorkerIsFree == Busy < Workers

\* Request n leaves the queue, and the next one has the writer.
Leave(n, wrote) ==
    LET p == request[n].pane
        left == RemoveFirst(queue[p], n)
    IN  /\ queue' = [queue EXCEPT ![p] = left]
        /\ request' = [m \in Requests |->
             IF m = n THEN [request[n] EXCEPT !.pc = "done", !.wrote = wrote]
             ELSE IF left # << >> /\ m = Head(left) /\ request[m].pc = "waiting"
             THEN [request[m] EXCEPT !.pc = "granted"] ELSE request[m]]

\* Mutant of Lock: everyone writes at once.
LockNothing(n) ==
    LET p == request[n].pane
    IN  /\ request[n].pc = "ready" /\ AWorkerIsFree
        /\ queue' = [queue EXCEPT ![p] = Append(@, n)]
        /\ request' = [request EXCEPT ![n].pc = "writing"]
        /\ UNCHANGED <<term, screen, session>>

\* The pane is looked up, the body decoded, and the writer's lock is asked for:
\* a fair mutex, which queues.
Lock(n) ==
    LET p == request[n].pane
    IN  /\ request[n].pc = "ready" /\ AWorkerIsFree
        /\ queue' = [queue EXCEPT ![p] = Append(@, n)]
        /\ request' = [request EXCEPT ![n].pc = IF queue[p] = << >> THEN "writing" ELSE "waiting"]
        /\ UNCHANGED <<term, screen, session>>

\* The lock has been handed over, and a worker takes up the handler.
Resume(n) ==
    /\ request[n].pc = "granted" /\ AWorkerIsFree
    /\ request' = [request EXCEPT ![n].pc = "writing"]
    /\ UNCHANGED <<queue, term, screen, session>>

\* write_all: as much as the terminal takes, until all is written.
Write(n) ==
    LET r == request[n]
        t == term[r.pane]
    IN  /\ r.pc = "writing" /\ t.open
        /\ Len(t.input) - t.read < InCap
        /\ term' = [term EXCEPT ![r.pane].input = Append(@, <<n, r.wrote + 1>>)]
        /\ IF r.wrote + 1 = r.size THEN Leave(n, r.size)
           ELSE request' = [request EXCEPT ![n].wrote = @ + 1] /\ UNCHANGED queue
        /\ UNCHANGED <<screen, session>>

\* The shell has exited: 500, with part of it written.
WriteFails(n) ==
    /\ request[n].pc = "writing" /\ ~term[request[n].pane].open
    /\ Leave(n, request[n].wrote)
    /\ UNCHANGED <<term, screen, session>>

\* The client is gone: the handler is dropped where it waits, not while it writes.
HangUp(n) ==
    LET r == request[n]
    IN  /\ r.pc \in {"ready", "waiting", "granted"}
        /\ r.from # None => session[r.from].waits # n
        /\ Leave(n, 0)
        /\ UNCHANGED <<term, screen, session>>

-----------------------------------------------------------------------------
(***************************************************************************)
(* The shell, which echoes what it reads, the read loop and those that     *)
(* read the parser: get_screen_handler, and streams alike.                 *)
(***************************************************************************)
ShellReads(p) ==
    /\ term[p].open /\ term[p].read < Len(term[p].input)
    /\ IF p \in Watched
       THEN term[p].out < OutCap /\ term' = [term EXCEPT ![p].read = @ + 1, ![p].out = @ + 1]
       ELSE term' = [term EXCEPT ![p].read = @ + 1]
    /\ UNCHANGED <<request, queue, screen, session>>

ShellExits(p) ==
    /\ p \in Moody /\ term[p].open
    /\ term' = [term EXCEPT ![p].open = FALSE]
    /\ UNCHANGED <<request, queue, screen, session>>

\* The read loop takes a chunk, and the parser's lock unless that is handed out.
LoopReads(p) ==
    /\ term[p].loop = "read" /\ term[p].out > 0
    /\ term' = [term EXCEPT ![p].out = @ - 1,
                            ![p].loop = IF screen[p] = "granted" THEN "waits" ELSE "process"]
    /\ UNCHANGED <<request, queue, screen, session>>

\* It has processed the chunk; the lock goes to the handler that waits for it.
LoopProcesses(p) ==
    /\ term[p].loop = "process"
    /\ term' = [term EXCEPT ![p].loop = "read"]
    /\ screen' = [screen EXCEPT ![p] = IF @ = "waiting" THEN "granted" ELSE @]
    /\ UNCHANGED <<request, queue, session>>

\* Asks for the lock, and waits if the read loop has it.  If not, the handler
\* reads the screen at once and nothing changes.
LockParser(p) ==
    /\ p \in Watched /\ AWorkerIsFree
    /\ screen[p] = "none" /\ term[p].loop = "process"
    /\ screen' = [screen EXCEPT ![p] = "waiting"]
    /\ UNCHANGED <<request, queue, term, session>>

ReadParser(p) ==
    /\ screen[p] = "granted" /\ AWorkerIsFree
    /\ screen' = [screen EXCEPT ![p] = "none"]
    /\ term' = [term EXCEPT ![p].loop = IF @ = "waits" THEN "process" ELSE @]
    /\ UNCHANGED <<request, queue, session>>

-----------------------------------------------------------------------------
Web(s) == \/ SelectPane(s) \/ WebInput(s) \/ InjectSnippet(s) \/ SendEnter(s)
          \/ SkipEnter(s) \/ GiveUp(s)

Handler(n) == Lock(n) \/ Resume(n) \/ Write(n) \/ WriteFails(n)

Loop(p) == LoopReads(p) \/ LoopProcesses(p)

Next == \/ GuiInput
        \/ \E s \in Sessions : Web(s)
        \/ \E n \in Requests : Handler(n) \/ HangUp(n)
        \/ \E p \in Panes : ShellReads(p) \/ ShellExits(p) \/ Loop(p)
                           \/ LockParser(p) \/ ReadParser(p)

Spec == Init /\ [][Next]_vars

\* Handlers and read loops go on, and shells that are not moody read.
Fairness == /\ \A n \in Requests : WF_vars(Handler(n))
            /\ \A p \in Panes : WF_vars(Loop(p)) /\ WF_vars(ReadParser(p))
            /\ \A p \in Panes \ Moody : WF_vars(ShellReads(p))

FairSpec == Spec /\ Fairness

-----------------------------------------------------------------------------
TypeOK ==
    /\ request \in [Requests ->
         [pc : {"new", "ready", "waiting", "granted", "writing", "done"},
          from : Sessions \cup {None}, pane : Panes \cup {None},
          size : {0, 1, TextSize}, body : 0..MaxRequests, wrote : 0..TextSize]]
    /\ queue \in [Panes -> Seq(Requests)]
    /\ term \in [Panes -> [open : BOOLEAN, input : Seq(Requests \X (1..TextSize)),
                           read : Nat, out : 0..OutCap, loop : {"read", "waits", "process"}]]
    /\ screen \in [Panes -> {"none", "waiting", "granted"}]
    /\ session \in [Sessions -> [open : BOOLEAN, selected : Panes \cup {None},
                                 enters : Seq(Panes \X Requests), waits : 0..MaxRequests]]

\* What a terminal is given is one request after the other, each whole and in
\* order, but for the one that is being written, or that failed as the shell
\* exited, which is the last: writes that overlap or are abandoned never mix.
WritesAreWhole ==
    \A p \in Panes :
        LET input == term[p].input
        IN  \A i \in 1..Len(input) :
               LET n == input[i][1]
               IN  /\ input[i][2] > 1 => i > 1 /\ input[i - 1] = <<n, input[i][2] - 1>>
                   /\ i < Len(input) /\ input[i][2] < request[n].size =>
                         input[i + 1] = <<n, input[i][2] + 1>>

\* The Enter of a snippet arrives after all of its body and in the same pane,
\* whatever its session has selected or sent since, or the pane has exited.
EnterFollowsItsBody ==
    \A p \in Panes : \A i \in 1..Len(term[p].input) :
        LET body == request[term[p].input[i][1]].body
        IN  body # 0 => \E j \in 1..(i - 1) : term[p].input[j] = <<body, TextSize>>

\* With more workers than panes, shells that do not read keep no input from those
\* that do: each pane costs one worker at most, however many wait to write to it,
\* and the read loop gets the parser.
InputIsServed ==
    Workers > Cardinality(Panes) =>
        \A n \in Requests : \A p \in Panes \ Moody :
            (request[n].pc = "ready" /\ request[n].pane = p) ~> request[n].pc = "done"

=============================================================================
