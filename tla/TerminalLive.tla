---------------------------- MODULE TerminalLive ----------------------------
(***************************************************************************)
(* The web client: one process per browser session                         *)
(* (client/lib/terminal_ui_web/live/terminal_live.ex), which shows the     *)
(* screen of one pane, and one process per followed pane (pane_socket.ex), *)
(* which all sessions share and pane_supervisor.ex starts and stops.       *)
(*                                                                         *)
(* A session handles one message at a time: what its user does, the tick   *)
(* of its timer, a screen that a socket has published.  Handlers wait for  *)
(* the HTTP replies of the server, and what a reply says may be out of     *)
(* date when it arrives.  A socket asks for the screen when it is told of  *)
(* output and publishes what it got to the sessions subscribed by then.    *)
(* The heartbeat of the sockets is in PaneSocket.  Sessions meet in the    *)
(* sockets and the server only: what those that are not in Sessions do to  *)
(* either is Others and Change.                                            *)
(***************************************************************************)
EXTENDS Naturals, Sequences

CONSTANTS Panes, Sessions,
          Starts,       \* the panes there may be at first, and those in the group
          MaxRestarts,  \* sockets a supervisor restarts in a window (3 in 5 s)
          MaxMail,      \* bound: published screens a session has not handled
          MaxEvents,    \* bound: what users, other clients and the network do
          None

ASSUME NoneAssumption == None \notin Panes
ASSUME BoundsAssumption == MaxRestarts \in Nat /\ MaxMail \in Nat /\ MaxEvents \in Nat

VARIABLES server,       \* server[p]: the pane, its group and its screen
          sock,         \* sock[p]: the PaneSocket of p
          restarts,     \* restarts of sockets in the supervisor's window
          session,      \* session[s]: the assigns and the handler of session s
          subscribed,   \* subscribed[s][p]: subscriptions of s to "pane:p"
          events        \* counter behind MaxEvents

vars == <<server, sock, restarts, session, subscribed, events>>

NoSocket == [st |-> "none", frame |-> FALSE, screen |-> None]

\* todo is what is left of the handler and listed the reply it has to act on.
Closed == [open |-> FALSE, todo |-> << >>, listed |-> {}, targets |-> {},
           panes |-> {}, filter |-> FALSE, buffers |-> [p \in Panes |-> None],
           selected |-> None, screen |-> None, mail |-> << >>]

Init == /\ \E start \in Starts :
             server = [p \in Panes |-> [life |-> IF p \in start.live THEN "live" ELSE "new",
                                        grouped |-> p \in start.grouped, version |-> 0]]
        /\ sock = [p \in Panes |-> NoSocket]
        /\ restarts = 0
        /\ session = [s \in Sessions |-> Closed]
        /\ subscribed = [s \in Sessions |-> [p \in Panes |-> 0]]
        /\ events = 0

Exists(p) == server[p].life \in {"live", "ended"}
ScreenOf(p) == <<p, server[p].version>>
Set(s, u) == session' = [session EXCEPT ![s] = u]

Count == events < MaxEvents /\ events' = events + 1

-----------------------------------------------------------------------------
(***************************************************************************)
(* The server's panes, as others change them.                              *)
(***************************************************************************)
\* p's screen becomes another.
Outputs(sv, p) == [sv EXCEPT ![p].version = @ + 1]

\* What the socket of p is told when p outputs something.
Told(sk, p) == [sk EXCEPT ![p].frame = @ \/ sk[p].st \in {"up", "publishing"}]

Output(p) == /\ server[p].life = "live"
             /\ Count
             /\ server' = Outputs(server, p)
             /\ sock' = Told(sock, p)
             /\ UNCHANGED <<restarts, session, subscribed>>

Change(p) == /\ Exists(p)
             /\ Count
             /\ \/ server' = [server EXCEPT ![p].life = "gone"]
                \/ server' = [server EXCEPT ![p].grouped = ~@]
                \/ server' = [server EXCEPT ![p].life = "ended"] /\ server[p].life = "live"
             /\ UNCHANGED <<sock, restarts, session, subscribed>>

-----------------------------------------------------------------------------
(***************************************************************************)
(* PaneSupervisor, and the sockets it runs.                                *)
(***************************************************************************)
\* ensure_started: nothing to do if one is registered.
EnsureStarted(sk, p) == IF sk[p].st = "none" THEN [sk EXCEPT ![p].st = "connecting"] ELSE sk

\* stop, of each of the panes.
Stop(sk, ps) == [p \in Panes |-> IF p \in ps THEN NoSocket ELSE sk[p]]

\* Sessions that are not in Sessions: one of them selects p, or drops it from its
\* list, because its filter hides it or its list was read before p was created.
Others(p) == /\ Count
             /\ \/ Exists(p) /\ sock' = EnsureStarted(sock, p)
                \/ sock' = Stop(sock, {p})
             /\ UNCHANGED <<server, restarts, session, subscribed>>

\* The first frame is the history, if there is any.
Connect(p) ==
    /\ sock[p].st = "connecting"
    /\ sock' = [sock EXCEPT ![p].st = IF Exists(p) THEN "up" ELSE "looking",
                            ![p].frame = Exists(p) /\ server[p].version > 0]
    /\ UNCHANGED <<server, restarts, session, subscribed, events>>

\* handle_frame: the screen is fetched, ...
FetchScreen(p) ==
    /\ sock[p].st = "up" /\ sock[p].frame
    /\ sock' = [sock EXCEPT ![p].frame = FALSE,
                            ![p].st = IF Exists(p) THEN "publishing" ELSE "up",
                            ![p].screen = IF Exists(p) THEN ScreenOf(p) ELSE None]
    /\ UNCHANGED <<server, restarts, session, subscribed, events>>

\* ... and published: each subscription is a message to its session.
Publish(p) ==
    LET Copies(s) == [i \in 1..subscribed[s][p] |-> sock[p].screen]
    IN  /\ sock[p].st = "publishing"
        /\ \A s \in Sessions : Len(session[s].mail \o Copies(s)) <= MaxMail
        /\ session' = [s \in Sessions |-> [session[s] EXCEPT !.mail = @ \o Copies(s)]]
        /\ sock' = [sock EXCEPT ![p].st = "up", ![p].screen = None]
        /\ UNCHANGED <<server, restarts, subscribed, events>>

Disconnect(p) ==
    /\ sock[p].st = "up"
    /\ Count
    /\ sock' = [sock EXCEPT ![p] = [NoSocket EXCEPT !.st = "looking"]]
    /\ UNCHANGED <<server, restarts, session, subscribed>>

\* handle_disconnect: a pane that runs is connected to again, and so is any pane
\* if the server cannot be asked.  Else the process ends, and being a permanent
\* child it is started again; one restart too many and the supervisor goes down
\* with all sockets, to be restarted without any.
Looked(p) ==
    /\ sock[p].st = "looking"
    /\ \/ /\ sock' = [sock EXCEPT ![p].st = "connecting"]
          /\ UNCHANGED restarts
       \/ /\ server[p].life # "live"
          /\ restarts < MaxRestarts
          /\ restarts' = restarts + 1
          /\ sock' = [sock EXCEPT ![p].st = "connecting"]
       \/ /\ server[p].life # "live"
          /\ restarts = MaxRestarts
          /\ restarts' = 0
          /\ sock' = Stop(sock, Panes)
    /\ UNCHANGED <<server, session, subscribed, events>>

WindowPasses == /\ restarts > 0
                /\ restarts' = 0
                /\ UNCHANGED <<server, sock, session, subscribed, events>>

-----------------------------------------------------------------------------
(***************************************************************************)
(* What makes a session begin a handler.  A handler is a program of steps, *)
(* cut where others can see or change what it does: between the server's   *)
(* answer with a list of panes and the session's acting on it, which stops *)
(* and starts sockets, and at the calls that change the server.  A screen  *)
(* that was fetched only changes the session, which takes it at once.      *)
(***************************************************************************)
Idle(s) == session[s].open /\ session[s].todo = << >>

Begin(s, u, program) == /\ Set(s, [u EXCEPT !.todo = program])
                        /\ UNCHANGED <<server, sock, restarts, subscribed>>

\* list_panes: the server's reply, less the panes that are not in the group.
Listed(u) == [u EXCEPT !.listed = {p \in Panes : Exists(p) /\ (u.filter => server[p].grouped)}]

\* mount, and :load_panes.
Mount(s) == /\ ~session[s].open
            /\ Begin(s, Listed([Closed EXCEPT !.open = TRUE]), <<"sync", "refresh">>)
            /\ UNCHANGED events

\* The page is closed, or a request to the server raises.
Leave(s) == /\ session[s].open
            /\ Count
            /\ Set(s, Closed)
            /\ subscribed' = [subscribed EXCEPT ![s] = [p \in Panes |-> 0]]
            /\ UNCHANGED <<server, sock, restarts>>

Poll(s) == /\ Idle(s)
           /\ Begin(s, Listed(session[s]), <<"sync", "poll">>)
           /\ UNCHANGED events

SelectGroup(s) == /\ Idle(s)
                  /\ Count
                  /\ Begin(s, Listed([session[s] EXCEPT !.filter = ~@]), <<"sync">>)

NewPane(s) == /\ Idle(s)
              /\ Count
              /\ Begin(s, session[s], <<"create", "list", "sync", "refresh", "select">>)

KillPane(s) == \E p \in session[s].panes :
                  /\ Idle(s)
                  /\ Count
                  /\ Begin(s, [session[s] EXCEPT !.targets = {p}],
                           <<"kill", "list", "sync", "refresh">>)

\* Of the selected pane, or of all that did not look terminated when listed.
ApplySizeSettings(s) ==
    \E ps \in SUBSET session[s].panes :
       /\ Idle(s)
       /\ Count
       /\ \/ ps = {session[s].selected} \ {None}
          \/ \A p \in session[s].panes \ ps : server[p].life # "live"
       /\ Begin(s, [session[s] EXCEPT !.targets = ps],
                <<"resize", "list", "sync", "refresh">>)

-----------------------------------------------------------------------------
(***************************************************************************)
(* What handlers are made of.                                              *)
(***************************************************************************)
AtStep(s, step) == session[s].todo # << >> /\ Head(session[s].todo) = step
Rest(u) == [u EXCEPT !.todo = Tail(@), !.listed = {}]

\* Mutants of Resubscribed: subscribes to a pane that is selected already; keeps
\* the subscription to the pane it leaves.
ResubscribedAgain(subs, old, new) ==
    [p \in Panes |-> IF p = new THEN subs[p] + 1 ELSE IF p = old THEN 0 ELSE subs[p]]

ResubscribedToBoth(subs, old, new) ==
    [p \in Panes |-> IF p = new /\ old # new THEN subs[p] + 1 ELSE subs[p]]

\* configure_selected_pane_stream's subscriptions.
Resubscribed(subs, old, new) ==
    [p \in Panes |-> IF old = new THEN subs[p]
                     ELSE IF p = new THEN subs[p] + 1
                     ELSE IF p = old THEN 0 ELSE subs[p]]

\* select_pane, of a pane or of none; sk are the sockets it finds.
SelectPaneIn(s, u, p, sk) ==
    /\ subscribed' = [subscribed EXCEPT ![s] = Resubscribed(@, u.selected, p)]
    /\ sock' = IF p \in Panes \ {u.selected} THEN EnsureStarted(sk, p) ELSE sk
    /\ Set(s, IF p = None THEN [u EXCEPT !.selected = None, !.screen = None]
              ELSE [u EXCEPT !.selected = p, !.todo = <<"screen">> \o @])

SelectPane(s) == /\ Idle(s)
                 /\ \E p \in session[s].panes : SelectPaneIn(s, session[s], p, sock)
                 /\ Count
                 /\ UNCHANGED <<server, restarts>>

\* Mutants of UpdatePaneBuffer: shows what arrives, of whichever pane; takes a
\* screen only for a pane that has none.
UpdatePaneBufferAndShow(u, screen) ==
    [u EXCEPT !.buffers[screen[1]] = screen, !.screen = screen]

UpdatePaneBufferOnce(u, screen) ==
    IF u.buffers[screen[1]] # None THEN u
    ELSE [u EXCEPT !.buffers[screen[1]] = screen,
                   !.screen = IF u.selected = screen[1] THEN screen ELSE @]

\* update_pane_buffer
UpdatePaneBuffer(u, screen) ==
    [u EXCEPT !.buffers[screen[1]] = screen,
              !.screen = IF u.selected = screen[1] THEN screen ELSE @]

\* {:screen_update, id, screen}
ScreenUpdate(s) ==
    /\ Idle(s) /\ session[s].mail # << >>
    /\ Set(s, UpdatePaneBuffer([session[s] EXCEPT !.mail = Tail(@)], Head(session[s].mail)))
    /\ UNCHANGED <<server, sock, restarts, subscribed, events>>

ListPanes(s) ==
    /\ AtStep(s, "list")
    /\ Set(s, Listed(Rest(session[s])))
    /\ UNCHANGED <<server, sock, restarts, subscribed, events>>

\* sync_panes and ensure_valid_selection: sockets of panes that are no longer in
\* the list are stopped, and the selection is one of the list.
SyncPanes(s) ==
    LET u == session[s]
        panes == u.listed
        sk == Stop(sock, u.panes \ panes)
        v == [Rest(u) EXCEPT !.panes = panes,
                             !.buffers = [p \in Panes |-> IF p \in panes THEN @[p] ELSE None]]
    IN  /\ AtStep(s, "sync")
        /\ \/ panes = {} /\ SelectPaneIn(s, v, None, sk)
           \/ \E first \in panes : u.selected \notin panes /\ SelectPaneIn(s, v, first, sk)
           \/ /\ u.selected \in panes
              /\ sock' = sk
              /\ Set(s, IF v.buffers[u.selected] = None
                        THEN [v EXCEPT !.todo = <<"screen">> \o @]
                        ELSE [v EXCEPT !.screen = v.buffers[u.selected]])
              /\ UNCHANGED subscribed
        /\ UNCHANGED <<server, restarts, events>>

\* refresh_pane_screen, or ensure_pane_buffer_loaded: without an answer the
\* buffered screen is shown.
GetScreen(u) ==
    IF Exists(u.selected) THEN UpdatePaneBuffer(u, ScreenOf(u.selected))
    ELSE [u EXCEPT !.screen = u.buffers[u.selected]]

\* ... of a pane selected just now.
ShowSelected(s) ==
    /\ AtStep(s, "screen")
    /\ Set(s, GetScreen(Rest(session[s])))
    /\ UNCHANGED <<server, sock, restarts, subscribed, events>>

\* Mutant of RefreshSelected: leaves the stream as it is.
RefreshSelectedOnly(s) ==
    LET u == session[s]
    IN  /\ AtStep(s, "refresh") \/ AtStep(s, "poll")
        /\ Set(s, IF u.selected \in u.panes THEN GetScreen(Rest(u)) ELSE Rest(u))
        /\ UNCHANGED <<server, sock, restarts, subscribed, events>>

\* refresh_selected_screen, and ensure_selected_pane_stream before it in a poll.
RefreshSelected(s) ==
    LET u == session[s]
        listed == u.selected \in u.panes
    IN  /\ AtStep(s, "refresh") \/ AtStep(s, "poll")
        /\ sock' = IF AtStep(s, "poll") /\ listed THEN EnsureStarted(sock, u.selected) ELSE sock
        /\ Set(s, IF listed THEN GetScreen(Rest(u)) ELSE Rest(u))
        /\ UNCHANGED <<server, restarts, subscribed, events>>

\* create_pane; targets keeps the new pane, or nothing after an error.
CreatePane(s) ==
    /\ AtStep(s, "create")
    /\ \/ \E p \in Panes :
            /\ server[p].life = "new"
            /\ server' = [server EXCEPT ![p].life = "live"]
            /\ Set(s, [Rest(session[s]) EXCEPT !.targets = {p}])
       \/ Set(s, Rest(session[s])) /\ UNCHANGED server
    /\ UNCHANGED <<sock, restarts, subscribed, events>>

SelectNewPane(s) ==
    LET u == [Rest(session[s]) EXCEPT !.targets = {}]
        id == IF session[s].targets = {} THEN None ELSE CHOOSE p \in session[s].targets : TRUE
    IN  /\ AtStep(s, "select")
        /\ SelectPaneIn(s, u, id, sock)
        /\ UNCHANGED <<server, restarts, events>>

\* kill_pane; whether it was there is not looked at.
Kill(s) ==
    /\ AtStep(s, "kill")
    /\ server' = [p \in Panes |-> IF p \in session[s].targets
                                  THEN [server[p] EXCEPT !.life = "gone"] ELSE server[p]]
    /\ Set(s, [Rest(session[s]) EXCEPT !.targets = {}])
    /\ UNCHANGED <<sock, restarts, subscribed, events>>

\* apply_resize_to_targets, pane by pane: the first error ends the handler.  The
\* screen is another one then, of which no stream is told.
Resize(s) ==
    LET u == session[s]
    IN  /\ AtStep(s, "resize")
        /\ \/ u.targets = {} /\ Set(s, Rest(u)) /\ UNCHANGED server
           \/ \E p \in u.targets :
                IF Exists(p)
                THEN /\ server' = Outputs(server, p)
                     /\ Set(s, [u EXCEPT !.targets = @ \ {p}])
                ELSE /\ Set(s, [u EXCEPT !.targets = {}, !.todo = << >>])
                     /\ UNCHANGED server
        /\ UNCHANGED <<sock, restarts, subscribed, events>>

-----------------------------------------------------------------------------
Handle(s) == \/ ListPanes(s) \/ SyncPanes(s) \/ ShowSelected(s)
             \/ RefreshSelected(s) \/ CreatePane(s) \/ SelectNewPane(s) \/ Kill(s) \/ Resize(s)

User(s) == \/ Mount(s) \/ Leave(s) \/ SelectGroup(s) \/ SelectPane(s)
           \/ NewPane(s) \/ KillPane(s) \/ ApplySizeSettings(s)

Socket(p) == Connect(p) \/ FetchScreen(p) \/ Publish(p) \/ Looked(p)

Next == \/ \E s \in Sessions : User(s) \/ Poll(s) \/ ScreenUpdate(s) \/ Handle(s)
        \/ \E p \in Panes : Output(p) \/ Change(p) \/ Others(p) \/ Disconnect(p) \/ Socket(p)
        \/ WindowPasses

Spec == Init /\ [][Next]_vars

\* A session goes on with the handler it has begun and is sent ticks; its mailbox
\* is a queue, so a published screen is handled in the end however many ticks
\* there are.  Sockets go on too.
Fairness == /\ \A s \in Sessions : /\ WF_vars(Handle(s)) /\ WF_vars(Poll(s))
                                   /\ SF_vars(ScreenUpdate(s))
            /\ \A p \in Panes : WF_vars(Socket(p))

FairSpec == Spec /\ Fairness

-----------------------------------------------------------------------------
Screens == Panes \X Nat

TypeOK ==
    /\ server \in [Panes -> [life : {"new", "live", "ended", "gone"},
                             grouped : BOOLEAN, version : Nat]]
    /\ sock \in [Panes -> [st : {"none", "connecting", "up", "publishing", "looking"},
                           frame : BOOLEAN, screen : Screens \cup {None}]]
    /\ restarts \in 0..MaxRestarts
    /\ session \in [Sessions ->
         [open : BOOLEAN,
          todo : Seq({"list", "sync", "poll", "refresh", "screen", "select", "create", "kill", "resize"}),
          listed : SUBSET Panes, targets : SUBSET Panes, panes : SUBSET Panes, filter : BOOLEAN,
          buffers : [Panes -> Screens \cup {None}], selected : Panes \cup {None},
          screen : Screens \cup {None}, mail : Seq(Screens)]]
    /\ \A s \in Sessions : Len(session[s].mail) <= MaxMail
    /\ subscribed \in [Sessions -> [Panes -> {0, 1}]]
    /\ events \in 0..MaxEvents

\* Whatever is still on its way when the user moves on, what a session shows
\* between two handlers is a screen of the pane it has selected, and the one in
\* that pane's buffer, from which the next refresh shows it again.
ScreenIsOfSelected ==
    \A s \in Sessions :
        LET u == session[s]
        IN  Idle(s) => /\ u.screen = IF u.selected = None THEN None ELSE u.buffers[u.selected]
                       /\ u.screen # None => u.screen[1] = u.selected

\* A session is subscribed once to the pane it has selected and to no other,
\* through every path that changes the selection.
SubscribedToSelected ==
    \A s \in Sessions, p \in Panes :
        subscribed[s][p] = IF session[s].selected = p THEN 1 ELSE 0

\* A session that goes on showing a pane ends up showing its latest screen, once
\* the pane's output stops: screens that arrive late do not have the last word.
Shows(s, p) == session[s].open /\ session[s].selected = p /\ Exists(p)

ShowsLatest ==
    \A s \in Sessions, p \in Panes :
        <>[]Shows(s, p) => <>[](session[s].screen = ScreenOf(p))

\* The socket of a pane that a session goes on showing comes back, whoever else
\* stops it (a session whose filter hides the pane), and whenever the supervisor
\* goes down.
StreamReturns ==
    \A s \in Sessions, p \in Panes :
        <>[]Shows(s, p) => []<>(sock[p].st = "up")

=============================================================================
