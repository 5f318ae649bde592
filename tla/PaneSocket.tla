----------------------------- MODULE PaneSocket -----------------------------
(***************************************************************************)
(* The Elixir process that follows one pane for the web client, with its   *)
(* heartbeat (client/lib/terminal_ui/pane_socket.ex): a tick every         *)
(* Interval pings a connection that has been silent, and a ping without    *)
(* any sign of life within Timeout closes it, to be opened again.          *)
(*                                                                         *)
(* The process handles its mailbox one message at a time.  A timer that    *)
(* has fired is a message there, which cancelling the timer does not take  *)
(* back; that is what the nonce of a connection and the token of a ping    *)
(* are for.  A frame makes the process wait for a GET of the screen, while *)
(* timers fire and messages queue.  Time passes only when the process has  *)
(* nothing to do, or waits.                                                *)
(***************************************************************************)
EXTENDS Naturals, Sequences, FiniteSets

CONSTANTS Interval,     \* @heartbeat_interval_ms
          Timeout,      \* @heartbeat_timeout_ms
          Refs,         \* what make_ref and send_after return: fresh ones
          MaxMail,      \* bound of the mailbox that the peer fills
          None

ASSUME TimesAssumption == Interval \in Nat \ {0} /\ Timeout \in Nat \ {0}
ASSUME NoneAssumption == None \notin Refs \cup Nat

VARIABLES conn,         \* connecting, up, closing (timed out), looking, stopped
          busy,         \* the process waits for the screen it asked for
          state,        \* the process's state, less pane_id and last_activity_ms
          idle,         \* now_ms() - last_activity_ms, up to Interval
          timers,       \* running timers: reference, time left, message
          mailbox,
          peer,         \* prompt: answers within Timeout; slow; or dead
          pong,         \* how long a prompt answer to a ping may still take, or None
          quiet         \* how long the process has waited for a sign of life

vars == <<conn, busy, state, idle, timers, mailbox, peer, pong, quiet>>

Tick(n) == [kind |-> "tick", nonce |-> n, token |-> None]
TimeoutOf(n, t) == [kind |-> "timeout", nonce |-> n, token |-> t]
Mail(k) == [kind |-> k, nonce |-> None, token |-> None]
FromPeer == {"frame", "control", "close"}

Messages == {Tick(n) : n \in Refs}
            \cup {TimeoutOf(n, t) : n \in Refs, t \in Refs}
            \cup {Mail(k) : k \in FromPeer \cup {"other"}}

InUse == {state.nonce, state.tick_ref, state.timeout_ref, state.token}
         \cup {t.ref : t \in timers}
         \cup {t.msg.nonce : t \in timers} \cup {t.msg.token : t \in timers}
         \cup {mailbox[i].nonce : i \in DOMAIN mailbox}
         \cup {mailbox[i].token : i \in DOMAIN mailbox}

Unused(except) == Refs \ (InUse \cup except)

\* A reference made now, and the next one after it.
Fresh(except) == CHOOSE r \in Unused(except) : TRUE

\* Process.cancel_timer of the timer in a field.
Cancel(ts, ref) == {t \in ts : t.ref # ref}

SendAfter(ts, ref, time, msg) == ts \cup {[ref |-> ref, left |-> time, msg |-> msg]}

Init == /\ conn = "connecting"
        /\ busy = FALSE
        /\ state = [nonce |-> None, tick_ref |-> None, timeout_ref |-> None,
                    token |-> None]
        /\ idle = Interval
        /\ timers = {}
        /\ mailbox = << >>
        /\ peer = "dead"
        /\ pong = None
        /\ quiet = 0

-----------------------------------------------------------------------------
(***************************************************************************)
(* Time, and the peer.                                                     *)
(***************************************************************************)
\* The process is about to handle a message.
Ready == conn = "up" /\ ~busy /\ mailbox # << >>

Elapse ==
    /\ ~Ready
    /\ \A t \in timers : t.left > 0
    /\ ~(peer = "prompt" /\ pong = 0)
    /\ timers' = {[t EXCEPT !.left = @ - 1] : t \in timers}
    /\ idle' = IF idle < Interval THEN idle + 1 ELSE idle
    /\ pong' = IF pong \in {None, 0} THEN pong ELSE pong - 1
    /\ quiet' = IF conn = "up" /\ ~busy THEN quiet + 1 ELSE quiet
    /\ UNCHANGED <<conn, busy, state, mailbox, peer>>

Fire ==
    \E t \in timers :
        /\ t.left = 0
        /\ timers' = timers \ {t}
        /\ mailbox' = Append(mailbox, t.msg)
        /\ UNCHANGED <<conn, busy, state, idle, peer, pong, quiet>>

\* The peer sends output, a ping or binary frame, or closes the connection.
PeerSends ==
    /\ conn = "up"
    /\ peer # "dead"
    /\ Len(mailbox) < MaxMail
    /\ \E k \in FromPeer : mailbox' = Append(mailbox, Mail(k))
    /\ UNCHANGED <<conn, busy, state, idle, timers, peer, pong, quiet>>

PeerAnswers ==
    /\ pong # None
    /\ mailbox' = Append(mailbox, Mail("control"))
    /\ pong' = None
    /\ UNCHANGED <<conn, busy, state, idle, timers, peer, quiet>>

\* The server or the network slows down, or dies without a word.
PeerSlows ==
    /\ peer = "prompt"
    /\ peer' = "slow"
    /\ UNCHANGED <<conn, busy, state, idle, timers, mailbox, pong, quiet>>

PeerDies ==
    /\ peer # "dead"
    /\ peer' = "dead"
    /\ pong' = None
    /\ UNCHANGED <<conn, busy, state, idle, timers, mailbox, quiet>>

-----------------------------------------------------------------------------
(***************************************************************************)
(* The callbacks.                                                          *)
(***************************************************************************)
\* Mutant of ScheduleTick: one unit too late.
ScheduleTickLate(st, ts, made) ==
    /\ Unused(made) # {}
    /\ state' = [st EXCEPT !.tick_ref = Fresh(made)]
    /\ timers' = SendAfter(Cancel(ts, st.tick_ref), Fresh(made), Interval + 1,
                           Tick(st.nonce))

\* schedule_heartbeat_tick, on a state and the timers that run, after the references
\* made in the same callback.  There must be enough of Refs (a bound).
ScheduleTick(st, ts, made) ==
    /\ Unused(made) # {}
    /\ state' = [st EXCEPT !.tick_ref = Fresh(made)]
    /\ timers' = SendAfter(Cancel(ts, st.tick_ref), Fresh(made), Interval,
                           Tick(st.nonce))

\* handle_connect: begin_heartbeat.  What is left of the old socket's messages is
\* nothing to the new connection.
Connected ==
    LET nonce == Fresh({})
        ts == Cancel(Cancel(timers, state.tick_ref), state.timeout_ref)
    IN  /\ conn = "connecting"
        /\ conn' = "up"
        /\ ScheduleTick([nonce |-> nonce, tick_ref |-> None, timeout_ref |-> None,
                         token |-> None], ts, {nonce})
        /\ idle' = 0
        /\ quiet' = 0
        /\ peer' = "prompt"
        /\ mailbox' = [i \in DOMAIN mailbox |->
                          IF mailbox[i].kind \in FromPeer THEN Mail("other") ELSE mailbox[i]]
        /\ UNCHANGED <<busy, pong>>

ConnectFails ==
    /\ conn = "connecting"
    /\ conn' = "looking"
    /\ UNCHANGED <<busy, state, idle, timers, mailbox, peer, pong, quiet>>

Handle(kind) ==
    /\ Ready
    /\ Head(mailbox).kind = kind
    /\ mailbox' = Tail(mailbox)

\* Mutant of NoteActivity: the timeout runs on and finds its token.
NoteActivityKeepsToken ==
    /\ state' = [state EXCEPT !.timeout_ref = None]
    /\ timers' = timers
    /\ idle' = 0
    /\ quiet' = 0

\* note_socket_activity: cancels the timeout of a ping and forgets its token.
NoteActivity ==
    /\ state' = [state EXCEPT !.timeout_ref = None, !.token = None]
    /\ timers' = Cancel(timers, state.timeout_ref)
    /\ idle' = 0
    /\ quiet' = 0

\* handle_frame({:text, _}): then get_screen, whatever it returns, and a broadcast.
HandleFrame ==
    /\ Handle("frame")
    /\ NoteActivity
    /\ busy' = TRUE
    /\ UNCHANGED <<conn, peer, pong>>

ScreenArrives ==
    /\ busy
    /\ busy' = FALSE
    /\ UNCHANGED <<conn, state, idle, timers, mailbox, peer, pong, quiet>>

\* A binary frame, handle_ping or handle_pong.
HandleControl ==
    /\ Handle("control")
    /\ NoteActivity
    /\ UNCHANGED <<conn, busy, peer, pong>>

\* handle_info of any other message.
StaleMail ==
    /\ Handle("other")
    /\ UNCHANGED <<conn, busy, state, idle, timers, peer, pong, quiet>>

\* A tick whose nonce is not the connection's.
StaleTick ==
    /\ Handle("tick")
    /\ Head(mailbox).nonce # state.nonce
    /\ UNCHANGED <<conn, busy, state, idle, timers, peer, pong, quiet>>

\* Nothing to ask: an answer is due, or the peer was active recently.
TickWaits ==
    /\ Handle("tick")
    /\ Head(mailbox).nonce = state.nonce
    /\ state.token # None \/ idle < Interval
    /\ ScheduleTick([state EXCEPT !.tick_ref = None], timers, {})
    /\ UNCHANGED <<conn, busy, idle, peer, pong, quiet>>

\* Mutant of TickPings: pings also when an answer is due.
TickPingsAnyway ==
    LET token == Fresh({})
        ref == Fresh({token})
        ts == SendAfter(Cancel(timers, state.timeout_ref), ref, Timeout,
                        TimeoutOf(state.nonce, token))
    IN  /\ Handle("tick")
        /\ Head(mailbox).nonce = state.nonce
        /\ idle = Interval
        /\ ScheduleTick([state EXCEPT !.tick_ref = None, !.timeout_ref = ref,
                                      !.token = token],
                        ts, {token, ref})
        /\ pong' = IF peer # "dead" /\ pong = None THEN Timeout - 1 ELSE pong
        /\ UNCHANGED <<conn, busy, idle, peer, quiet>>

\* Mutant of TickPings: the answer is to bring the next tick.
TickPingsOnce ==
    LET token == Fresh({})
        ref == Fresh({token})
    IN  /\ Handle("tick")
        /\ Head(mailbox).nonce = state.nonce
        /\ state.token = None
        /\ idle = Interval
        /\ state' = [state EXCEPT !.tick_ref = None, !.timeout_ref = ref,
                                  !.token = token]
        /\ timers' = SendAfter(Cancel(timers, state.timeout_ref), ref, Timeout,
                               TimeoutOf(state.nonce, token))
        /\ pong' = IF peer # "dead" /\ pong = None THEN Timeout - 1 ELSE pong
        /\ UNCHANGED <<conn, busy, idle, peer, quiet>>

\* A silent connection is pinged.
TickPings ==
    LET token == Fresh({})
        ref == Fresh({token})
        ts == SendAfter(Cancel(timers, state.timeout_ref), ref, Timeout,
                        TimeoutOf(state.nonce, token))
    IN  /\ Handle("tick")
        /\ Head(mailbox).nonce = state.nonce
        /\ state.token = None
        /\ idle = Interval
        /\ ScheduleTick([state EXCEPT !.tick_ref = None, !.timeout_ref = ref,
                                      !.token = token],
                        ts, {token, ref})
        /\ pong' = IF peer # "dead" /\ pong = None THEN Timeout - 1 ELSE pong
        /\ UNCHANGED <<conn, busy, idle, peer, quiet>>

\* A timeout of another connection, or of a ping that was answered meanwhile.
StaleTimeout ==
    /\ Handle("timeout")
    /\ \/ Head(mailbox).nonce # state.nonce
       \/ Head(mailbox).token # state.token
    /\ UNCHANGED <<conn, busy, state, idle, timers, peer, pong, quiet>>

\* {:close, {4000, "heartbeat_timeout"}, state}
TimesOut ==
    /\ Handle("timeout")
    /\ Head(mailbox).nonce = state.nonce
    /\ Head(mailbox).token = state.token
    /\ state' = [state EXCEPT !.timeout_ref = None, !.token = None]
    /\ timers' = Cancel(timers, state.timeout_ref)
    /\ conn' = "closing"
    /\ UNCHANGED <<busy, idle, peer, pong, quiet>>

\* end_heartbeat
EndHeartbeat ==
    /\ state' = [state EXCEPT !.tick_ref = None, !.timeout_ref = None, !.token = None]
    /\ timers' = Cancel(Cancel(timers, state.tick_ref), state.timeout_ref)

\* handle_disconnect, when the peer has closed or a close has ended ...
Disconnected ==
    /\ \/ Handle("close")
       \/ conn = "closing" /\ UNCHANGED mailbox
    /\ EndHeartbeat
    /\ conn' = "looking"
    /\ peer' = "dead"
    /\ pong' = None
    /\ UNCHANGED <<busy, idle, quiet>>

\* ... and what get_pane says: the pane is gone or terminated, or connect again.
Looked ==
    /\ conn = "looking"
    /\ conn' \in {"connecting", "stopped"}
    /\ UNCHANGED <<busy, state, idle, timers, mailbox, peer, pong, quiet>>

Next == \/ Elapse \/ Fire \/ PeerSends \/ PeerAnswers \/ PeerSlows \/ PeerDies
        \/ Connected \/ ConnectFails
        \/ HandleFrame \/ ScreenArrives \/ HandleControl
        \/ StaleMail \/ StaleTick \/ TickWaits \/ TickPings
        \/ StaleTimeout \/ TimesOut
        \/ Disconnected \/ Looked

Spec == Init /\ [][Next]_vars

-----------------------------------------------------------------------------
TypeOK ==
    /\ conn \in {"connecting", "up", "closing", "looking", "stopped"}
    /\ busy \in BOOLEAN
    /\ state \in [nonce : Refs \cup {None}, tick_ref : Refs \cup {None},
                  timeout_ref : Refs \cup {None}, token : Refs \cup {None}]
    /\ idle \in 0..Interval
    /\ \A t \in timers : /\ t.ref \in Refs
                         /\ t.left \in 0..Interval \cup 0..Timeout
                         /\ t.msg \in Messages
    /\ \A i \in DOMAIN mailbox : mailbox[i] \in Messages
    /\ peer \in {"prompt", "slow", "dead"}
    /\ pong \in 0..Timeout \cup {None}
    /\ quiet \in Nat

\* A connection whose peer answers in time is never timed out, whatever waits
\* in the mailbox while a screen is fetched: timeouts of answered pings and of
\* earlier connections included.
LiveNeverTimedOut == conn = "closing" => peer # "prompt"

\* A dead connection is noticed: the process waits less for a sign of life than for
\* the tick that finds it active, the next tick and the answer, although each timer
\* of the same length races the other.
DeadNoticedInTime == conn = "up" => quiet < 2 * Interval + Timeout

\* The heartbeat of a connection goes on and does not multiply: there is one
\* tick of it, running or on its way.
OneHeartbeat ==
    conn = "up" =>
        Cardinality({t \in timers : t.msg = Tick(state.nonce)})
        + Cardinality({i \in DOMAIN mailbox : mailbox[i] = Tick(state.nonce)}) = 1

=============================================================================
