--------------------------- MODULE PaneSocketProofs ---------------------------
(***************************************************************************)
(* What PaneSocket guarantees for any interval and timeout of the          *)
(* heartbeat, any references and any bound of the mailbox.                 *)
(***************************************************************************)
EXTENDS PaneSocket, FiniteSetTheorems, SequenceTheorems, TLAPS

Conns == {"connecting", "up", "closing", "looking", "stopped"}

Fields == [nonce : Refs \cup {None}, tick_ref : Refs \cup {None},
           timeout_ref : Refs \cup {None}, token : Refs \cup {None}]

\* A timer, which never runs longer than it was started with.
Timers == [ref : Refs, left : Nat, msg : Messages]

Runs(t) == \/ t.msg.kind = "tick" /\ t.left <= Interval
           \/ t.msg.kind = "timeout" /\ t.left <= Timeout

Typed == /\ conn \in Conns
         /\ busy \in BOOLEAN
         /\ state \in Fields
         /\ idle \in 0..Interval
         /\ timers \subseteq Timers
         /\ mailbox \in Seq(Messages)
         /\ peer \in {"prompt", "slow", "dead"}
         /\ pong \in 0..(Timeout - 1) \cup {None}
         /\ quiet \in Nat

-----------------------------------------------------------------------------
(***************************************************************************)
(* The inductive invariant.                                                *)
(***************************************************************************)
\* A reference is of one timer, and cancelling the timeout never cancels a tick.
Referred ==
    /\ \A t \in timers : Runs(t)
    /\ \A t, u \in timers : t.ref = u.ref => t = u
    /\ \A t \in timers : t.ref = state.timeout_ref => t.msg.kind = "timeout"

\* The tick of a connection runs once, or has fired once.
TickRuns(ts, mail, tick) ==
    /\ \E t \in ts : t.msg = tick /\ \A u \in ts : u.msg = tick => u = t
    /\ \A i \in 1..Len(mail) : mail[i] # tick

TickFired(ts, mail, tick) ==
    /\ \A t \in ts : t.msg # tick
    /\ \E i \in 1..Len(mail) :
          mail[i] = tick /\ \A j \in 1..Len(mail) : mail[j] = tick => j = i

Beats == conn = "up" => LET tick == Tick(state.nonce)
                        IN  \/ TickRuns(timers, mailbox, tick)
                            \/ TickFired(timers, mailbox, tick)

\* Between two connections there is nobody at the other end.
Apart == conn \in {"connecting", "looking", "stopped"} => peer = "dead" /\ pong = None

\* The answer of a prompt peer is there before the timeout.
AnswerComes(ts, mail, timeout, answer) ==
    /\ \A t \in ts : t.msg = timeout =>
          \/ answer # None /\ answer < t.left
          \/ \E i \in 1..Len(mail) : mail[i].kind \in FromPeer
    /\ \A i \in 1..Len(mail) : mail[i] = timeout =>
          \E j \in 1..(i - 1) : mail[j].kind \in FromPeer

Answered ==
    conn = "up" /\ peer = "prompt" /\ state.token # None =>
        AnswerComes(timers, mailbox, TimeoutOf(state.nonce, state.token), pong)

\* What limits the silence: the tick if no ping is out, its timeout if one is.
Active == conn = "up" => quiet <= idle \/ idle = Interval

TickIsDue ==
    conn = "up" /\ state.token = None =>
        /\ quiet < 2 * Interval
        /\ \A t \in timers : t.msg = Tick(state.nonce) => quiet + t.left < 2 * Interval

TimeoutIsDue(ts, mail, timeout, q) ==
    q < 2 * Interval + Timeout /\
    \/ \E t \in ts : t.msg = timeout /\ q + t.left < 2 * Interval + Timeout
    \/ \E i \in 1..Len(mail) : mail[i] = timeout

Awaited ==
    conn = "up" /\ state.token # None =>
        TimeoutIsDue(timers, mailbox, TimeoutOf(state.nonce, state.token), quiet)

Inv == /\ Typed /\ Referred /\ Apart
       /\ Beats
       /\ Answered /\ LiveNeverTimedOut
       /\ Active /\ TickIsDue /\ Awaited

-----------------------------------------------------------------------------
(***************************************************************************)
(* Messages, timers and fresh references.                                  *)
(***************************************************************************)
LEMMA MessageIs ==
    /\ \A m \in Messages :
          /\ m.kind \in {"tick", "timeout", "frame", "control", "close", "other"}
          /\ m.kind = "tick" => m = Tick(m.nonce) /\ m.nonce \in Refs
          /\ m.kind = "timeout" =>
                m = TimeoutOf(m.nonce, m.token) /\ m.nonce \in Refs /\ m.token \in Refs
    /\ \A n \in Refs : Tick(n) \in Messages /\ \A t \in Refs : TimeoutOf(n, t) \in Messages
    /\ \A k \in FromPeer \cup {"other"} : Mail(k) \in Messages
<1>1. ASSUME NEW m \in Messages
      PROVE  /\ m.kind \in {"tick", "timeout", "frame", "control", "close", "other"}
             /\ m.kind = "tick" => m = Tick(m.nonce) /\ m.nonce \in Refs
             /\ m.kind = "timeout" =>
                   m = TimeoutOf(m.nonce, m.token) /\ m.nonce \in Refs /\ m.token \in Refs
  <2>1. ASSUME NEW n \in Refs, m = Tick(n)
        PROVE  m.kind = "tick" /\ m.nonce = n
    BY <2>1 DEF Tick
  <2>2. ASSUME NEW n \in Refs, NEW t \in Refs, m = TimeoutOf(n, t)
        PROVE  m.kind = "timeout" /\ m.nonce = n /\ m.token = t
    BY <2>2 DEF TimeoutOf
  <2>3. ASSUME NEW k \in FromPeer \cup {"other"}, m = Mail(k)
        PROVE  m.kind \in {"frame", "control", "close", "other"}
    BY <2>3 DEF Mail, FromPeer
  <2>4. \/ \E n \in Refs : m = Tick(n)
        \/ \E n \in Refs, t \in Refs : m = TimeoutOf(n, t)
        \/ \E k \in FromPeer \cup {"other"} : m = Mail(k)
    BY DEF Messages
  <2> QED
    BY <2>1, <2>2, <2>3, <2>4
<1>2. /\ \A n \in Refs : Tick(n) \in Messages /\ \A t \in Refs : TimeoutOf(n, t) \in Messages
      /\ \A k \in FromPeer \cup {"other"} : Mail(k) \in Messages
  BY DEF Messages
<1> QED
  BY <1>1, <1>2

LEMMA MessagesDiffer ==
    \A m, n, t :
        /\ Tick(n).kind = "tick" /\ TimeoutOf(n, t).kind = "timeout"
        /\ Tick(n).nonce = n /\ TimeoutOf(n, t).nonce = n /\ TimeoutOf(n, t).token = t
        /\ Mail(m).kind = m
BY DEF Tick, TimeoutOf, Mail

\* What handling a message leaves in the mailbox.
LEMMA HandleIs ==
    ASSUME Typed, NEW kind, Handle(kind)
    PROVE  /\ conn = "up" /\ ~busy /\ mailbox # << >>
           /\ Head(mailbox) = mailbox[1] /\ mailbox[1] \in Messages /\ mailbox[1].kind = kind
           /\ mailbox' = Tail(mailbox) /\ mailbox' \in Seq(Messages)
           /\ Len(mailbox) \in Nat \ {0} /\ Len(mailbox') = Len(mailbox) - 1
           /\ \A i \in 1..Len(mailbox') : mailbox'[i] = mailbox[i + 1]
<1>1. mailbox \in Seq(Messages) /\ mailbox # << >> /\ mailbox' = Tail(mailbox)
  BY DEF Handle, Ready, Typed
<1>2. Len(mailbox) \in Nat \ {0}
  BY <1>1, EmptySeq
<1>3. /\ mailbox' \in Seq(Messages) /\ Len(mailbox') = Len(mailbox) - 1
      /\ \A i \in 1..Len(mailbox') : mailbox'[i] = mailbox[i + 1]
  BY <1>1, HeadTailProperties
<1>4. mailbox[1] \in Messages
  BY <1>1, <1>2, ElementOfSeq
<1>5. Head(mailbox) = mailbox[1]
  BY <1>1
<1> QED
  BY <1>1, <1>2, <1>3, <1>4, <1>5 DEF Handle, Ready

LEMMA AppendIs ==
    ASSUME Typed, NEW m \in Messages, mailbox' = Append(mailbox, m)
    PROVE  /\ mailbox' \in Seq(Messages) /\ Len(mailbox) \in Nat
           /\ Len(mailbox') = Len(mailbox) + 1 /\ mailbox'[Len(mailbox) + 1] = m
           /\ \A i \in 1..Len(mailbox) : mailbox'[i] = mailbox[i]
BY AppendProperties DEF Typed

New(r) == /\ r \in Refs
          /\ r \notin {state.nonce, state.token, state.tick_ref, state.timeout_ref}
          /\ \A t \in timers : r # t.ref /\ r # t.msg.nonce /\ r # t.msg.token
          /\ \A i \in 1..Len(mailbox) : r # mailbox[i].nonce /\ r # mailbox[i].token

LEMMA FreshIs ==
    ASSUME Typed, NEW made, Unused(made) # {}
    PROVE  New(Fresh(made)) /\ Fresh(made) \notin made
<1>1. Fresh(made) \in Unused(made)
  BY DEF Fresh
<1>2. Fresh(made) \in Refs /\ Fresh(made) \notin made /\ Fresh(made) \notin InUse
  BY <1>1 DEF Unused
<1>3. DOMAIN mailbox = 1..Len(mailbox)
  BY LenProperties DEF Typed
<1> QED
  BY <1>2, <1>3 DEF InUse, New

\* With references left for a third one there are two to make before.
LEMMA UnusedLess ==
    ASSUME NEW made, NEW more, made \subseteq more, Unused(more) # {}
    PROVE  Unused(made) # {}
BY DEF Unused

-----------------------------------------------------------------------------
(***************************************************************************)
(* Type correctness.                                                       *)
(***************************************************************************)
LEMMA TypedIsTypeOK == Typed /\ Referred => TypeOK
<1> SUFFICES ASSUME Typed, Referred PROVE TypeOK
  OBVIOUS
<1>1. \A i \in DOMAIN mailbox : mailbox[i] \in Messages
  BY ElementOfSeq, LenProperties DEF Typed
<1>2. \A t \in timers : t.left \in 0..Interval \cup 0..Timeout
  BY TimesAssumption DEF Typed, Referred, Runs, Timers
<1>3. \A t \in timers : t.ref \in Refs /\ t.msg \in Messages
  BY DEF Typed, Timers
<1>4. pong \in 0..Timeout \cup {None}
  BY TimesAssumption DEF Typed
<1> QED
  BY <1>1, <1>2, <1>3, <1>4 DEF Typed, TypeOK, Conns, Fields

LEMMA TypedInit == Init => Typed
<1> SUFFICES ASSUME Init PROVE Typed
  OBVIOUS
<1>1. state \in Fields
  BY DEF Init, Fields
<1>2. idle \in 0..Interval /\ quiet \in Nat
  BY TimesAssumption DEF Init
<1>3. mailbox \in Seq(Messages)
  BY DEF Init
<1> QED
  BY <1>1, <1>2, <1>3 DEF Init, Typed, Conns

LEMMA CancelIs ==
    ASSUME NEW ts, NEW ref
    PROVE  /\ Cancel(ts, ref) \subseteq ts
           /\ \A t \in ts : t \in Cancel(ts, ref) <=> t.ref # ref
BY DEF Cancel

LEMMA SendAfterIs ==
    ASSUME NEW ts \in SUBSET Timers, NEW ref \in Refs, NEW time \in Nat, NEW msg \in Messages
    PROVE  SendAfter(ts, ref, time, msg) \in SUBSET Timers
BY DEF SendAfter, Timers

\* Time brings every timer one unit nearer to its end.
Older(t) == [ref |-> t.ref, left |-> t.left - 1, msg |-> t.msg]

LEMMA ElapseIs ==
    ASSUME Typed, Elapse
    PROVE  /\ \A t \in timers : Older(t) \in timers' /\ t.left \in Nat \ {0}
           /\ \A u \in timers' : \E t \in timers : u = Older(t)
           /\ timers' \subseteq Timers
<1>1. \A t \in timers : [t EXCEPT !.left = @ - 1] = Older(t)
  BY DEF Typed, Timers, Older
<1>2. \A t \in timers : t.left \in Nat \ {0}
  BY DEF Typed, Timers, Elapse
<1>3. timers' = {[t EXCEPT !.left = @ - 1] : t \in timers}
  BY DEF Elapse
<1>4. /\ \A t \in timers : Older(t) \in timers'
      /\ \A u \in timers' : \E t \in timers : u = Older(t)
  BY <1>1, <1>3
<1>5. \A t \in timers : Older(t) \in Timers
  BY <1>2 DEF Typed, Timers, Older
<1> QED
  BY <1>2, <1>4, <1>5

LEMMA TypedPeer ==
    ASSUME Typed, \/ Elapse \/ Fire \/ PeerSends \/ PeerAnswers \/ PeerSlows \/ PeerDies
                  \/ ConnectFails \/ ScreenArrives \/ Looked
    PROVE  Typed'
<1> USE TimesAssumption
<1>1. CASE Elapse
  <2>1. timers' \subseteq Timers
    BY <1>1, ElapseIs
  <2>2. pong' \in 0..(Timeout - 1) \cup {None}
    BY <1>1, NoneAssumption DEF Elapse, Typed
  <2>3. idle' \in 0..Interval /\ quiet' \in Nat
    BY <1>1 DEF Elapse, Typed
  <2> QED
    BY <1>1, <2>1, <2>2, <2>3 DEF Elapse, Typed
<1>2. CASE Fire
  <2>1. PICK t \in timers : timers' = timers \ {t} /\ mailbox' = Append(mailbox, t.msg)
                            /\ UNCHANGED <<conn, busy, state, idle, peer, pong, quiet>>
    BY <1>2 DEF Fire
  <2>2. t.msg \in Messages
    BY <2>1 DEF Typed, Timers
  <2>3. mailbox' \in Seq(Messages)
    BY <2>1, <2>2, AppendIs
  <2> QED
    BY <2>1, <2>3 DEF Typed
<1>3. CASE PeerSends
  <2>1. PICK k \in FromPeer : mailbox' = Append(mailbox, Mail(k))
    BY <1>3 DEF PeerSends
  <2>2. mailbox' \in Seq(Messages)
    BY <2>1, AppendIs, MessageIs
  <2> QED
    BY <1>3, <2>2 DEF PeerSends, Typed
<1>4. CASE PeerAnswers
  <2>1. "control" \in FromPeer
    BY DEF FromPeer
  <2>2. mailbox' \in Seq(Messages)
    BY <1>4, <2>1, AppendIs, MessageIs DEF PeerAnswers
  <2> QED
    BY <1>4, <2>2 DEF PeerAnswers, Typed
<1>5. CASE PeerSlows \/ PeerDies
  BY <1>5 DEF PeerSlows, PeerDies, Typed
<1>6. CASE ConnectFails \/ ScreenArrives \/ Looked
  BY <1>6 DEF ConnectFails, ScreenArrives, Looked, Typed, Conns
<1> QED
  BY <1>1, <1>2, <1>3, <1>4, <1>5, <1>6

LEMMA TypedHandles ==
    ASSUME Typed, \/ HandleFrame \/ HandleControl \/ StaleMail \/ StaleTick \/ StaleTimeout
                  \/ TimesOut \/ Disconnected
    PROVE  Typed'
<1> USE TimesAssumption
<1>1. CASE HandleFrame \/ HandleControl
  <2>1. mailbox' \in Seq(Messages)
    BY <1>1, HandleIs DEF HandleFrame, HandleControl
  <2>2. state' \in Fields
    BY <1>1 DEF HandleFrame, HandleControl, NoteActivity, Typed, Fields
  <2>3. timers' \subseteq Timers
    BY <1>1, CancelIs DEF HandleFrame, HandleControl, NoteActivity, Typed
  <2>4. idle' \in 0..Interval /\ quiet' \in Nat
    BY <1>1 DEF HandleFrame, HandleControl, NoteActivity
  <2>5. conn' = conn /\ busy' \in BOOLEAN /\ peer' = peer /\ pong' = pong
    BY <1>1 DEF HandleFrame, HandleControl, Typed
  <2> QED
    BY <2>1, <2>2, <2>3, <2>4, <2>5 DEF Typed
<1>2. CASE StaleMail \/ StaleTick \/ StaleTimeout
  <2>1. mailbox' \in Seq(Messages)
    BY <1>2, HandleIs DEF StaleMail, StaleTick, StaleTimeout
  <2> QED
    BY <1>2, <2>1 DEF StaleMail, StaleTick, StaleTimeout, Typed
<1>3. CASE TimesOut
  <2>1. mailbox' \in Seq(Messages)
    BY <1>3, HandleIs DEF TimesOut
  <2>2. state' \in Fields
    BY <1>3 DEF TimesOut, Typed, Fields
  <2>3. timers' \subseteq Timers
    BY <1>3, CancelIs DEF TimesOut, Typed
  <2> QED
    BY <1>3, <2>1, <2>2, <2>3 DEF TimesOut, Typed, Conns
<1>4. CASE Disconnected
  <2>1. mailbox' \in Seq(Messages)
    BY <1>4, HandleIs DEF Disconnected, Typed
  <2>2. state' \in Fields
    BY <1>4 DEF Disconnected, EndHeartbeat, Typed, Fields
  <2>3. timers' \subseteq Timers
    BY <1>4, CancelIs DEF Disconnected, EndHeartbeat, Typed
  <2> QED
    BY <1>4, <2>1, <2>2, <2>3 DEF Disconnected, EndHeartbeat, Typed, Conns
<1> QED
  BY <1>1, <1>2, <1>3, <1>4

-----------------------------------------------------------------------------
(***************************************************************************)
(* What the actions that make references do.                               *)
(***************************************************************************)
TimerOf(ref, time, msg) == [ref |-> ref, left |-> time, msg |-> msg]

LEMMA TimerIs ==
    ASSUME NEW ref \in Refs, NEW time \in Nat, NEW msg \in Messages
    PROVE  /\ TimerOf(ref, time, msg) \in Timers
           /\ TimerOf(ref, time, msg).ref = ref
           /\ TimerOf(ref, time, msg).left = time
           /\ TimerOf(ref, time, msg).msg = msg
BY DEF TimerOf, Timers

\* No timer has the reference None.
LEMMA CancelNone ==
    ASSUME NEW ts \in SUBSET Timers
    PROVE  Cancel(ts, None) = ts
BY NoneAssumption DEF Cancel, Timers

LEMMA TickWaitsIs ==
    ASSUME Typed, TickWaits
    PROVE  /\ mailbox[1] = Tick(state.nonce) /\ state.nonce \in Refs
           /\ state.token # None \/ idle < Interval
           /\ \E r \in Refs :
                 /\ New(r)
                 /\ state' = [state EXCEPT !.tick_ref = r]
                 /\ timers' = timers \cup {TimerOf(r, Interval, Tick(state.nonce))}
           /\ UNCHANGED <<conn, busy, idle, peer, pong, quiet>>
<1>1. /\ Handle("tick") /\ mailbox[1].nonce = state.nonce
      /\ state.token # None \/ idle < Interval
      /\ ScheduleTick([state EXCEPT !.tick_ref = None], timers, {})
      /\ UNCHANGED <<conn, busy, idle, peer, pong, quiet>>
  BY HandleIs DEF TickWaits
<1>2. mailbox[1] \in Messages /\ mailbox[1].kind = "tick"
  BY <1>1, HandleIs
<1>3. mailbox[1] = Tick(state.nonce) /\ state.nonce \in Refs
  BY <1>1, <1>2, MessageIs
<1> DEFINE r == Fresh({})
           st == [state EXCEPT !.tick_ref = None]
<1>4. New(r)
  BY <1>1, FreshIs DEF ScheduleTick
<1>5. st.tick_ref = None /\ st.nonce = state.nonce
  BY DEF Typed, Fields
<1>6. timers' = timers \cup {TimerOf(r, Interval, Tick(state.nonce))}
  BY <1>1, <1>5, CancelNone DEF ScheduleTick, SendAfter, TimerOf, Typed
<1>7. state' = [state EXCEPT !.tick_ref = r]
  BY <1>1 DEF ScheduleTick, Typed, Fields
<1> QED
  BY <1>1, <1>3, <1>4, <1>6, <1>7 DEF New

LEMMA StateIs ==
    ASSUME Typed, NEW t \in Refs, NEW r \in Refs
    PROVE  [state EXCEPT !.tick_ref = None, !.timeout_ref = r, !.token = t]
              = [nonce |-> state.nonce, tick_ref |-> None, timeout_ref |-> r, token |-> t]
<1> DEFINE a == [state EXCEPT !.tick_ref = None, !.timeout_ref = r, !.token = t]
           b == [nonce |-> state.nonce, tick_ref |-> None, timeout_ref |-> r, token |-> t]
<1>1. a \in Fields /\ b \in Fields
  BY DEF Typed, Fields
<1>2. /\ a.nonce = b.nonce /\ a.tick_ref = b.tick_ref /\ a.timeout_ref = b.timeout_ref
      /\ a.token = b.token
  BY DEF Typed, Fields
<1> HIDE DEF a, b
<1>3. a = b
  BY <1>1, <1>2 DEF Fields
<1> QED
  BY <1>3 DEF a, b

LEMMA TickPingsIs ==
    ASSUME Typed, TickPings
    PROVE  /\ mailbox[1] = Tick(state.nonce) /\ state.nonce \in Refs
           /\ state.token = None /\ idle = Interval
           /\ \E token, ref, tick \in Refs :
                 /\ New(token) /\ New(ref) /\ New(tick)
                 /\ ref # token /\ tick \notin {token, ref}
                 /\ state' = [nonce |-> state.nonce, tick_ref |-> tick,
                              timeout_ref |-> ref, token |-> token]
                 /\ timers' = Cancel(timers, state.timeout_ref)
                               \cup {TimerOf(ref, Timeout, TimeoutOf(state.nonce, token)),
                                     TimerOf(tick, Interval, Tick(state.nonce))}
           /\ pong' = IF peer # "dead" /\ pong = None THEN Timeout - 1 ELSE pong
           /\ UNCHANGED <<conn, busy, idle, peer, quiet>>
<1> DEFINE token == Fresh({})
           ref == Fresh({token})
           tick == Fresh({token, ref})
           ts == SendAfter(Cancel(timers, state.timeout_ref), ref, Timeout,
                           TimeoutOf(state.nonce, token))
           st == [nonce |-> state.nonce, tick_ref |-> None, timeout_ref |-> ref,
                  token |-> token]
           sx == [state EXCEPT !.tick_ref = None, !.timeout_ref = ref, !.token = token]
<1>1. /\ Handle("tick") /\ mailbox[1].nonce = state.nonce
      /\ state.token = None /\ idle = Interval
      /\ ScheduleTick(sx, ts, {token, ref})
      /\ pong' = IF peer # "dead" /\ pong = None THEN Timeout - 1 ELSE pong
      /\ UNCHANGED <<conn, busy, idle, peer, quiet>>
  BY HandleIs DEF TickPings
<1>2. mailbox[1] \in Messages /\ mailbox[1].kind = "tick"
  BY <1>1, HandleIs
<1>3. mailbox[1] = Tick(state.nonce) /\ state.nonce \in Refs
  BY <1>1, <1>2, MessageIs
<1>4. New(tick) /\ tick \notin {token, ref}
  BY <1>1, FreshIs DEF ScheduleTick
<1>5. Unused({token}) # {} /\ Unused({}) # {}
  BY <1>1, UnusedLess DEF ScheduleTick
<1>6. New(token) /\ New(ref) /\ ref # token
  BY <1>5, FreshIs
<1>7. sx = st
  <2>1. token \in Refs /\ ref \in Refs
    BY <1>6 DEF New
  <2> HIDE DEF token, ref
  <2> QED
    BY <2>1, StateIs
<1>8. ts = Cancel(timers, state.timeout_ref)
              \cup {TimerOf(ref, Timeout, TimeoutOf(state.nonce, token))}
  BY DEF SendAfter, TimerOf
<1>9. Fresh({token, ref}) = tick /\ ScheduleTick(st, ts, {token, ref})
  BY <1>7, <1>1
<1> HIDE DEF token, ref, tick, ts
<1>10. /\ timers' = SendAfter(Cancel(ts, None), tick, Interval, Tick(state.nonce))
       /\ state' = [st EXCEPT !.tick_ref = tick]
  BY <1>9 DEF ScheduleTick
<1>11. ts \subseteq Timers
  <2>1. TimeoutOf(state.nonce, token) \in Messages
    BY <1>3, <1>6, MessageIs DEF New
  <2>2. TimerOf(ref, Timeout, TimeoutOf(state.nonce, token)) \in Timers
    BY <1>6, <2>1, TimerIs, TimesAssumption DEF New
  <2> QED
    BY <1>8, <2>2, CancelIs DEF Typed
<1>12. timers' = ts \cup {TimerOf(tick, Interval, Tick(state.nonce))}
  BY <1>10, <1>11, CancelNone DEF SendAfter, TimerOf
<1>13. state' = [nonce |-> state.nonce, tick_ref |-> tick, timeout_ref |-> ref,
                 token |-> token]
  BY <1>10
<1> QED
  <2>1. timers' = Cancel(timers, state.timeout_ref)
                    \cup {TimerOf(ref, Timeout, TimeoutOf(state.nonce, token)),
                          TimerOf(tick, Interval, Tick(state.nonce))}
    BY <1>8, <1>12
  <2>2. token \in Refs /\ ref \in Refs /\ tick \in Refs
    BY <1>4, <1>6 DEF New
  <2>3. /\ pong' = IF peer # "dead" /\ pong = None THEN Timeout - 1 ELSE pong
        /\ UNCHANGED <<conn, busy, idle, peer, quiet>>
        /\ state.token = None /\ idle = Interval
    BY <1>1
  <2> QED
    BY <1>3, <1>4, <1>6, <1>13, <2>1, <2>2, <2>3

LEMMA ConnectedIs ==
    ASSUME Typed, Connected
    PROVE  /\ conn = "connecting" /\ conn' = "up"
           /\ idle' = 0 /\ quiet' = 0 /\ peer' = "prompt" /\ UNCHANGED <<busy, pong>>
           /\ \E nonce, tick \in Refs :
                 /\ New(nonce) /\ New(tick)
                 /\ state' = [nonce |-> nonce, tick_ref |-> tick, timeout_ref |-> None,
                              token |-> None]
                 /\ \E ts \in SUBSET timers :
                       timers' = ts \cup {TimerOf(tick, Interval, Tick(nonce))}
           /\ mailbox' \in Seq(Messages) /\ Len(mailbox') = Len(mailbox)
           /\ \A i \in 1..Len(mailbox) : mailbox'[i] \in {mailbox[i], Mail("other")}
<1> DEFINE nonce == Fresh({})
           tick == Fresh({nonce})
           ts == Cancel(Cancel(timers, state.tick_ref), state.timeout_ref)
           st == [nonce |-> nonce, tick_ref |-> None, timeout_ref |-> None, token |-> None]
<1>1. /\ conn = "connecting" /\ conn' = "up"
      /\ ScheduleTick(st, ts, {nonce})
      /\ idle' = 0 /\ quiet' = 0 /\ peer' = "prompt" /\ UNCHANGED <<busy, pong>>
  BY DEF Connected
<1>2. New(tick)
  BY <1>1, FreshIs DEF ScheduleTick
<1>3. Unused({}) # {}
  BY <1>1, UnusedLess DEF ScheduleTick
<1>4. New(nonce)
  BY <1>3, FreshIs
<1>5. ts \subseteq timers
  BY CancelIs
<1>6. timers' = SendAfter(Cancel(ts, None), tick, Interval, Tick(nonce))
      /\ state' = [st EXCEPT !.tick_ref = tick]
  BY <1>1 DEF ScheduleTick
<1> HIDE DEF nonce, tick, ts
<1>7. timers' = ts \cup {TimerOf(tick, Interval, Tick(nonce))}
  BY <1>5, <1>6, CancelNone DEF SendAfter, TimerOf, Typed
<1>8. state' = [nonce |-> nonce, tick_ref |-> tick, timeout_ref |-> None, token |-> None]
  BY <1>6
<1>9. /\ mailbox' \in Seq(Messages) /\ Len(mailbox') = Len(mailbox)
      /\ \A i \in 1..Len(mailbox) : mailbox'[i] \in {mailbox[i], Mail("other")}
  <2>1. /\ mailbox \in Seq(Messages) /\ Len(mailbox) \in Nat
        /\ DOMAIN mailbox = 1..Len(mailbox)
    BY LenProperties DEF Typed
  <2>2. \A i \in 1..Len(mailbox) : mailbox[i] \in Messages
    BY <2>1, ElementOfSeq
  <2>3. mailbox' = [i \in 1..Len(mailbox) |->
                      IF mailbox[i].kind \in FromPeer THEN Mail("other") ELSE mailbox[i]]
    BY <2>1 DEF Connected
  <2>4. Mail("other") \in Messages
    BY MessageIs
  <2>5. \A i \in 1..Len(mailbox) : mailbox'[i] \in {mailbox[i], Mail("other")}
    BY <2>3
  <2>6. mailbox' \in Seq(Messages)
    <3>1. mailbox' \in [1..Len(mailbox) -> Messages]
      BY <2>2, <2>3, <2>4
    <3> QED
      BY <2>1, <3>1, SeqDef
  <2> QED
    <3>1. DOMAIN mailbox' = 1..Len(mailbox')  /\ Len(mailbox') \in Nat
      BY <2>6, LenProperties
    <3>2. DOMAIN mailbox' = 1..Len(mailbox)
      BY <2>3
    <3>3. \A i \in Nat : i \in 1..Len(mailbox') <=> i \in 1..Len(mailbox)
      BY <3>1, <3>2
    <3>4. Len(mailbox') = Len(mailbox)
      <4> DEFINE m == Len(mailbox)
                 n == Len(mailbox')
      <4>1. m \in Nat /\ n \in Nat /\ \A i \in Nat : i \in 1..n <=> i \in 1..m
        BY <2>1, <3>1, <3>3
      <4> HIDE DEF m, n
      <4>2. m <= n /\ n <= m
        BY <4>1
      <4>3. m = n
        BY <4>1, <4>2
      <4> QED
        BY <4>3 DEF m, n
    <3> QED
      BY <2>5, <2>6, <3>4
<1> QED
  BY <1>1, <1>2, <1>4, <1>5, <1>7, <1>8, <1>9 DEF New

LEMMA TypedMakes ==
    ASSUME Typed, Connected \/ TickWaits \/ TickPings
    PROVE  Typed'
<1> USE TimesAssumption
<1>1. CASE Connected
  <2>1. PICK nonce, tick \in Refs :
          /\ New(nonce) /\ New(tick)
          /\ state' = [nonce |-> nonce, tick_ref |-> tick, timeout_ref |-> None,
                       token |-> None]
          /\ \E ts \in SUBSET timers : timers' = ts \cup {TimerOf(tick, Interval, Tick(nonce))}
    BY <1>1, ConnectedIs
  <2>2. TimerOf(tick, Interval, Tick(nonce)) \in Timers
    BY TimerIs, MessageIs
  <2>3. timers' \subseteq Timers
    BY <2>1, <2>2 DEF Typed
  <2>4. state' \in Fields
    BY <2>1 DEF Fields
  <2>5. mailbox' \in Seq(Messages)
    BY <1>1, ConnectedIs
  <2>6. /\ conn' \in Conns /\ busy' \in BOOLEAN /\ peer' \in {"prompt", "slow", "dead"}
        /\ pong' = pong /\ idle' \in 0..Interval /\ quiet' \in Nat
    BY <1>1 DEF Connected, Typed, Conns
  <2> QED
    BY <2>3, <2>4, <2>5, <2>6 DEF Typed
<1>2. CASE TickWaits
  <2>1. PICK r \in Refs :
          /\ state' = [state EXCEPT !.tick_ref = r]
          /\ timers' = timers \cup {TimerOf(r, Interval, Tick(state.nonce))}
    BY <1>2, TickWaitsIs
  <2>2. state.nonce \in Refs /\ UNCHANGED <<conn, busy, idle, peer, pong, quiet>>
    BY <1>2, TickWaitsIs
  <2>3. timers' \subseteq Timers
    BY <2>1, <2>2, TimerIs, MessageIs DEF Typed
  <2>4. state' \in Fields
    BY <2>1 DEF Typed, Fields
  <2>5. mailbox' \in Seq(Messages)
    BY <1>2, HandleIs DEF TickWaits
  <2> QED
    BY <2>2, <2>3, <2>4, <2>5 DEF Typed
<1>3. CASE TickPings
  <2>1. PICK token, ref, tick \in Refs :
          /\ state' = [nonce |-> state.nonce, tick_ref |-> tick,
                       timeout_ref |-> ref, token |-> token]
          /\ timers' = Cancel(timers, state.timeout_ref)
                        \cup {TimerOf(ref, Timeout, TimeoutOf(state.nonce, token)),
                              TimerOf(tick, Interval, Tick(state.nonce))}
    BY <1>3, TickPingsIs
  <2>2. state.nonce \in Refs /\ UNCHANGED <<conn, busy, idle, peer, quiet>>
    BY <1>3, TickPingsIs
  <2>3. /\ TimerOf(ref, Timeout, TimeoutOf(state.nonce, token)) \in Timers
        /\ TimerOf(tick, Interval, Tick(state.nonce)) \in Timers
    BY <2>2, TimerIs, MessageIs
  <2>4. timers' \subseteq Timers
    BY <2>1, <2>3, CancelIs DEF Typed
  <2>5. state' \in Fields
    BY <2>1, <2>2 DEF Fields
  <2>6. mailbox' \in Seq(Messages)
    BY <1>3, HandleIs DEF TickPings
  <2>7. pong' \in 0..(Timeout - 1) \cup {None}
    BY <1>3 DEF TickPings, Typed
  <2> QED
    BY <2>2, <2>4, <2>5, <2>6, <2>7 DEF Typed
<1> QED
  BY <1>1, <1>2, <1>3

LEMMA TypedNext == Typed /\ [Next]_vars => Typed'
<1> SUFFICES ASSUME Typed, [Next]_vars PROVE Typed'
  OBVIOUS
<1>1. CASE UNCHANGED vars
  BY <1>1 DEF vars, Typed
<1>2. CASE \/ Elapse \/ Fire \/ PeerSends \/ PeerAnswers \/ PeerSlows \/ PeerDies
           \/ ConnectFails \/ ScreenArrives \/ Looked
  BY <1>2, TypedPeer
<1>3. CASE \/ HandleFrame \/ HandleControl \/ StaleMail \/ StaleTick \/ StaleTimeout
           \/ TimesOut \/ Disconnected
  BY <1>3, TypedHandles
<1>4. CASE Connected \/ TickWaits \/ TickPings
  BY <1>4, TypedMakes
<1> QED
  BY <1>1, <1>2, <1>3, <1>4 DEF Next

-----------------------------------------------------------------------------
(***************************************************************************)
(* References.                                                             *)
(***************************************************************************)
\* What a step leaves alone that no timer and no message concerns.
KeepsTimers == \/ PeerSends \/ PeerAnswers \/ PeerSlows \/ PeerDies \/ ConnectFails
               \/ ScreenArrives \/ Looked \/ StaleMail \/ StaleTick \/ StaleTimeout

LEMMA KeepsTimersIs == KeepsTimers => UNCHANGED <<timers, state, idle, quiet>>
BY DEF KeepsTimers, PeerSends, PeerAnswers, PeerSlows, PeerDies, ConnectFails, ScreenArrives,
       Looked, StaleMail, StaleTick, StaleTimeout

\* The timers that handling a message cancels.
LEMMA CancelsIs ==
    ASSUME Typed, HandleFrame \/ HandleControl \/ TimesOut \/ Disconnected
    PROVE  /\ timers' \subseteq timers
           /\ state'.timeout_ref = None /\ state'.token = None
           /\ state'.nonce = state.nonce
           /\ ~Disconnected => timers' = Cancel(timers, state.timeout_ref)
<1>1. CASE HandleFrame \/ HandleControl
  BY <1>1, CancelIs DEF HandleFrame, HandleControl, NoteActivity, Typed, Fields
<1>2. CASE TimesOut
  BY <1>2, CancelIs DEF TimesOut, Typed, Fields
<1>3. CASE Disconnected
  BY <1>3, CancelIs DEF Disconnected, EndHeartbeat, Typed, Fields
<1> QED
  BY <1>1, <1>2, <1>3

LEMMA ReferredNext ==
    ASSUME Typed, Referred, [Next]_vars
    PROVE  Referred'
<1> USE TimesAssumption, NoneAssumption
<1>1. ASSUME timers' \subseteq timers, state'.timeout_ref \in {state.timeout_ref, None}
      PROVE  Referred'
  BY <1>1 DEF Typed, Timers, Referred, Runs
\* Timers of new references, which the timeout's is not unless it is of that kind.
<1>2. ASSUME NEW old \in SUBSET timers, NEW new \in SUBSET Timers, timers' = old \cup new,
             \A u \in new : New(u.ref) /\ Runs(u),
             \A t, u \in new : t.ref = u.ref => t = u,
             \A u \in new : u.ref = state'.timeout_ref => u.msg.kind = "timeout",
             \/ state'.timeout_ref = state.timeout_ref \/ state'.timeout_ref = None
             \/ New(state'.timeout_ref)
      PROVE  Referred'
  <2>1. \A t \in timers' : Runs(t)
    BY <1>2 DEF Referred
  <2>2. \A t, u \in timers' : t.ref = u.ref => t = u
    BY <1>2 DEF Referred, New
  <2>3. \A t \in timers' : t.ref = state'.timeout_ref => t.msg.kind = "timeout"
    BY <1>2 DEF Referred, New, Typed, Timers
  <2> QED
    BY <2>1, <2>2, <2>3 DEF Referred, Runs
<1>3. CASE UNCHANGED vars
  BY <1>1, <1>3 DEF vars
<1>4. CASE KeepsTimers
  BY <1>1, <1>4, KeepsTimersIs
<1>5. CASE HandleFrame \/ HandleControl \/ TimesOut \/ Disconnected
  BY <1>1, <1>5, CancelsIs
<1>6. CASE Fire
  BY <1>1, <1>6 DEF Fire
<1>7. CASE Elapse
  <2>1. /\ \A t \in timers : t.left \in Nat \ {0}
        /\ \A u \in timers' : \E t \in timers : u = Older(t)
    BY <1>7, ElapseIs
  <2>2. \A t \in timers : /\ Older(t).ref = t.ref /\ Older(t).msg = t.msg
                         /\ Older(t).left = t.left - 1
    BY DEF Older
  <2>3. state' = state
    BY <1>7 DEF Elapse
  <2>4. \A u \in timers' : Runs(u)
    BY <2>1, <2>2 DEF Referred, Runs
  <2>5. \A t, u \in timers' : t.ref = u.ref => t = u
    BY <2>1, <2>2 DEF Referred
  <2>6. \A u \in timers' : u.ref = state.timeout_ref => u.msg.kind = "timeout"
    BY <2>1, <2>2 DEF Referred
  <2> QED
    BY <2>3, <2>4, <2>5, <2>6 DEF Referred, Runs
<1>8. CASE Connected
  <2>1. PICK nonce, tick \in Refs :
          /\ New(nonce) /\ New(tick)
          /\ state' = [nonce |-> nonce, tick_ref |-> tick, timeout_ref |-> None,
                       token |-> None]
          /\ \E ts \in SUBSET timers : timers' = ts \cup {TimerOf(tick, Interval, Tick(nonce))}
    BY <1>8, ConnectedIs
  <2> DEFINE u == TimerOf(tick, Interval, Tick(nonce))
  <2>2. u \in Timers /\ u.ref = tick /\ Runs(u)
    BY TimerIs, MessageIs, MessagesDiffer DEF Runs
  <2>3. PICK ts \in SUBSET timers : timers' = ts \cup {u}
    BY <2>1
  <2>4. state'.timeout_ref = None
    BY <2>1
  <2> HIDE DEF u
  <2>5. /\ {u} \subseteq Timers /\ \A x \in {u} : New(x.ref) /\ Runs(x)
        /\ \A x, y \in {u} : x.ref = y.ref => x = y
        /\ \A x \in {u} : x.ref = state'.timeout_ref => x.msg.kind = "timeout"
    BY <2>1, <2>2, <2>4
  <2> QED
    BY <1>2, <2>3, <2>4, <2>5
<1>9. CASE TickWaits
  <2>1. PICK r \in Refs :
          /\ New(r)
          /\ state' = [state EXCEPT !.tick_ref = r]
          /\ timers' = timers \cup {TimerOf(r, Interval, Tick(state.nonce))}
    BY <1>9, TickWaitsIs
  <2> DEFINE u == TimerOf(r, Interval, Tick(state.nonce))
  <2>2. state.nonce \in Refs
    BY <1>9, TickWaitsIs
  <2>3. u \in Timers /\ u.ref = r /\ Runs(u)
    BY <2>2, TimerIs, MessageIs, MessagesDiffer DEF Runs
  <2>4. state'.timeout_ref = state.timeout_ref /\ r # state.timeout_ref
    BY <2>1 DEF Typed, Fields, New
  <2>5. timers' = timers \cup {u}
    BY <2>1
  <2> HIDE DEF u
  <2>6. /\ {u} \subseteq Timers /\ \A x \in {u} : New(x.ref) /\ Runs(x)
        /\ \A x, y \in {u} : x.ref = y.ref => x = y
        /\ \A x \in {u} : x.ref = state'.timeout_ref => x.msg.kind = "timeout"
    BY <2>1, <2>3, <2>4
  <2> QED
    BY <1>2, <2>4, <2>5, <2>6
<1>10. CASE TickPings
  <2>1. PICK token, ref, tick \in Refs :
          /\ New(ref) /\ New(tick) /\ tick \notin {token, ref}
          /\ state' = [nonce |-> state.nonce, tick_ref |-> tick,
                       timeout_ref |-> ref, token |-> token]
          /\ timers' = Cancel(timers, state.timeout_ref)
                        \cup {TimerOf(ref, Timeout, TimeoutOf(state.nonce, token)),
                              TimerOf(tick, Interval, Tick(state.nonce))}
    BY <1>10, TickPingsIs
  <2> DEFINE t == TimerOf(ref, Timeout, TimeoutOf(state.nonce, token))
             u == TimerOf(tick, Interval, Tick(state.nonce))
             old == Cancel(timers, state.timeout_ref)
  <2>2. state.nonce \in Refs
    BY <1>10, TickPingsIs
  <2>3. t \in Timers /\ t.ref = ref /\ Runs(t) /\ t.msg.kind = "timeout"
    BY <2>2, TimerIs, MessageIs, MessagesDiffer DEF Runs
  <2>4. u \in Timers /\ u.ref = tick /\ Runs(u)
    BY <2>2, TimerIs, MessageIs, MessagesDiffer DEF Runs
  <2>5. old \subseteq timers
    BY CancelIs
  <2>6. state'.timeout_ref = ref /\ tick # ref
    BY <2>1
  <2>7. timers' = old \cup {t, u}
    BY <2>1
  <2> HIDE DEF t, u, old
  <2>8. /\ {t, u} \subseteq Timers /\ \A x \in {t, u} : New(x.ref) /\ Runs(x)
        /\ \A x, y \in {t, u} : x.ref = y.ref => x = y
        /\ \A x \in {t, u} : x.ref = state'.timeout_ref => x.msg.kind = "timeout"
    BY <2>1, <2>3, <2>4, <2>6
  <2> QED
    BY <1>2, <2>1, <2>5, <2>6, <2>7, <2>8
<1> QED
  BY <1>3, <1>4, <1>5, <1>6, <1>7, <1>8, <1>9, <1>10 DEF Next, KeepsTimers

-----------------------------------------------------------------------------
(***************************************************************************)
(* The tick.                                                               *)
(***************************************************************************)
Beat(ts, mail, tick) == TickRuns(ts, mail, tick) \/ TickFired(ts, mail, tick)

\* Timers of other messages make no difference.
LEMMA BeatTimers ==
    ASSUME NEW ts, NEW us, NEW mail, NEW tick, Beat(ts, mail, tick),
           \A t \in ts : t.msg = tick => t \in us,
           \A u \in us : u.msg = tick => u \in ts
    PROVE  Beat(us, mail, tick)
BY DEF Beat, TickRuns, TickFired

\* Nor does the handling or the arrival of another message.
LEMMA BeatHandles ==
    ASSUME NEW kind, Typed, Handle(kind), NEW ts, NEW tick, Beat(ts, mailbox, tick),
           mailbox[1] # tick
    PROVE  Beat(ts, mailbox', tick)
<1>1. /\ Len(mailbox) \in Nat \ {0} /\ Len(mailbox') = Len(mailbox) - 1
      /\ \A i \in 1..Len(mailbox') : mailbox'[i] = mailbox[i + 1]
  BY HandleIs
<1>2. CASE TickRuns(ts, mailbox, tick)
  BY <1>1, <1>2 DEF Beat, TickRuns
<1>3. CASE TickFired(ts, mailbox, tick)
  <2>1. PICK i \in 1..Len(mailbox) :
          mailbox[i] = tick /\ \A j \in 1..Len(mailbox) : mailbox[j] = tick => j = i
    BY <1>3 DEF TickFired
  <2>2. i - 1 \in 1..Len(mailbox') /\ mailbox'[i - 1] = tick
    BY <1>1, <2>1
  <2>3. \A j \in 1..Len(mailbox') : mailbox'[j] = tick => j = i - 1
    BY <1>1, <2>1
  <2> QED
    BY <1>3, <2>2, <2>3 DEF Beat, TickFired
<1> QED
  BY <1>2, <1>3 DEF Beat

LEMMA BeatAppends ==
    ASSUME Typed, NEW m \in Messages, mailbox' = Append(mailbox, m),
           NEW ts, NEW tick, Beat(ts, mailbox, tick), m # tick
    PROVE  Beat(ts, mailbox', tick)
<1>1. /\ Len(mailbox) \in Nat /\ Len(mailbox') = Len(mailbox) + 1
      /\ mailbox'[Len(mailbox) + 1] = m
      /\ \A i \in 1..Len(mailbox) : mailbox'[i] = mailbox[i]
  BY AppendIs
<1>2. \A i \in 1..Len(mailbox') : mailbox'[i] = tick => i \in 1..Len(mailbox)
  BY <1>1
<1>3. CASE TickRuns(ts, mailbox, tick)
  BY <1>1, <1>2, <1>3 DEF Beat, TickRuns
<1>4. CASE TickFired(ts, mailbox, tick)
  <2>1. PICK i \in 1..Len(mailbox) :
          mailbox[i] = tick /\ \A j \in 1..Len(mailbox) : mailbox[j] = tick => j = i
    BY <1>4 DEF TickFired
  <2>2. i \in 1..Len(mailbox') /\ mailbox'[i] = tick
    BY <1>1, <2>1
  <2>3. \A j \in 1..Len(mailbox') : mailbox'[j] = tick => j = i
    BY <1>1, <1>2, <2>1
  <2> QED
    BY <1>4, <2>2, <2>3 DEF Beat, TickFired
<1> QED
  BY <1>3, <1>4 DEF Beat

\* A tick that is handled was the only one, and the next is started.
LEMMA BeatGoesOn ==
    ASSUME Typed, Handle("tick"), NEW tick, mailbox[1] = tick, Beat(timers, mailbox, tick),
           NEW old \in SUBSET timers, NEW u, u.msg = tick,
           NEW new, \A t \in new : t.msg # tick
    PROVE  Beat(old \cup new \cup {u}, mailbox', tick)
<1>1. /\ Len(mailbox) \in Nat \ {0} /\ Len(mailbox') = Len(mailbox) - 1
      /\ \A i \in 1..Len(mailbox') : mailbox'[i] = mailbox[i + 1]
  BY HandleIs
<1>2. TickFired(timers, mailbox, tick)
  BY <1>1 DEF Beat, TickRuns
<1>3. PICK i \in 1..Len(mailbox) : \A j \in 1..Len(mailbox) : mailbox[j] = tick => j = i
  BY <1>2 DEF TickFired
<1>4. i = 1
  BY <1>1, <1>3
<1>5. \A j \in 1..Len(mailbox') : mailbox'[j] # tick
  <2> SUFFICES ASSUME NEW j \in 1..Len(mailbox') PROVE mailbox'[j] # tick
    OBVIOUS
  <2>1. j + 1 \in 1..Len(mailbox) /\ j + 1 # 1 /\ mailbox'[j] = mailbox[j + 1]
    BY <1>1
  <2> QED
    BY <1>3, <1>4, <2>1
<1>6. \A t \in old \cup new : t.msg # tick
  BY <1>2 DEF TickFired
<1> QED
  BY <1>5, <1>6 DEF Beat, TickRuns

LEMMA BeatsNext ==
    ASSUME Typed, Referred, Beats, [Next]_vars
    PROVE  Beats'
<1> SUFFICES ASSUME conn' = "up"
             PROVE  Beat(timers', mailbox', Tick(state'.nonce))
  BY DEF Beats, Beat
<1> DEFINE tick == Tick(state.nonce)
<1>0. conn = "up" => Beat(timers, mailbox, tick)
  BY DEF Beats, Beat
<1>1. CASE UNCHANGED vars
  BY <1>0, <1>1 DEF vars
<1>2. CASE PeerSends \/ PeerAnswers
  <2>1. PICK k \in FromPeer : mailbox' = Append(mailbox, Mail(k))
    BY <1>2 DEF PeerSends, PeerAnswers, FromPeer
  <2>2. conn = "up" /\ UNCHANGED <<timers, state>>
    BY <1>2 DEF PeerSends, PeerAnswers
  <2>3. Mail(k) \in Messages /\ Mail(k) # tick
    BY MessageIs, MessagesDiffer DEF FromPeer
  <2> QED
    BY <1>0, <2>1, <2>2, <2>3, BeatAppends
<1>3. CASE PeerSlows \/ PeerDies \/ ScreenArrives
  BY <1>0, <1>3 DEF PeerSlows, PeerDies, ScreenArrives
<1>4. CASE ConnectFails \/ Looked \/ TimesOut \/ Disconnected
  BY <1>4 DEF ConnectFails, Looked, TimesOut, Disconnected
<1>5. CASE StaleMail \/ StaleTick \/ StaleTimeout
  <2>1. /\ conn = "up" /\ UNCHANGED <<timers, state>>
        /\ \E kind : Handle(kind) /\ mailbox[1] # tick
    BY <1>5, HandleIs, MessagesDiffer DEF StaleMail, StaleTick, StaleTimeout
  <2> QED
    BY <1>0, <2>1, BeatHandles
<1>6. CASE HandleFrame \/ HandleControl
  <2>1. PICK kind \in {"frame", "control"} : Handle(kind)
    BY <1>6 DEF HandleFrame, HandleControl
  <2>2. conn = "up" /\ mailbox[1] # tick
    BY <2>1, HandleIs, MessagesDiffer
  <2>3. Beat(timers, mailbox', tick)
    BY <1>0, <2>1, <2>2, BeatHandles
  <2>4. timers' = Cancel(timers, state.timeout_ref) /\ state'.nonce = state.nonce
    BY <1>6, CancelsIs DEF HandleFrame, HandleControl, NoteActivity, Typed, Fields
  <2>5. \A t \in timers : t.msg = tick => t \in timers'
    BY <2>4, CancelIs, MessagesDiffer DEF Referred
  <2>6. \A t \in timers' : t \in timers
    BY <2>4, CancelIs
  <2> QED
    BY <2>3, <2>4, <2>5, <2>6, BeatTimers
<1>7. CASE Elapse
  <2>1. conn = "up" /\ UNCHANGED <<state, mailbox>> /\ Beat(timers, mailbox, tick)
    BY <1>0, <1>7 DEF Elapse
  <2>2. /\ \A t \in timers : Older(t) \in timers' /\ Older(t).msg = t.msg
        /\ \A u \in timers' : \E t \in timers : u = Older(t)
    BY <1>7, ElapseIs DEF Older
  <2>3. CASE TickRuns(timers, mailbox, tick)
    <3>1. PICK t \in timers : t.msg = tick /\ \A u \in timers : u.msg = tick => u = t
      BY <2>3 DEF TickRuns
    <3>2. Older(t) \in timers' /\ Older(t).msg = tick
      BY <2>2, <3>1
    <3>3. \A u \in timers' : u.msg = tick => u = Older(t)
      BY <2>2, <3>1
    <3> QED
      BY <2>1, <2>3, <3>2, <3>3 DEF Beat, TickRuns
  <2>4. CASE TickFired(timers, mailbox, tick)
    <3>1. \A u \in timers' : u.msg # tick
      BY <2>2, <2>4 DEF TickFired
    <3> QED
      BY <2>1, <2>4, <3>1 DEF Beat, TickFired
  <2> QED
    BY <2>1, <2>3, <2>4 DEF Beat
<1>8. CASE Fire
  <2>1. PICK t \in timers : timers' = timers \ {t} /\ mailbox' = Append(mailbox, t.msg)
                            /\ UNCHANGED <<conn, state>>
    BY <1>8 DEF Fire
  <2>2. t.msg \in Messages
    BY <2>1 DEF Typed, Timers
  <2>3. Beat(timers, mailbox, tick)
    BY <1>0, <2>1
  <2>4. CASE t.msg # tick
    <3>1. Beat(timers, mailbox', tick)
      BY <2>1, <2>2, <2>3, <2>4, BeatAppends
    <3>2. \A u \in timers : u.msg = tick => u \in timers'
      BY <2>1, <2>4
    <3>3. \A u \in timers' : u \in timers
      BY <2>1
    <3> QED
      BY <2>1, <3>1, <3>2, <3>3, BeatTimers
  <2>5. CASE t.msg = tick
    <3>1. TickRuns(timers, mailbox, tick)
      BY <2>3, <2>5 DEF Beat, TickFired
    <3>2. \A u \in timers' : u.msg # tick
      BY <2>1, <2>5, <3>1 DEF TickRuns
    <3>3. /\ Len(mailbox) \in Nat /\ Len(mailbox') = Len(mailbox) + 1
          /\ mailbox'[Len(mailbox) + 1] = tick
          /\ \A i \in 1..Len(mailbox) : mailbox'[i] = mailbox[i]
      BY <2>1, <2>2, <2>5, AppendIs
    <3>4. \A j \in 1..Len(mailbox') : mailbox'[j] = tick => j = Len(mailbox) + 1
      BY <3>1, <3>3 DEF TickRuns
    <3>5. Len(mailbox) + 1 \in 1..Len(mailbox')
      BY <3>3
    <3> QED
      BY <2>1, <3>2, <3>3, <3>4, <3>5 DEF Beat, TickFired
  <2> QED
    BY <2>4, <2>5
<1>9. CASE TickWaits
  <2>1. PICK r \in Refs :
          /\ state' = [state EXCEPT !.tick_ref = r]
          /\ timers' = timers \cup {TimerOf(r, Interval, Tick(state.nonce))}
    BY <1>9, TickWaitsIs
  <2>2. Handle("tick") /\ mailbox[1] = tick /\ conn = "up"
    BY <1>9, TickWaitsIs, HandleIs DEF TickWaits
  <2>3. TimerOf(r, Interval, Tick(state.nonce)).msg = tick
    BY DEF TimerOf
  <2>4. Beat(timers \cup {} \cup {TimerOf(r, Interval, Tick(state.nonce))}, mailbox', tick)
    BY <1>0, <2>2, <2>3, BeatGoesOn
  <2>5. timers \cup {} \cup {TimerOf(r, Interval, Tick(state.nonce))} = timers'
    BY <2>1
  <2>6. state'.nonce = state.nonce
    BY <2>1 DEF Typed, Fields
  <2> QED
    BY <2>4, <2>5, <2>6
<1>10. CASE TickPings
  <2>1. PICK token, ref, r \in Refs :
          /\ state' = [nonce |-> state.nonce, tick_ref |-> r,
                       timeout_ref |-> ref, token |-> token]
          /\ timers' = Cancel(timers, state.timeout_ref)
                        \cup {TimerOf(ref, Timeout, TimeoutOf(state.nonce, token)),
                              TimerOf(r, Interval, Tick(state.nonce))}
    BY <1>10, TickPingsIs
  <2> DEFINE t == TimerOf(ref, Timeout, TimeoutOf(state.nonce, token))
             u == TimerOf(r, Interval, Tick(state.nonce))
             old == Cancel(timers, state.timeout_ref)
  <2>2. Handle("tick") /\ mailbox[1] = tick /\ conn = "up"
    BY <1>10, TickPingsIs, HandleIs DEF TickPings
  <2>3. u.msg = tick /\ t.msg # tick
    BY MessagesDiffer DEF TimerOf
  <2>4. old \subseteq timers
    BY CancelIs
  <2>5. timers' = old \cup {t} \cup {u} /\ state'.nonce = state.nonce
    BY <2>1
  <2> HIDE DEF t, u, old
  <2>6. Beat(old \cup {t} \cup {u}, mailbox', tick)
    BY <1>0, <2>2, <2>3, <2>4, BeatGoesOn
  <2> QED
    BY <2>5, <2>6
<1>11. CASE Connected
  <2>1. PICK nonce, r \in Refs :
          /\ New(nonce)
          /\ state' = [nonce |-> nonce, tick_ref |-> r, timeout_ref |-> None,
                       token |-> None]
          /\ \E ts \in SUBSET timers : timers' = ts \cup {TimerOf(r, Interval, Tick(nonce))}
    BY <1>11, ConnectedIs
  <2>2. PICK ts \in SUBSET timers : timers' = ts \cup {TimerOf(r, Interval, Tick(nonce))}
    BY <2>1
  <2> DEFINE u == TimerOf(r, Interval, Tick(nonce))
  <2>3. u.msg = Tick(nonce) /\ Tick(nonce).nonce = nonce /\ Tick(nonce) # Mail("other")
    BY MessagesDiffer DEF TimerOf
  <2>4. \A t \in ts : t.msg # Tick(nonce)
    BY <2>1, <2>3 DEF New
  <2>5. /\ Len(mailbox') = Len(mailbox)
        /\ \A i \in 1..Len(mailbox) : mailbox'[i] \in {mailbox[i], Mail("other")}
    BY <1>11, ConnectedIs
  <2>6. \A i \in 1..Len(mailbox') : mailbox'[i] # Tick(nonce)
    BY <2>1, <2>3, <2>5 DEF New
  <2>7. state'.nonce = nonce
    BY <2>1
  <2> HIDE DEF u
  <2>8. timers' = ts \cup {u}
    BY <2>2 DEF u
  <2> QED
    BY <2>3, <2>4, <2>6, <2>7, <2>8 DEF Beat, TickRuns
<1> QED
  BY <1>1, <1>2, <1>3, <1>4, <1>5, <1>6, <1>7, <1>8, <1>9, <1>10, <1>11 DEF Next

-----------------------------------------------------------------------------
(***************************************************************************)
(* The answer.                                                             *)
(***************************************************************************)
LEMMA ApartNext ==
    ASSUME Typed, Apart, [Next]_vars
    PROVE  Apart'
<1>1. CASE UNCHANGED vars
  BY <1>1 DEF vars, Apart
<1>2. CASE Elapse
  BY <1>2 DEF Elapse, Apart
<1>3. CASE \/ Fire \/ PeerSends \/ PeerAnswers \/ PeerSlows \/ PeerDies \/ ConnectFails
           \/ ScreenArrives \/ Looked
  BY <1>3 DEF Fire, PeerSends, PeerAnswers, PeerSlows, PeerDies, ConnectFails, ScreenArrives,
              Looked, Apart
<1>4. CASE \/ HandleFrame \/ HandleControl \/ StaleMail \/ StaleTick \/ StaleTimeout
           \/ TickWaits \/ TickPings \/ TimesOut
  BY <1>4 DEF HandleFrame, HandleControl, StaleMail, StaleTick, StaleTimeout, TickWaits,
              TickPings, TimesOut, Handle, Ready, Apart
<1>5. CASE Disconnected \/ Connected
  BY <1>5 DEF Disconnected, Connected, Apart
<1> QED
  BY <1>1, <1>2, <1>3, <1>4, <1>5 DEF Next

\* Only a connection that has begun has somebody at the other end, and a timeout
\* finds a prompt peer's answer handled before it.
LEMMA TimedOutNext ==
    ASSUME Typed, Answered, LiveNeverTimedOut, [Next]_vars
    PROVE  LiveNeverTimedOut'
<1>1. CASE TimesOut
  <2>1. /\ Handle("timeout")
        /\ mailbox[1].nonce = state.nonce /\ mailbox[1].token = state.token
        /\ peer' = peer
    BY <1>1, HandleIs DEF TimesOut
  <2>2. /\ conn = "up" /\ mailbox[1] \in Messages /\ mailbox[1].kind = "timeout"
        /\ 1 \in 1..Len(mailbox)
    BY <2>1, HandleIs
  <2>3. mailbox[1] = TimeoutOf(state.nonce, state.token) /\ state.token # None
    BY <2>1, <2>2, MessageIs, NoneAssumption
  <2>4. CASE peer = "prompt"
    <3>1. AnswerComes(timers, mailbox, TimeoutOf(state.nonce, state.token), pong)
      BY <2>2, <2>3, <2>4 DEF Answered
    <3>2. \E j \in 1..(1 - 1) : mailbox[j].kind \in FromPeer
      BY <2>2, <2>3, <3>1 DEF AnswerComes
    <3> QED
      BY <3>2
  <2> QED
    BY <2>1, <2>4 DEF LiveNeverTimedOut
<1>2. CASE UNCHANGED vars
  BY <1>2 DEF vars, LiveNeverTimedOut
<1>3. CASE \/ Elapse \/ Fire \/ PeerSends \/ PeerAnswers \/ PeerSlows \/ PeerDies
           \/ ConnectFails \/ ScreenArrives \/ Looked
  BY <1>3 DEF Elapse, Fire, PeerSends, PeerAnswers, PeerSlows, PeerDies, ConnectFails,
              ScreenArrives, Looked, LiveNeverTimedOut
<1>4. CASE \/ HandleFrame \/ HandleControl \/ StaleMail \/ StaleTick \/ StaleTimeout
           \/ TickWaits \/ TickPings \/ Disconnected \/ Connected
  BY <1>4 DEF HandleFrame, HandleControl, StaleMail, StaleTick, StaleTimeout, TickWaits,
              TickPings, Disconnected, Connected, LiveNeverTimedOut
<1> QED
  BY <1>1, <1>2, <1>3, <1>4 DEF Next

LEMMA AnswerHandles ==
    ASSUME NEW kind, Typed, Handle(kind), kind \notin FromPeer, NEW timeout, NEW answer,
           NEW ts, AnswerComes(ts, mailbox, timeout, answer)
    PROVE  AnswerComes(ts, mailbox', timeout, answer)
<1>1. /\ Len(mailbox) \in Nat \ {0} /\ Len(mailbox') = Len(mailbox) - 1
      /\ \A i \in 1..Len(mailbox') : mailbox'[i] = mailbox[i + 1]
      /\ mailbox[1].kind \notin FromPeer
  BY HandleIs
<1>2. ASSUME NEW i \in 1..Len(mailbox), mailbox[i].kind \in FromPeer
      PROVE  i - 1 \in 1..Len(mailbox') /\ mailbox'[i - 1].kind \in FromPeer
  BY <1>1, <1>2
<1>3. ASSUME NEW t \in ts, t.msg = timeout
      PROVE  \/ answer # None /\ answer < t.left
             \/ \E i \in 1..Len(mailbox') : mailbox'[i].kind \in FromPeer
  BY <1>2, <1>3 DEF AnswerComes
<1>4. ASSUME NEW i \in 1..Len(mailbox'), mailbox'[i] = timeout
      PROVE  \E j \in 1..(i - 1) : mailbox'[j].kind \in FromPeer
  <2>1. i + 1 \in 1..Len(mailbox) /\ mailbox[i + 1] = timeout
    BY <1>1, <1>4
  <2>2. PICK j \in 1..((i + 1) - 1) : mailbox[j].kind \in FromPeer
    BY <2>1 DEF AnswerComes
  <2>3. j \in 1..Len(mailbox) /\ j # 1
    BY <1>1, <2>1, <2>2
  <2>4. j - 1 \in 1..(i - 1) /\ mailbox'[j - 1].kind \in FromPeer
    BY <1>2, <2>2, <2>3
  <2> QED
    BY <2>4
<1> QED
  BY <1>3, <1>4 DEF AnswerComes

\* A message arrives: the answer, or a timeout after it.
LEMMA AnswerAppends ==
    ASSUME Typed, NEW m \in Messages, mailbox' = Append(mailbox, m),
           NEW timeout, NEW answer, NEW new, NEW ts, NEW us \in SUBSET ts,
           AnswerComes(ts, mailbox, timeout, answer),
           new = answer \/ m.kind \in FromPeer,
           m = timeout => \E i \in 1..Len(mailbox) : mailbox[i].kind \in FromPeer
    PROVE  AnswerComes(us, mailbox', timeout, new)
<1>1. /\ Len(mailbox) \in Nat /\ Len(mailbox') = Len(mailbox) + 1
      /\ mailbox'[Len(mailbox) + 1] = m
      /\ \A i \in 1..Len(mailbox) : mailbox'[i] = mailbox[i]
  BY AppendIs
<1>2. ASSUME NEW t \in us, t.msg = timeout
      PROVE  \/ new # None /\ new < t.left
             \/ \E i \in 1..Len(mailbox') : mailbox'[i].kind \in FromPeer
  <2>1. CASE m.kind \in FromPeer
    <3>1. Len(mailbox) + 1 \in 1..Len(mailbox')
      BY <1>1
    <3> QED
      BY <1>1, <2>1, <3>1
  <2>2. CASE new = answer
    BY <1>1, <1>2, <2>2 DEF AnswerComes
  <2> QED
    BY <2>1, <2>2
<1>3. ASSUME NEW i \in 1..Len(mailbox'), mailbox'[i] = timeout
      PROVE  \E j \in 1..(i - 1) : mailbox'[j].kind \in FromPeer
  <2>1. CASE i \in 1..Len(mailbox)
    <3>1. PICK j \in 1..(i - 1) : mailbox[j].kind \in FromPeer
      BY <1>1, <1>3, <2>1 DEF AnswerComes
    <3> QED
      BY <1>1, <2>1, <3>1
  <2>2. CASE i = Len(mailbox) + 1
    <3>1. PICK j \in 1..Len(mailbox) : mailbox[j].kind \in FromPeer
      BY <1>1, <1>3, <2>2
    <3> QED
      BY <1>1, <2>2, <3>1
  <2> QED
    BY <1>1, <2>1, <2>2
<1> QED
  BY <1>2, <1>3 DEF AnswerComes

LEMMA AnsweredNext ==
    ASSUME Typed, Answered, [Next]_vars
    PROVE  Answered'
<1> USE NoneAssumption, TimesAssumption
<1> SUFFICES ASSUME conn' = "up", peer' = "prompt", state'.token # None
             PROVE  AnswerComes(timers', mailbox',
                                TimeoutOf(state'.nonce, state'.token), pong')
  BY DEF Answered
<1> DEFINE timeout == TimeoutOf(state.nonce, state.token)
<1>0. conn = "up" /\ peer = "prompt" /\ state.token # None =>
          AnswerComes(timers, mailbox, timeout, pong)
  BY DEF Answered
<1>1. CASE UNCHANGED vars
  BY <1>0, <1>1 DEF vars
<1>2. CASE PeerSends \/ PeerAnswers
  <2>1. PICK k \in FromPeer : mailbox' = Append(mailbox, Mail(k))
    BY <1>2 DEF PeerSends, PeerAnswers, FromPeer
  <2>2. UNCHANGED <<conn, peer, timers, state>>
    BY <1>2 DEF PeerSends, PeerAnswers
  <2>3. Mail(k) \in Messages /\ Mail(k) # timeout /\ Mail(k).kind \in FromPeer
    BY MessageIs, MessagesDiffer DEF FromPeer
  <2>4. AnswerComes(timers, mailbox, timeout, pong)
    BY <1>0, <2>2
  <2>5. AnswerComes(timers, mailbox', timeout, pong')
    BY <2>1, <2>3, <2>4, AnswerAppends
  <2> QED
    BY <2>2, <2>5
<1>3. CASE PeerSlows \/ PeerDies \/ ScreenArrives
  BY <1>0, <1>3 DEF PeerSlows, PeerDies, ScreenArrives
<1>4. CASE ConnectFails \/ Looked \/ TimesOut \/ Disconnected
  BY <1>4 DEF ConnectFails, Looked, TimesOut, Disconnected
<1>5. CASE StaleMail \/ StaleTick \/ StaleTimeout
  <2>1. /\ UNCHANGED <<conn, peer, pong, timers, state>>
        /\ \E kind : Handle(kind) /\ kind \notin FromPeer
    BY <1>5 DEF StaleMail, StaleTick, StaleTimeout, FromPeer
  <2> QED
    BY <1>0, <2>1, AnswerHandles
<1>6. CASE HandleFrame \/ HandleControl \/ Connected
  <2>1. state'.token = None
    BY <1>6, CancelsIs, ConnectedIs
  <2> QED
    BY <2>1
<1>7. CASE Elapse
  <2>1. UNCHANGED <<conn, peer, state, mailbox>> /\ ~(peer = "prompt" /\ pong = 0)
        /\ pong' = IF pong \in {None, 0} THEN pong ELSE pong - 1
    BY <1>7 DEF Elapse
  <2>2. AnswerComes(timers, mailbox, timeout, pong) /\ peer = "prompt"
    BY <1>0, <2>1
  <2>3. \A u \in timers' : \E t \in timers : u = Older(t)
    BY <1>7, ElapseIs
  <2>4. \A t \in timers : Older(t).left = t.left - 1 /\ Older(t).msg = t.msg /\ t.left \in Nat
    BY DEF Older, Typed, Timers
  <2>5. pong # None => pong' # None /\ pong' = pong - 1 /\ pong \in Nat
    BY <2>1, <2>2 DEF Typed
  <2>6. ASSUME NEW u \in timers', u.msg = timeout
        PROVE  \/ pong' # None /\ pong' < u.left
               \/ \E i \in 1..Len(mailbox) : mailbox[i].kind \in FromPeer
    <3>1. PICK t \in timers : u = Older(t)
      BY <2>3
    <3>2. u.left = t.left - 1 /\ t.msg = timeout /\ t.left \in Nat
      BY <2>4, <2>6, <3>1
    <3>3. \/ pong # None /\ pong < t.left
          \/ \E i \in 1..Len(mailbox) : mailbox[i].kind \in FromPeer
      BY <2>2, <3>2 DEF AnswerComes
    <3> QED
      BY <2>5, <3>2, <3>3
  <2> QED
    BY <2>1, <2>2, <2>6 DEF AnswerComes
<1>8. CASE Fire
  <2>1. PICK t \in timers : /\ t.left = 0
                            /\ timers' = timers \ {t} /\ mailbox' = Append(mailbox, t.msg)
                            /\ UNCHANGED <<conn, peer, pong, state>>
    BY <1>8 DEF Fire
  <2>2. AnswerComes(timers, mailbox, timeout, pong)
    BY <1>0, <2>1
  <2>3. t.msg \in Messages
    BY <2>1 DEF Typed, Timers
  <2>4. t.msg = timeout => \E i \in 1..Len(mailbox) : mailbox[i].kind \in FromPeer
    BY <2>1, <2>2 DEF AnswerComes, Typed
  <2>5. AnswerComes(timers', mailbox', timeout, pong')
    BY <2>1, <2>2, <2>3, <2>4, AnswerAppends
  <2> QED
    BY <2>1, <2>5
<1>9. CASE TickWaits
  <2>1. PICK r \in Refs :
          /\ state' = [state EXCEPT !.tick_ref = r]
          /\ timers' = timers \cup {TimerOf(r, Interval, Tick(state.nonce))}
    BY <1>9, TickWaitsIs
  <2>2. Handle("tick") /\ UNCHANGED <<conn, peer, pong>>
    BY <1>9 DEF TickWaits
  <2>3. state'.nonce = state.nonce /\ state'.token = state.token
    BY <2>1 DEF Typed, Fields
  <2>4. AnswerComes(timers, mailbox', timeout, pong)
    BY <1>0, <2>2, <2>3, AnswerHandles DEF FromPeer
  <2>5. \A t \in timers' : t.msg = timeout => t \in timers
    BY <2>1, MessagesDiffer DEF TimerOf
  <2> QED
    BY <2>2, <2>3, <2>4, <2>5 DEF AnswerComes
<1>10. CASE TickPings
  <2>1. PICK token, ref, r \in Refs :
          /\ New(token)
          /\ state' = [nonce |-> state.nonce, tick_ref |-> r,
                       timeout_ref |-> ref, token |-> token]
          /\ timers' = Cancel(timers, state.timeout_ref)
                        \cup {TimerOf(ref, Timeout, TimeoutOf(state.nonce, token)),
                              TimerOf(r, Interval, Tick(state.nonce))}
    BY <1>10, TickPingsIs
  <2> DEFINE t == TimerOf(ref, Timeout, TimeoutOf(state.nonce, token))
             u == TimerOf(r, Interval, Tick(state.nonce))
             ping == TimeoutOf(state.nonce, token)
  <2>2. Handle("tick") /\ peer = "prompt"
        /\ pong' = IF peer # "dead" /\ pong = None THEN Timeout - 1 ELSE pong
    BY <1>10 DEF TickPings
  <2>3. pong' # None /\ pong' < Timeout
    BY <2>2 DEF Typed
  <2>4. t.left = Timeout /\ u.msg # ping /\ ping.token = token
    BY MessagesDiffer DEF TimerOf
  <2>5. state'.nonce = state.nonce /\ state'.token = token
    BY <2>1
  <2>6. timers' = Cancel(timers, state.timeout_ref) \cup {t, u}
    BY <2>1
  <2> HIDE DEF t, u, ping
  <2>7. \A x \in timers' : x.msg = ping => x = t
    BY <2>1, <2>4, <2>6, CancelIs DEF New
  <2>8. /\ \A i \in 1..Len(mailbox') : mailbox'[i] = mailbox[i + 1]
        /\ Len(mailbox) \in Nat /\ Len(mailbox') = Len(mailbox) - 1
    BY <2>2, HandleIs
  <2>9. \A i \in 1..Len(mailbox') : mailbox'[i] # ping
    <3> SUFFICES ASSUME NEW i \in 1..Len(mailbox') PROVE mailbox'[i] # ping
      OBVIOUS
    <3>1. i + 1 \in 1..Len(mailbox) /\ mailbox'[i] = mailbox[i + 1]
      BY <2>8
    <3> QED
      BY <2>1, <2>4, <3>1 DEF New
  <2>10. AnswerComes(timers', mailbox', ping, pong')
    BY <2>3, <2>4, <2>7, <2>9 DEF AnswerComes
  <2> QED
    BY <2>5, <2>10 DEF ping
<1> QED
  BY <1>1, <1>2, <1>3, <1>4, <1>5, <1>6, <1>7, <1>8, <1>9, <1>10 DEF Next

-----------------------------------------------------------------------------
(***************************************************************************)
(* The silence.                                                            *)
(***************************************************************************)
LEMMA ActiveNext ==
    ASSUME Typed, Active, [Next]_vars
    PROVE  Active'
<1>1. CASE UNCHANGED vars
  BY <1>1 DEF vars, Active
<1>2. CASE Elapse
  <2>1. /\ idle' = IF idle < Interval THEN idle + 1 ELSE idle
        /\ quiet' \in {quiet, quiet + 1} /\ conn' = conn
    BY <1>2 DEF Elapse
  <2>2. idle \in 0..Interval /\ quiet \in Nat /\ Interval \in Nat
    BY TimesAssumption DEF Typed
  <2>3. conn = "up" => quiet <= idle \/ idle = Interval
    BY DEF Active
  <2> QED
    BY <2>1, <2>2, <2>3 DEF Active
<1>3. CASE KeepsTimers \/ Fire \/ TickWaits \/ TickPings \/ TimesOut \/ Disconnected
  <2>1. UNCHANGED <<idle, quiet>>
    BY <1>3, KeepsTimersIs DEF Fire, TickWaits, TickPings, TimesOut, Disconnected
  <2>2. conn' = "up" => conn = "up"
    BY <1>3 DEF KeepsTimers, PeerSends, PeerAnswers, PeerSlows, PeerDies, ConnectFails,
                ScreenArrives, Looked, StaleMail, StaleTick, StaleTimeout, Fire, TickWaits,
                TickPings, TimesOut, Disconnected
  <2> QED
    BY <2>1, <2>2 DEF Active
<1>4. CASE HandleFrame \/ HandleControl \/ Connected
  BY <1>4 DEF HandleFrame, HandleControl, NoteActivity, Connected, Active
<1> QED
  BY <1>1, <1>2, <1>3, <1>4 DEF Next, KeepsTimers

\* What KeepsTimers leaves of a connection that is up.
LEMMA KeepsUp == KeepsTimers /\ conn' = "up" => conn = "up"
BY DEF KeepsTimers, PeerSends, PeerAnswers, PeerSlows, PeerDies, ConnectFails, ScreenArrives,
       Looked, StaleMail, StaleTick, StaleTimeout

LEMMA TickIsDueNext ==
    ASSUME Typed, Referred, Beats, Active, TickIsDue, [Next]_vars
    PROVE  TickIsDue'
<1> USE TimesAssumption
<1> DEFINE tick == Tick(state.nonce)
<1> SUFFICES ASSUME conn' = "up", state'.token = None
             PROVE  /\ quiet' < 2 * Interval
                    /\ \A t \in timers' :
                          t.msg = Tick(state'.nonce) => quiet' + t.left < 2 * Interval
  BY DEF TickIsDue
<1>0. conn = "up" /\ state.token = None =>
          /\ quiet < 2 * Interval
          /\ \A t \in timers : t.msg = tick => quiet + t.left < 2 * Interval
  BY DEF TickIsDue
\* Ticks run for an interval, and are the only timers of their message.
<1>1. \A t \in timers : t.msg = tick => t.left \in Nat /\ t.left <= Interval
  BY MessagesDiffer DEF Typed, Timers, Referred, Runs
<1>2. CASE UNCHANGED vars
  BY <1>0, <1>2 DEF vars
<1>3. CASE KeepsTimers
  BY <1>0, <1>3, KeepsTimersIs, KeepsUp
<1>4. CASE Elapse
  <2>1. UNCHANGED <<conn, state>> /\ ~Ready
        /\ quiet' = IF conn = "up" /\ ~busy THEN quiet + 1 ELSE quiet
    BY <1>4 DEF Elapse
  <2>2. /\ \A t \in timers : /\ Older(t) \in timers' /\ t.left \in Nat \ {0}
                            /\ Older(t).left = t.left - 1 /\ Older(t).msg = t.msg
        /\ \A u \in timers' : \E t \in timers : u = Older(t)
    BY <1>4, ElapseIs DEF Older
  <2>3. \A u \in timers' : u.msg = tick => quiet' + u.left < 2 * Interval
    <3> SUFFICES ASSUME NEW u \in timers', u.msg = tick
                 PROVE  quiet' + u.left < 2 * Interval
      OBVIOUS
    <3>1. PICK t \in timers : u = Older(t)
      BY <2>2
    <3>2. t.msg = tick /\ u.left = t.left - 1 /\ t.left \in Nat
      BY <2>2, <3>1
    <3>3. quiet + t.left < 2 * Interval
      BY <1>0, <2>1, <3>2
    <3> QED
      BY <2>1, <3>2, <3>3 DEF Typed
  <2>4. quiet' < 2 * Interval
    <3>1. CASE busy
      BY <1>0, <2>1, <3>1
    <3>2. CASE ~busy
      <4>1. conn = "up" /\ mailbox = << >>
        BY <2>1, <3>2 DEF Ready
      <4>2. Len(mailbox) = 0
        BY <4>1
      <4>3. PICK t \in timers : t.msg = tick
        BY <4>1, <4>2 DEF Beats, TickRuns, TickFired
      <4>4. quiet + t.left < 2 * Interval /\ t.left \in Nat \ {0}
        BY <1>0, <2>1, <2>2, <4>3
      <4> QED
        BY <2>1, <4>4 DEF Typed
    <3> QED
      BY <3>1, <3>2
  <2> QED
    BY <2>1, <2>3, <2>4
<1>5. CASE Fire
  BY <1>0, <1>5 DEF Fire
<1>6. CASE HandleFrame \/ HandleControl
  <2>1. quiet' = 0 /\ timers' \subseteq timers /\ state'.nonce = state.nonce
    BY <1>6, CancelsIs DEF HandleFrame, HandleControl, NoteActivity
  <2> QED
    BY <1>1, <2>1
<1>7. CASE TimesOut \/ Disconnected
  BY <1>7 DEF TimesOut, Disconnected
<1>8. CASE TickWaits
  <2>1. PICK r \in Refs :
          /\ state' = [state EXCEPT !.tick_ref = r]
          /\ timers' = timers \cup {TimerOf(r, Interval, Tick(state.nonce))}
    BY <1>8, TickWaitsIs
  <2>2. /\ state.token # None \/ idle < Interval
        /\ UNCHANGED <<conn, idle, quiet>>
        /\ mailbox[1] = tick /\ Handle("tick")
    BY <1>8, TickWaitsIs DEF TickWaits
  <2>3. state'.nonce = state.nonce /\ state.token = None /\ idle < Interval
    BY <2>1, <2>2 DEF Typed, Fields
  <2>4. quiet < Interval
    BY <2>2, <2>3 DEF Active, Typed
  <2>5. TimerOf(r, Interval, Tick(state.nonce)).left = Interval
    BY DEF TimerOf
  <2>6. \A t \in timers : t.msg # tick
    <3>1. 1 \in 1..Len(mailbox)
      BY <2>2, HandleIs
    <3> QED
      BY <2>2, <3>1 DEF Beats, TickRuns, TickFired
  <2> QED
    BY <2>1, <2>2, <2>3, <2>4, <2>5, <2>6 DEF Typed
<1>9. CASE TickPings
  <2>1. PICK token \in Refs : state'.token = token
    BY <1>9, TickPingsIs
  <2> QED
    BY <2>1, NoneAssumption
<1>10. CASE Connected
  <2>1. PICK nonce, r \in Refs :
          /\ New(nonce)
          /\ state' = [nonce |-> nonce, tick_ref |-> r, timeout_ref |-> None,
                       token |-> None]
          /\ \E ts \in SUBSET timers : timers' = ts \cup {TimerOf(r, Interval, Tick(nonce))}
    BY <1>10, ConnectedIs
  <2>2. state'.nonce = nonce /\ \A t \in timers : t.msg # Tick(nonce)
    BY <2>1, MessagesDiffer DEF New
  <2>3. TimerOf(r, Interval, Tick(nonce)).left = Interval
    BY DEF TimerOf
  <2>4. quiet' = 0
    BY <1>10 DEF Connected
  <2> QED
    BY <2>1, <2>2, <2>3, <2>4
<1> QED
  BY <1>2, <1>3, <1>4, <1>5, <1>6, <1>7, <1>8, <1>9, <1>10 DEF Next, KeepsTimers

LEMMA DueHandles ==
    ASSUME NEW kind, Typed, Handle(kind), NEW timeout, NEW ts, NEW q,
           mailbox[1] # timeout, TimeoutIsDue(ts, mailbox, timeout, q)
    PROVE  TimeoutIsDue(ts, mailbox', timeout, q)
<1>1. /\ Len(mailbox) \in Nat \ {0} /\ Len(mailbox') = Len(mailbox) - 1
      /\ \A i \in 1..Len(mailbox') : mailbox'[i] = mailbox[i + 1]
  BY HandleIs
<1>2. ASSUME NEW i \in 1..Len(mailbox), mailbox[i] = timeout
      PROVE  i - 1 \in 1..Len(mailbox') /\ mailbox'[i - 1] = timeout
  BY <1>1, <1>2
<1> QED
  BY <1>2 DEF TimeoutIsDue

LEMMA DueAppends ==
    ASSUME Typed, NEW m \in Messages, mailbox' = Append(mailbox, m),
           NEW timeout, NEW ts, NEW us, NEW q, TimeoutIsDue(ts, mailbox, timeout, q),
           \A t \in ts : t.msg = timeout => t \in us \/ m = timeout
    PROVE  TimeoutIsDue(us, mailbox', timeout, q)
<1>1. /\ Len(mailbox) \in Nat /\ Len(mailbox') = Len(mailbox) + 1
      /\ mailbox'[Len(mailbox) + 1] = m
      /\ \A i \in 1..Len(mailbox) : mailbox'[i] = mailbox[i]
  BY AppendIs
<1>2. 1..Len(mailbox) \subseteq 1..Len(mailbox') /\ Len(mailbox) + 1 \in 1..Len(mailbox')
  BY <1>1
<1> QED
  BY <1>1, <1>2 DEF TimeoutIsDue

LEMMA AwaitedNext ==
    ASSUME Typed, Awaited, TickIsDue, [Next]_vars
    PROVE  Awaited'
<1> USE TimesAssumption, NoneAssumption
<1> SUFFICES ASSUME conn' = "up", state'.token # None
             PROVE  TimeoutIsDue(timers', mailbox',
                                 TimeoutOf(state'.nonce, state'.token), quiet')
  BY DEF Awaited
<1> DEFINE timeout == TimeoutOf(state.nonce, state.token)
<1>0. conn = "up" /\ state.token # None => TimeoutIsDue(timers, mailbox, timeout, quiet)
  BY DEF Awaited
<1>1. CASE UNCHANGED vars
  BY <1>0, <1>1 DEF vars
<1>2. CASE PeerSends \/ PeerAnswers
  <2>1. PICK k \in FromPeer : mailbox' = Append(mailbox, Mail(k))
    BY <1>2 DEF PeerSends, PeerAnswers, FromPeer
  <2>2. UNCHANGED <<conn, timers, state, quiet>>
    BY <1>2 DEF PeerSends, PeerAnswers
  <2>3. Mail(k) \in Messages
    BY MessageIs
  <2>4. TimeoutIsDue(timers, mailbox', timeout, quiet)
    BY <1>0, <2>1, <2>2, <2>3, DueAppends
  <2> QED
    BY <2>2, <2>4
<1>3. CASE PeerSlows \/ PeerDies \/ ScreenArrives
  BY <1>0, <1>3 DEF PeerSlows, PeerDies, ScreenArrives
<1>4. CASE ConnectFails \/ Looked \/ TimesOut \/ Disconnected
  BY <1>4 DEF ConnectFails, Looked, TimesOut, Disconnected
<1>5. CASE StaleMail \/ StaleTick \/ StaleTimeout
  <2>1. /\ UNCHANGED <<conn, timers, state, quiet>>
        /\ \E kind : Handle(kind) /\ mailbox[1] # timeout
    BY <1>5, HandleIs, MessagesDiffer DEF StaleMail, StaleTick, StaleTimeout
  <2> QED
    BY <1>0, <2>1, DueHandles
<1>6. CASE HandleFrame \/ HandleControl \/ Connected
  <2>1. state'.token = None
    BY <1>6, CancelsIs, ConnectedIs
  <2> QED
    BY <2>1
<1>7. CASE Elapse
  <2>1. UNCHANGED <<conn, state, mailbox>> /\ ~Ready
        /\ quiet' = IF conn = "up" /\ ~busy THEN quiet + 1 ELSE quiet
    BY <1>7 DEF Elapse
  <2>2. TimeoutIsDue(timers, mailbox, timeout, quiet) /\ quiet \in Nat
    BY <1>0, <2>1 DEF Typed
  <2>3. \A t \in timers : /\ Older(t) \in timers' /\ t.left \in Nat \ {0}
                         /\ Older(t).left = t.left - 1 /\ Older(t).msg = t.msg
    BY <1>7, ElapseIs DEF Older
  <2>4. CASE \E t \in timers : t.msg = timeout /\ quiet + t.left < 2 * Interval + Timeout
    <3>1. PICK t \in timers : t.msg = timeout /\ quiet + t.left < 2 * Interval + Timeout
      BY <2>4
    <3>2. /\ Older(t) \in timers' /\ Older(t).msg = timeout
          /\ quiet' + Older(t).left < 2 * Interval + Timeout
          /\ quiet' < 2 * Interval + Timeout
      BY <2>1, <2>2, <2>3, <3>1
    <3> QED
      BY <2>1, <3>2 DEF TimeoutIsDue
  <2>5. CASE \E i \in 1..Len(mailbox) : mailbox[i] = timeout
    <3>1. mailbox # << >>
      BY <2>5
    <3>2. busy
      BY <2>1, <3>1 DEF Ready
    <3> QED
      BY <2>1, <2>2, <2>5, <3>2 DEF TimeoutIsDue
  <2> QED
    BY <2>2, <2>4, <2>5 DEF TimeoutIsDue
<1>8. CASE Fire
  <2>1. PICK t \in timers : timers' = timers \ {t} /\ mailbox' = Append(mailbox, t.msg)
                            /\ UNCHANGED <<conn, state, quiet>>
    BY <1>8 DEF Fire
  <2>2. t.msg \in Messages
    BY <2>1 DEF Typed, Timers
  <2>3. \A u \in timers : u.msg = timeout => u \in timers' \/ t.msg = timeout
    BY <2>1
  <2>4. TimeoutIsDue(timers', mailbox', timeout, quiet)
    BY <1>0, <2>1, <2>2, <2>3, DueAppends
  <2> QED
    BY <2>1, <2>4
<1>9. CASE TickWaits
  <2>1. PICK r \in Refs :
          /\ state' = [state EXCEPT !.tick_ref = r]
          /\ timers' = timers \cup {TimerOf(r, Interval, Tick(state.nonce))}
    BY <1>9, TickWaitsIs
  <2>2. Handle("tick") /\ mailbox[1] # timeout /\ UNCHANGED <<conn, quiet>>
    BY <1>9, TickWaitsIs, MessagesDiffer DEF TickWaits
  <2>3. state'.nonce = state.nonce /\ state'.token = state.token
    BY <2>1 DEF Typed, Fields
  <2>4. TimeoutIsDue(timers, mailbox', timeout, quiet)
    BY <1>0, <2>2, <2>3, DueHandles
  <2>5. timers \subseteq timers'
    BY <2>1
  <2> QED
    BY <2>2, <2>3, <2>4, <2>5 DEF TimeoutIsDue
<1>10. CASE TickPings
  <2>1. PICK token, ref, r \in Refs :
          /\ state' = [nonce |-> state.nonce, tick_ref |-> r,
                       timeout_ref |-> ref, token |-> token]
          /\ timers' = Cancel(timers, state.timeout_ref)
                        \cup {TimerOf(ref, Timeout, TimeoutOf(state.nonce, token)),
                              TimerOf(r, Interval, Tick(state.nonce))}
    BY <1>10, TickPingsIs
  <2> DEFINE t == TimerOf(ref, Timeout, TimeoutOf(state.nonce, token))
  <2>2. conn = "up" /\ state.token = None /\ quiet' = quiet
    BY <1>10, HandleIs DEF TickPings
  <2>3. quiet < 2 * Interval /\ quiet \in Nat
    BY <2>2 DEF TickIsDue, Typed
  <2>4. t \in timers' /\ t.left = Timeout /\ t.msg = TimeoutOf(state'.nonce, state'.token)
    BY <2>1 DEF TimerOf
  <2>5. quiet' + Timeout < 2 * Interval + Timeout /\ quiet' < 2 * Interval + Timeout
    BY <2>2, <2>3
  <2> HIDE DEF t
  <2> QED
    BY <2>4, <2>5 DEF TimeoutIsDue
<1> QED
  BY <1>1, <1>2, <1>3, <1>4, <1>5, <1>6, <1>7, <1>8, <1>9, <1>10 DEF Next

-----------------------------------------------------------------------------
(***************************************************************************)
(* The theorems.                                                           *)
(***************************************************************************)
LEMMA InvInit == Init => Inv
<1> SUFFICES ASSUME Init PROVE Inv
  OBVIOUS
<1>1. Typed
  BY TypedInit
<1>2. Referred /\ Apart /\ Beats /\ Answered /\ LiveNeverTimedOut /\ Active /\ TickIsDue
      /\ Awaited
  BY DEF Init, Referred, Apart, Beats, Answered, LiveNeverTimedOut, Active, TickIsDue, Awaited
<1> QED
  BY <1>1, <1>2 DEF Inv

LEMMA InvNext == Inv /\ [Next]_vars => Inv'
BY TypedNext, ReferredNext, ApartNext, BeatsNext, AnsweredNext, TimedOutNext, ActiveNext,
   TickIsDueNext, AwaitedNext DEF Inv

\* The inductive invariant holds in every reachable state.
THEOREM Invariance == Spec => []Inv
<1>1. Init => Inv
  BY InvInit
<1>2. Inv /\ [Next]_vars => Inv'
  BY InvNext
<1> QED
  BY <1>1, <1>2, PTL DEF Spec

\* Type correctness.
THEOREM TypeCorrect == Spec => []TypeOK
<1>1. Inv => TypeOK
  BY TypedIsTypeOK DEF Inv
<1> QED
  BY <1>1, Invariance, PTL

\* A connection whose peer answers pings in time is never ended by its heartbeat,
\* for any interval and timeout and whatever is left of earlier connections and
\* pings in timers and mailbox.
THEOREM LiveOnesStay == Spec => []LiveNeverTimedOut
<1>1. Inv => LiveNeverTimedOut
  BY DEF Inv
<1> QED
  BY <1>1, Invariance, PTL

\* A peer that is silent is given up before two intervals and a timeout are over.
THEOREM DeadOnesAreNoticed == Spec => []DeadNoticedInTime
<1>1. Inv => DeadNoticedInTime
  <2> SUFFICES ASSUME Inv, conn = "up" PROVE quiet < 2 * Interval + Timeout
    BY DEF DeadNoticedInTime
  <2>1. CASE state.token = None
    BY <2>1, TimesAssumption DEF Inv, TickIsDue, Typed
  <2>2. CASE state.token # None
    BY <2>2 DEF Inv, Awaited, TimeoutIsDue
  <2> QED
    BY <2>1, <2>2
<1> QED
  BY <1>1, Invariance, PTL

\* A connection has one tick at any time, running or in the mailbox.
THEOREM HeartbeatIsOne == Spec => []OneHeartbeat
<1>1. Inv => OneHeartbeat
  <2> SUFFICES ASSUME Inv, conn = "up" PROVE OneHeartbeat
    BY DEF OneHeartbeat
  <2> DEFINE tick == Tick(state.nonce)
             running == {t \in timers : t.msg = tick}
             fired == {i \in DOMAIN mailbox : mailbox[i] = tick}
  <2>1. DOMAIN mailbox = 1..Len(mailbox)
    BY LenProperties DEF Inv, Typed
  <2>2. ASSUME NEW S, NEW x, S = {x} PROVE Cardinality(S) = 1
    BY <2>2, FS_Singleton
  <2>3. Cardinality({}) = 0
    BY FS_EmptySet
  <2>4. CASE TickRuns(timers, mailbox, tick)
    <3>1. PICK t \in timers : t.msg = tick /\ \A u \in timers : u.msg = tick => u = t
      BY <2>4 DEF TickRuns
    <3>2. running = {t} /\ fired = {}
      BY <2>1, <2>4, <3>1 DEF TickRuns
    <3>3. Cardinality(running) = 1 /\ Cardinality(fired) = 0
      BY <2>2, <2>3, <3>2
    <3> QED
      BY <3>3 DEF OneHeartbeat
  <2>5. CASE TickFired(timers, mailbox, tick)
    <3>1. PICK i \in 1..Len(mailbox) :
            mailbox[i] = tick /\ \A j \in 1..Len(mailbox) : mailbox[j] = tick => j = i
      BY <2>5 DEF TickFired
    <3>2. running = {} /\ fired = {i}
      BY <2>1, <2>5, <3>1 DEF TickFired
    <3>3. Cardinality(running) = 0 /\ Cardinality(fired) = 1
      BY <2>2, <2>3, <3>2
    <3> QED
      BY <3>3 DEF OneHeartbeat
  <2> QED
    BY <2>4, <2>5 DEF Inv, Beats
<1> QED
  BY <1>1, Invariance, PTL
=============================================================================
