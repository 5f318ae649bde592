-------------------------- MODULE TerminalLiveProofs --------------------------
(***************************************************************************)
(* Theorems about TerminalLive, for any sessions, panes and bounds: what a *)
(* session subscribes to and shows is what it has selected, through every  *)
(* path that changes the selection.                                        *)
(***************************************************************************)
EXTENDS TerminalLive, SequenceTheorems, TLAPS

Steps == {"list", "sync", "poll", "refresh", "screen", "select", "create", "kill", "resize"}

Lives == {"new", "live", "ended", "gone"}

States == {"none", "connecting", "up", "publishing", "looking"}

Pane == [life : Lives, grouped : BOOLEAN, version : Nat]

Socks == [st : States, frame : BOOLEAN, screen : Screens \cup {None}]

Assigns ==
    [open : BOOLEAN, todo : Seq(Steps),
     listed : SUBSET Panes, targets : SUBSET Panes, panes : SUBSET Panes, filter : BOOLEAN,
     buffers : [Panes -> Screens \cup {None}], selected : Panes \cup {None},
     screen : Screens \cup {None}, mail : Seq(Screens)]

-----------------------------------------------------------------------------
(***************************************************************************)
(* The inductive invariant.                                                *)
(***************************************************************************)
\* A buffer holds screens of its pane.
Sorted(u) == \A p \in Panes : u.buffers[p] # None => u.buffers[p][1] = p

\* A selected pane's screen is fetched before anything else the handler has to do.
FetchesFirst(u) == \A i \in 2..Len(u.todo) : u.todo[i] # "screen"

Fetches(u) == u.todo # << >> /\ Head(u.todo) = "screen"

\* Nothing is left of a session that is closed: its subscriptions are given up
\* with its selection.
Forgets(u) == ~u.open => u.selected = None /\ u.todo = << >>

Sound(u) == /\ u \in Assigns
            /\ Len(u.mail) <= MaxMail
            /\ Sorted(u)
            /\ FetchesFirst(u)
            /\ Forgets(u)

Settled(u) == u.screen = IF u.selected = None THEN None ELSE u.buffers[u.selected]

\* What is shown is of the selected pane, or will be by the handler's next step.
Good(u) == /\ Sound(u)
           /\ IF Fetches(u) THEN u.selected \in Panes ELSE Settled(u)

Sockets(sk) == /\ sk \in [Panes -> Socks]
               /\ \A p \in Panes : sk[p].st = "publishing" => sk[p].screen \in Screens

Serving == /\ server \in [Panes -> Pane]
           /\ Sockets(sock)
           /\ restarts \in 0..MaxRestarts
           /\ events \in 0..MaxEvents

Browsing == /\ session \in [Sessions -> Assigns]
            /\ \A s \in Sessions : Good(session[s])

Following == /\ subscribed \in [Sessions -> [Panes -> {0, 1}]]
             /\ SubscribedToSelected

Inv == Serving /\ Browsing /\ Following

LEMMA InitInv == Init => Inv
<1> SUFFICES ASSUME Init PROVE Inv
  OBVIOUS
<1>1. Serving
  <2>1. server \in [Panes -> Pane]
    BY DEF Init, Pane, Lives
  <2> QED
    BY <2>1, BoundsAssumption DEF Init, Serving, Sockets, Socks, States, NoSocket
<1>2. Browsing
  <2>1. Closed \in Assigns
    BY DEF Closed, Assigns
  <2>2. Good(Closed)
    BY <2>1, BoundsAssumption
       DEF Good, Sound, Sorted, FetchesFirst, Forgets, Fetches, Settled, Closed
  <2> QED
    BY <2>1, <2>2 DEF Init, Browsing
<1>3. Following
  BY NoneAssumption DEF Init, Following, SubscribedToSelected, Closed
<1> QED
  BY <1>1, <1>2, <1>3 DEF Inv

-----------------------------------------------------------------------------
(***************************************************************************)
(* What the parts of a handler make of a session's assigns.                *)
(***************************************************************************)
LEMMA StepsAre == /\ "screen" \in Steps /\ "list" \in Steps /\ "sync" \in Steps
                  /\ "poll" \in Steps /\ "refresh" \in Steps /\ "select" \in Steps
                  /\ "create" \in Steps /\ "kill" \in Steps /\ "resize" \in Steps
BY DEF Steps

\* What is left of a handler fetches no screen.
Clean(u) == \A i \in 1..Len(u.todo) : u.todo[i] # "screen"

LEMMA CleanFetchesNothing ==
  ASSUME NEW u \in Assigns, Clean(u)
  PROVE  ~Fetches(u) /\ FetchesFirst(u)
BY DEF Clean, Fetches, FetchesFirst, Assigns

\* The step that is done is taken off; what is left is without a screen to fetch.
LEMMA RestIsClean ==
  ASSUME NEW u, Sound(u), u.todo # << >>
  PROVE  /\ Sound(Rest(u)) /\ Clean(Rest(u))
         /\ Rest(u).selected = u.selected /\ Rest(u).screen = u.screen
         /\ Rest(u).buffers = u.buffers /\ Rest(u).panes = u.panes
         /\ Rest(u).targets = u.targets /\ Rest(u).open
<1> DEFINE rest == Tail(u.todo)
           r == Rest(u)
<1>1. /\ u \in Assigns /\ u.todo \in Seq(Steps) /\ u.open
  BY DEF Sound, Forgets, Assigns
<1>2. /\ rest \in Seq(Steps) /\ Len(rest) = Len(u.todo) - 1
      /\ \A i \in 1..Len(rest) : rest[i] = u.todo[i + 1]
  BY <1>1, HeadTailProperties
<1>3. r = [u EXCEPT !.todo = rest, !.listed = {}]
  BY DEF Rest
<1> HIDE DEF r, rest
<1>4. r \in Assigns
  BY <1>1, <1>2, <1>3 DEF Assigns
<1>5. /\ r.todo = rest /\ r.selected = u.selected /\ r.screen = u.screen
      /\ r.buffers = u.buffers /\ r.panes = u.panes
      /\ r.targets = u.targets /\ r.open = u.open /\ r.mail = u.mail
  BY <1>1, <1>3 DEF Assigns
<1>6. Clean(r)
  <2> SUFFICES ASSUME NEW i \in 1..Len(rest) PROVE rest[i] # "screen"
    BY <1>5 DEF Clean
  <2> QED
    BY <1>1, <1>2 DEF Sound, FetchesFirst
<1>7. Sound(r)
  BY <1>1, <1>4, <1>5, <1>6, CleanFetchesNothing DEF Sound, Sorted, Forgets
<1> QED
  BY <1>1, <1>5, <1>6, <1>7 DEF r

\* A program is begun, or its rest done, that fetches no screen.
LEMMA CleanIsGood ==
  ASSUME NEW u, Sound(u), Clean(u), Settled(u)
  PROVE  Good(u)
BY CleanFetchesNothing DEF Good, Sound

\* A step that fetches no screen leaves what is shown as it is.
LEMMA RestIsGood ==
  ASSUME NEW u, Good(u), u.todo # << >>, Head(u.todo) # "screen"
  PROVE  Good(Rest(u)) /\ Settled(Rest(u))
<1>1. Sound(u) /\ Settled(u)
  BY DEF Good, Fetches
<1>2. Settled(Rest(u))
  BY <1>1, RestIsClean DEF Settled
<1> QED
  BY <1>1, <1>2, RestIsClean, CleanIsGood

\* A handler that adds "screen" to what it has to do shows it in its next step.
LEMMA SelectedIsGood ==
  ASSUME NEW u, Sound(u), Clean(u), u.open, NEW p \in Panes
  PROVE  Good([u EXCEPT !.selected = p, !.todo = <<"screen">> \o @])
<1> DEFINE todo == <<"screen">> \o u.todo
           v == [u EXCEPT !.selected = p, !.todo = todo]
<1>1. u \in Assigns /\ u.todo \in Seq(Steps)
  BY DEF Sound, Assigns
<1>2. /\ todo \in Seq(Steps) /\ todo # << >> /\ Head(todo) = "screen"
      /\ Len(todo) = Len(u.todo) + 1
      /\ \A i \in 2..Len(todo) : todo[i] = u.todo[i - 1]
  BY <1>1, StepsAre
<1> HIDE DEF todo
<1>3. v \in Assigns
  BY <1>1, <1>2 DEF Assigns
<1>4. /\ v.todo = todo /\ v.selected = p /\ v.open
      /\ v.buffers = u.buffers /\ v.mail = u.mail
  BY <1>1 DEF Assigns
<1> HIDE DEF v
<1>5. FetchesFirst(v)
  <2> SUFFICES ASSUME NEW i \in 2..Len(todo) PROVE todo[i] # "screen"
    BY <1>4 DEF FetchesFirst
  <2> QED
    BY <1>1, <1>2 DEF Clean
<1>6. Sound(v)
  BY <1>3, <1>4, <1>5 DEF Sound, Sorted, Forgets
<1>7. Good(v)
  BY <1>2, <1>4, <1>6 DEF Good, Fetches
<1> QED
  BY <1>7 DEF v, todo

\* What the server lists, and what a handler is to act on, show nothing.
LEMMA ListedIsGood ==
  ASSUME NEW u, Good(u)
  PROVE  /\ Good(Listed(u)) /\ Listed(u).selected = u.selected
         /\ Listed(u).open = u.open /\ Listed(u).todo = u.todo
<1> DEFINE listed == {p \in Panes : Exists(p) /\ (u.filter => server[p].grouped)}
           v == [u EXCEPT !.listed = listed]
<1>1. u \in Assigns /\ listed \in SUBSET Panes /\ Listed(u) = v
  BY DEF Good, Sound, Listed
<1> HIDE DEF listed
<1>2. v \in Assigns
  BY <1>1 DEF Assigns
<1>3. /\ v.todo = u.todo /\ v.selected = u.selected /\ v.screen = u.screen
      /\ v.buffers = u.buffers /\ v.open = u.open /\ v.mail = u.mail
  BY <1>1 DEF Assigns
<1> HIDE DEF v
<1> QED
  BY <1>1, <1>2, <1>3
     DEF Good, Sound, Sorted, FetchesFirst, Forgets, Fetches, Settled

LEMMA TargetsAreGood ==
  ASSUME NEW u, Good(u), NEW targets \in SUBSET Panes
  PROVE  LET v == [u EXCEPT !.targets = targets]
         IN  /\ Good(v) /\ v.selected = u.selected
             /\ v.open = u.open /\ v.todo = u.todo
<1> DEFINE v == [u EXCEPT !.targets = targets]
<1>1. u \in Assigns
  BY DEF Good, Sound
<1>2. v \in Assigns
  BY <1>1 DEF Assigns
<1>3. /\ v.todo = u.todo /\ v.selected = u.selected /\ v.screen = u.screen
      /\ v.buffers = u.buffers /\ v.open = u.open /\ v.mail = u.mail
  BY <1>1 DEF Assigns
<1> HIDE DEF v
<1>4. Good(v) /\ v.selected = u.selected
  BY <1>1, <1>2, <1>3
     DEF Good, Sound, Sorted, FetchesFirst, Forgets, Fetches, Settled
<1> QED
  BY <1>3, <1>4 DEF v

\* A handler begins with what it has to do, of which showing a screen is no part.
LEMMA ProgramIsGood ==
  ASSUME NEW u, Good(u), u.open, u.todo = << >>,
         NEW program \in Seq(Steps), \A i \in 1..Len(program) : program[i] # "screen"
  PROVE  /\ Good([u EXCEPT !.todo = program])
         /\ [u EXCEPT !.todo = program].selected = u.selected
<1> DEFINE v == [u EXCEPT !.todo = program]
<1>1. u \in Assigns /\ Settled(u)
  BY DEF Good, Sound, Fetches
<1>2. v \in Assigns
  BY <1>1 DEF Assigns
<1>3. /\ v.todo = program /\ v.selected = u.selected /\ v.screen = u.screen
      /\ v.buffers = u.buffers /\ v.open = u.open /\ v.mail = u.mail
  BY <1>1 DEF Assigns
<1> HIDE DEF v
<1>4. Clean(v) /\ Settled(v)
  BY <1>1, <1>3 DEF Clean, Settled
<1>5. Sound(v)
  BY <1>2, <1>3, <1>4, CleanFetchesNothing DEF Good, Sound, Sorted, Forgets
<1>6. Good(v) /\ v.selected = u.selected
  BY <1>3, <1>4, <1>5, CleanIsGood
<1> QED
  BY <1>6 DEF v

\* A screen is put into its own pane's buffer, and shown if that is selected.
LEMMA ScreenIsTaken ==
  ASSUME NEW u, Sound(u), NEW screen \in Screens,
         Settled(u) \/ screen[1] = u.selected
  PROVE  LET v == UpdatePaneBuffer(u, screen)
         IN  /\ Sound(v) /\ Settled(v)
             /\ v.selected = u.selected /\ v.todo = u.todo
<1> DEFINE v == UpdatePaneBuffer(u, screen)
           p == screen[1]
           buffers == [u.buffers EXCEPT ![p] = screen]
           shown == IF u.selected = p THEN screen ELSE u.screen
<1>1. u \in Assigns /\ p \in Panes
  BY DEF Sound, Screens
<1>2. v = [u EXCEPT !.buffers = buffers, !.screen = shown]
  BY <1>1 DEF UpdatePaneBuffer, Assigns
<1>3. buffers \in [Panes -> Screens \cup {None}] /\ shown \in Screens \cup {None}
  BY <1>1 DEF Assigns
<1>4. \A q \in Panes : buffers[q] = IF q = p THEN screen ELSE u.buffers[q]
  BY <1>1 DEF Assigns
<1>5. Settled(u) \/ p = u.selected
  OBVIOUS
<1>6. shown = IF u.selected = p THEN screen ELSE u.screen
  OBVIOUS
<1>7. p = screen[1]
  OBVIOUS
<1> HIDE DEF v, buffers, shown, p
<1>8. v \in Assigns
  BY <1>1, <1>2, <1>3 DEF Assigns
<1>9. /\ v.todo = u.todo /\ v.selected = u.selected /\ v.screen = shown
      /\ v.buffers = buffers /\ v.open = u.open /\ v.mail = u.mail
  BY <1>1, <1>2 DEF Assigns
<1>10. Sound(v)
  BY <1>4, <1>7, <1>8, <1>9 DEF Sound, Sorted, FetchesFirst, Forgets
<1>11. Settled(v)
  BY <1>1, <1>4, <1>5, <1>6, <1>9, NoneAssumption DEF Settled, Assigns
<1> QED
  BY <1>9, <1>10, <1>11 DEF v

LEMMA BufferIsGood ==
  ASSUME NEW u, Sound(u), Clean(u), u.selected \in Panes
  PROVE  LET v == [u EXCEPT !.screen = u.buffers[u.selected]]
         IN  Good(v) /\ v.selected = u.selected
<1> DEFINE v == [u EXCEPT !.screen = u.buffers[u.selected]]
<1>1. u \in Assigns
  BY DEF Sound
<1>2. v \in Assigns
  BY <1>1 DEF Assigns
<1>3. /\ v.todo = u.todo /\ v.selected = u.selected /\ v.screen = u.buffers[u.selected]
      /\ v.buffers = u.buffers /\ v.open = u.open /\ v.mail = u.mail
  BY <1>1 DEF Assigns
<1> HIDE DEF v
<1>4. Sound(v) /\ Clean(v) /\ Settled(v)
  BY <1>2, <1>3, NoneAssumption
     DEF Sound, Sorted, FetchesFirst, Forgets, Clean, Settled
<1>5. Good(v) /\ v.selected = u.selected
  BY <1>3, <1>4, CleanIsGood
<1> QED
  BY <1>5 DEF v

LEMMA FetchedIsGood ==
  ASSUME NEW u, Sound(u), Clean(u), u.selected \in Panes, Serving
  PROVE  Good(GetScreen(u)) /\ GetScreen(u).selected = u.selected
<1>1. u \in Assigns
  BY DEF Sound
<1>2. CASE Exists(u.selected)
  <2> DEFINE screen == ScreenOf(u.selected)
             v == UpdatePaneBuffer(u, screen)
  <2>1. screen \in Screens /\ screen[1] = u.selected
    BY DEF Serving, Pane, ScreenOf, Screens
  <2> HIDE DEF screen
  <2>2. Sound(v) /\ Settled(v) /\ v.selected = u.selected /\ v.todo = u.todo
    BY <2>1, ScreenIsTaken
  <2> HIDE DEF v
  <2>3. Clean(v)
    BY <2>2 DEF Clean
  <2> QED
    BY <1>2, <2>2, <2>3, CleanIsGood DEF GetScreen, v, screen
<1>3. CASE ~Exists(u.selected)
  BY <1>3, BufferIsGood DEF GetScreen
<1> QED
  BY <1>2, <1>3

-----------------------------------------------------------------------------
(***************************************************************************)
(* Sockets and server.                                                     *)
(***************************************************************************)
LEMMA SocketsKeep ==
  ASSUME NEW sk, Sockets(sk), NEW p \in Panes, NEW ps
  PROVE  /\ Sockets(EnsureStarted(sk, p))
         /\ Sockets(Stop(sk, ps))
         /\ Sockets(Told(sk, p))
<1>1. Sockets(EnsureStarted(sk, p))
  BY DEF EnsureStarted, Sockets, Socks, States
<1>2. Sockets(Stop(sk, ps))
  BY DEF Stop, NoSocket, Sockets, Socks, States
<1>3. Sockets(Told(sk, p))
  BY DEF Told, Sockets, Socks, States
<1> QED
  BY <1>1, <1>2, <1>3

LEMMA Elsewhere ==
  ASSUME Inv, UNCHANGED <<session, subscribed>>, Serving'
  PROVE  Inv'
BY DEF Inv, Browsing, Following, SubscribedToSelected

LEMMA InvServer ==
  ASSUME Inv, NEW p \in Panes, Output(p) \/ Change(p) \/ Others(p)
  PROVE  Inv'
<1>0. events \in 0..MaxEvents /\ events' \in 0..MaxEvents
  BY BoundsAssumption DEF Inv, Serving, Output, Change, Others, Count
<1>1. CASE Output(p)
  <2>1. server' \in [Panes -> Pane]
    BY <1>1 DEF Output, Outputs, Inv, Serving, Pane
  <2>2. Serving'
    BY <1>0, <1>1, <2>1, SocketsKeep DEF Output, Inv, Serving
  <2> QED
    BY <1>1, <2>2, Elsewhere DEF Output
<1>2. CASE Change(p)
  <2>1. server' \in [Panes -> Pane]
    BY <1>2 DEF Change, Inv, Serving, Pane, Lives
  <2>2. Serving'
    BY <1>0, <1>2, <2>1 DEF Change, Inv, Serving
  <2> QED
    BY <1>2, <2>2, Elsewhere DEF Change
<1>3. CASE Others(p)
  <2>1. Serving'
    BY <1>0, <1>3, SocketsKeep DEF Others, Inv, Serving
  <2> QED
    BY <1>3, <2>1, Elsewhere DEF Others
<1> QED
  BY <1>1, <1>2, <1>3

LEMMA InvSocket ==
  ASSUME Inv, NEW p \in Panes,
         Connect(p) \/ FetchScreen(p) \/ Disconnect(p) \/ Looked(p)
  PROVE  Inv'
<1>1. CASE Connect(p)
  <2>1. Sockets(sock')
    BY <1>1 DEF Connect, Inv, Serving, Sockets, Socks, States, Pane
  <2>2. Serving'
    BY <1>1, <2>1 DEF Connect, Inv, Serving
  <2> QED
    BY <1>1, <2>2, Elsewhere DEF Connect
<1>2. CASE FetchScreen(p)
  <2>1. ScreenOf(p) \in Screens
    BY DEF Inv, Serving, Pane, ScreenOf, Screens
  <2>2. Sockets(sock')
    BY <1>2, <2>1 DEF FetchScreen, Inv, Serving, Sockets, Socks, States
  <2>3. Serving'
    BY <1>2, <2>2 DEF FetchScreen, Inv, Serving
  <2> QED
    BY <1>2, <2>3, Elsewhere DEF FetchScreen
<1>3. CASE Disconnect(p)
  <2>1. Sockets(sock')
    BY <1>3 DEF Disconnect, NoSocket, Inv, Serving, Sockets, Socks, States
  <2>2. Serving'
    BY <1>3, <2>1, BoundsAssumption DEF Disconnect, Count, Inv, Serving
  <2> QED
    BY <1>3, <2>2, Elsewhere DEF Disconnect
<1>4. CASE Looked(p)
  <2>0. Sockets([sock EXCEPT ![p].st = "connecting"])
    BY DEF Inv, Serving, Sockets, Socks, States
  <2>1. Sockets(Stop(sock, Panes))
    BY SocketsKeep DEF Inv, Serving
  <2>2. Sockets(sock') /\ restarts' \in 0..MaxRestarts
    BY <1>4, <2>0, <2>1, BoundsAssumption DEF Looked, Inv, Serving
  <2>3. Serving'
    BY <1>4, <2>2 DEF Looked, Inv, Serving
  <2> QED
    BY <1>4, <2>3, Elsewhere DEF Looked
<1> QED
  BY <1>1, <1>2, <1>3, <1>4

\* Messages change what a session has still to handle, and nothing it shows.
LEMMA MailIsGood ==
  ASSUME NEW u, Good(u), NEW mail \in Seq(Screens), Len(mail) <= MaxMail
  PROVE  /\ Good([u EXCEPT !.mail = mail])
         /\ [u EXCEPT !.mail = mail].selected = u.selected
<1> DEFINE v == [u EXCEPT !.mail = mail]
<1>1. u \in Assigns
  BY DEF Good, Sound
<1>2. v \in Assigns
  BY <1>1 DEF Assigns
<1>3. /\ v.todo = u.todo /\ v.selected = u.selected /\ v.screen = u.screen
      /\ v.buffers = u.buffers /\ v.open = u.open /\ v.mail = mail
  BY <1>1 DEF Assigns
<1> HIDE DEF v
<1>4. Good(v) /\ v.selected = u.selected
  BY <1>1, <1>2, <1>3
     DEF Good, Sound, Sorted, FetchesFirst, Forgets, Fetches, Settled
<1> QED
  BY <1>4 DEF v

LEMMA InvPublish ==
  ASSUME Inv, NEW p \in Panes, Publish(p)
  PROVE  Inv'
<1> DEFINE Copies(s) == [i \in 1..subscribed[s][p] |-> sock[p].screen]
           mail(s) == session[s].mail \o Copies(s)
           Mailed(s) == [session[s] EXCEPT !.mail = mail(s)]
<1>1. Sockets(sock')
  BY DEF Publish, Inv, Serving, Sockets, Socks, States
<1>2. Serving'
  BY <1>1 DEF Publish, Inv, Serving
<1>3. ASSUME NEW s \in Sessions
      PROVE  mail(s) \in Seq(Screens) /\ Len(mail(s)) <= MaxMail
  <2>1. sock[p].screen \in Screens /\ subscribed[s][p] \in Nat
    BY DEF Publish, Inv, Serving, Sockets, Following
  <2>2. Copies(s) \in Seq(Screens)
    BY <2>1
  <2>3. session[s].mail \in Seq(Screens)
    BY DEF Inv, Browsing, Assigns
  <2>4. Len(mail(s)) <= MaxMail
    BY DEF Publish
  <2>5. mail(s) \in Seq(Screens)
    BY <2>2, <2>3
  <2> QED
    BY <2>4, <2>5
<1>4. session' = [s \in Sessions |-> Mailed(s)]
  BY DEF Publish
<1> HIDE DEF mail
<1>5. ASSUME NEW s \in Sessions
      PROVE  Good(Mailed(s)) /\ Mailed(s) \in Assigns /\ Mailed(s).selected = session[s].selected
  BY <1>3, MailIsGood DEF Inv, Browsing, Good, Sound
<1> HIDE DEF Mailed
<1>6. Browsing'
  BY <1>4, <1>5 DEF Browsing
<1>7. Following'
  <2>1. subscribed' = subscribed
    BY DEF Publish
  <2> QED
    BY <1>4, <1>5, <2>1 DEF Inv, Following, SubscribedToSelected
<1> QED
  BY <1>2, <1>6, <1>7 DEF Inv

-----------------------------------------------------------------------------
(***************************************************************************)
(* Sessions.                                                               *)
(***************************************************************************)
LEMMA SelectionKept ==
  ASSUME Inv, NEW s \in Sessions, NEW v, Good(v), v.selected = session[s].selected,
         Set(s, v), UNCHANGED subscribed
  PROVE  Browsing' /\ Following'
<1>1. v \in Assigns
  BY DEF Good, Sound
<1>2. session' = [session EXCEPT ![s] = v]
  BY DEF Set
<1>3. Browsing'
  BY <1>1, <1>2 DEF Inv, Browsing
<1>4. Following'
  BY <1>2 DEF Inv, Browsing, Following, SubscribedToSelected
<1> QED
  BY <1>3, <1>4

\* configure_selected_pane_stream: the old pane's subscription goes with the
\* selection, the new pane's comes with it, and neither if they are one.
LEMMA SelectionFollowed ==
  ASSUME Inv, NEW s \in Sessions, NEW u, Sound(u), Clean(u), u.open,
         u.selected = session[s].selected,
         NEW p \in Panes \cup {None}, NEW sk, Sockets(sk), SelectPaneIn(s, u, p, sk)
  PROVE  Browsing' /\ Following' /\ Sockets(sock')
<1>1. PICK v : /\ session' = [session EXCEPT ![s] = v]
               /\ v = IF p = None THEN [u EXCEPT !.selected = None, !.screen = None]
                      ELSE [u EXCEPT !.selected = p, !.todo = <<"screen">> \o @]
  BY DEF SelectPaneIn, Set
<1>2. u \in Assigns
  BY DEF Sound
<1>3. Good(v) /\ v.selected = p
  <2>1. CASE p = None
    <3>1. v = [u EXCEPT !.selected = None, !.screen = None]
      BY <1>1, <2>1
    <3>2. v \in Assigns
      BY <1>2, <3>1 DEF Assigns
    <3>3. /\ v.todo = u.todo /\ v.selected = None /\ v.screen = None
          /\ v.buffers = u.buffers /\ v.open /\ v.mail = u.mail
      BY <1>2, <3>1 DEF Assigns
    <3>4. Sound(v) /\ Clean(v) /\ Settled(v)
      BY <3>2, <3>3 DEF Sound, Sorted, FetchesFirst, Forgets, Clean, Settled
    <3> QED
      BY <2>1, <3>3, <3>4, CleanIsGood
  <2>2. CASE p # None
    <3>1. p \in Panes /\ v = [u EXCEPT !.selected = p, !.todo = <<"screen">> \o @]
      BY <1>1, <2>2
    <3>2. Good(v)
      BY <3>1, SelectedIsGood
    <3> QED
      BY <1>2, <3>1, <3>2 DEF Assigns
  <2> QED
    BY <2>1, <2>2
<1>4. Browsing'
  BY <1>1, <1>3 DEF Inv, Browsing, Good, Sound
<1>5. Following'
  <2>1. subscribed' = [subscribed EXCEPT ![s] = Resubscribed(subscribed[s], u.selected, p)]
    BY DEF SelectPaneIn
  <2>2. \A q \in Panes :
          subscribed[s][q] = IF u.selected = q THEN 1 ELSE 0
    BY DEF Inv, Following, SubscribedToSelected
  <2> DEFINE subs == Resubscribed(subscribed[s], u.selected, p)
  <2>3. /\ subs \in [Panes -> {0, 1}]
        /\ \A q \in Panes : subs[q] = IF p = q THEN 1 ELSE 0
    <3>1. subscribed[s] \in [Panes -> {0, 1}]
      BY DEF Inv, Following
    <3> QED
      BY <2>2, <3>1 DEF Resubscribed
  <2> HIDE DEF subs
  <2>4. subscribed' = [subscribed EXCEPT ![s] = subs]
    BY <2>1 DEF subs
  <2> QED
    BY <1>1, <1>3, <2>3, <2>4 DEF Inv, Browsing, Following, SubscribedToSelected
<1>6. Sockets(sock')
  BY SocketsKeep DEF SelectPaneIn
<1> QED
  BY <1>4, <1>5, <1>6

LEMMA Beginning ==
  ASSUME Inv, NEW s \in Sessions, NEW u, Good(u), u.open, u.todo = << >>,
         u.selected = session[s].selected,
         NEW program \in Seq(Steps), \A i \in 1..Len(program) : program[i] # "screen",
         Begin(s, u, program), UNCHANGED events \/ Count
  PROVE  Inv'
<1>1. Serving'
  BY BoundsAssumption DEF Begin, Count, Inv, Serving
<1> DEFINE v == [u EXCEPT !.todo = program]
<1>2. Good(v) /\ v.selected = session[s].selected
  BY ProgramIsGood
<1>3. Set(s, v) /\ UNCHANGED subscribed
  BY DEF Begin
<1> HIDE DEF v
<1> QED
  BY <1>1, <1>2, <1>3, SelectionKept DEF Inv

LEMMA InvUser ==
  ASSUME Inv, NEW s \in Sessions, User(s) \/ Poll(s)
  PROVE  Inv'
<1> DEFINE u == session[s]
<1>1. Good(u) /\ u \in Assigns
  BY DEF Inv, Browsing
<1>2. CASE Mount(s)
  <2> DEFINE c == [Closed EXCEPT !.open = TRUE]
  <2>1. Closed \in Assigns
    BY DEF Closed, Assigns
  <2>2. c \in Assigns /\ c.open /\ c.todo = << >> /\ c.selected = None /\ c.screen = None
        /\ c.mail = << >> /\ c.buffers = [p \in Panes |-> None]
    BY <2>1 DEF Closed, Assigns
  <2> HIDE DEF c
  <2>3. Good(c)
    BY <2>2, BoundsAssumption
       DEF Good, Sound, Sorted, FetchesFirst, Forgets, Fetches, Settled
  <2>4. u.selected = None
    BY <1>1, <1>2 DEF Mount, Good, Sound, Forgets
  <2> DEFINE v == Listed(c)
  <2>5. Good(v) /\ v.open /\ v.todo = << >> /\ v.selected = u.selected
    BY <2>2, <2>3, <2>4, ListedIsGood
  <2>6. Begin(s, v, <<"sync", "refresh">>) /\ UNCHANGED events
    BY <1>2 DEF Mount, c
  <2> HIDE DEF v
  <2>7. /\ <<"sync", "refresh">> \in Seq(Steps)
        /\ \A i \in 1..Len(<<"sync", "refresh">>) : <<"sync", "refresh">>[i] # "screen"
    BY StepsAre
  <2> QED
    BY <2>5, <2>6, <2>7, Beginning
<1>3. CASE Leave(s)
  <2>1. Serving'
    BY <1>3, BoundsAssumption DEF Leave, Count, Inv, Serving
  <2>2. Closed \in Assigns
    BY DEF Closed, Assigns
  <2>3. Good(Closed)
    BY <2>2, BoundsAssumption
       DEF Good, Sound, Sorted, FetchesFirst, Forgets, Fetches, Settled, Closed
  <2>4. Browsing'
    BY <1>3, <2>2, <2>3 DEF Leave, Set, Inv, Browsing
  <2>5. Closed.selected = None
    BY DEF Closed
  <2>6. Following'
    BY <1>3, <2>5, NoneAssumption
       DEF Leave, Set, Inv, Browsing, Following, SubscribedToSelected
  <2> QED
    BY <2>1, <2>4, <2>6 DEF Inv
<1>4. CASE SelectPane(s)
  <2>1. PICK p \in u.panes : SelectPaneIn(s, u, p, sock)
    BY <1>4 DEF SelectPane
  <2>2. p \in Panes /\ Sound(u) /\ Clean(u) /\ u.open
    BY <1>1, <1>4 DEF SelectPane, Idle, Good, Clean, Assigns
  <2>3. Browsing' /\ Following' /\ Sockets(sock')
    BY <2>1, <2>2, SelectionFollowed DEF Inv, Serving
  <2>4. Serving'
    BY <1>4, <2>3, BoundsAssumption DEF SelectPane, Count, Inv, Serving
  <2> QED
    BY <2>3, <2>4 DEF Inv
<1>5. CASE Poll(s)
  <2>1. Good(Listed(u)) /\ Listed(u).open /\ Listed(u).todo = << >>
        /\ Listed(u).selected = u.selected
    BY <1>1, <1>5, ListedIsGood DEF Poll, Idle
  <2>2. /\ <<"sync", "poll">> \in Seq(Steps)
        /\ \A i \in 1..Len(<<"sync", "poll">>) : <<"sync", "poll">>[i] # "screen"
    BY StepsAre
  <2> QED
    BY <1>5, <2>1, <2>2, Beginning DEF Poll
<1>6. CASE SelectGroup(s)
  <2> DEFINE f == [u EXCEPT !.filter = ~u.filter]
  <2>1. /\ f \in Assigns
        /\ f.todo = u.todo /\ f.selected = u.selected /\ f.screen = u.screen
        /\ f.buffers = u.buffers /\ f.open = u.open /\ f.mail = u.mail
    BY <1>1 DEF Assigns
  <2>2. Begin(s, Listed(f), <<"sync">>) /\ Count
    BY <1>6 DEF SelectGroup
  <2> HIDE DEF f
  <2>3. Good(f)
    BY <1>1, <2>1 DEF Good, Sound, Sorted, FetchesFirst, Forgets, Fetches, Settled
  <2>4. Good(Listed(f)) /\ Listed(f).open /\ Listed(f).todo = << >>
        /\ Listed(f).selected = u.selected
    BY <1>6, <2>1, <2>3, ListedIsGood DEF SelectGroup, Idle
  <2>5. <<"sync">> \in Seq(Steps) /\ \A i \in 1..Len(<<"sync">>) : <<"sync">>[i] # "screen"
    BY StepsAre
  <2> QED
    BY <2>2, <2>4, <2>5, Beginning
<1>7. CASE NewPane(s)
  <2> DEFINE program == <<"create", "list", "sync", "refresh", "select">>
  <2>1. program \in Seq(Steps) /\ \A i \in 1..Len(program) : program[i] # "screen"
    BY StepsAre
  <2> QED
    BY <1>1, <1>7, <2>1, Beginning DEF NewPane, Idle
<1>8. CASE KillPane(s)
  <2>1. PICK p \in u.panes : Begin(s, [u EXCEPT !.targets = {p}],
                                   <<"kill", "list", "sync", "refresh">>)
    BY <1>8 DEF KillPane
  <2> DEFINE v == [u EXCEPT !.targets = {p}]
             program == <<"kill", "list", "sync", "refresh">>
  <2>2. {p} \in SUBSET Panes
    BY <1>1 DEF Assigns
  <2>3. Good(v) /\ v.open /\ v.todo = << >> /\ v.selected = u.selected
    BY <1>1, <1>8, <2>2, TargetsAreGood DEF KillPane, Idle
  <2>4. program \in Seq(Steps) /\ \A i \in 1..Len(program) : program[i] # "screen"
    BY StepsAre
  <2> HIDE DEF v, program
  <2>5. Begin(s, v, program) /\ Count
    BY <1>8, <2>1 DEF KillPane, v, program
  <2> QED
    BY <2>3, <2>4, <2>5, Beginning
<1>9. CASE ApplySizeSettings(s)
  <2>1. PICK ps \in SUBSET u.panes : Begin(s, [u EXCEPT !.targets = ps],
                                           <<"resize", "list", "sync", "refresh">>)
    BY <1>9 DEF ApplySizeSettings
  <2> DEFINE v == [u EXCEPT !.targets = ps]
             program == <<"resize", "list", "sync", "refresh">>
  <2>2. ps \in SUBSET Panes
    BY <1>1 DEF Assigns
  <2>3. Good(v) /\ v.open /\ v.todo = << >> /\ v.selected = u.selected
    BY <1>1, <1>9, <2>2, TargetsAreGood DEF ApplySizeSettings, Idle
  <2>4. program \in Seq(Steps) /\ \A i \in 1..Len(program) : program[i] # "screen"
    BY StepsAre
  <2> HIDE DEF v, program
  <2>5. Begin(s, v, program) /\ Count
    BY <1>9, <2>1 DEF ApplySizeSettings, v, program
  <2> QED
    BY <2>3, <2>4, <2>5, Beginning
<1> QED
  BY <1>2, <1>3, <1>4, <1>5, <1>6, <1>7, <1>8, <1>9 DEF User

\* Screens arrive between two handlers, of whichever pane.
LEMMA InvScreenUpdate ==
  ASSUME Inv, NEW s \in Sessions, ScreenUpdate(s)
  PROVE  Inv'
<1> DEFINE u == session[s]
           mail == Tail(u.mail)
           screen == Head(u.mail)
           w == [u EXCEPT !.mail = mail]
           v == UpdatePaneBuffer(w, screen)
<1>1. Good(u) /\ u \in Assigns /\ u.todo = << >> /\ u.mail \in Seq(Screens) /\ u.mail # << >>
  BY DEF Inv, Browsing, ScreenUpdate, Idle, Assigns
<1>2. mail \in Seq(Screens) /\ screen \in Screens /\ Len(mail) <= MaxMail
  BY <1>1, HeadTailProperties, BoundsAssumption DEF Good, Sound
<1>3. Set(s, v) /\ UNCHANGED <<server, sock, restarts, subscribed, events>>
  BY DEF ScreenUpdate
<1> HIDE DEF mail, screen, v
<1>4. Good(w) /\ w.selected = u.selected /\ w.todo = << >>
  BY <1>1, <1>2, MailIsGood DEF Assigns
<1> HIDE DEF w
<1>5. Sound(w) /\ Settled(w)
  BY <1>4 DEF Good, Fetches
<1>6. Sound(v) /\ Settled(v) /\ v.selected = u.selected /\ v.todo = << >>
  BY <1>2, <1>4, <1>5, ScreenIsTaken DEF v
<1>7. Good(v)
  BY <1>6, CleanIsGood DEF Clean
<1>8. Serving'
  BY <1>3 DEF Inv, Serving
<1> QED
  BY <1>3, <1>6, <1>7, <1>8, SelectionKept DEF Inv

LEMMA InvSyncPanes ==
  ASSUME Inv, NEW s \in Sessions, SyncPanes(s)
  PROVE  Inv'
<1> DEFINE u == session[s]
           r == Rest(u)
           panes == u.listed
           sk == Stop(sock, u.panes \ panes)
           buffers == [p \in Panes |-> IF p \in panes THEN r.buffers[p] ELSE None]
           v == [r EXCEPT !.panes = panes, !.buffers = buffers]
<1>1. Good(u) /\ u \in Assigns /\ panes \in SUBSET Panes /\ u.todo # << >>
  BY DEF Inv, Browsing, SyncPanes, AtStep, Assigns
<1>2. Sockets(sk)
  BY SocketsKeep DEF Inv, Serving, Sockets, Stop, NoSocket, Socks, States
<1>3. \/ panes = {} /\ SelectPaneIn(s, v, None, sk)
      \/ \E first \in panes : SelectPaneIn(s, v, first, sk)
      \/ /\ u.selected \in panes /\ sock' = sk /\ UNCHANGED subscribed
         /\ Set(s, IF v.buffers[u.selected] = None
                   THEN [v EXCEPT !.todo = <<"screen">> \o @]
                   ELSE [v EXCEPT !.screen = v.buffers[u.selected]])
  BY DEF SyncPanes
<1>4. UNCHANGED <<server, restarts, events>>
  BY DEF SyncPanes
<1>5. Sound(r) /\ Clean(r) /\ r.selected = u.selected /\ r.open
  BY <1>1, RestIsClean DEF Good
<1> HIDE DEF r, sk, panes
<1>6. v.selected = u.selected /\ v.open /\ Sound(v) /\ Clean(v)
  <2>1. r \in Assigns
    BY <1>5 DEF Sound
  <2>2. buffers \in [Panes -> Screens \cup {None}]
    BY <2>1 DEF Assigns
  <2>3. \A p \in Panes : buffers[p] # None => buffers[p][1] = p
    BY <1>5 DEF Sound, Sorted
  <2> HIDE DEF buffers
  <2>4. v \in Assigns
    BY <1>1, <2>1, <2>2 DEF Assigns
  <2>5. /\ v.todo = r.todo /\ v.selected = r.selected /\ v.open = r.open
        /\ v.buffers = buffers /\ v.mail = r.mail
    BY <2>1 DEF Assigns
  <2> HIDE DEF v
  <2> QED
    BY <1>5, <2>3, <2>4, <2>5 DEF Sound, Sorted, FetchesFirst, Forgets, Clean
<1> HIDE DEF v, buffers
<1>7. CASE panes = {} /\ SelectPaneIn(s, v, None, sk)
  <2>1. Browsing' /\ Following' /\ Sockets(sock')
    BY <1>2, <1>6, <1>7, SelectionFollowed
  <2> QED
    BY <1>4, <2>1 DEF Inv, Serving
<1>8. ASSUME NEW first \in panes, SelectPaneIn(s, v, first, sk)
      PROVE  Inv'
  <2>1. Browsing' /\ Following' /\ Sockets(sock')
    BY <1>1, <1>2, <1>6, <1>8, SelectionFollowed
  <2> QED
    BY <1>4, <2>1 DEF Inv, Serving
<1>9. ASSUME u.selected \in panes, sock' = sk, UNCHANGED subscribed,
             Set(s, IF v.buffers[u.selected] = None
                    THEN [v EXCEPT !.todo = <<"screen">> \o @]
                    ELSE [v EXCEPT !.screen = v.buffers[u.selected]])
      PROVE  Inv'
  <2>1. PICK w : /\ Set(s, w)
                 /\ \/ w = [v EXCEPT !.todo = <<"screen">> \o @]
                    \/ w = [v EXCEPT !.screen = v.buffers[v.selected]]
    BY <1>6, <1>9
  <2>2. v.selected \in Panes /\ v \in Assigns
    BY <1>1, <1>6, <1>9 DEF Sound
  <2>3. Good(w) /\ w.selected = v.selected
    <3>1. CASE w = [v EXCEPT !.todo = <<"screen">> \o @]
      <4> DEFINE x == [v EXCEPT !.selected = v.selected, !.todo = <<"screen">> \o @]
      <4>1. Good(x)
        BY <1>6, <2>2, SelectedIsGood
      <4>2. w = x /\ w.selected = v.selected
        BY <2>2, <3>1 DEF Assigns
      <4> QED
        BY <4>1, <4>2
    <3>2. CASE w = [v EXCEPT !.screen = v.buffers[v.selected]]
      BY <1>6, <2>2, <3>2, BufferIsGood
    <3> QED
      BY <2>1, <3>1, <3>2
  <2>4. Serving'
    BY <1>2, <1>4, <1>9 DEF Inv, Serving
  <2> QED
    BY <1>6, <1>9, <2>1, <2>3, <2>4, SelectionKept DEF Inv
<1> QED
  BY <1>3, <1>7, <1>8, <1>9

\* A screen is fetched, or what is left of the handler shows what was shown.
LEMMA InvShowing ==
  ASSUME Inv, NEW s \in Sessions, ShowSelected(s) \/ RefreshSelected(s)
  PROVE  Inv'
<1> DEFINE u == session[s]
           r == Rest(u)
<1>1. Good(u) /\ u \in Assigns /\ u.todo # << >> /\ Serving
  BY DEF Inv, Browsing, ShowSelected, RefreshSelected, AtStep
<1>2. Sound(r) /\ Clean(r) /\ r.selected = u.selected
  BY <1>1, RestIsClean DEF Good
<1>3. CASE ShowSelected(s)
  <2>1. u.selected \in Panes
    BY <1>1, <1>3 DEF ShowSelected, AtStep, Good, Fetches
  <2>2. Set(s, GetScreen(r)) /\ UNCHANGED <<server, sock, restarts, subscribed, events>>
    BY <1>3 DEF ShowSelected
  <2> HIDE DEF r
  <2>3. Good(GetScreen(r)) /\ GetScreen(r).selected = u.selected
    BY <1>1, <1>2, <2>1, FetchedIsGood
  <2>4. Serving'
    BY <2>2 DEF Inv, Serving
  <2> QED
    BY <2>2, <2>3, <2>4, SelectionKept DEF Inv
<1>4. CASE RefreshSelected(s)
  <2>1. /\ sock' = sock \/ (u.selected \in u.panes /\ sock' = EnsureStarted(sock, u.selected))
        /\ UNCHANGED <<server, restarts, subscribed, events>>
    BY <1>4 DEF RefreshSelected
  <2>2. Set(s, IF u.selected \in u.panes THEN GetScreen(r) ELSE r)
    BY <1>4 DEF RefreshSelected
  <2>3. Head(u.todo) # "screen"
    BY <1>4 DEF RefreshSelected, AtStep
  <2>4. Good(r)
    BY <1>1, <2>3, RestIsGood
  <2>5. u.panes \subseteq Panes
    BY <1>1 DEF Assigns
  <2> HIDE DEF r
  <2>6. Serving'
    BY <2>1, <2>5, SocketsKeep DEF Inv, Serving
  <2>7. CASE u.selected \in u.panes
    <3>1. Good(GetScreen(r)) /\ GetScreen(r).selected = u.selected
      BY <1>1, <1>2, <2>5, <2>7, FetchedIsGood
    <3> QED
      BY <2>1, <2>2, <2>6, <2>7, <3>1, SelectionKept DEF Inv
  <2>8. CASE u.selected \notin u.panes
    BY <1>2, <2>1, <2>2, <2>4, <2>6, <2>8, SelectionKept DEF Inv
  <2> QED
    BY <2>7, <2>8
<1> QED
  BY <1>3, <1>4

LEMMA InvHandler ==
  ASSUME Inv, NEW s \in Sessions,
         ListPanes(s) \/ CreatePane(s) \/ SelectNewPane(s) \/ Kill(s) \/ Resize(s)
  PROVE  Inv'
<1> DEFINE u == session[s]
           r == Rest(u)
           t(ps) == [r EXCEPT !.targets = ps]
<1>1. Good(u) /\ u \in Assigns /\ u.todo # << >> /\ Head(u.todo) # "screen" /\ u.targets \subseteq Panes
  BY DEF Inv, Browsing, ListPanes, CreatePane, SelectNewPane, Kill, Resize, AtStep, Assigns
<1>2. /\ Sound(r) /\ Clean(r) /\ Good(r) /\ r.open
      /\ r.selected = u.selected
  BY <1>1, RestIsClean, RestIsGood DEF Good
<1> HIDE DEF r
<1>3. ASSUME NEW ps \in SUBSET Panes
      PROVE  Good(t(ps)) /\ t(ps).selected = u.selected /\ t(ps).open /\ t(ps).todo = r.todo
  BY <1>2, TargetsAreGood
<1> HIDE DEF t
<1>4. CASE ListPanes(s)
  <2>1. Set(s, Listed(r)) /\ UNCHANGED <<server, sock, restarts, subscribed, events>>
    BY <1>4 DEF ListPanes, r
  <2>2. Good(Listed(r)) /\ Listed(r).selected = u.selected
    BY <1>2, ListedIsGood
  <2>3. Serving'
    BY <2>1 DEF Inv, Serving
  <2> QED
    BY <2>1, <2>2, <2>3, SelectionKept DEF Inv
<1>5. CASE CreatePane(s)
  <2>1. UNCHANGED <<sock, restarts, subscribed, events>>
    BY <1>5 DEF CreatePane
  <2>2. CASE Set(s, r) /\ UNCHANGED server
    <3>1. Serving'
      BY <2>1, <2>2 DEF Inv, Serving
    <3> QED
      BY <1>2, <2>1, <2>2, <3>1, SelectionKept DEF Inv
  <2>3. ASSUME NEW p \in Panes, server' = [server EXCEPT ![p].life = "live"], Set(s, t({p}))
        PROVE  Inv'
    <3>1. server' \in [Panes -> Pane]
      BY <2>3 DEF Inv, Serving, Pane, Lives
    <3>2. Serving'
      BY <2>1, <3>1 DEF Inv, Serving
    <3>3. Good(t({p})) /\ t({p}).selected = u.selected
      BY <1>3
    <3> QED
      BY <2>1, <2>3, <3>2, <3>3, SelectionKept DEF Inv
  <2> QED
    BY <1>5, <2>2, <2>3 DEF CreatePane, r, t
<1>6. CASE SelectNewPane(s)
  <2> DEFINE id == IF u.targets = {} THEN None ELSE CHOOSE p \in u.targets : TRUE
  <2>1. SelectPaneIn(s, t({}), id, sock) /\ UNCHANGED <<server, restarts, events>>
    BY <1>6 DEF SelectNewPane, r, t
  <2>2. id \in Panes \cup {None}
    BY <1>1
  <2> HIDE DEF id
  <2>3. Sound(t({})) /\ Clean(t({})) /\ t({}).open /\ t({}).selected = u.selected
    <3>1. Good(t({})) /\ t({}).open /\ t({}).selected = u.selected /\ t({}).todo = r.todo
      BY <1>3
    <3> QED
      BY <1>2, <3>1 DEF Good, Clean
  <2>4. Browsing' /\ Following' /\ Sockets(sock')
    BY <2>1, <2>2, <2>3, SelectionFollowed DEF Inv, Serving
  <2> QED
    BY <2>1, <2>4 DEF Inv, Serving
<1>7. CASE Kill(s)
  <2>1. /\ server' = [p \in Panes |-> IF p \in u.targets
                                      THEN [server[p] EXCEPT !.life = "gone"] ELSE server[p]]
        /\ UNCHANGED <<sock, restarts, subscribed, events>>
    BY <1>7 DEF Kill
  <2>2. Set(s, t({}))
    BY <1>7 DEF Kill, r, t
  <2>3. server' \in [Panes -> Pane]
    BY <2>1 DEF Inv, Serving, Pane, Lives
  <2>4. Serving'
    BY <2>1, <2>3 DEF Inv, Serving
  <2>5. Good(t({})) /\ t({}).selected = u.selected
    BY <1>3
  <2> QED
    BY <2>1, <2>2, <2>4, <2>5, SelectionKept DEF Inv
<1>8. CASE Resize(s)
  <2>1. UNCHANGED <<sock, restarts, subscribed, events>>
    BY <1>8 DEF Resize
  <2>2. CASE Set(s, r) /\ UNCHANGED server
    <3>1. Serving'
      BY <2>1, <2>2 DEF Inv, Serving
    <3> QED
      BY <1>2, <2>1, <2>2, <3>1, SelectionKept DEF Inv
  <2>3. ASSUME NEW p \in u.targets, server' = Outputs(server, p),
               Set(s, [u EXCEPT !.targets = u.targets \ {p}])
        PROVE  Inv'
    <3>1. server' \in [Panes -> Pane]
      BY <1>1, <2>3 DEF Outputs, Inv, Serving, Pane
    <3>2. Sockets(sock')
      BY <2>1 DEF Inv, Serving, Sockets
    <3>3. Serving'
      BY <2>1, <3>1, <3>2 DEF Inv, Serving
    <3> DEFINE v == [u EXCEPT !.targets = u.targets \ {p}]
    <3>4. Good(v) /\ v.selected = u.selected
      BY <1>1, TargetsAreGood
    <3> HIDE DEF v
    <3>5. Set(s, v)
      BY <2>3 DEF v
    <3> QED
      BY <2>1, <3>3, <3>4, <3>5, SelectionKept DEF Inv
  <2>4. ASSUME Set(s, [u EXCEPT !.targets = {}, !.todo = << >>]), UNCHANGED server
        PROVE  Inv'
    <3> DEFINE none == << >>
               v == [u EXCEPT !.targets = {}, !.todo = none]
    <3>0. none \in Seq(Steps)
      OBVIOUS
    <3> HIDE DEF none
    <3>1. v \in Assigns
      BY <1>1, <3>0 DEF Assigns
    <3>2. /\ v.todo = << >> /\ v.selected = u.selected /\ v.screen = u.screen
          /\ v.buffers = u.buffers /\ v.open = u.open /\ v.mail = u.mail
      BY <1>1 DEF Assigns, none
    <3> HIDE DEF v
    <3>3. Good(v)
      BY <1>1, <3>1, <3>2
         DEF Good, Sound, Sorted, FetchesFirst, Forgets, Fetches, Settled
    <3>4. Serving'
      BY <2>1, <2>4 DEF Inv, Serving
    <3>5. Set(s, v)
      BY <2>4 DEF v, none
    <3> QED
      BY <2>1, <3>2, <3>3, <3>4, <3>5, SelectionKept DEF Inv
  <2> QED
    BY <1>8, <2>2, <2>3, <2>4 DEF Resize, r
<1> QED
  BY <1>4, <1>5, <1>6, <1>7, <1>8

-----------------------------------------------------------------------------
LEMMA InvNext == Inv /\ [Next]_vars => Inv'
<1> SUFFICES ASSUME Inv, [Next]_vars PROVE Inv'
  OBVIOUS
<1>1. CASE UNCHANGED vars
  BY <1>1, Elsewhere DEF vars, Inv, Serving
<1>2. ASSUME NEW s \in Sessions, User(s) \/ Poll(s) \/ ScreenUpdate(s) \/ Handle(s)
      PROVE  Inv'
  BY <1>2, InvUser, InvScreenUpdate, InvSyncPanes, InvShowing, InvHandler DEF Handle
<1>3. ASSUME NEW p \in Panes,
             Output(p) \/ Change(p) \/ Others(p) \/ Disconnect(p) \/ Socket(p)
      PROVE  Inv'
  BY <1>3, InvServer, InvSocket, InvPublish DEF Socket
<1>4. CASE WindowPasses
  <2>1. Serving'
    BY <1>4, BoundsAssumption DEF WindowPasses, Inv, Serving
  <2> QED
    BY <1>4, <2>1, Elsewhere DEF WindowPasses
<1> QED
  BY <1>1, <1>2, <1>3, <1>4 DEF Next

\* The invariant that the results below rest on: whatever users, ticks, sockets,
\* panes and other sessions do, and in whichever order, no step leads out of it.
THEOREM Invariance == Spec => []Inv
BY InitInv, InvNext, PTL DEF Spec

\* Server, sockets, sessions and subscriptions keep to their types; among them a
\* session holds no more than one subscription to a pane.
THEOREM TypeCorrect == Spec => []TypeOK
<1>1. Inv => TypeOK
  BY DEF Inv, Serving, Browsing, Following, Sockets, Good, Sound, TypeOK,
         Pane, Lives, Socks, States, Assigns, Steps
<1> QED
  BY <1>1, Invariance, PTL

\* Between two handlers a session shows the screen in the buffer of the pane it
\* has selected, which is a screen of that pane, whatever came late or by a
\* socket that it had left (update_pane_buffer, sync_panes, select_pane).
THEOREM ShowsItsSelection == Spec => []ScreenIsOfSelected
<1>1. Inv => ScreenIsOfSelected
  <2> SUFFICES ASSUME Inv, NEW s \in Sessions, Idle(s)
               PROVE  LET u == session[s]
                      IN  /\ u.screen = IF u.selected = None THEN None
                                        ELSE u.buffers[u.selected]
                          /\ u.screen # None => u.screen[1] = u.selected
    BY DEF ScreenIsOfSelected
  <2> DEFINE u == session[s]
  <2>1. Sorted(u) /\ Settled(u) /\ u \in Assigns
    BY DEF Inv, Browsing, Good, Sound, Idle, Fetches
  <2> QED
    BY <2>1 DEF Sorted, Settled, Assigns
<1> QED
  BY <1>1, Invariance, PTL

\* Through every click, poll, filter, creation, deletion and loss, a session is
\* subscribed once to the pane it has selected and to no other
\* (configure_selected_pane_stream).
THEOREM SubscribedOnce == Spec => []SubscribedToSelected
<1>1. Inv => SubscribedToSelected
  BY DEF Inv, Following
<1> QED
  BY <1>1, Invariance, PTL

=============================================================================
