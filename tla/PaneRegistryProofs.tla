-------------------------- MODULE PaneRegistryProofs --------------------------
(***************************************************************************)
(* What PaneRegistry guarantees for any panes, requests, lifecycle         *)
(* connections and channel capacity.                                       *)
(***************************************************************************)
EXTENDS PaneRegistry, SequenceTheorems, FiniteSetTheorems, TLAPS

-----------------------------------------------------------------------------
(***************************************************************************)
(* Type correctness.                                                       *)
(***************************************************************************)
DeletionType ==
    [pc : {"start", "walk", "resolved", "removed", "killed", "kill_failed",
           "no_content", "ambiguous", "not_found", "internal_error"},
     key : Panes \cup {Name}, todo : SUBSET Named, id : Panes \cup {None}]

EventType == [kind : {"created", "deleted"}, id : Panes]

WatcherType == [pc : {"absent", "snapshot", "loop"}, rx : Nat,
                todo : SUBSET Panes, listing : SUBSET Panes, view : SUBSET Panes]

\* The request that is being served has a pane once its id is resolved.
HasPane == \A d \in Deletes :
    deletion[d].pc \in {"resolved", "removed", "killed", "kill_failed"} =>
        deletion[d].id \in Panes

Typed == TypeOK /\ HasPane

LEMMA TypedInit == Init => Typed
BY DEF Init, Typed, TypeOK, HasPane, Absent

LEMMA TypedCreating ==
    ASSUME Typed, NEW p \in Panes, Creating(p)
    PROVE  Typed'
<1> USE DEF Typed, TypeOK, HasPane
<1>1. CASE Spawn(p)
  BY <1>1 DEF Spawn
<1>2. CASE Insert(p)
  BY <1>2 DEF Insert
<1>3. CASE SendCreated(p)
  <2>1. Created(p) \in EventType
    BY DEF Created, EventType
  <2>2. Append(events, Created(p)) \in Seq(EventType)
    BY <2>1, AppendProperties DEF EventType
  <2> QED
    BY <1>3, <2>2 DEF SendCreated, EventType
<1> QED
  BY <1>1, <1>2, <1>3 DEF Creating

LEMMA TypedDeleting ==
    ASSUME Typed, NEW d \in Deletes,
           ResolveId(d) \/ BeginWalk(d) \/ Deleting(d)
    PROVE  Typed'
<1> DEFINE k == deletion[d]
<1>0. /\ k \in DeletionType /\ deletion \in [Deletes -> DeletionType]
      /\ panes \subseteq Panes /\ killed \subseteq Panes /\ HasPane
      /\ events \in Seq(EventType)
      /\ k.pc \in {"resolved", "removed", "killed", "kill_failed"} => k.id \in Panes
  BY DEF Typed, TypeOK, HasPane, DeletionType, EventType
\* What a step has to show of the request it serves.
<1>1. ASSUME NEW r \in DeletionType, deletion' = [deletion EXCEPT ![d] = r],
             r.pc \in {"resolved", "removed", "killed", "kill_failed"} => r.id \in Panes,
             panes' \subseteq Panes, killed' \subseteq Panes, events' \in Seq(EventType),
             UNCHANGED <<creation, watcher>>
      PROVE  Typed'
  BY <1>0, <1>1 DEF Typed, TypeOK, HasPane, DeletionType, EventType
<1>2. ASSUME NEW pc \in {"resolved", "removed", "killed", "kill_failed",
                         "no_content", "not_found", "internal_error"}, GoOn(d, pc),
             k.id \in Panes \/ pc = "not_found",
             panes' \subseteq Panes, killed' \subseteq Panes, events' \in Seq(EventType),
             UNCHANGED <<creation, watcher>>
      PROVE  Typed'
  <2>1. [k EXCEPT !.pc = pc] \in DeletionType
    BY <1>0 DEF DeletionType
  <2>2. [k EXCEPT !.pc = pc].pc = pc /\ [k EXCEPT !.pc = pc].id = k.id
    BY <1>0 DEF DeletionType
  <2>3. deletion' = [deletion EXCEPT ![d] = [k EXCEPT !.pc = pc]]
    BY <1>0, <1>2 DEF GoOn
  <2> QED
    BY <1>1, <1>2, <2>1, <2>2, <2>3
<1>3. CASE ResolveId(d)
  <2> DEFINE pc == IF k.key \in panes THEN "resolved" ELSE "not_found"
             r == [k EXCEPT !.pc = pc, !.id = k.key]
  <2>1. k.key \in Panes
    BY <1>3 DEF ResolveId
  <2>2. r \in DeletionType /\ r.id = k.key
    BY <1>0, <2>1 DEF DeletionType
  <2>3. deletion' = [deletion EXCEPT ![d] = r]
    BY <1>0, <1>3 DEF ResolveId
  <2> QED
    BY <1>0, <1>1, <1>3, <2>1, <2>2, <2>3 DEF ResolveId
<1>4. CASE BeginWalk(d)
  <2> DEFINE r == [k EXCEPT !.pc = "walk", !.todo = Named]
  <2>1. r \in DeletionType /\ r.pc = "walk"
    BY <1>0 DEF DeletionType
  <2>2. deletion' = [deletion EXCEPT ![d] = r]
    BY <1>0, <1>4 DEF BeginWalk
  <2> QED
    BY <1>0, <1>1, <1>4, <2>1, <2>2 DEF BeginWalk
<1>5. CASE Look(d)
  <2>1. PICK p \in k.todo :
          deletion' = [deletion EXCEPT
             ![d].todo = @ \ {p},
             ![d].id = IF p \in panes THEN p ELSE @,
             ![d].pc = IF p \in panes /\ k.id # None THEN "ambiguous" ELSE @]
    BY <1>5 DEF Look
  <2> DEFINE r == [k EXCEPT !.todo = @ \ {p},
                            !.id = IF p \in panes THEN p ELSE @,
                            !.pc = IF p \in panes /\ k.id # None THEN "ambiguous" ELSE @]
  <2>2. k.pc = "walk"
    BY <1>5 DEF Look, At
  <2>3. r \in DeletionType /\ r.pc \in {"walk", "ambiguous"}
    BY <1>0, <2>2 DEF DeletionType
  <2>4. deletion' = [deletion EXCEPT ![d] = r]
    BY <1>0, <2>1
  <2> QED
    BY <1>0, <1>1, <1>5, <2>3, <2>4 DEF Look
<1>6. CASE EndWalk(d)
  <2>1. k.id \in Panes \/ k.id = None
    BY <1>0 DEF DeletionType
  <2> QED
    BY <1>0, <1>2, <1>6, <2>1 DEF EndWalk
<1>7. CASE Remove(d)
  BY <1>0, <1>2, <1>7 DEF Remove, At
<1>8. CASE Kill(d)
  BY <1>0, <1>2, <1>8 DEF Kill, At
<1>9. CASE KillFails(d)
  BY <1>0, <1>2, <1>9 DEF KillFails, At
<1>10. CASE Reinsert(d)
  BY <1>0, <1>2, <1>10 DEF Reinsert, At
<1>11. CASE SendDeleted(d)
  <2>1. Deleted(k.id) \in EventType
    BY <1>0, <1>11 DEF SendDeleted, At, Deleted, EventType
  <2>2. Append(events, Deleted(k.id)) \in Seq(EventType)
    BY <1>0, <2>1, AppendProperties
  <2> QED
    BY <1>0, <1>2, <1>11, <2>2 DEF SendDeleted, At
<1> QED
  BY <1>3, <1>4, <1>5, <1>6, <1>7, <1>8, <1>9, <1>10, <1>11 DEF Deleting

LEMMA TypedWatching ==
    ASSUME Typed, NEW w \in Watchers, Subscribe(w) \/ Watching(w) \/ Disconnect(w)
    PROVE  Typed'
<1>0. /\ Len(events) \in Nat /\ watcher[w] \in WatcherType /\ panes \subseteq Panes
      /\ events \in Seq(EventType)
  BY DEF Typed, TypeOK, WatcherType, EventType
<1>1. ASSUME NEW k \in WatcherType, watcher' = [watcher EXCEPT ![w] = k],
             UNCHANGED <<panes, killed, creation, deletion, events>>
      PROVE  Typed'
  BY <1>1 DEF Typed, TypeOK, HasPane, WatcherType
<1>2. CASE Subscribe(w)
  BY <1>0, <1>1, <1>2 DEF Subscribe, Goto, Absent, WatcherType
<1>3. ASSUME NEW p \in Panes, Visit(w, p)
      PROVE  Typed'
  <2>1. [watcher[w] EXCEPT !.todo = @ \ {p}, !.listing = @ \cup ({p} \cap panes)]
        \in WatcherType
    BY <1>0 DEF WatcherType
  <2> QED
    BY <1>0, <1>1, <1>3, <2>1 DEF Visit, Goto
<1>4. CASE SendSnapshot(w)
  <2>1. [watcher[w] EXCEPT !.pc = "loop", !.listing = {}, !.view = watcher[w].listing]
        \in WatcherType
    BY <1>0 DEF WatcherType
  <2> QED
    BY <1>0, <1>1, <1>4, <2>1 DEF SendSnapshot, Goto
<1>5. CASE Forward(w)
  <2>1. watcher[w].rx + 1 \in 1..Len(events)
    BY <1>0, <1>5 DEF Forward, WatcherType
  <2>2. events[watcher[w].rx + 1] \in EventType
    BY <1>0, <2>1, ElementOfSeq
  <2>3. ApplyEvent(watcher[w].view, events[watcher[w].rx + 1]) \in SUBSET Panes
    BY <1>0, <2>2 DEF ApplyEvent, WatcherType, EventType
  <2> DEFINE view == ApplyEvent(watcher[w].view, events[watcher[w].rx + 1])
  <2>4. [watcher[w] EXCEPT !.rx = @ + 1,
                           !.view = ApplyEvent(@, events[watcher[w].rx + 1])]
        \in WatcherType
    <3>1. watcher[w].rx + 1 \in Nat
      BY <2>1
    <3>2. [watcher[w] EXCEPT !.rx = @ + 1,
                             !.view = ApplyEvent(@, events[watcher[w].rx + 1])]
          = [watcher[w] EXCEPT !.rx = watcher[w].rx + 1, !.view = view]
      BY <1>0 DEF WatcherType
    <3> HIDE DEF view
    <3> QED
      BY <1>0, <2>3, <3>1, <3>2 DEF WatcherType
  <2> QED
    BY <1>1, <1>5, <2>4 DEF Forward, Goto
<1>6. CASE Lagged(w)
  <2>1. Len(events) - Capacity \in Nat
    BY <1>0, <1>6, CapacityAssumption DEF Lagged, LagsBehind, WatcherType
  <2>2. [watcher[w] EXCEPT !.pc = "snapshot", !.todo = Panes, !.rx = Len(events) - Capacity]
        \in WatcherType
    BY <1>0, <2>1 DEF WatcherType
  <2> QED
    BY <1>1, <1>6, <2>2 DEF Lagged, Goto
<1>7. CASE Disconnect(w)
  <2>1. Absent \in WatcherType
    BY DEF Absent, WatcherType
  <2>2. /\ watcher' = [watcher EXCEPT ![w] = Absent]
        /\ UNCHANGED <<panes, killed, creation, deletion, events>>
    BY <1>7 DEF Disconnect, Goto
  <2> QED
    BY <1>1, <2>1, <2>2
<1> QED
  BY <1>2, <1>3, <1>4, <1>5, <1>6, <1>7 DEF Watching

LEMMA TypedNext == Typed /\ [Next]_vars => Typed'
<1> SUFFICES ASSUME Typed, [Next]_vars PROVE Typed'
  OBVIOUS
<1>1. CASE UNCHANGED vars
  BY <1>1 DEF vars, Typed, TypeOK, HasPane
<1>2. CASE Next
  BY <1>2, TypedCreating, TypedDeleting, TypedWatching DEF Next
<1> QED
  BY <1>1, <1>2

\* The state of the map, the requests, the channel and the connections stays
\* within its types.
THEOREM TypeCorrect == Spec => []TypeOK
<1>1. Typed => TypeOK
  BY DEF Typed
<1> QED
  BY <1>1, TypedInit, TypedNext, PTL DEF Spec

-----------------------------------------------------------------------------
(***************************************************************************)
(* Where a pane is.  EveryPaneAccountedFor is not inductive as it stands:  *)
(* a pane goes back into the map when it could not be killed, so it has to *)
(* be known that no killed pane is in the hands of a request about to put  *)
(* it back, and that what is in hand, killed or gone was once inserted.    *)
(***************************************************************************)
Inserted(p) == creation[p] \in {"inserted", "announced"}

Accounted(p) ==
    /\ p \in panes \/ p \in killed \/ Gone(p) \/ (\E d \in Deletes : Holds(d, p)) =>
          Inserted(p)
    /\ Inserted(p) => p \in panes \/ Gone(p) \/ \E d \in Deletes : Holds(d, p)
    /\ \A d \in Deletes : Holds(d, p) => p \notin panes /\ ~Gone(p)
    /\ \A d, e \in Deletes : Holds(d, p) /\ Holds(e, p) => d = e
    /\ Gone(p) => p \in killed
    /\ \A d \in Deletes : deletion[d].id = p /\ At(d, "killed") => p \in killed
    /\ p \in killed => Gone(p) \/ \E d \in Deletes : deletion[d].id = p /\ At(d, "killed")
    /\ p \in killed => p \notin panes

Announced ==
    \A i \in DOMAIN events :
        events[i].kind = "deleted" =>
            /\ Gone(events[i].id)
            /\ \A j \in DOMAIN events : events[j] = events[i] => j = i

Inv == /\ Typed
       /\ \A p \in Panes : Accounted(p)
       /\ Announced

LEMMA InvInit == Init => Inv
<1> SUFFICES ASSUME Init PROVE Inv
  OBVIOUS
<1>1. Typed
  BY TypedInit
<1>2. ASSUME NEW p \in Panes PROVE Accounted(p)
  BY DEF Init, Accounted, Inserted, Gone, Holds, At
<1>3. Announced
  BY DEF Init, Announced
<1> QED
  BY <1>1, <1>2, <1>3 DEF Inv

\* A step that leaves the map, the requests and the kills alone moves no pane.
LEMMA AccountedSame ==
    ASSUME NEW p \in Panes, Accounted(p), UNCHANGED <<panes, killed, deletion>>,
           Inserted(p)' = Inserted(p)
    PROVE  Accounted(p)'
BY DEF Accounted, Gone, Holds, At, Inserted

LEMMA AnnouncedSame ==
    ASSUME Announced, UNCHANGED events, \A p \in Panes : Gone(p) => Gone(p)',
           events \in Seq(EventType)
    PROVE  Announced'
<1>1. ASSUME NEW i \in DOMAIN events PROVE events[i].id \in Panes
  <2>1. events[i] \in EventType
    BY <1>1
  <2> QED
    BY <2>1 DEF EventType
<1> QED
  BY <1>1 DEF Announced

LEMMA InvCreating ==
    ASSUME Inv, NEW q \in Panes, Creating(q)
    PROVE  Inv'
<1>1. Typed'
  BY TypedCreating DEF Inv
<1>0. creation \in [Panes -> {"new", "spawned", "inserted", "announced"}]
      /\ events \in Seq(EventType)
  BY DEF Inv, Typed, TypeOK, EventType
<1>2. CASE Spawn(q)
  <2>1. ASSUME NEW p \in Panes PROVE Accounted(p)'
    BY <1>0, <1>2, AccountedSame DEF Spawn, Inv, Inserted
  <2>2. Announced'
    BY <1>2 DEF Spawn, Inv, Announced, Gone, At
  <2> QED
    BY <1>1, <2>1, <2>2 DEF Inv
<1>3. CASE Insert(q)
  <2>1. ASSUME NEW p \in Panes PROVE Accounted(p)'
    BY <1>0, <1>3 DEF Insert, Inv, Accounted, Inserted, Gone, Holds, At
  <2>2. Announced'
    BY <1>3 DEF Insert, Inv, Announced, Gone, At
  <2> QED
    BY <1>1, <2>1, <2>2 DEF Inv
<1>4. CASE SendCreated(q)
  <2>1. ASSUME NEW p \in Panes PROVE Accounted(p)'
    BY <1>0, <1>4, AccountedSame DEF SendCreated, Inv, Inserted
  <2>2. Announced'
    <3> DEFINE n == Len(events)
    <3>1. /\ DOMAIN events = 1..n /\ n \in Nat
          /\ DOMAIN events' = 1..n+1
          /\ \A i \in 1..n : events'[i] = events[i]
          /\ events'[n + 1] = Created(q)
      <4>1. Created(q) \in EventType
        BY DEF Created, EventType
      <4> QED
        BY <1>0, <1>4, <4>1, AppendProperties, LenProperties DEF SendCreated
    <3>2. events'[n + 1].kind = "created"
      BY <3>1 DEF Created
    <3>3. \A p \in Panes : Gone(p)' = Gone(p)
      BY <1>4 DEF SendCreated, Gone, At
    <3>4. \A i \in 1..n : events[i].id \in Panes
      <4>1. \A i \in 1..n : events[i] \in EventType
        BY <1>0, ElementOfSeq
      <4> QED
        BY <4>1 DEF EventType
    <3>5. Announced
      BY DEF Inv
    <3> HIDE DEF n
    <3> QED
      BY <3>1, <3>2, <3>3, <3>4, <3>5 DEF Announced
  <2> QED
    BY <1>1, <2>1, <2>2 DEF Inv
<1> QED
  BY <1>2, <1>3, <1>4 DEF Creating

LEMMA InvDeleting ==
    ASSUME Inv, NEW d \in Deletes, ResolveId(d) \/ BeginWalk(d) \/ Deleting(d)
    PROVE  Inv'
<1>1. Typed'
  BY TypedDeleting DEF Inv
<1>0. /\ deletion \in [Deletes -> DeletionType]
      /\ events \in Seq(EventType)
      /\ panes \subseteq Panes
      /\ Announced
  BY DEF Inv, Typed, TypeOK, EventType, DeletionType
\* Steps that neither take a pane nor give one back.
<1>2. ASSUME UNCHANGED <<panes, killed, creation, events>>,
             \A e \in Deletes \ {d} : deletion'[e] = deletion[e],
             deletion[d].pc \in {"start", "walk", "resolved"},
             deletion'[d].pc \in {"walk", "resolved", "not_found", "ambiguous"}
      PROVE  Inv'
  <2>1. ASSUME NEW p \in Panes PROVE /\ Accounted(p)'
                                     /\ Gone(p)' <=> Gone(p)
    <3>1. \A e \in Deletes : /\ Holds(e, p)' <=> Holds(e, p)
                             /\ deletion'[e].id = p /\ At(e, "killed")' <=>
                                deletion[e].id = p /\ At(e, "killed")
                             /\ deletion'[e].id = p /\ At(e, "no_content")' <=>
                                deletion[e].id = p /\ At(e, "no_content")
      BY <1>2 DEF Holds, At
    <3>2. Gone(p)' <=> Gone(p)
      BY <3>1 DEF Gone
    <3> QED
      BY <1>2, <3>1, <3>2 DEF Inv, Accounted, Inserted
  <2>2. Announced'
    BY <1>0, <1>2, <2>1, AnnouncedSame
  <2> QED
    BY <1>1, <2>1, <2>2 DEF Inv
<1>3. CASE ResolveId(d)
  BY <1>0, <1>2, <1>3 DEF ResolveId, At, GoOn
<1>4. CASE BeginWalk(d)
  BY <1>0, <1>2, <1>4 DEF BeginWalk, At, GoOn
<1>5. CASE Look(d)
  BY <1>0, <1>2, <1>5 DEF Look, At, GoOn, DeletionType
<1>6. CASE EndWalk(d)
  BY <1>0, <1>2, <1>6 DEF EndWalk, At, GoOn
\* Steps of a pane's way out of the map: it is the pane of d and no other's.
<1> DEFINE q == deletion[d].id
<1>7. ASSUME NEW pc, UNCHANGED creation, deletion' = [deletion EXCEPT ![d].pc = pc],
             deletion[d].pc \in {"resolved", "removed", "killed", "kill_failed"}
      PROVE  /\ q \in Panes
             /\ \A e \in Deletes \ {d} : deletion'[e] = deletion[e]
             /\ deletion'[d].id = q /\ deletion'[d].pc = pc
  BY <1>0, <1>7 DEF Inv, Typed, HasPane, DeletionType
<1>8. CASE Remove(d)
  <2>1. CASE q \notin panes
    BY <1>0, <1>2, <1>8, <2>1 DEF Remove, At, GoOn
  <2>2. CASE q \in panes
    <3>1. /\ deletion' = [deletion EXCEPT ![d].pc = "removed"]
          /\ deletion[d].pc = "resolved"
          /\ panes' = panes \ {q}
          /\ UNCHANGED <<killed, creation, events>>
      BY <1>8, <2>2 DEF Remove, At, GoOn
    <3>2. /\ q \in Panes /\ \A e \in Deletes \ {d} : deletion'[e] = deletion[e]
          /\ deletion'[d].id = q /\ deletion'[d].pc = "removed"
      BY <1>7, <3>1
    <3>3. ASSUME NEW p \in Panes PROVE Accounted(p)' /\ (Gone(p) => Gone(p)')
      BY <2>2, <3>1, <3>2, <3>3 DEF Inv, Accounted, Inserted, Gone, Holds, At
    <3> QED
      BY <1>0, <1>1, <3>1, <3>3, AnnouncedSame DEF Inv
  <2> QED
    BY <2>1, <2>2
<1>9. CASE Kill(d)
  <2>1. /\ deletion' = [deletion EXCEPT ![d].pc = "killed"]
        /\ deletion[d].pc = "removed"
        /\ killed' = killed \cup {q}
        /\ UNCHANGED <<panes, creation, events>>
    BY <1>9 DEF Kill, At, GoOn
  <2>2. /\ q \in Panes /\ \A e \in Deletes \ {d} : deletion'[e] = deletion[e]
        /\ deletion'[d].id = q /\ deletion'[d].pc = "killed"
    BY <1>7, <2>1
  <2>3. ASSUME NEW p \in Panes PROVE Accounted(p)' /\ (Gone(p) => Gone(p)')
    BY <2>1, <2>2, <2>3 DEF Inv, Accounted, Inserted, Gone, Holds, At
  <2> QED
    BY <1>0, <1>1, <2>1, <2>3, AnnouncedSame DEF Inv
<1>10. CASE KillFails(d)
  <2>1. /\ deletion' = [deletion EXCEPT ![d].pc = "kill_failed"]
        /\ deletion[d].pc = "removed"
        /\ UNCHANGED <<panes, killed, creation, events>>
    BY <1>10 DEF KillFails, At, GoOn
  <2>2. /\ q \in Panes /\ \A e \in Deletes \ {d} : deletion'[e] = deletion[e]
        /\ deletion'[d].id = q /\ deletion'[d].pc = "kill_failed"
    BY <1>7, <2>1
  <2>3. ASSUME NEW p \in Panes PROVE Accounted(p)' /\ (Gone(p) => Gone(p)')
    BY <2>1, <2>2, <2>3 DEF Inv, Accounted, Inserted, Gone, Holds, At
  <2> QED
    BY <1>0, <1>1, <2>1, <2>3, AnnouncedSame DEF Inv
<1>11. CASE Reinsert(d)
  <2>1. /\ deletion' = [deletion EXCEPT ![d].pc = "internal_error"]
        /\ deletion[d].pc = "kill_failed"
        /\ panes' = panes \cup {q}
        /\ UNCHANGED <<killed, creation, events>>
    BY <1>11 DEF Reinsert, At, GoOn
  <2>2. /\ q \in Panes /\ \A e \in Deletes \ {d} : deletion'[e] = deletion[e]
        /\ deletion'[d].id = q /\ deletion'[d].pc = "internal_error"
    BY <1>7, <2>1
  <2>3. ASSUME NEW p \in Panes PROVE Accounted(p)' /\ (Gone(p) => Gone(p)')
    BY <2>1, <2>2, <2>3 DEF Inv, Accounted, Inserted, Gone, Holds, At
  <2> QED
    BY <1>0, <1>1, <2>1, <2>3, AnnouncedSame DEF Inv
<1>12. CASE SendDeleted(d)
  <2>1. /\ deletion' = [deletion EXCEPT ![d].pc = "no_content"]
        /\ deletion[d].pc = "killed"
        /\ events' = Append(events, Deleted(q))
        /\ UNCHANGED <<panes, killed, creation>>
    BY <1>12 DEF SendDeleted, At, GoOn
  <2>2. /\ q \in Panes /\ \A e \in Deletes \ {d} : deletion'[e] = deletion[e]
        /\ deletion'[d].id = q /\ deletion'[d].pc = "no_content"
    BY <1>7, <2>1
  <2>3. ASSUME NEW p \in Panes PROVE Accounted(p)' /\ (Gone(p) => Gone(p)')
    BY <2>1, <2>2, <2>3 DEF Inv, Accounted, Inserted, Gone, Holds, At
  <2>4. PICK p \in Panes : p = q /\ ~Gone(p) /\ Gone(p)'
    BY <2>1, <2>2 DEF Inv, Accounted, Gone, Holds, At
  <2>5. Announced'
    <3> DEFINE n == Len(events)
    <3>1. /\ DOMAIN events = 1..n /\ n \in Nat
          /\ DOMAIN events' = 1..n+1
          /\ \A i \in 1..n : events'[i] = events[i]
          /\ events'[n + 1] = Deleted(p)
      <4>1. Deleted(p) \in EventType
        BY DEF Deleted, EventType
      <4> QED
        BY <1>0, <2>1, <2>4, <4>1, AppendProperties, LenProperties
    <3>2. \A i \in 1..n : events[i].id \in Panes
      <4>1. \A i \in 1..n : events[i] \in EventType
        BY <1>0, ElementOfSeq
      <4> QED
        BY <4>1 DEF EventType
    <3>3. \A i \in 1..n : events[i] # Deleted(p)
      BY <1>0, <2>4, <3>1 DEF Announced, Deleted
    <3>4. Deleted(p).id = p
      BY DEF Deleted
    <3>5. \A x \in Panes : Gone(x) => Gone(x)'
      BY <2>3
    <3>6. Announced
      BY <1>0
    <3> HIDE DEF n, q
    <3>7. ASSUME NEW i \in 1..n+1, events'[i].kind = "deleted"
          PROVE  /\ Gone(events[i].id)'
                 /\ \A j \in 1..n+1 : events'[j] = events'[i] => j = i
      <4>1. CASE i = n + 1
        BY <2>4, <3>1, <3>3, <3>4, <4>1
      <4>2. CASE i # n + 1
        <5>1. i \in 1..n /\ events'[i] = events[i]
          BY <3>1, <4>2
        <5>2. Gone(events[i].id) /\ \A j \in 1..n : events[j] = events[i] => j = i
          BY <3>1, <3>6, <3>7, <5>1 DEF Announced
        <5>3. Gone(events[i].id)'
          BY <3>2, <3>5, <5>1, <5>2, Zenon
        <5> QED
          BY <3>1, <3>3, <5>1, <5>2, <5>3
      <4> QED
        BY <4>1, <4>2
    <3> QED
      BY <3>1, <3>7 DEF Announced
  <2> QED
    BY <1>1, <2>3, <2>5 DEF Inv
<1> QED
  BY <1>3, <1>4, <1>5, <1>6, <1>8, <1>9, <1>10, <1>11, <1>12 DEF Deleting

LEMMA InvWatching ==
    ASSUME Inv, NEW w \in Watchers, Subscribe(w) \/ Watching(w) \/ Disconnect(w)
    PROVE  Inv'
<1>1. Typed'
  BY TypedWatching DEF Inv
<1>2. UNCHANGED <<panes, killed, creation, deletion, events>>
  BY DEF Subscribe, Watching, Visit, SendSnapshot, Forward, Lagged, Disconnect, Goto
<1>3. ASSUME NEW p \in Panes PROVE Accounted(p)'
  BY <1>2, AccountedSame DEF Inv, Inserted
<1>4. Announced'
  BY <1>2 DEF Inv, Announced, Gone, At
<1> QED
  BY <1>1, <1>3, <1>4 DEF Inv

LEMMA InvNext == Inv /\ [Next]_vars => Inv'
<1> SUFFICES ASSUME Inv, [Next]_vars PROVE Inv'
  OBVIOUS
<1>1. CASE UNCHANGED vars
  <2>1. Typed'
    BY <1>1, TypedNext DEF Inv
  <2>2. ASSUME NEW p \in Panes PROVE Accounted(p)'
    BY <1>1, AccountedSame DEF Inv, Inserted, vars
  <2>3. Announced'
    BY <1>1 DEF Inv, Announced, Gone, At, vars
  <2> QED
    BY <2>1, <2>2, <2>3 DEF Inv
<1>2. CASE Next
  BY <1>2, InvCreating, InvDeleting, InvWatching DEF Next
<1> QED
  BY <1>1, <1>2

\* The invariant that the results below rest on: no deletion, walk or listing, and
\* no lag of a watcher, leads out of it.
THEOREM Invariance == Spec => []Inv
BY InvInit, InvNext, PTL DEF Spec

\* Whatever deletions race, by id or by name, and whichever kills fail, a pane
\* that was inserted is in the map, in the hands of one request, or gone: it is
\* not lost and not in two places.
THEOREM PanesAreAccountedFor == Spec => []EveryPaneAccountedFor
<1>1. Inv => EveryPaneAccountedFor
  BY DEF Inv, Accounted, Inserted, EveryPaneAccountedFor
<1> QED
  BY <1>1, Invariance, PTL

\* The deletion of a pane is announced once, and only when it is gone for good.
THEOREM DeletionsAnnouncedOnce == Spec => []DeletedOnce
<1> SUFFICES ASSUME Inv PROVE DeletedOnce
  BY Invariance, PTL
<1>1. ASSUME NEW i \in DOMAIN events PROVE events[i].id \in Panes
  <2>1. events \in Seq(EventType)
    BY DEF Inv, Typed, TypeOK, EventType
  <2>2. events[i] \in EventType
    BY <2>1, <1>1
  <2> QED
    BY <2>2 DEF EventType
<1> QED
  BY <1>1 DEF Inv, Announced, Accounted, DeletedOnce

-----------------------------------------------------------------------------
(***************************************************************************)
(* Deletion by name.  While both panes stay in the map, a request that     *)
(* walks it has looked at one of them at most, and if it has it remembers  *)
(* a pane of the name: it cannot get to the end of its walk.               *)
(***************************************************************************)
LEMMA TwoMembers ==
    ASSUME NEW S, IsFiniteSet(S), Cardinality(S) = 2
    PROVE  \E x, y \in S : x # y
<1>1. PICK x \in S : TRUE
  BY FS_EmptySet
<1>2. IsFiniteSet(S \ {x}) /\ Cardinality(S \ {x}) = 1
  BY FS_RemoveElement
<1>3. S \ {x} # {}
  BY <1>2, FS_EmptySet
<1> QED
  BY <1>3

Undecided(d, two) ==
    deletion[d].key = Name =>
        /\ deletion[d].pc \in {"start", "walk", "ambiguous", "not_found"}
        /\ At(d, "walk") => /\ two \cap deletion[d].todo # {}
                            /\ two \ deletion[d].todo # {} => deletion[d].id # None

Both(d, two) == At(d, "walk") => two \subseteq panes

LEMMA UndecidedInit ==
    ASSUME NEW d \in Deletes, NEW two, Init
    PROVE  Undecided(d, two)
BY DEF Init, Undecided, At

LEMMA UndecidedNext ==
    ASSUME NEW d \in Deletes, NEW two \in SUBSET Named, Cardinality(two) = 2,
           Typed, Undecided(d, two), Both(d, two), [Next]_vars
    PROVE  Undecided(d, two)'
<1> DEFINE k == deletion[d]
<1>0. k \in DeletionType /\ deletion \in [Deletes -> DeletionType]
  BY DEF Typed, TypeOK, DeletionType
<1>1. ASSUME deletion'[d] = deletion[d]
      PROVE  Undecided(d, two)'
  BY <1>1 DEF Undecided, At
<1>2. ASSUME NEW e \in Deletes, ResolveId(e) \/ BeginWalk(e) \/ Deleting(e), e # d
      PROVE  Undecided(d, two)'
  BY <1>0, <1>1, <1>2 DEF ResolveId, BeginWalk, Deleting, Look, EndWalk, Remove, Kill,
     KillFails, Reinsert, SendDeleted, GoOn
<1>3. ASSUME k.key # Name, ResolveId(d) \/ BeginWalk(d) \/ Deleting(d)
      PROVE  Undecided(d, two)'
  <2>1. deletion'[d].key = k.key
    <3>1. ASSUME NEW pc, GoOn(d, pc)
          PROVE  deletion'[d].key = k.key
      BY <1>0, <3>1 DEF GoOn, DeletionType
    <3>2. CASE ResolveId(d)
      BY <1>0, <3>2 DEF ResolveId, DeletionType
    <3>3. CASE BeginWalk(d)
      BY <1>0, <3>3 DEF BeginWalk, DeletionType
    <3>4. CASE Look(d)
      BY <1>0, <3>4 DEF Look, DeletionType
    <3>5. CASE Deleting(d) /\ ~Look(d)
      BY <3>1, <3>5 DEF Deleting, EndWalk, Remove, Kill, KillFails, Reinsert, SendDeleted
    <3> QED
      BY <1>3, <3>2, <3>3, <3>4, <3>5
  <2> QED
    BY <1>3, <2>1 DEF Undecided
<1>4. PICK x \in two, y \in two : x # y
  <2>1. IsFiniteSet(two)
    BY FS_Subset, NamedAssumption
  <2> QED
    BY <2>1, TwoMembers
<1>5. CASE BeginWalk(d)
  <2>1. /\ deletion'[d].key = k.key /\ deletion'[d].pc = "walk" /\ deletion'[d].todo = Named
    BY <1>0, <1>5 DEF BeginWalk, DeletionType
  <2> QED
    BY <1>4, <2>1 DEF Undecided, At
<1>6. ASSUME Look(d), k.key = Name
      PROVE  Undecided(d, two)'
  <2>1. PICK p \in k.todo :
          deletion' = [deletion EXCEPT
             ![d].todo = @ \ {p},
             ![d].id = IF p \in panes THEN p ELSE @,
             ![d].pc = IF p \in panes /\ k.id # None THEN "ambiguous" ELSE @]
    BY <1>6 DEF Look
  <2>2. /\ deletion'[d].key = Name
        /\ deletion'[d].todo = k.todo \ {p}
        /\ deletion'[d].id = IF p \in panes THEN p ELSE k.id
        /\ deletion'[d].pc = IF p \in panes /\ k.id # None THEN "ambiguous" ELSE "walk"
    BY <1>0, <1>6, <2>1 DEF Look, At, DeletionType
  <2>3. /\ two \cap k.todo # {} /\ (two \ k.todo # {} => k.id # None)
        /\ two \subseteq panes
    BY <1>6 DEF Undecided, Both, Look, At
  <2>4. p # None
    BY <1>0, NameAssumption, NamedAssumption DEF DeletionType
  <2>5. CASE p \in two
    <3>1. p \in panes /\ deletion'[d].id # None
      BY <2>2, <2>3, <2>4, <2>5
    <3>2. CASE k.id # None
      BY <2>2, <3>1, <3>2 DEF Undecided, At
    <3>3. CASE k.id = None
      <4>1. two \subseteq k.todo
        BY <2>3, <3>3
      <4>2. two \cap deletion'[d].todo # {}
        BY <1>4, <2>2, <4>1
      <4> QED
        BY <2>2, <3>1, <4>2 DEF Undecided, At
    <3> QED
      BY <3>2, <3>3
  <2>6. CASE p \notin two
    <3>1. two \cap deletion'[d].todo = two \cap k.todo
          /\ two \ deletion'[d].todo = two \ k.todo
      BY <2>2, <2>6
    <3>2. k.id # None => deletion'[d].id # None
      BY <2>2, <2>4
    <3> QED
      BY <2>2, <2>3, <3>1, <3>2 DEF Undecided, At
  <2> QED
    BY <2>5, <2>6
<1>7. ASSUME k.key = Name, ResolveId(d) \/ Deleting(d), ~Look(d)
      PROVE  FALSE
  <2>1. k.pc \in {"start", "walk", "ambiguous", "not_found"}
        /\ (k.pc = "walk" => k.todo # {})
    BY <1>7 DEF Undecided, At
  <2>2. Name \notin Panes
    BY NameAssumption
  <2> QED
    BY <1>7, <2>1, <2>2 DEF ResolveId, Deleting, EndWalk, Remove, Kill, KillFails,
       Reinsert, SendDeleted, At
<1>8. ASSUME UNCHANGED vars \/ (\E p \in Panes : Creating(p))
             \/ \E w \in Watchers : Subscribe(w) \/ Watching(w) \/ Disconnect(w)
      PROVE  Undecided(d, two)'
  <2>1. UNCHANGED deletion
    BY <1>8 DEF vars, Creating, Spawn, Insert, SendCreated, Subscribe, Watching, Visit,
       SendSnapshot, Forward, Lagged, Disconnect, Goto
  <2> QED
    BY <1>1, <2>1
<1> QED
  BY <1>2, <1>3, <1>5, <1>6, <1>7, <1>8 DEF Next

\* A name that two panes bear throughout a request's walk of the map is refused,
\* and the request removes no pane: whatever is created and deleted meanwhile,
\* and however many panes bear the name.
THEOREM AmbiguityIsRefused == Spec => AmbiguousDeletesNothing
<1> SUFFICES ASSUME NEW d \in Deletes, NEW two \in {S \in SUBSET Named : Cardinality(S) = 2}
             PROVE  Spec => ([](At(d, "walk") => two \subseteq panes)
                             => []~(deletion[d].key = Name /\ At(d, "removed")))
  BY DEF AmbiguousDeletesNothing
<1>1. Init => Undecided(d, two)
  BY UndecidedInit
<1>2. Typed /\ Undecided(d, two) /\ (At(d, "walk") => two \subseteq panes) /\ [Next]_vars
      => Undecided(d, two)'
  BY UndecidedNext DEF Both
<1>3. Undecided(d, two) => ~(deletion[d].key = Name /\ At(d, "removed"))
  BY DEF Undecided, At
<1> QED
  BY <1>1, <1>2, <1>3, TypedInit, TypedNext, PTL DEF Spec

=============================================================================
