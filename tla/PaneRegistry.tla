---------------------------- MODULE PaneRegistry ----------------------------
(***************************************************************************)
(* The pane map of AppState and the lifecycle channel, with the requests   *)
(* that change them (create_pane_handler, delete_pane_handler) and the     *)
(* lifecycle connections that follow them (server/src/handlers/create.rs,  *)
(* delete.rs, lifecycle.rs; server/src/state.rs).                          *)
(*                                                                         *)
(* A handler touches the map and the channel one after the other, with     *)
(* nothing held in between, and listing the panes walks the shards of a    *)
(* DashMap one at a time: each of these is a step of its own.  A client of *)
(* the lifecycle stream keeps the set the stream describes: a snapshot     *)
(* replaces it, `created' adds to it, `deleted' takes from it.             *)
(***************************************************************************)
EXTENDS Naturals, Sequences, FiniteSets

CONSTANTS Panes,        \* panes that may be created, one POST /panes each
          Named,        \* those among them that bear the same name
          Deletes,      \* DELETE /panes/{id} requests, by id or by that name
          Watchers,     \* connections to /panes/lifecycle
          Capacity,     \* slots of the lifecycle channel (1024)
          Name, None

ASSUME NameAssumption == {Name, None} \cap Panes = {} /\ Name # None
ASSUME NamedAssumption == Named \subseteq Panes /\ IsFiniteSet(Named)
ASSUME CapacityAssumption == Capacity \in Nat \ {0}

VARIABLES panes,        \* the keys of the pane map
          killed,       \* panes whose shell has been sent SIGKILL
          creation,     \* creation[p]: how far the request creating p is
          deletion,     \* deletion[d]: how far request d is, its key and its pane
          events,       \* every event ever sent on pane_lifecycle_tx
          watcher       \* watcher[w]: handle_ws of connection w, and its client

vars == <<panes, killed, creation, deletion, events, watcher>>

Created(p) == [kind |-> "created", id |-> p]
Deleted(p) == [kind |-> "deleted", id |-> p]

Absent == [pc |-> "absent", rx |-> 0, todo |-> {}, listing |-> {}, view |-> {}]

Init == /\ panes = {}
        /\ killed = {}
        /\ creation = [p \in Panes |-> "new"]
        /\ deletion \in [Deletes -> {[pc |-> "start", key |-> k, todo |-> {}, id |-> None] :
                                      k \in Panes \cup {Name}}]
        /\ events = << >>
        /\ watcher = [w \in Watchers |-> Absent]

-----------------------------------------------------------------------------
(***************************************************************************)
(* POST /panes                                                             *)
(***************************************************************************)
\* The size and the event limit are settled, the shell is spawned.
Spawn(p) == /\ creation[p] = "new"
            /\ creation' = [creation EXCEPT ![p] = "spawned"]
            /\ UNCHANGED <<panes, killed, deletion, events, watcher>>

\* state.panes.insert(id, pane)
Insert(p) == /\ creation[p] = "spawned"
             /\ panes' = panes \cup {p}
             /\ creation' = [creation EXCEPT ![p] = "inserted"]
             /\ UNCHANGED <<killed, deletion, events, watcher>>

\* pane_lifecycle_tx.send(Created)
SendCreated(p) == /\ creation[p] = "inserted"
                  /\ events' = Append(events, Created(p))
                  /\ creation' = [creation EXCEPT ![p] = "announced"]
                  /\ UNCHANGED <<panes, killed, deletion, watcher>>

-----------------------------------------------------------------------------
(***************************************************************************)
(* DELETE /panes/{id}                                                      *)
(***************************************************************************)
At(d, pc) == deletion[d].pc = pc
GoOn(d, pc) == deletion' = [deletion EXCEPT ![d].pc = pc]

\* resolve_pane_id: an id is looked up, or 404; ...
ResolveId(d) ==
    LET id == deletion[d].key
    IN  /\ At(d, "start") /\ id \in Panes
        /\ deletion' = [deletion EXCEPT ![d].pc = IF id \in panes THEN "resolved" ELSE "not_found",
                                        ![d].id = id]
        /\ UNCHANGED <<panes, killed, creation, events, watcher>>

\* ... for a name the shards of the map are walked.
BeginWalk(d) ==
    /\ At(d, "start") /\ deletion[d].key = Name
    /\ deletion' = [deletion EXCEPT ![d].pc = "walk", ![d].todo = Named]
    /\ UNCHANGED <<panes, killed, creation, events, watcher>>

\* Mutant of Look: takes the first pane of the name.
LookForFirst(d) ==
    /\ At(d, "walk")
    /\ \E p \in deletion[d].todo :
         deletion' = [deletion EXCEPT
           ![d].todo = @ \ {p},
           ![d].id = IF p \in panes THEN p ELSE @,
           ![d].pc = IF p \in panes THEN "resolved" ELSE @]
    /\ UNCHANGED <<panes, killed, creation, events, watcher>>

\* The next pane of the name, if it is in the map: the second is one too many.
Look(d) ==
    /\ At(d, "walk")
    /\ \E p \in deletion[d].todo :
         deletion' = [deletion EXCEPT
           ![d].todo = @ \ {p},
           ![d].id = IF p \in panes THEN p ELSE @,
           ![d].pc = IF p \in panes /\ deletion[d].id # None THEN "ambiguous" ELSE @]
    /\ UNCHANGED <<panes, killed, creation, events, watcher>>

\* No second one was found.
EndWalk(d) ==
    /\ At(d, "walk") /\ deletion[d].todo = {}
    /\ GoOn(d, IF deletion[d].id = None THEN "not_found" ELSE "resolved")
    /\ UNCHANGED <<panes, killed, creation, events, watcher>>

\* Mutant of Remove: goes on whether or not the pane was still there.
RemoveUnchecked(d) ==
    /\ At(d, "resolved")
    /\ GoOn(d, "removed")
    /\ panes' = panes \ {deletion[d].id}
    /\ UNCHANGED <<killed, creation, events, watcher>>

\* panes.remove(&id): of several requests for one pane one has it, the others
\* are answered 404.
Remove(d) ==
    /\ At(d, "resolved")
    /\ GoOn(d, IF deletion[d].id \in panes THEN "removed" ELSE "not_found")
    /\ panes' = panes \ {deletion[d].id}
    /\ UNCHANGED <<killed, creation, events, watcher>>

\* kill(pid, SIGKILL) succeeds, or finds no such process.
Kill(d) ==
    /\ At(d, "removed")
    /\ GoOn(d, "killed")
    /\ killed' = killed \cup {deletion[d].id}
    /\ UNCHANGED <<panes, creation, events, watcher>>

\* kill fails otherwise.
KillFails(d) ==
    /\ At(d, "removed")
    /\ GoOn(d, "kill_failed")
    /\ UNCHANGED <<panes, killed, creation, events, watcher>>

\* Mutant of Reinsert: answers 500 and lets the pane go.
ReinsertForgotten(d) ==
    /\ At(d, "kill_failed")
    /\ GoOn(d, "internal_error")
    /\ UNCHANGED <<panes, killed, creation, events, watcher>>

\* The pane goes back into the map; the answer is 500, no event is sent.
Reinsert(d) ==
    /\ At(d, "kill_failed")
    /\ GoOn(d, "internal_error")
    /\ panes' = panes \cup {deletion[d].id}
    /\ UNCHANGED <<killed, creation, events, watcher>>

\* pane_lifecycle_tx.send(Deleted), and the answer 204.
SendDeleted(d) ==
    /\ At(d, "killed")
    /\ GoOn(d, "no_content")
    /\ events' = Append(events, Deleted(deletion[d].id))
    /\ UNCHANGED <<panes, killed, creation, watcher>>

-----------------------------------------------------------------------------
(***************************************************************************)
(* GET /panes/lifecycle                                                    *)
(***************************************************************************)
Goto(w, pc) == /\ watcher[w].pc = pc
               /\ UNCHANGED <<panes, killed, creation, deletion, events>>

\* The upgrade, pane_lifecycle_tx.subscribe(), and send_snapshot begins.
Subscribe(w) ==
    /\ Goto(w, "absent")
    /\ watcher' = [watcher EXCEPT ![w] =
         [Absent EXCEPT !.pc = "snapshot", !.todo = Panes, !.rx = Len(events)]]

\* list_pane_infos comes to the shard p is, or would be, in.
Visit(w, p) ==
    /\ Goto(w, "snapshot")
    /\ p \in watcher[w].todo
    /\ watcher' = [watcher EXCEPT ![w].todo = @ \ {p},
                                  ![w].listing = @ \cup ({p} \cap panes)]

\* Mutant of SendSnapshot: subscribes after the listing instead of before it.
SendSnapshotThenSubscribe(w) ==
    /\ Goto(w, "snapshot")
    /\ watcher[w].todo = {}
    /\ watcher' = [watcher EXCEPT ![w].pc = "loop", ![w].listing = {},
                                  ![w].view = watcher[w].listing,
                                  ![w].rx = Len(events)]

\* The listing is complete and sent.
SendSnapshot(w) ==
    /\ Goto(w, "snapshot")
    /\ watcher[w].todo = {}
    /\ watcher' = [watcher EXCEPT ![w].pc = "loop", ![w].listing = {},
                                  ![w].view = watcher[w].listing]

LagsBehind(w) == Len(events) - watcher[w].rx > Capacity

ApplyEvent(view, event) ==
    IF event.kind = "created" THEN view \cup {event.id} ELSE view \ {event.id}

\* lifecycle_rx.recv() = Ok(event), sent on as it is.
Forward(w) ==
    /\ Goto(w, "loop")
    /\ watcher[w].rx < Len(events)
    /\ ~LagsBehind(w)
    /\ watcher' = [watcher EXCEPT
         ![w].rx = @ + 1,
         ![w].view = ApplyEvent(@, events[watcher[w].rx + 1])]

\* Mutant of Lagged: moves the receiver back whether or not it is behind.
LaggedUnguarded(w) ==
    /\ Goto(w, "loop")
    /\ watcher' = [watcher EXCEPT ![w].pc = "snapshot", ![w].todo = Panes,
                                  ![w].rx = Len(events) - Capacity]

\* recv() = Err(Lagged): a new snapshot, and on from the oldest slot left.
Lagged(w) ==
    /\ Goto(w, "loop")
    /\ LagsBehind(w)
    /\ watcher' = [watcher EXCEPT ![w].pc = "snapshot", ![w].todo = Panes,
                                  ![w].rx = Len(events) - Capacity]

\* A message cannot be sent, or the client has closed its end.
Disconnect(w) ==
    /\ \E pc \in {"snapshot", "loop"} : Goto(w, pc)
    /\ watcher' = [watcher EXCEPT ![w] = Absent]

-----------------------------------------------------------------------------
Creating(p) == Spawn(p) \/ Insert(p) \/ SendCreated(p)

Deleting(d) == \/ Look(d) \/ EndWalk(d) \/ Remove(d) \/ Kill(d) \/ KillFails(d)
               \/ Reinsert(d) \/ SendDeleted(d)

Watching(w) == \/ \E p \in Panes : Visit(w, p)
               \/ SendSnapshot(w) \/ Forward(w) \/ Lagged(w)

Next == \/ \E p \in Panes : Creating(p)
        \/ \E d \in Deletes : ResolveId(d) \/ BeginWalk(d) \/ Deleting(d)
        \/ \E w \in Watchers : Subscribe(w) \/ Watching(w) \/ Disconnect(w)

Spec == Init /\ [][Next]_vars

\* A request that has begun is served to its end, and a lifecycle connection
\* whose next step is possible takes it: its task runs, its client reads.
FairSpec == /\ Spec
            /\ \A p \in Panes : WF_vars(Insert(p) \/ SendCreated(p))
            /\ \A d \in Deletes : WF_vars(Deleting(d))
            /\ \A w \in Watchers : WF_vars(Watching(w))

-----------------------------------------------------------------------------
TypeOK ==
    /\ panes \subseteq Panes
    /\ killed \subseteq Panes
    /\ creation \in [Panes -> {"new", "spawned", "inserted", "announced"}]
    /\ deletion \in [Deletes ->
         [pc : {"start", "walk", "resolved", "removed", "killed", "kill_failed",
                "no_content", "ambiguous", "not_found", "internal_error"},
          key : Panes \cup {Name}, todo : SUBSET Named, id : Panes \cup {None}]]
    /\ events \in Seq([kind : {"created", "deleted"}, id : Panes])
    /\ watcher \in [Watchers ->
         [pc : {"absent", "snapshot", "loop"}, rx : Nat,
          todo : SUBSET Panes, listing : SUBSET Panes, view : SUBSET Panes]]

Holds(d, p) == /\ deletion[d].id = p
               /\ deletion[d].pc \in {"removed", "killed", "kill_failed"}

Gone(p) == \E d \in Deletes : deletion[d].id = p /\ At(d, "no_content")

\* Whatever deletions race and whichever kills fail, a pane that was inserted
\* is in exactly one place: in the map, in the hands of one request, or gone.
\* A gone pane was killed and stays out of the map; a killed one is never listed.
EveryPaneAccountedFor ==
    \A p \in Panes :
        creation[p] \in {"inserted", "announced"} =>
            /\ p \in panes \/ Gone(p) \/ \E d \in Deletes : Holds(d, p)
            /\ p \in panes \/ Gone(p) => ~\E d \in Deletes : Holds(d, p)
            /\ \A d, e \in Deletes : Holds(d, p) /\ Holds(e, p) => d = e
            /\ Gone(p) => p \in killed
            /\ p \in killed => p \notin panes

\* However many requests delete one pane, `deleted' is announced once, and only
\* for a pane that is out of the map for good.
DeletedOnce ==
    \A i \in DOMAIN events :
        events[i].kind = "deleted" =>
            /\ events[i].id \notin panes
            /\ \A j \in DOMAIN events : events[j] = events[i] => j = i

\* A name that two panes bear as long as a request looks for it is refused: it
\* deletes neither of them, nor any other, whatever is created and deleted while
\* the request walks the map.
AmbiguousDeletesNothing ==
    \A d \in Deletes : \A two \in {S \in SUBSET Named : Cardinality(S) = 2} :
        [](At(d, "walk") => two \subseteq panes)
        => []~(deletion[d].key = Name /\ At(d, "removed"))

CreatedFirst(p) ==
    \A i, j \in DOMAIN events :
        events[i] = Deleted(p) /\ events[j] = Created(p) => j < i

DeletionFailed(p) ==
    \E d \in Deletes :
        deletion[d].id = p /\ deletion[d].pc \in {"kill_failed", "internal_error"}

Knows(w, p) == p \in watcher[w].view <=> p \in panes

\* A client of the lifecycle stream that stays connected ends up knowing of a
\* pane exactly when it exists, however the snapshot's walk of the map falls
\* among insertions, removals and events, and across lags: provided that the
\* pane was announced before it was deleted, and that no deletion of it failed.
WatchersConverge ==
    \A w \in Watchers, p \in Panes :
        /\ <>[](watcher[w].pc # "absent")
        /\ []CreatedFirst(p)
        /\ []~DeletionFailed(p)
        => <>[]Knows(w, p)

-----------------------------------------------------------------------------
(***************************************************************************)
(* What the repository says and the code does not do.                      *)
(***************************************************************************)
\* "The server sends a snapshot message first with all current panes, then live
\* created / deleted events": a client that applies them knows the panes, also
\* when a deletion overtakes the announcement of the pane it deletes.
OvertakingDeletionIsSeen ==
    \A w \in Watchers, p \in Panes :
        /\ <>[](watcher[w].pc # "absent")
        /\ []~DeletionFailed(p)
        => <>[]Knows(w, p)

=============================================================================
