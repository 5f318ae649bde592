----------------------------- MODULE PaneConfig -----------------------------
(***************************************************************************)
(* The sizes of the panes and the server's defaults, with the requests     *)
(* that change them: POST /panes (server/src/handlers/create.rs), PATCH    *)
(* /config (config.rs) and POST /panes/{id}/resize (resize.rs), and        *)
(* resize_pane (server/src/pane.rs), the path the last two share.          *)
(*                                                                         *)
(* A pane keeps its size in three places, each behind a lock of its own:   *)
(* the PTY, the VT100 parser (what GET /panes/{id}/screen shows) and the   *)
(* size it advertises (what GET /panes shows).  The defaults are read and  *)
(* written under separate locks too.  A request is served step by step and *)
(* may be abandoned where it waits for a lock: when its client hangs up,   *)
(* the server drops the handler there.                                     *)
(***************************************************************************)
EXTENDS Naturals, Sequences

CONSTANTS Panes,        \* panes that may be created
          Slots,        \* requests the server handles at the same time
          Dims,         \* columns or rows a request may ask for, 0 among them
          Limits,       \* event limits a request may ask for
          MinEvents,    \* the least default_max_events PATCH sets (100)
          InitialSize,  \* default size of a new server (220 x 50)
          InitialMax,   \* default event limit of a new server
          MaxRequests,  \* bound: requests made in all
          MaxOverlap,   \* bound: requests made in all if any of them overlap
          MaxDropped    \* bound: requests abandoned

ASSUME RequestAssumption == Dims \subseteq Nat /\ Limits \subseteq Nat

\* AppState::new has a size of its own, and takes no event limit of 0.
ASSUME DefaultsAssumption ==
    /\ InitialSize \in [cols : Nat \ {0}, rows : Nat \ {0}]
    /\ InitialMax \in Nat \ {0} /\ MinEvents \in Nat \ {0}

ASSUME BoundsAssumption ==
    MaxDropped \in Nat /\ MaxRequests \in Nat /\ MaxOverlap \in 0..MaxRequests

VARIABLES default_size,         \* AppState.default_pane_size
          default_max_events,   \* AppState.default_max_events
          pane,                 \* pane[p]: its three sizes and its event limit
          request,              \* request[s]: the request slot s is serving
          made, dropped,        \* counters behind the bounds
          overlapped            \* history: two requests have been served at once

vars == <<default_size, default_max_events, pane, request, made, dropped, overlapped>>

counters == <<made, dropped, overlapped>>

Size(cols, rows) == [cols |-> cols, rows |-> rows]

Sizes == [cols : Dims, rows : Dims]

\* PaneSize::validate
Valid(size) == size.cols >= 1 /\ size.rows >= 1

\* An optional field of a request body: {} when it is omitted.
Optional(S) == {{}} \cup {{x} : x \in S}
UnwrapOr(field, default) == IF field = {} THEN default ELSE CHOOSE x \in field : TRUE

Bodies == [cols : Optional(Dims), rows : Optional(Dims),
           max : Optional(Limits), apply : BOOLEAN]

NoBody == [cols |-> {}, rows |-> {}, max |-> {}, apply |-> FALSE]

Merge(body, size) == Size(UnwrapOr(body.cols, size.cols),
                          UnwrapOr(body.rows, size.rows))

AtLeast(n, least) == IF n < least THEN least ELSE n

NoPane == [exists |-> FALSE, pty |-> Size(0, 0), parser |-> Size(0, 0),
           size |-> Size(0, 0), max_events |-> 0]

Free(status) == [pc |-> "free", status |-> status, body |-> NoBody,
                 pane |-> {}, size |-> Size(0, 0), todo |-> {}]

Init == /\ default_size = InitialSize
        /\ default_max_events = InitialMax
        /\ pane = [p \in Panes |-> NoPane]
        /\ request = [s \in Slots |-> Free(0)]
        /\ made = 0 /\ dropped = 0
        /\ overlapped = FALSE

-----------------------------------------------------------------------------
At(s, pc) == request[s].pc = pc

\* Slot s takes a request; r says what it is.  Answers are kept until then.
Begin(s, r) == /\ At(s, "free")
               /\ overlapped' = (overlapped \/ \E t \in Slots \ {s} : ~At(t, "free"))
               /\ made < IF overlapped' THEN MaxOverlap ELSE MaxRequests
               /\ made' = made + 1
               /\ request' = [t \in Slots |-> IF t = s THEN r
                                              ELSE IF At(t, "free") THEN Free(0) ELSE request[t]]
               /\ UNCHANGED <<default_size, default_max_events, pane, dropped>>

Becomes(s, r) == request' = [request EXCEPT ![s] = r]

Answer(s, status) == Becomes(s, [Free(status) EXCEPT !.body = request[s].body])

-----------------------------------------------------------------------------
(***************************************************************************)
(* POST /panes: create_pane_handler                                        *)
(***************************************************************************)
BeginCreate(s) ==
    \E p \in Panes, body \in [cols : Optional(Dims), rows : Optional(Dims),
                              max : {{}}, apply : {FALSE}] :
        /\ ~pane[p].exists
        /\ \A t \in Slots : request[t].pane # {p}
        /\ Begin(s, [Free(0) EXCEPT !.pc = "create", !.pane = {p}, !.body = body])

\* The default size fills in what the body omits; the result is validated.
CreateSize(s) ==
    /\ At(s, "create")
    /\ LET size == Merge(request[s].body, default_size)
       IN  IF Valid(size)
           THEN Becomes(s, [request[s] EXCEPT !.pc = "spawn", !.size = size])
           ELSE Answer(s, 400)
    /\ UNCHANGED <<default_size, default_max_events, pane, counters>>

\* The event limit is read, the pane created with both and inserted.
CreatePane(s) ==
    /\ At(s, "spawn")
    /\ pane' = [p \in Panes |->
         IF p \in request[s].pane
         THEN [exists |-> TRUE, pty |-> request[s].size,
               parser |-> request[s].size, size |-> request[s].size,
               max_events |-> default_max_events]
         ELSE pane[p]]
    /\ Answer(s, 200)
    /\ UNCHANGED <<default_size, default_max_events, counters>>

-----------------------------------------------------------------------------
(***************************************************************************)
(* PATCH /config: update_config_handler                                    *)
(***************************************************************************)
BeginConfig(s) ==
    \E body \in Bodies : Begin(s, [Free(0) EXCEPT !.pc = "config", !.body = body])

\* Mutant of ConfigMaxEvents: keeps a slot free for the next event, no minimum.
ConfigMaxEventsLessOne(s) ==
    /\ At(s, "config")
    /\ default_max_events' =
         IF request[s].body.max = {} THEN default_max_events
         ELSE UnwrapOr(request[s].body.max, 0) - 1
    /\ Becomes(s, [request[s] EXCEPT !.pc = "read_size"])
    /\ UNCHANGED <<default_size, pane, counters>>

\* The event limit is set before anything is validated.
ConfigMaxEvents(s) ==
    /\ At(s, "config")
    /\ default_max_events' =
         IF request[s].body.max = {} THEN default_max_events
         ELSE AtLeast(UnwrapOr(request[s].body.max, 0), MinEvents)
    /\ Becomes(s, [request[s] EXCEPT !.pc = "read_size"])
    /\ UNCHANGED <<default_size, pane, counters>>

\* Mutant of ConfigReadSize: takes any size.
ConfigReadSizeUnchecked(s) ==
    /\ At(s, "read_size")
    /\ Becomes(s, [request[s] EXCEPT !.pc = "write_size",
                                     !.size = Merge(request[s].body, default_size)])
    /\ UNCHANGED <<default_size, default_max_events, pane, counters>>

\* The current size fills in what the body omits; the result is validated.
ConfigReadSize(s) ==
    /\ At(s, "read_size")
    /\ LET size == Merge(request[s].body, default_size)
       IN  IF Valid(size)
           THEN Becomes(s, [request[s] EXCEPT !.pc = "write_size", !.size = size])
           ELSE Answer(s, 400)
    /\ UNCHANGED <<default_size, default_max_events, pane, counters>>

\* set_default_pane_size; without apply_to_existing that is all.
ConfigWriteSize(s) ==
    /\ At(s, "write_size")
    /\ default_size' = request[s].size
    /\ IF request[s].body.apply
       THEN Becomes(s, [request[s] EXCEPT !.pc = "collect"])
       ELSE Answer(s, 200)
    /\ UNCHANGED <<default_max_events, pane, counters>>

\* The panes that exist are collected, to be resized one after the other.
ConfigCollect(s) ==
    /\ At(s, "collect")
    /\ Becomes(s, [request[s] EXCEPT !.pc = "next",
                                     !.todo = {p \in Panes : pane[p].exists}])
    /\ UNCHANGED <<default_size, default_max_events, pane, counters>>

\* The next pane of the loop, in the order of the map, or the end of it.
NextPane(s) ==
    /\ At(s, "next")
    /\ IF request[s].todo = {} THEN Answer(s, 200)
       ELSE \E p \in request[s].todo :
              Becomes(s, [request[s] EXCEPT !.pc = "pty", !.pane = {p},
                                            !.todo = @ \ {p}])
    /\ UNCHANGED <<default_size, default_max_events, pane, counters>>

-----------------------------------------------------------------------------
(***************************************************************************)
(* POST /panes/{id}/resize: resize_pane_handler, and resize_pane itself    *)
(***************************************************************************)
\* A size that is not valid is refused before anything else happens.
BeginResize(s) ==
    \E p \in Panes, size \in Sizes :
        /\ pane[p].exists
        /\ Begin(s, IF Valid(size)
                    THEN [Free(0) EXCEPT !.pc = "pty", !.pane = {p}, !.size = size]
                    ELSE Free(400))

\* Under the lock of the master.
ResizePty(s) ==
    /\ At(s, "pty")
    /\ pane' = [p \in Panes |-> IF p \in request[s].pane
                                THEN [pane[p] EXCEPT !.pty = request[s].size]
                                ELSE pane[p]]
    /\ Becomes(s, [request[s] EXCEPT !.pc = "parser"])
    /\ UNCHANGED <<default_size, default_max_events, counters>>

\* Mutants of ResizePtyFails: the error is ignored and the rest is resized; the
\* error is swallowed and the loop goes on to the next pane.
ResizePtyFailsIgnored(s) ==
    /\ At(s, "pty")
    /\ Becomes(s, [request[s] EXCEPT !.pc = "parser"])
    /\ UNCHANGED <<default_size, default_max_events, pane, counters>>

ResizePtyFailsSwallowed(s) ==
    /\ At(s, "pty")
    /\ Becomes(s, [request[s] EXCEPT !.pc = "next", !.pane = {}])
    /\ UNCHANGED <<default_size, default_max_events, pane, counters>>

\* The ioctl fails: 500, and a PATCH leaves the panes after this one alone.
ResizePtyFails(s) ==
    /\ At(s, "pty")
    /\ Answer(s, 500)
    /\ UNCHANGED <<default_size, default_max_events, pane, counters>>

\* Under the lock of the parser.
ResizeParser(s) ==
    /\ At(s, "parser")
    /\ pane' = [p \in Panes |-> IF p \in request[s].pane
                                THEN [pane[p] EXCEPT !.parser = request[s].size]
                                ELSE pane[p]]
    /\ Becomes(s, [request[s] EXCEPT !.pc = "set_size"])
    /\ UNCHANGED <<default_size, default_max_events, counters>>

\* pane.set_size(size); a PATCH goes on to its next pane.
SetSize(s) ==
    /\ At(s, "set_size")
    /\ pane' = [p \in Panes |-> IF p \in request[s].pane
                                THEN [pane[p] EXCEPT !.size = request[s].size]
                                ELSE pane[p]]
    /\ IF request[s].body.apply
       THEN Becomes(s, [request[s] EXCEPT !.pc = "next", !.pane = {}])
       ELSE Answer(s, 204)
    /\ UNCHANGED <<default_size, default_max_events, counters>>

\* The client hangs up while the handler waits for a lock.
Drop(s) ==
    /\ At(s, "pty") \/ At(s, "parser")
    /\ dropped < MaxDropped
    /\ dropped' = dropped + 1
    /\ Becomes(s, Free(0))
    /\ UNCHANGED <<default_size, default_max_events, pane, made, overlapped>>

-----------------------------------------------------------------------------
Next == \E s \in Slots :
            \/ BeginCreate(s) \/ CreateSize(s) \/ CreatePane(s)
            \/ BeginConfig(s) \/ ConfigMaxEvents(s) \/ ConfigReadSize(s)
            \/ ConfigWriteSize(s) \/ ConfigCollect(s) \/ NextPane(s)
            \/ BeginResize(s) \/ ResizePty(s) \/ ResizePtyFails(s)
            \/ ResizeParser(s) \/ SetSize(s) \/ Drop(s)

Spec == Init /\ [][Next]_vars

-----------------------------------------------------------------------------
TypeOK ==
    LET AnySize == [cols : Nat, rows : Nat]
    IN  /\ default_size \in AnySize
        /\ default_max_events \in Nat
        /\ pane \in [Panes -> [exists : BOOLEAN, pty : AnySize, parser : AnySize,
                               size : AnySize, max_events : Nat]]
        /\ request \in [Slots ->
             [pc : {"free", "create", "spawn", "config", "read_size", "write_size",
                    "collect", "next", "pty", "parser", "set_size"},
              status : {0, 200, 204, 400, 500}, body : Bodies,
              pane : SUBSET Panes, size : AnySize, todo : SUBSET Panes]]
        /\ made \in 0..MaxRequests /\ dropped \in 0..MaxDropped
        /\ overlapped \in BOOLEAN

\* No sequence of requests, valid or not, partial or abandoned, however they
\* overlap, gives the default or a pane a size without columns or rows (openpty
\* and the parser are handed it as it is), or a limit that is neither the one the
\* server started with nor at least the minimum.
NothingDegenerate ==
    LET Limit(n) == n = InitialMax \/ n >= MinEvents
    IN  /\ Valid(default_size)
        /\ Limit(default_max_events)
        /\ \A p \in Panes : pane[p].exists =>
              /\ Valid(pane[p].pty) /\ Valid(pane[p].parser) /\ Valid(pane[p].size)
              /\ Limit(pane[p].max_events)

\* No two requests have been served at once, and none was abandoned.
Sequential == ~overlapped /\ dropped = 0

\* While nobody resizes it a pane has one size, also after a resize that failed:
\* the shell's, the screen's and the advertised one are the same.
BeingResized(p) ==
    \E s \in Slots : p \in request[s].pane /\ request[s].pc \in {"parser", "set_size"}

SizesAgree ==
    \A p \in Panes :
        ~BeingResized(p) => pane[p].pty = pane[p].parser /\ pane[p].parser = pane[p].size

SizesAgreeAtRest == Sequential => SizesAgree

\* A PATCH with apply_to_existing that was answered 200 left every pane at the
\* resulting default size.
AppliedToAll ==
    \A s \in Slots :
        Sequential /\ At(s, "free") /\ request[s].status = 200 /\ request[s].body.apply =>
            \A p \in Panes : pane[p].exists => pane[p].size = default_size

=============================================================================
