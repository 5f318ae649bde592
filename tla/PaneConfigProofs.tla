--------------------------- MODULE PaneConfigProofs ---------------------------
(***************************************************************************)
(* What PaneConfig guarantees for any panes, any number of requests served *)
(* at once, and any sizes and limits they ask for.                         *)
(***************************************************************************)
EXTENDS PaneConfig, TLAPS

-----------------------------------------------------------------------------
(***************************************************************************)
(* Type correctness.                                                       *)
(***************************************************************************)
AnySize == [cols : Nat, rows : Nat]

PaneType == [exists : BOOLEAN, pty : AnySize, parser : AnySize,
             size : AnySize, max_events : Nat]

Steps == {"free", "create", "spawn", "config", "read_size", "write_size",
          "collect", "next", "pty", "parser", "set_size"}

Statuses == {0, 200, 204, 400, 500}

RequestType == [pc : Steps, status : Statuses, body : Bodies,
                pane : SUBSET Panes, size : AnySize, todo : SUBSET Panes]

Typed == /\ default_size \in AnySize
         /\ default_max_events \in Nat
         /\ pane \in [Panes -> PaneType]
         /\ request \in [Slots -> RequestType]
         /\ made \in 0..MaxRequests /\ dropped \in 0..MaxDropped
         /\ overlapped \in BOOLEAN

LEMMA TypedIsTypeOK == Typed <=> TypeOK
BY DEF Typed, TypeOK, AnySize, PaneType, RequestType, Steps, Statuses

\* An omitted field is filled in from the default, another is taken as it is.
LEMMA UnwrapOrType ==
    ASSUME NEW S, NEW field \in Optional(S), NEW default
    PROVE  /\ field = {} => UnwrapOr(field, default) = default
           /\ field # {} => UnwrapOr(field, default) \in S
<1>1. CASE field = {}
  BY <1>1 DEF UnwrapOr
<1>2. ASSUME NEW x \in S, field = {x}
      PROVE  UnwrapOr(field, default) = x
  <2>1. (CHOOSE y \in field : TRUE) \in field
    BY <1>2
  <2> QED
    BY <1>2, <2>1 DEF UnwrapOr
<1> QED
  BY <1>1, <1>2 DEF Optional

LEMMA MergeType ==
    ASSUME NEW body \in Bodies, NEW size \in AnySize
    PROVE  Merge(body, size) \in AnySize
<1>1. body.cols \in Optional(Dims) /\ body.rows \in Optional(Dims)
  BY DEF Bodies
<1>2. size.cols \in Nat /\ size.rows \in Nat
  BY DEF AnySize
<1>3. UnwrapOr(body.cols, size.cols) \in Nat /\ UnwrapOr(body.rows, size.rows) \in Nat
  BY <1>1, <1>2, UnwrapOrType, RequestAssumption
<1> QED
  BY <1>3 DEF Merge, Size, AnySize

LEMMA StepsAre ==
    /\ "free" \in Steps /\ "create" \in Steps /\ "spawn" \in Steps /\ "config" \in Steps
    /\ "read_size" \in Steps /\ "write_size" \in Steps /\ "collect" \in Steps
    /\ "next" \in Steps /\ "pty" \in Steps /\ "parser" \in Steps /\ "set_size" \in Steps
    /\ 0 \in Statuses /\ 200 \in Statuses /\ 204 \in Statuses
    /\ 400 \in Statuses /\ 500 \in Statuses
BY DEF Steps, Statuses

LEMMA FreeType ==
    /\ Free(0) \in RequestType
    /\ \A status \in Statuses : Free(status) \in RequestType
<1>1. NoBody \in Bodies
  BY DEF NoBody, Bodies, Optional
<1>2. Size(0, 0) \in AnySize
  BY DEF Size, AnySize
<1> QED
  BY <1>1, <1>2, StepsAre DEF Free, RequestType

LEMMA TypeInit == Init => Typed
<1> SUFFICES ASSUME Init PROVE Typed
  OBVIOUS
<1>1. default_size \in AnySize /\ default_max_events \in Nat
  BY DefaultsAssumption DEF Init, AnySize
<1>2. NoPane \in PaneType
  BY DEF NoPane, PaneType, Size, AnySize
<1> QED
  <2>1. pane \in [Panes -> PaneType]
    BY <1>2 DEF Init
  <2>2. request \in [Slots -> RequestType]
    BY FreeType DEF Init
  <2>3. made = 0 /\ dropped = 0 /\ overlapped \in BOOLEAN
    BY DEF Init
  <2>4. made \in 0..MaxRequests /\ dropped \in 0..MaxDropped
    BY <2>3, BoundsAssumption
  <2> QED
    BY <1>1, <2>1, <2>2, <2>3, <2>4 DEF Typed

\* What Begin asks of the request it is given.
LEMMA TypeBegin ==
    ASSUME Typed, NEW s \in Slots, NEW r \in RequestType, Begin(s, r)
    PROVE  Typed'
<1>1. made' \in 0..MaxRequests
  BY BoundsAssumption DEF Begin, Typed
<1>2. request' \in [Slots -> RequestType]
  BY FreeType DEF Begin, Typed
<1>3. overlapped' \in BOOLEAN
  BY DEF Begin
<1> QED
  BY <1>1, <1>2, <1>3 DEF Begin, Typed

LEMMA BecomesType ==
    ASSUME Typed, NEW s \in Slots, NEW r \in RequestType, Becomes(s, r)
    PROVE  /\ request' \in [Slots -> RequestType]
           /\ request'[s] = r
           /\ \A t \in Slots \ {s} : request'[t] = request[t]
BY DEF Becomes, Typed

LEMMA AnswerType ==
    ASSUME Typed, NEW s \in Slots, NEW status \in Statuses, Answer(s, status)
    PROVE  /\ request' \in [Slots -> RequestType]
           /\ request'[s] = [pc |-> "free", status |-> status, body |-> request[s].body,
                             pane |-> {}, size |-> Size(0, 0), todo |-> {}]
           /\ \A t \in Slots \ {s} : request'[t] = request[t]
<1> DEFINE r == [Free(status) EXCEPT !.body = request[s].body]
<1>1. request[s].body \in Bodies
  BY DEF Typed, RequestType
<1>2. r \in RequestType
  BY <1>1, FreeType DEF RequestType
<1>3. r = [pc |-> "free", status |-> status, body |-> request[s].body,
           pane |-> {}, size |-> Size(0, 0), todo |-> {}]
  BY DEF Free
<1>4. Becomes(s, r)
  BY DEF Answer
<1> HIDE DEF r
<1> QED
  BY <1>2, <1>3, <1>4, BecomesType

\* Requests that begin.
LEMMA TypeBegins ==
    ASSUME Typed, NEW s \in Slots, BeginCreate(s) \/ BeginConfig(s) \/ BeginResize(s)
    PROVE  Typed'
<1>1. CASE BeginCreate(s)
  <2>1. PICK p \in Panes, body \in [cols : Optional(Dims), rows : Optional(Dims),
                                    max : {{}}, apply : {FALSE}] :
             Begin(s, [Free(0) EXCEPT !.pc = "create", !.pane = {p}, !.body = body])
    BY <1>1 DEF BeginCreate
  <2>2. body \in Bodies
    BY DEF Bodies, Optional
  <2>3. [Free(0) EXCEPT !.pc = "create", !.pane = {p}, !.body = body] \in RequestType
    <3>1. {p} \in SUBSET Panes
      OBVIOUS
    <3> QED
      BY <2>2, <3>1, FreeType, StepsAre DEF RequestType
  <2> QED
    BY <2>1, <2>3, TypeBegin
<1>2. CASE BeginConfig(s)
  <2>1. PICK body \in Bodies : Begin(s, [Free(0) EXCEPT !.pc = "config", !.body = body])
    BY <1>2 DEF BeginConfig
  <2>2. [Free(0) EXCEPT !.pc = "config", !.body = body] \in RequestType
    BY FreeType, StepsAre DEF RequestType
  <2> QED
    BY <2>1, <2>2, TypeBegin
<1>3. CASE BeginResize(s)
  <2>1. PICK p \in Panes, size \in Sizes :
             Begin(s, IF Valid(size)
                      THEN [Free(0) EXCEPT !.pc = "pty", !.pane = {p}, !.size = size]
                      ELSE Free(400))
    BY <1>3 DEF BeginResize
  <2>2. size \in AnySize
    BY RequestAssumption DEF Sizes, AnySize
  <2>3. [Free(0) EXCEPT !.pc = "pty", !.pane = {p}, !.size = size] \in RequestType
    <3>1. {p} \in SUBSET Panes
      OBVIOUS
    <3> QED
      BY <2>2, <3>1, FreeType, StepsAre DEF RequestType
  <2> QED
    <3>1. Free(400) \in RequestType
      BY FreeType, StepsAre
    <3>2. CASE Valid(size)
      BY <2>1, <2>3, <3>2, TypeBegin
    <3>3. CASE ~Valid(size)
      BY <2>1, <3>1, <3>3, TypeBegin
    <3> QED
      BY <3>2, <3>3
<1> QED
  BY <1>1, <1>2, <1>3

\* Steps that touch neither the defaults nor a pane.
LEMMA RequestSteps ==
    ASSUME Typed, NEW s \in Slots,
           \/ CreateSize(s) \/ ConfigReadSize(s) \/ ConfigCollect(s) \/ NextPane(s)
           \/ ResizePtyFails(s)
    PROVE  request' \in [Slots -> RequestType]
<1>0. /\ request[s] \in RequestType /\ request[s].body \in Bodies
      /\ default_size \in AnySize
      /\ request[s].todo \in SUBSET Panes
  BY DEF Typed, RequestType
<1>1. Merge(request[s].body, default_size) \in AnySize
  BY <1>0, MergeType
<1>2. \A r \in RequestType : Becomes(s, r) => request' \in [Slots -> RequestType]
  BY BecomesType
<1>3. \A status \in Statuses : Answer(s, status) => request' \in [Slots -> RequestType]
  BY AnswerType
<1>4. \A pc \in Steps, size \in AnySize : [request[s] EXCEPT !.pc = pc, !.size = size] \in RequestType
  BY <1>0 DEF RequestType
<1>5. CASE CreateSize(s)
  BY <1>1, <1>2, <1>3, <1>4, <1>5, StepsAre DEF CreateSize
<1>6. CASE ConfigReadSize(s)
  BY <1>1, <1>2, <1>3, <1>4, <1>6, StepsAre DEF ConfigReadSize
<1>7. CASE ConfigCollect(s)
  <2>1. PICK todo \in SUBSET Panes : Becomes(s, [request[s] EXCEPT !.pc = "next", !.todo = todo])
    BY <1>7 DEF ConfigCollect
  <2>2. [request[s] EXCEPT !.pc = "next", !.todo = todo] \in RequestType
    BY <1>0, StepsAre DEF RequestType
  <2> QED
    BY <1>2, <2>1, <2>2
<1>8. CASE NextPane(s)
  <2>1. ASSUME NEW p \in request[s].todo,
               Becomes(s, [request[s] EXCEPT !.pc = "pty", !.pane = {p}, !.todo = @ \ {p}])
        PROVE  request' \in [Slots -> RequestType]
    <3>1. {p} \in SUBSET Panes /\ request[s].todo \ {p} \in SUBSET Panes
      BY <1>0
    <3>2. [request[s] EXCEPT !.pc = "pty", !.pane = {p}, !.todo = @ \ {p}] \in RequestType
      BY <1>0, <3>1, StepsAre DEF RequestType
    <3> QED
      BY <1>2, <2>1, <3>2
  <2> QED
    BY <1>3, <1>8, <2>1, StepsAre DEF NextPane
<1>9. CASE ResizePtyFails(s)
  BY <1>3, <1>9, StepsAre DEF ResizePtyFails
<1> QED
  BY <1>5, <1>6, <1>7, <1>8, <1>9

\* Steps that set a default.
LEMMA TypeDefaults ==
    ASSUME Typed, NEW s \in Slots, ConfigMaxEvents(s) \/ ConfigWriteSize(s)
    PROVE  Typed'
<1>0. request[s] \in RequestType /\ request[s].size \in AnySize
      /\ request[s].body.max \in Optional(Limits)
  BY DEF Typed, RequestType, Bodies
<1>1. CASE ConfigMaxEvents(s)
  <2>1. request[s].body.max # {} => UnwrapOr(request[s].body.max, 0) \in Nat
    <3>1. \A field \in Optional(Limits) : field # {} => UnwrapOr(field, 0) \in Limits
      BY UnwrapOrType
    <3> QED
      BY <1>0, <3>1, RequestAssumption
  <2>2. default_max_events' \in Nat
    BY <1>1, <2>1, DefaultsAssumption DEF ConfigMaxEvents, AtLeast, Typed
  <2>3. [request[s] EXCEPT !.pc = "read_size"] \in RequestType
    BY <1>0, StepsAre DEF RequestType
  <2>4. request' \in [Slots -> RequestType]
    BY <1>1, <2>3, BecomesType DEF ConfigMaxEvents
  <2> QED
    BY <1>1, <2>2, <2>4 DEF ConfigMaxEvents, Typed, counters
<1>2. CASE ConfigWriteSize(s)
  <2>1. [request[s] EXCEPT !.pc = "collect"] \in RequestType
    BY <1>0, StepsAre DEF RequestType
  <2>2. request' \in [Slots -> RequestType]
    BY <1>2, <2>1, AnswerType, BecomesType, StepsAre DEF ConfigWriteSize
  <2> QED
    BY <1>0, <1>2, <2>2 DEF ConfigWriteSize, Typed, counters
<1> QED
  BY <1>1, <1>2

\* Steps that set a pane's sizes.
LEMMA TypePanes ==
    ASSUME Typed, NEW s \in Slots,
           CreatePane(s) \/ ResizePty(s) \/ ResizeParser(s) \/ SetSize(s)
    PROVE  Typed'
<1>0. /\ request[s] \in RequestType /\ request[s].size \in AnySize
      /\ default_max_events \in Nat /\ pane \in [Panes -> PaneType]
  BY DEF Typed, RequestType
<1>1. pane' \in [Panes -> PaneType]
  <2>1. CASE CreatePane(s)
    BY <1>0, <2>1 DEF CreatePane, PaneType
  <2>2. CASE ResizePty(s)
    <3>1. \A p \in Panes : [pane[p] EXCEPT !.pty = request[s].size] \in PaneType
      BY <1>0 DEF PaneType
    <3> QED
      BY <1>0, <2>2, <3>1 DEF ResizePty
  <2>3. CASE ResizeParser(s)
    <3>1. \A p \in Panes : [pane[p] EXCEPT !.parser = request[s].size] \in PaneType
      BY <1>0 DEF PaneType
    <3> QED
      BY <1>0, <2>3, <3>1 DEF ResizeParser
  <2>4. CASE SetSize(s)
    <3>1. \A p \in Panes : [pane[p] EXCEPT !.size = request[s].size] \in PaneType
      BY <1>0 DEF PaneType
    <3> QED
      BY <1>0, <2>4, <3>1 DEF SetSize
  <2> QED
    BY <2>1, <2>2, <2>3, <2>4
<1>2. /\ [request[s] EXCEPT !.pc = "parser"] \in RequestType
      /\ [request[s] EXCEPT !.pc = "set_size"] \in RequestType
      /\ [request[s] EXCEPT !.pc = "next", !.pane = {}] \in RequestType
  BY <1>0, StepsAre DEF RequestType
<1>3. request' \in [Slots -> RequestType]
  BY <1>2, AnswerType, BecomesType, StepsAre DEF CreatePane, ResizePty, ResizeParser, SetSize
<1> QED
  BY <1>1, <1>3 DEF CreatePane, ResizePty, ResizeParser, SetSize, Typed, counters

LEMMA TypeNext == Typed /\ [Next]_vars => Typed'
<1> SUFFICES ASSUME Typed, [Next]_vars PROVE Typed'
  OBVIOUS
<1>1. CASE UNCHANGED vars
  BY <1>1 DEF vars, Typed
<1>2. ASSUME NEW s \in Slots,
             \/ CreateSize(s) \/ ConfigReadSize(s) \/ ConfigCollect(s) \/ NextPane(s)
             \/ ResizePtyFails(s)
      PROVE  Typed'
  <2>1. request' \in [Slots -> RequestType]
    BY <1>2, RequestSteps
  <2> QED
    BY <1>2, <2>1
       DEF CreateSize, ConfigReadSize, ConfigCollect, NextPane, ResizePtyFails, Typed, counters
<1>3. ASSUME NEW s \in Slots, Drop(s)
      PROVE  Typed'
  <2>1. request' \in [Slots -> RequestType]
    BY <1>3, FreeType, BecomesType DEF Drop
  <2>2. dropped' \in 0..MaxDropped
    BY <1>3, BoundsAssumption DEF Drop, Typed
  <2> QED
    BY <1>3, <2>1, <2>2 DEF Drop, Typed
<1> QED
  BY <1>1, <1>2, <1>3, TypeBegins, TypeDefaults, TypePanes DEF Next

\* Sizes, limits and requests stay within their types.
THEOREM TypeCorrect == Spec => []TypeOK
BY TypeInit, TypeNext, TypedIsTypeOK, PTL DEF Spec

-----------------------------------------------------------------------------
(***************************************************************************)
(* Sizes.                                                                  *)
(*                                                                         *)
(* A handler carries only a size it has validated.  While no two requests  *)
(* have overlapped, at most one slot holds more than a blank, so what a    *)
(* handler left half done is its own to finish: the pane it resizes is the *)
(* only one whose three sizes differ, and the panes it has visited have    *)
(* the default it set.                                                     *)
(***************************************************************************)
Limit(n) == n = InitialMax \/ n >= MinEvents

Carries(s) ==
    /\ At(s, "spawn") \/ At(s, "write_size") \/ At(s, "collect") \/ At(s, "next")
         \/ At(s, "pty") \/ At(s, "parser") \/ At(s, "set_size") => Valid(request[s].size)
    /\ At(s, "create") \/ At(s, "spawn") => ~request[s].body.apply

Sound(p) == pane[p].exists =>
              /\ Valid(pane[p].pty) /\ Valid(pane[p].parser) /\ Valid(pane[p].size)
              /\ Limit(pane[p].max_events)

Alone == \A s, t \in Slots : s # t => request[s] = Free(0) \/ request[t] = Free(0)

\* How far the resize of p has come.
Resized(s, p) ==
    p \in request[s].pane =>
      /\ At(s, "parser")   => pane[p].pty = request[s].size /\ pane[p].parser = pane[p].size
      /\ At(s, "set_size") => pane[p].pty = request[s].size /\ pane[p].parser = request[s].size

\* How far a PATCH has come with the panes that exist.
InLoop(s) == At(s, "next") \/ At(s, "pty") \/ At(s, "parser") \/ At(s, "set_size")

Ahead(s, p) == p \in request[s].todo \/ (~At(s, "next") /\ p \in request[s].pane)

Applied(s) ==
    request[s].body.apply =>
      /\ At(s, "collect") \/ InLoop(s) => default_size = request[s].size
      /\ InLoop(s) => \A p \in Panes :
                         pane[p].exists => Ahead(s, p) \/ pane[p].size = request[s].size
      /\ At(s, "free") /\ request[s].status = 200 =>
             \A p \in Panes : pane[p].exists => pane[p].size = default_size

Quiet == /\ Alone
         /\ SizesAgree
         /\ \A s \in Slots : Applied(s) /\ \A p \in Panes : Resized(s, p)

Safe == /\ Valid(default_size) /\ Limit(default_max_events)
        /\ \A s \in Slots : Carries(s)
        /\ \A p \in Panes : Sound(p)

Inv == Typed /\ Safe /\ (Sequential => Quiet)

\* What a step does to the request of its slot; the others are as they were.
Others(s) == \A t \in Slots \ {s} : request'[t] = request[t]

Moved(s, pc) ==
    /\ request'[s].pc = pc
    /\ request'[s].status = request[s].status
    /\ request'[s].body = request[s].body

Answered(s, status) ==
    /\ request'[s].pc = "free"
    /\ request'[s].status = status
    /\ request'[s].body = request[s].body
    /\ request'[s].pane = {}

LEMMA AnswerIs ==
    ASSUME Typed, NEW s \in Slots, NEW status \in Statuses, Answer(s, status)
    PROVE  Others(s) /\ Answered(s, status)
<1>1. /\ request'[s] = [pc |-> "free", status |-> status, body |-> request[s].body,
                         pane |-> {}, size |-> Size(0, 0), todo |-> {}]
      /\ \A t \in Slots \ {s} : request'[t] = request[t]
  BY AnswerType
<1> QED
  BY <1>1 DEF Others, Answered

LEMMA MoveIs ==
    ASSUME Typed, NEW s \in Slots, NEW pc \in Steps,
           Becomes(s, [request[s] EXCEPT !.pc = pc])
    PROVE  /\ Others(s) /\ Moved(s, pc)
           /\ request'[s].pane = request[s].pane
           /\ request'[s].size = request[s].size
           /\ request'[s].todo = request[s].todo
BY DEF Becomes, Others, Moved, Typed, RequestType

LEMMA MoveSizeIs ==
    ASSUME Typed, NEW s \in Slots, NEW pc \in Steps, NEW size,
           Becomes(s, [request[s] EXCEPT !.pc = pc, !.size = size])
    PROVE  /\ Others(s) /\ Moved(s, pc)
           /\ request'[s].pane = request[s].pane
           /\ request'[s].size = size
BY DEF Becomes, Others, Moved, Typed, RequestType

LEMMA MoveTodoIs ==
    ASSUME Typed, NEW s \in Slots, NEW pc \in Steps, NEW todo,
           Becomes(s, [request[s] EXCEPT !.pc = pc, !.todo = todo])
    PROVE  /\ Others(s) /\ Moved(s, pc)
           /\ request'[s].size = request[s].size
           /\ request'[s].todo = todo
BY DEF Becomes, Others, Moved, Typed, RequestType

LEMMA MovePaneIs ==
    ASSUME Typed, NEW s \in Slots, NEW pc \in Steps, NEW P,
           Becomes(s, [request[s] EXCEPT !.pc = pc, !.pane = P])
    PROVE  /\ Others(s) /\ Moved(s, pc)
           /\ request'[s].pane = P
           /\ request'[s].size = request[s].size
           /\ request'[s].todo = request[s].todo
BY DEF Becomes, Others, Moved, Typed, RequestType

LEMMA MovePaneTodoIs ==
    ASSUME Typed, NEW s \in Slots, NEW pc \in Steps, NEW p,
           Becomes(s, [request[s] EXCEPT !.pc = pc, !.pane = {p}, !.todo = @ \ {p}])
    PROVE  /\ Others(s) /\ Moved(s, pc)
           /\ request'[s].pane = {p}
           /\ request'[s].size = request[s].size
           /\ request'[s].todo = request[s].todo \ {p}
BY DEF Becomes, Others, Moved, Typed, RequestType

\* A blank slot holds no claim on a pane or a size.
LEMMA Blank ==
    /\ Free(0).pc = "free" /\ Free(0).status = 0 /\ Free(0).pane = {}
    /\ Free(0).body.apply = FALSE
BY DEF Free, NoBody

\* While nothing has overlapped, a step of a handler is a step of the only one.
LEMMA OnlyOne ==
    ASSUME Inv, Sequential, NEW s \in Slots, ~At(s, "free")
    PROVE  /\ Quiet
           /\ \A t \in Slots \ {s} : request[t] = Free(0)
           /\ \A p \in Panes :
                 \/ p \in request[s].pane /\ (At(s, "parser") \/ At(s, "set_size"))
                 \/ pane[p].pty = pane[p].parser /\ pane[p].parser = pane[p].size
<1>1. Quiet
  BY DEF Inv
<1>2. \A t \in Slots \ {s} : request[t] = Free(0)
  BY <1>1, Blank DEF Quiet, Alone, At
<1>3. \A p \in Panes : BeingResized(p) =>
         p \in request[s].pane /\ (At(s, "parser") \/ At(s, "set_size"))
  BY <1>2, Blank DEF BeingResized, At
<1> QED
  BY <1>1, <1>2, <1>3 DEF Quiet, SizesAgree

LEMMA QuietStep ==
    ASSUME Inv, Sequential, NEW s \in Slots, ~At(s, "free"),
           Others(s), Applied(s)',
           \A p \in Panes :
              /\ Resized(s, p)'
              /\ \/ p \in request'[s].pane /\ request'[s].pc \in {"parser", "set_size"}
                 \/ pane'[p].pty = pane'[p].parser /\ pane'[p].parser = pane'[p].size
    PROVE  Quiet'
<1>1. \A t \in Slots \ {s} : request'[t] = Free(0)
  BY OnlyOne DEF Others
<1>2. Alone'
  BY <1>1 DEF Alone
<1>3. \A t \in Slots \ {s} : Applied(t)' /\ \A p \in Panes : Resized(t, p)'
  BY <1>1, Blank DEF Applied, Resized
<1>4. SizesAgree'
  BY DEF SizesAgree, BeingResized
<1> QED
  BY <1>2, <1>3, <1>4 DEF Quiet

LEMMA SafeStep ==
    ASSUME Inv, NEW s \in Slots, Others(s), Carries(s)'
    PROVE  \A t \in Slots : Carries(t)'
BY DEF Inv, Safe, Others, Carries, At

LEMMA InvInit == Init => Inv
<1> SUFFICES ASSUME Init PROVE Inv
  OBVIOUS
<1>1. Valid(default_size) /\ Limit(default_max_events)
  BY DefaultsAssumption DEF Init, Valid, Limit
<1>2. \A s \in Slots : request[s] = Free(0)
  BY DEF Init
<1>3. \A p \in Panes : Sound(p) /\ pane[p].pty = pane[p].parser /\ pane[p].parser = pane[p].size
  BY DEF Init, NoPane, Sound
<1>4. Safe
  BY <1>1, <1>2, <1>3, Blank DEF Safe, Carries, At
<1>5. Quiet
  BY <1>2, <1>3, Blank DEF Quiet, Alone, SizesAgree, Applied, Resized, At
<1> QED
  BY <1>4, <1>5, TypeInit DEF Inv

\* A request that begins while no other is served finds all sizes in agreement.
LEMMA InvBegin ==
    ASSUME Inv, NEW s \in Slots, NEW r \in RequestType, Begin(s, r),
           r.pc \in {"free", "create", "config", "pty"},
           r.pc = "pty" => Valid(r.size) /\ ~r.body.apply,
           r.pc = "create" => ~r.body.apply,
           r.pc = "free" => ~r.body.apply
    PROVE  Inv'
<1>0. Typed /\ Typed'
  BY TypeBegin DEF Inv
<1>1. /\ UNCHANGED <<default_size, default_max_events, pane>>
      /\ request'[s] = r
      /\ \A t \in Slots \ {s} : request'[t] = IF At(t, "free") THEN Free(0) ELSE request[t]
  BY DEF Begin
<1>2. Safe'
  <2>1. \A t \in Slots : Carries(t)'
    <3>1. Carries(s)'
      BY <1>1 DEF Carries, At
    <3>2. ASSUME NEW t \in Slots \ {s} PROVE Carries(t)'
      <4>1. CASE At(t, "free")
        BY <1>1, <4>1, Blank DEF Carries, At
      <4>2. CASE ~At(t, "free")
        BY <1>1, <4>2 DEF Inv, Safe, Carries, At
      <4> QED
        BY <4>1, <4>2
    <3> QED
      BY <3>1, <3>2
  <2>2. \A p \in Panes : Sound(p)'
    BY <1>1 DEF Inv, Safe, Sound, Limit
  <2> QED
    BY <1>1, <2>1, <2>2 DEF Inv, Safe, Limit
<1>3. ASSUME Sequential' PROVE Quiet'
  <2>1. Sequential /\ \A t \in Slots : At(t, "free")
    BY <1>3 DEF Sequential, Begin
  <2>2. \A t \in Slots \ {s} : request'[t] = Free(0)
    BY <1>1, <2>1
  <2>3. \A p \in Panes : pane'[p].pty = pane'[p].parser /\ pane'[p].parser = pane'[p].size
    BY <1>1, <2>1 DEF Inv, Quiet, SizesAgree, BeingResized, At
  <2>4. Alone'
    BY <2>2 DEF Alone
  <2>5. \A t \in Slots : Applied(t)' /\ \A p \in Panes : Resized(t, p)'
    BY <1>1, <2>2, Blank DEF Applied, InLoop, Resized, At
  <2> QED
    BY <2>3, <2>4, <2>5 DEF Quiet, SizesAgree
<1> QED
  BY <1>0, <1>2, <1>3 DEF Inv

LEMMA InvBegins ==
    ASSUME Inv, NEW s \in Slots, BeginCreate(s) \/ BeginConfig(s) \/ BeginResize(s)
    PROVE  Inv'
<1>0. Free(0) \in RequestType /\ Free(400) \in RequestType
  BY FreeType, StepsAre
<1>1. CASE BeginCreate(s)
  <2>1. PICK p \in Panes, body \in [cols : Optional(Dims), rows : Optional(Dims),
                                    max : {{}}, apply : {FALSE}] :
             Begin(s, [Free(0) EXCEPT !.pc = "create", !.pane = {p}, !.body = body])
    BY <1>1 DEF BeginCreate
  <2> DEFINE f == Free(0)
  <2> DEFINE r == [f EXCEPT !.pc = "create", !.pane = {p}, !.body = body]
  <2>2. body \in Bodies /\ {p} \in SUBSET Panes /\ ~body.apply
    BY DEF Bodies, Optional
  <2>3. f \in RequestType /\ Begin(s, r)
    BY <1>0, <2>1
  <2> HIDE DEF f
  <2>4. r \in RequestType /\ r.pc = "create" /\ r.body = body
    BY <2>2, <2>3, StepsAre DEF RequestType
  <2> HIDE DEF r
  <2> QED
    BY <2>2, <2>3, <2>4, InvBegin
<1>2. CASE BeginConfig(s)
  <2>1. PICK body \in Bodies : Begin(s, [Free(0) EXCEPT !.pc = "config", !.body = body])
    BY <1>2 DEF BeginConfig
  <2> DEFINE f == Free(0)
  <2> DEFINE r == [f EXCEPT !.pc = "config", !.body = body]
  <2>2. f \in RequestType /\ Begin(s, r)
    BY <1>0, <2>1
  <2> HIDE DEF f
  <2>3. r \in RequestType /\ r.pc = "config"
    BY <2>2, StepsAre DEF RequestType
  <2> HIDE DEF r
  <2> QED
    BY <2>2, <2>3, InvBegin
<1>3. CASE BeginResize(s)
  <2>1. PICK p \in Panes, size \in Sizes :
             Begin(s, IF Valid(size)
                      THEN [Free(0) EXCEPT !.pc = "pty", !.pane = {p}, !.size = size]
                      ELSE Free(400))
    BY <1>3 DEF BeginResize
  <2>2. CASE Valid(size)
    <3> DEFINE f == Free(0)
    <3> DEFINE r == [f EXCEPT !.pc = "pty", !.pane = {p}, !.size = size]
    <3>1. size \in AnySize /\ {p} \in SUBSET Panes
      BY RequestAssumption DEF Sizes, AnySize
    <3>2. f \in RequestType /\ Begin(s, r) /\ f.body.apply = FALSE
      BY <1>0, <2>1, <2>2, Blank
    <3> HIDE DEF f
    <3>3. r \in RequestType
      BY <3>1, <3>2, StepsAre DEF RequestType
    <3>4. r.pc = "pty" /\ r.size = size /\ r.body = f.body
      BY <3>2 DEF RequestType
    <3> HIDE DEF r
    <3>5. Valid(r.size) /\ ~r.body.apply
      BY <2>2, <3>2, <3>4
    <3> QED
      BY <3>2, <3>3, <3>4, <3>5, InvBegin
  <2>3. CASE ~Valid(size)
    <3>1. Free(400).pc = "free" /\ ~Free(400).body.apply
      BY DEF Free, NoBody
    <3>2. Begin(s, Free(400))
      BY <2>1, <2>3
    <3> QED
      BY <1>0, <3>1, <3>2, InvBegin
  <2> QED
    BY <2>2, <2>3
<1> QED
  BY <1>1, <1>2, <1>3

\* Handlers that answer at once, or go on with the size they have validated.
LEMMA InvSized ==
    ASSUME Inv, NEW s \in Slots, CreateSize(s) \/ ConfigReadSize(s) \/ ResizePtyFails(s)
    PROVE  Safe' /\ (Sequential' => Quiet')
<1> DEFINE size == Merge(request[s].body, default_size)
<1>0. /\ Typed /\ Carries(s) /\ ~At(s, "free")
      /\ UNCHANGED <<default_size, default_max_events, pane, made, dropped, overlapped>>
  BY DEF Inv, Safe, CreateSize, ConfigReadSize, ResizePtyFails, At, counters
<1>1. /\ Others(s)
      /\ \/ Answered(s, 400) \/ Answered(s, 500)
         \/ /\ At(s, "create") /\ Moved(s, "spawn")
            /\ request'[s].size = size /\ Valid(size)
            /\ request'[s].pane = request[s].pane
         \/ /\ At(s, "read_size") /\ Moved(s, "write_size")
            /\ request'[s].size = size /\ Valid(size)
  <2>1. CASE CreateSize(s)
    <3>1. \/ Answer(s, 400)
          \/ At(s, "create") /\ Valid(size) /\ Becomes(s, [request[s] EXCEPT !.pc = "spawn", !.size = size])
      BY <2>1 DEF CreateSize
    <3> HIDE DEF size
    <3>2. CASE Answer(s, 400)
      BY <1>0, <3>2, AnswerIs, StepsAre
    <3>3. ASSUME Becomes(s, [request[s] EXCEPT !.pc = "spawn", !.size = size])
          PROVE  /\ Others(s) /\ Moved(s, "spawn") /\ request'[s].size = size
                 /\ request'[s].pane = request[s].pane
      BY <1>0, <3>3, MoveSizeIs, StepsAre
    <3> QED
      BY <3>1, <3>2, <3>3
  <2>2. CASE ConfigReadSize(s)
    <3>1. \/ Answer(s, 400)
          \/ At(s, "read_size") /\ Valid(size)
             /\ Becomes(s, [request[s] EXCEPT !.pc = "write_size", !.size = size])
      BY <2>2 DEF ConfigReadSize
    <3> HIDE DEF size
    <3>2. CASE Answer(s, 400)
      BY <1>0, <3>2, AnswerIs, StepsAre
    <3>3. ASSUME Becomes(s, [request[s] EXCEPT !.pc = "write_size", !.size = size])
          PROVE  Others(s) /\ Moved(s, "write_size") /\ request'[s].size = size
      BY <1>0, <3>3, MoveSizeIs, StepsAre
    <3> QED
      BY <3>1, <3>2, <3>3
  <2>3. CASE ResizePtyFails(s)
    BY <1>0, <2>3, AnswerIs, StepsAre DEF ResizePtyFails
  <2> QED
    BY <2>1, <2>2, <2>3
<1> HIDE DEF size
<1>2. Carries(s)'
  BY <1>0, <1>1 DEF Carries, At, Answered, Moved
<1>3. Safe'
  BY <1>0, <1>1, <1>2, SafeStep DEF Inv, Safe, Sound, Limit
<1>4. ASSUME Sequential' PROVE Quiet'
  <2>1. Sequential
    BY <1>0, <1>4 DEF Sequential
  <2>2. Applied(s)'
    BY <1>1 DEF Applied, InLoop, At, Answered, Moved
  <2>3. ASSUME NEW p \in Panes
        PROVE  /\ Resized(s, p)'
               /\ pane'[p].pty = pane'[p].parser /\ pane'[p].parser = pane'[p].size
    <3>1. ~At(s, "parser") /\ ~At(s, "set_size")
      BY DEF CreateSize, ConfigReadSize, ResizePtyFails, At
    <3> QED
      BY <1>0, <1>1, <2>1, <3>1, OnlyOne DEF Resized, At, Answered, Moved
  <2> QED
    BY <1>0, <1>1, <2>1, <2>2, <2>3, QuietStep
<1> QED
  BY <1>3, <1>4

\* A limit below the minimum is raised to it.
LEMMA InvMaxEvents ==
    ASSUME Inv, NEW s \in Slots, ConfigMaxEvents(s)
    PROVE  Safe' /\ (Sequential' => Quiet')
<1>0. /\ Typed /\ At(s, "config")
      /\ UNCHANGED <<default_size, pane, made, dropped, overlapped>>
  BY DEF Inv, ConfigMaxEvents, counters
<1>1. /\ Others(s) /\ Moved(s, "read_size")
      /\ request'[s].pane = request[s].pane
  BY <1>0, MoveIs, StepsAre DEF ConfigMaxEvents
<1>2. Limit(default_max_events)'
  <2>1. \A n \in Nat : AtLeast(n, MinEvents) >= MinEvents
    BY DefaultsAssumption DEF AtLeast
  <2>2. request[s].body.max \in Optional(Limits)
    BY <1>0 DEF Typed, RequestType, Bodies
  <2>3. \A field \in Optional(Limits) : field # {} => UnwrapOr(field, 0) \in Limits
    BY UnwrapOrType
  <2>4. request[s].body.max # {} => UnwrapOr(request[s].body.max, 0) \in Nat
    BY <2>2, <2>3, RequestAssumption
  <2> QED
    BY <2>1, <2>4 DEF ConfigMaxEvents, Inv, Safe, Limit
<1>3. Carries(s)'
  BY <1>1 DEF Carries, At, Moved
<1>4. Safe'
  <2>1. \A p \in Panes : Sound(p)'
    BY <1>0 DEF Inv, Safe, Sound, Limit
  <2> QED
    BY <1>0, <1>1, <1>2, <1>3, <2>1, SafeStep DEF Inv, Safe
<1>5. ASSUME Sequential' PROVE Quiet'
  <2>1. Sequential /\ ~At(s, "free") /\ ~At(s, "parser") /\ ~At(s, "set_size")
    BY <1>0, <1>5 DEF Sequential, At
  <2>2. Applied(s)' /\ \A p \in Panes : Resized(s, p)'
    BY <1>1 DEF Applied, InLoop, Resized, At, Moved
  <2> QED
    BY <1>0, <1>1, <2>1, <2>2, OnlyOne, QuietStep
<1> QED
  BY <1>4, <1>5

\* From write_size to the end of the loop the default is the size carried.
LEMMA InvConfig ==
    ASSUME Inv, NEW s \in Slots, ConfigWriteSize(s) \/ ConfigCollect(s) \/ NextPane(s)
    PROVE  Safe' /\ (Sequential' => Quiet')
<1>0. /\ Typed /\ Carries(s) /\ Valid(request[s].size)
      /\ ~At(s, "free") /\ ~At(s, "parser") /\ ~At(s, "set_size")
      /\ UNCHANGED <<default_max_events, pane, made, dropped, overlapped>>
  BY DEF Inv, Safe, Carries, ConfigWriteSize, ConfigCollect, NextPane, At, counters
<1>1. /\ Others(s)
      /\ \/ /\ At(s, "write_size") /\ default_size' = request[s].size
            /\ \/ /\ Moved(s, "collect")
                  /\ request'[s].size = request[s].size
               \/ Answered(s, 200) /\ ~request[s].body.apply
         \/ /\ At(s, "collect") /\ default_size' = default_size
            /\ Moved(s, "next")
            /\ request'[s].size = request[s].size
            /\ request'[s].todo = {p \in Panes : pane[p].exists}
         \/ /\ At(s, "next") /\ default_size' = default_size
            /\ \/ Answered(s, 200) /\ request[s].todo = {}
               \/ \E p \in request[s].todo :
                    /\ Moved(s, "pty")
                    /\ request'[s].size = request[s].size
                    /\ request'[s].pane = {p}
                    /\ request'[s].todo = request[s].todo \ {p}
  <2>1. CASE ConfigWriteSize(s)
    <3>1. CASE request[s].body.apply
      BY <1>0, <2>1, <3>1, MoveIs, StepsAre DEF ConfigWriteSize
    <3>2. CASE ~request[s].body.apply
      BY <1>0, <2>1, <3>2, AnswerIs, StepsAre DEF ConfigWriteSize
    <3> QED
      BY <3>1, <3>2
  <2>2. CASE ConfigCollect(s)
    <3> DEFINE todo == {p \in Panes : pane[p].exists}
    <3>1. At(s, "collect") /\ default_size' = default_size
          /\ Becomes(s, [request[s] EXCEPT !.pc = "next", !.todo = todo])
      BY <2>2 DEF ConfigCollect
    <3> HIDE DEF todo
    <3>2. Others(s) /\ Moved(s, "next") /\ request'[s].size = request[s].size
          /\ request'[s].todo = todo
      BY <1>0, <3>1, MoveTodoIs, StepsAre
    <3> QED
      BY <3>1, <3>2 DEF todo
  <2>3. CASE NextPane(s)
    <3>1. CASE Answer(s, 200) /\ request[s].todo = {}
      BY <1>0, <2>3, <3>1, AnswerIs, StepsAre DEF NextPane
    <3>2. ASSUME NEW p \in request[s].todo,
                 Becomes(s, [request[s] EXCEPT !.pc = "pty", !.pane = {p}, !.todo = @ \ {p}])
          PROVE  /\ Others(s) /\ Moved(s, "pty") /\ request'[s].size = request[s].size
                 /\ request'[s].pane = {p} /\ request'[s].todo = request[s].todo \ {p}
      BY <1>0, <3>2, MovePaneTodoIs, StepsAre
    <3> QED
      BY <2>3, <3>1, <3>2 DEF NextPane
  <2> QED
    BY <2>1, <2>2, <2>3
<1>2. Carries(s)'
  BY <1>0, <1>1 DEF Carries, At, Answered, Moved
<1>3. Safe'
  <2>1. \A p \in Panes : Sound(p)'
    BY <1>0 DEF Inv, Safe, Sound, Limit
  <2>2. Valid(default_size)'
    BY <1>0, <1>1 DEF Inv, Safe
  <2> QED
    BY <1>0, <1>1, <1>2, <2>1, <2>2, SafeStep DEF Inv, Safe, Limit
<1>4. ASSUME Sequential' PROVE Quiet'
  <2>1. Sequential
    BY <1>0, <1>4 DEF Sequential
  <2>2. Applied(s)
    BY <1>0, <2>1, OnlyOne DEF Quiet
  <2>3. Applied(s)'
    <3>1. CASE At(s, "write_size")
      BY <1>0, <1>1, <3>1 DEF Applied, InLoop, At, Answered, Moved
    <3>2. CASE At(s, "collect")
      BY <1>0, <1>1, <2>2, <3>2 DEF Applied, InLoop, Ahead, At, Answered, Moved
    <3>3. CASE At(s, "next")
      BY <1>0, <1>1, <2>2, <3>3 DEF Applied, InLoop, Ahead, At, Answered, Moved
    <3> QED
      BY <1>1, <3>1, <3>2, <3>3
  <2>4. \A p \in Panes : Resized(s, p)'
    BY <1>1 DEF Resized, At, Answered, Moved
  <2> QED
    BY <1>0, <1>1, <2>1, <2>3, <2>4, OnlyOne, QuietStep
<1> QED
  BY <1>3, <1>4

\* A pane is created with one size, and with nobody at work on it.
LEMMA InvCreatePane ==
    ASSUME Inv, NEW s \in Slots, CreatePane(s)
    PROVE  Safe' /\ (Sequential' => Quiet')
<1>0. /\ Typed /\ Carries(s) /\ Valid(request[s].size) /\ ~request[s].body.apply
      /\ At(s, "spawn") /\ Limit(default_max_events)
      /\ UNCHANGED <<default_size, default_max_events, made, dropped, overlapped>>
  BY DEF Inv, Safe, Carries, CreatePane, At, counters
<1>1. Others(s) /\ Answered(s, 200)
  BY <1>0, AnswerIs, StepsAre DEF CreatePane
<1>2. \A p \in Panes :
         \/ pane'[p] = pane[p]
         \/ pane'[p] = [exists |-> TRUE, pty |-> request[s].size, parser |-> request[s].size,
                        size |-> request[s].size, max_events |-> default_max_events]
  BY DEF CreatePane
<1>3. Safe'
  <2>1. \A p \in Panes : Sound(p)'
    BY <1>0, <1>2 DEF Inv, Safe, Sound, Limit
  <2>2. Carries(s)'
    BY <1>1 DEF Carries, At, Answered
  <2> QED
    BY <1>0, <1>1, <2>1, <2>2, SafeStep DEF Inv, Safe, Limit
<1>4. ASSUME Sequential' PROVE Quiet'
  <2>1. Sequential /\ ~At(s, "free") /\ ~At(s, "parser") /\ ~At(s, "set_size")
    BY <1>0, <1>4 DEF Sequential, At
  <2>2. Applied(s)' /\ \A p \in Panes : Resized(s, p)'
    BY <1>0, <1>1 DEF Applied, Resized, At, Answered
  <2>3. \A p \in Panes : pane[p].pty = pane[p].parser /\ pane[p].parser = pane[p].size
    BY <2>1, OnlyOne
  <2>4. \A p \in Panes : pane'[p].pty = pane'[p].parser /\ pane'[p].parser = pane'[p].size
    BY <1>2, <2>3
  <2> QED
    BY <1>1, <2>1, <2>2, <2>4, QuietStep
<1> QED
  BY <1>3, <1>4

\* The three steps of resize_pane.
LEMMA ResizeIs ==
    ASSUME Typed, NEW s \in Slots, NEW p \in Panes
    PROVE  /\ ResizePty(s) =>
                IF p \in request[s].pane
                THEN /\ pane'[p].pty = request[s].size /\ pane'[p].parser = pane[p].parser
                     /\ pane'[p].size = pane[p].size
                     /\ pane'[p].exists = pane[p].exists /\ pane'[p].max_events = pane[p].max_events
                ELSE pane'[p] = pane[p]
           /\ ResizeParser(s) =>
                IF p \in request[s].pane
                THEN /\ pane'[p].pty = pane[p].pty /\ pane'[p].parser = request[s].size
                     /\ pane'[p].size = pane[p].size
                     /\ pane'[p].exists = pane[p].exists /\ pane'[p].max_events = pane[p].max_events
                ELSE pane'[p] = pane[p]
           /\ SetSize(s) =>
                IF p \in request[s].pane
                THEN /\ pane'[p].pty = pane[p].pty /\ pane'[p].parser = pane[p].parser
                     /\ pane'[p].size = request[s].size
                     /\ pane'[p].exists = pane[p].exists /\ pane'[p].max_events = pane[p].max_events
                ELSE pane'[p] = pane[p]
<1>1. pane[p] \in PaneType
  BY DEF Typed
<1>2. CASE p \in request[s].pane
  BY <1>1, <1>2 DEF ResizePty, ResizeParser, SetSize, PaneType
<1>3. CASE p \notin request[s].pane
  BY <1>3 DEF ResizePty, ResizeParser, SetSize
<1> QED
  BY <1>2, <1>3

LEMMA InvResize ==
    ASSUME Inv, NEW s \in Slots, ResizePty(s) \/ ResizeParser(s) \/ SetSize(s)
    PROVE  Safe' /\ (Sequential' => Quiet')
<1>0. /\ Typed /\ Carries(s) /\ Valid(request[s].size) /\ ~At(s, "free")
      /\ UNCHANGED <<default_size, default_max_events, made, dropped, overlapped>>
  BY DEF Inv, Safe, Carries, ResizePty, ResizeParser, SetSize, At, counters
<1>1. /\ Others(s)
      /\ \/ /\ At(s, "pty") /\ ResizePty(s) /\ Moved(s, "parser")
            /\ request'[s].size = request[s].size /\ request'[s].pane = request[s].pane
            /\ request'[s].todo = request[s].todo
         \/ /\ At(s, "parser") /\ ResizeParser(s) /\ Moved(s, "set_size")
            /\ request'[s].size = request[s].size /\ request'[s].pane = request[s].pane
            /\ request'[s].todo = request[s].todo
         \/ /\ At(s, "set_size") /\ SetSize(s)
            /\ \/ /\ Moved(s, "next")
                  /\ request'[s].size = request[s].size /\ request'[s].pane = {}
                  /\ request'[s].todo = request[s].todo
               \/ Answered(s, 204)
  <2>1. CASE ResizePty(s)
    BY <1>0, <2>1, MoveIs, StepsAre DEF ResizePty
  <2>2. CASE ResizeParser(s)
    BY <1>0, <2>2, MoveIs, StepsAre DEF ResizeParser
  <2>3. CASE SetSize(s)
    <3>1. CASE request[s].body.apply
      BY <1>0, <2>3, <3>1, MovePaneIs, StepsAre DEF SetSize
    <3>2. CASE ~request[s].body.apply
      BY <1>0, <2>3, <3>2, AnswerIs, StepsAre DEF SetSize
    <3> QED
      BY <3>1, <3>2
  <2> QED
    BY <2>1, <2>2, <2>3
<1>2. Safe'
  <2>1. ASSUME NEW p \in Panes PROVE Sound(p)'
    <3>1. Sound(p)
      BY DEF Inv, Safe
    <3> QED
      BY <1>0, <3>1, ResizeIs DEF Sound, Limit
  <2>2. Carries(s)'
    BY <1>0, <1>1 DEF Carries, At, Moved, Answered
  <2> QED
    BY <1>0, <1>1, <2>1, <2>2, SafeStep DEF Inv, Safe, Limit
<1>3. ASSUME Sequential' PROVE Quiet'
  <2>1. Sequential
    BY <1>0, <1>3 DEF Sequential
  <2>2. Applied(s) /\ \A p \in Panes : Resized(s, p)
    BY <1>0, <2>1, OnlyOne DEF Quiet
  <2>3. Applied(s)'
    <3>1. request'[s].body = request[s].body
      BY <1>1 DEF Moved, Answered
    <3>2. CASE ~request[s].body.apply
      BY <3>1, <3>2 DEF Applied
    <3>3. CASE request[s].body.apply /\ At(s, "set_size") /\ SetSize(s)
      <4>1. Moved(s, "next") /\ request'[s].size = request[s].size
            /\ request'[s].todo = request[s].todo
        BY <1>0, <3>3, MovePaneIs, StepsAre DEF SetSize
      <4>2. ASSUME NEW p \in Panes, pane'[p].exists
            PROVE  p \in request[s].todo \/ pane'[p].size = request[s].size
        BY <1>0, <2>2, <3>3, <4>2, ResizeIs DEF Applied, InLoop, Ahead
      <4> QED
        BY <1>0, <2>2, <3>3, <4>1, <4>2 DEF Applied, InLoop, Ahead, At, Moved
    <3>4. CASE request[s].body.apply /\ ~At(s, "set_size")
      <4>1. InLoop(s) /\ default_size = request[s].size
        BY <1>1, <2>2, <3>4 DEF Applied, InLoop
      <4>2. ASSUME NEW p \in Panes, pane'[p].exists
            PROVE  p \in request[s].todo \/ p \in request[s].pane \/ pane'[p].size = request[s].size
        BY <1>0, <1>1, <2>2, <3>4, <4>1, <4>2, ResizeIs DEF Applied, Ahead
      <4> QED
        BY <1>0, <1>1, <3>4, <4>1, <4>2 DEF Applied, InLoop, Ahead, At, Moved
    <3> QED
      BY <1>1, <3>2, <3>3, <3>4 DEF At
  <2>4. ASSUME NEW p \in Panes
        PROVE  /\ Resized(s, p)'
               /\ \/ p \in request'[s].pane /\ request'[s].pc \in {"parser", "set_size"}
                  \/ pane'[p].pty = pane'[p].parser /\ pane'[p].parser = pane'[p].size
    <3>1. Resized(s, p)
      BY <2>2
    <3>2. \/ p \in request[s].pane /\ (At(s, "parser") \/ At(s, "set_size"))
          \/ pane[p].pty = pane[p].parser /\ pane[p].parser = pane[p].size
      BY <1>0, <2>1, OnlyOne
    <3>3. CASE At(s, "pty") /\ ResizePty(s)
      BY <1>0, <1>1, <3>1, <3>2, <3>3, ResizeIs DEF Resized, At, Moved
    <3>4. CASE At(s, "parser") /\ ResizeParser(s)
      BY <1>0, <1>1, <3>1, <3>2, <3>4, ResizeIs DEF Resized, At, Moved
    <3>5. CASE At(s, "set_size") /\ SetSize(s)
      BY <1>0, <1>1, <3>1, <3>2, <3>5, ResizeIs DEF Resized, At, Moved, Answered
    <3> QED
      BY <1>1, <3>3, <3>4, <3>5
  <2> QED
    BY <1>0, <1>1, <2>1, <2>3, <2>4, QuietStep
<1> QED
  BY <1>2, <1>3

\* After an abandoned request nothing is claimed of what it left.
LEMMA InvDrop ==
    ASSUME Inv, NEW s \in Slots, Drop(s)
    PROVE  Safe' /\ (Sequential' => Quiet')
<1>0. /\ Typed /\ dropped \in Nat /\ dropped' = dropped + 1
      /\ UNCHANGED <<default_size, default_max_events, pane>>
  BY DEF Inv, Typed, Drop
<1>1. Others(s) /\ request'[s] = Free(0)
  BY <1>0, FreeType, BecomesType DEF Drop, Others
<1>2. Carries(s)'
  BY <1>1, Blank DEF Carries, At
<1>3. Safe'
  BY <1>0, <1>1, <1>2, SafeStep DEF Inv, Safe, Sound, Limit
<1>4. ~Sequential'
  BY <1>0 DEF Sequential
<1> QED
  BY <1>3, <1>4

LEMMA InvNext == Inv /\ [Next]_vars => Inv'
<1> SUFFICES ASSUME Inv, [Next]_vars PROVE Inv'
  OBVIOUS
<1>1. Typed'
  BY TypeNext DEF Inv
<1>2. CASE UNCHANGED vars
  BY <1>2 DEF vars, Inv, Typed, Safe, Limit, Carries, Sound, Sequential, Quiet, Alone, SizesAgree,
              BeingResized, Applied, InLoop, Ahead, Resized, At
<1>3. ASSUME NEW s \in Slots,
             \/ CreateSize(s) \/ CreatePane(s) \/ ConfigMaxEvents(s) \/ ConfigReadSize(s)
             \/ ConfigWriteSize(s) \/ ConfigCollect(s) \/ NextPane(s)
             \/ ResizePty(s) \/ ResizePtyFails(s) \/ ResizeParser(s) \/ SetSize(s) \/ Drop(s)
      PROVE  Inv'
  BY <1>1, <1>3, InvSized, InvMaxEvents, InvConfig, InvCreatePane, InvResize, InvDrop DEF Inv
<1>4. ASSUME NEW s \in Slots, BeginCreate(s) \/ BeginConfig(s) \/ BeginResize(s)
      PROVE  Inv'
  BY <1>4, InvBegins
<1> QED
  BY <1>2, <1>3, <1>4 DEF Next

\* The invariant that the three results below rest on.
THEOREM Invariance == Spec => []Inv
BY InvInit, InvNext, PTL DEF Spec

\* However requests overlap, fail or are abandoned, no default and no pane ever
\* has a size without columns or rows, or a limit below the minimum that is not
\* the one the server started with.
THEOREM SizesAndLimitsAreSound == Spec => []NothingDegenerate
<1>1. Inv => NothingDegenerate
  BY DEF Inv, Safe, Sound, Limit, NothingDegenerate
<1> QED
  BY <1>1, Invariance, PTL

\* When requests do not overlap a pane that nobody is resizing has one size,
\* the same in the PTY, the parser and the list of panes, also after an error.
THEOREM SizesAgreeWhenSequential == Spec => []SizesAgreeAtRest
<1>1. Inv => SizesAgreeAtRest
  BY DEF Inv, Quiet, SizesAgreeAtRest
<1> QED
  BY <1>1, Invariance, PTL

\* When requests do not overlap a PATCH with apply_to_existing that answers 200
\* has given every pane the resulting default size.
THEOREM PatchReachesEveryPane == Spec => []AppliedToAll
<1>1. Inv => AppliedToAll
  BY DEF Inv, Quiet, Applied, At, AppliedToAll
<1> QED
  BY <1>1, Invariance, PTL
=============================================================================
