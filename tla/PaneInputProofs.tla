---------------------------- MODULE PaneInputProofs ----------------------------
(***************************************************************************)
(* Theorems about PaneInput, for any panes, sessions, workers, terminals,  *)
(* text size and number of requests: what a terminal is given is whole     *)
(* requests in order, and an Enter comes after the text it belongs to.     *)
(***************************************************************************)
EXTENDS PaneInput, FiniteSetTheorems, SequenceTheorems, TLAPS

Steps == {"new", "ready", "waiting", "granted", "writing", "done"}

RequestType == [pc : Steps, from : Sessions \cup {None}, pane : Panes \cup {None},
                size : {0, 1, TextSize}, body : 0..MaxRequests, wrote : 0..TextSize]

Input == Seq(Requests \X (1..TextSize))

Loops == {"read", "waits", "process"}

TermType == [open : BOOLEAN, input : Input, read : Nat, out : 0..OutCap, loop : Loops]

SessionType == [open : BOOLEAN, selected : Panes \cup {None},
                enters : Seq(Panes \X Requests), waits : 0..MaxRequests]

-----------------------------------------------------------------------------
(***************************************************************************)
(* The inductive invariant.                                                *)
(***************************************************************************)
\* Requests are numbered as they are made, and know what they are to write.
Numbered == \E k \in 0..MaxRequests : \A n \in Requests : request[n].pc # "new" <=> n <= k

Known(n) ==
    /\ request[n].pc # "new" => request[n].pane \in Panes /\ request[n].size \in {1, TextSize}
    /\ request[n].pc \in {"new", "ready", "waiting", "granted"} => request[n].wrote = 0
    /\ request[n].pc = "writing" => request[n].wrote < request[n].size

\* The queue of a pane's writer: those that want it, once each, and its head alone
\* has it.
Queued(p) ==
    /\ \A i, j \in 1..Len(queue[p]) : queue[p][i] = queue[p][j] => i = j
    /\ \A i \in 1..Len(queue[p]) :
          /\ request[queue[p][i]].pane = p
          /\ request[queue[p][i]].pc \in IF i = 1 THEN {"granted", "writing"} ELSE {"waiting"}

InQueue(n) ==
    request[n].pc \in {"waiting", "granted", "writing"} =>
        \E i \in 1..Len(queue[request[n].pane]) : queue[request[n].pane][i] = n

\* What a terminal was given is of requests that write or have written to it.
Given(p) ==
    \A i \in 1..Len(term[p].input) :
        LET n == term[p].input[i][1]
        IN  /\ request[n].pc \in {"writing", "done"}
            /\ request[n].pane = p
            /\ term[p].input[i][2] <= request[n].size

Whole(p) ==
    LET input == term[p].input
    IN  \A i \in 1..Len(input) :
           LET n == input[i][1]
           IN  /\ input[i][2] > 1 => i > 1 /\ input[i - 1] = <<n, input[i][2] - 1>>
               /\ i < Len(input) /\ input[i][2] < request[n].size =>
                     input[i + 1] = <<n, input[i][2] + 1>>

\* As long as the shell runs, the request that is not all there is being written.
LastIsWhole(p) ==
    LET input == term[p].input
        last == input[Len(input)]
    IN  term[p].open /\ input # << >> =>
            \/ last[2] = request[last[1]].size
            \/ request[last[1]].pc = "writing" /\ last[2] = request[last[1]].wrote

WritesAtEnd(n) ==
    LET input == term[request[n].pane].input
    IN  request[n].pc = "writing" /\ request[n].wrote > 0 =>
            input # << >> /\ input[Len(input)] = <<n, request[n].wrote>>

\* All of text b has been given to p, or nothing will be any more.
TextIsThere(p, b) ==
    \/ ~term[p].open
    \/ \E i \in 1..Len(term[p].input) : term[p].input[i] = <<b, TextSize>>

EnterIsLate(n) ==
    request[n].pc # "new" /\ request[n].body # 0 =>
        TextIsThere(request[n].pane, request[n].body)

EntersFollow(p) ==
    \A i \in 1..Len(term[p].input) :
        LET body == request[term[p].input[i][1]].body
        IN  body # 0 => \E j \in 1..(i - 1) : term[p].input[j] = <<body, TextSize>>

\* An Enter still to be sent is for the pane of its text, which is there, or which
\* the session waits for: nobody drops it then.
Awaited(s) ==
    /\ session[s].enters # << >> => session[s].open
    /\ \A i \in 1..Len(session[s].enters) :
          LET p == session[s].enters[i][1]
              b == session[s].enters[i][2]
          IN  /\ request[b].pc # "new"
              /\ request[b].from = s /\ request[b].pane = p /\ request[b].size = TextSize
              /\ request[b].pc = "done" => TextIsThere(p, b)
              /\ request[b].pc # "done" => session[s].waits = b

Typed == /\ request \in [Requests -> RequestType]
         /\ queue \in [Panes -> Seq(Requests)]
         /\ term \in [Panes -> TermType]
         /\ screen \in [Panes -> {"none", "waiting", "granted"}]
         /\ session \in [Sessions -> SessionType]

Locked == /\ Numbered
          /\ \A n \in Requests : Known(n) /\ InQueue(n)
          /\ \A p \in Panes : Queued(p)

Written == /\ \A p \in Panes : Given(p) /\ Whole(p) /\ LastIsWhole(p)
           /\ \A n \in Requests : WritesAtEnd(n)

Followed == /\ \A n \in Requests : EnterIsLate(n)
            /\ \A p \in Panes : EntersFollow(p)
            /\ \A s \in Sessions : Awaited(s)

Inv == Typed /\ Locked /\ Written /\ Followed

LEMMA StepsAre == /\ "new" \in Steps /\ "ready" \in Steps /\ "waiting" \in Steps
                  /\ "granted" \in Steps /\ "writing" \in Steps /\ "done" \in Steps
BY DEF Steps

LEMMA InvInit == Init => Inv
<1> SUFFICES ASSUME Init PROVE Inv
  OBVIOUS
<1>1. Typed
  <2>1. NoRequest \in RequestType
    BY SizeAssumption, BoundsAssumption, StepsAre DEF NoRequest, RequestType
  <2>2. [open |-> TRUE, input |-> << >>, read |-> 0, out |-> 0, loop |-> "read"] \in TermType
    BY SizeAssumption DEF TermType, Input, Loops
  <2>3. [open |-> TRUE, selected |-> None, enters |-> << >>, waits |-> 0] \in SessionType
    BY BoundsAssumption DEF SessionType
  <2> QED
    BY <2>1, <2>2, <2>3 DEF Init, Typed
<1>2. Locked
  <2>1. Numbered
    <3>1. 0 \in 0..MaxRequests
      BY BoundsAssumption
    <3>2. \A n \in Requests : request[n].pc # "new" <=> n <= 0
      BY DEF Init, NoRequest, Requests
    <3> QED
      BY <3>1, <3>2 DEF Numbered
  <2> QED
    BY <2>1 DEF Init, Locked, Known, InQueue, Queued, NoRequest
<1>3. Written
  BY DEF Init, Written, Given, Whole, LastIsWhole, WritesAtEnd, NoRequest
<1>4. Followed
  BY DEF Init, Followed, EnterIsLate, EntersFollow, Awaited, NoRequest
<1> QED
  BY <1>1, <1>2, <1>3, <1>4 DEF Inv

-----------------------------------------------------------------------------
(***************************************************************************)
(* The writer's queue.                                                     *)
(***************************************************************************)
\* Taking a request out of a queue that holds it once.
LEMMA Removed ==
  ASSUME NEW q \in Seq(Requests), NEW n,
         \A i, j \in 1..Len(q) : q[i] = q[j] => i = j
  PROVE  LET r == RemoveFirst(q, n)
         IN  /\ r \in Seq(Requests)
             /\ \E k \in 1..(Len(q) + 1) :
                   /\ k <= Len(q) => q[k] = n
                   /\ Len(r) = IF k <= Len(q) THEN Len(q) - 1 ELSE Len(q)
                   /\ \A i \in 1..Len(r) :
                         r[i] # n /\ r[i] = IF i < k THEN q[i] ELSE q[i + 1]
<1> DEFINE r == RemoveFirst(q, n)
<1>1. CASE \E i \in 1..Len(q) : q[i] = n
  <2> DEFINE I == {i \in 1..Len(q) : q[i] = n}
  <2>1. PICK k \in 1..Len(q) : q[k] = n
    BY <1>1
  <2>2. I = {k}
    BY <2>1
  <2>3. SelectInSeq(q, LAMBDA v : v = n) = Min(I)
    BY <2>2 DEF SelectInSeq
  <2>4. Min({k}) = k
    BY DEF Min
  <2>5. r = RemoveAt(q, k)
    BY <1>1, <2>2, <2>3, <2>4 DEF RemoveFirst
  <2> DEFINE before == SubSeq(q, 1, k - 1)
             after == SubSeq(q, k + 1, Len(q))
  <2>6. /\ before \in Seq(Requests) /\ Len(before) = k - 1
        /\ \A i \in 1..(k - 1) : before[i] = q[i]
    OBVIOUS
  <2>7. /\ after \in Seq(Requests) /\ Len(after) = Len(q) - k
        /\ \A i \in 1..(Len(q) - k) : after[i] = q[k + i]
    OBVIOUS
  <2>8. r = before \o after
    BY <2>5 DEF RemoveAt
  <2> HIDE DEF before, after, r
  <2>9. r \in Seq(Requests) /\ Len(r) = Len(q) - 1
    BY <2>6, <2>7, <2>8
  <2>10. ASSUME NEW i \in 1..Len(r) PROVE r[i] = IF i < k THEN q[i] ELSE q[i + 1]
    <3>1. CASE i < k
      BY <2>6, <2>7, <2>8, <2>9, <3>1
    <3>2. CASE i >= k
      <4>1. r[i] = after[i - (k - 1)] /\ i - (k - 1) \in 1..(Len(q) - k)
        BY <2>6, <2>7, <2>8, <2>9, <3>2
      <4> QED
        BY <2>7, <3>2, <4>1
    <3> QED
      BY <3>1, <3>2
  <2>11. ASSUME NEW i \in 1..Len(r) PROVE r[i] # n
    BY <2>1, <2>9, <2>10
  <2>12. k \in 1..(Len(q) + 1) /\ k <= Len(q)
    OBVIOUS
  <2> QED
    BY <2>1, <2>9, <2>10, <2>11, <2>12 DEF r
<1>2. CASE ~\E i \in 1..Len(q) : q[i] = n
  <2>1. r = q
    BY <1>2 DEF RemoveFirst
  <2> HIDE DEF r
  <2>2. Len(q) + 1 \in 1..(Len(q) + 1) /\ ~(Len(q) + 1 <= Len(q))
    OBVIOUS
  <2>3. \A i \in 1..Len(r) : r[i] # n /\ r[i] = IF i < Len(q) + 1 THEN q[i] ELSE q[i + 1]
    BY <1>2, <2>1
  <2> QED
    BY <2>1, <2>2, <2>3 DEF r
<1> QED
  BY <1>1, <1>2

\* What a request is to write, and where, stays as it was made.
Same(m) == /\ request'[m].from = request[m].from /\ request'[m].pane = request[m].pane
           /\ request'[m].size = request[m].size /\ request'[m].body = request[m].body

\* Nobody but the request that leaves, and the one that has the writer next, is
\* disturbed.
LEMMA Leaving ==
  ASSUME Typed, Locked, NEW n \in Requests, request[n].pc # "new",
         NEW wrote \in 0..TextSize, Leave(n, wrote)
  PROVE  /\ request' \in [Requests -> RequestType]
         /\ queue' \in [Panes -> Seq(Requests)]
         /\ Locked'
         /\ \A m \in Requests : Same(m)
         /\ request'[n].pc = "done" /\ request'[n].wrote = wrote
         /\ \A m \in Requests \ {n} :
               /\ request'[m].wrote = request[m].wrote
               /\ \/ request'[m].pc = request[m].pc
                  \/ request[m].pc = "waiting" /\ request'[m].pc = "granted"
<1>0. PICK p \in Panes : p = request[n].pane
  BY DEF Locked, Known
<1> DEFINE q == queue[p]
           left == RemoveFirst(q, n)
           next(m) == left # << >> /\ m = Head(left) /\ request[m].pc = "waiting"
<1>1. q \in Seq(Requests) /\ \A i, j \in 1..Len(q) : q[i] = q[j] => i = j
  BY DEF Typed, Locked, Known, Queued
<1>2. left \in Seq(Requests)
  BY <1>1, Removed
<1>22. PICK k \in 1..(Len(q) + 1) :
        /\ k <= Len(q) => q[k] = n
        /\ Len(left) = IF k <= Len(q) THEN Len(q) - 1 ELSE Len(q)
        /\ \A i \in 1..Len(left) : left[i] # n /\ left[i] = IF i < k THEN q[i] ELSE q[i + 1]
  <2> HIDE DEF q
  <2> QED
    BY <1>1, Removed
<1>3. /\ queue' = [queue EXCEPT ![p] = left]
      /\ request' = [m \in Requests |->
           IF m = n THEN [request[n] EXCEPT !.pc = "done", !.wrote = wrote]
           ELSE IF next(m) THEN [request[m] EXCEPT !.pc = "granted"] ELSE request[m]]
  BY <1>0 DEF Leave
<1> HIDE DEF left
<1>4. queue' \in [Panes -> Seq(Requests)] /\ queue'[p] = left
      /\ \A o \in Panes \ {p} : queue'[o] = queue[o]
  BY <1>1, <1>2, <1>3 DEF Typed
<1> HIDE DEF next
<1>5. \A m \in Requests : request[m] \in RequestType
  BY DEF Typed
<1>6. request' \in [Requests -> RequestType]
  BY <1>3, <1>5, StepsAre DEF RequestType
<1>7. /\ \A m \in Requests : Same(m)
      /\ request'[n].pc = "done" /\ request'[n].wrote = wrote
      /\ \A m \in Requests \ {n} :
            /\ request'[m].wrote = request[m].wrote
            /\ request'[m].pc = IF next(m) THEN "granted" ELSE request[m].pc
  BY <1>3, <1>5 DEF RequestType, Same
<1>8. \A m \in Requests : next(m) => left # << >> /\ m = left[1] /\ request[m].pc = "waiting"
  BY <1>2 DEF next
<1>9. \A m \in Requests :
        left # << >> /\ m = left[1] /\ request[m].pc = "waiting" => next(m)
  BY <1>2 DEF next
<1>10. Numbered'
  BY <1>7, <1>8 DEF Locked, Numbered
<1>11. ASSUME NEW m \in Requests PROVE Known(m)'
  BY <1>7, <1>8 DEF Locked, Known, Same
<1>12. \A i \in 1..Len(left) : left[i] # n /\ left[i] \in Requests
  BY <1>2, <1>22
<1>13. Queued(p)'
  <2>1. ASSUME NEW i \in 1..Len(left), NEW j \in 1..Len(left), left[i] = left[j]
        PROVE  i = j
    <3> DEFINE at(l) == IF l < k THEN l ELSE l + 1
    <3>1. at(i) \in 1..Len(q) /\ at(j) \in 1..Len(q) /\ q[at(i)] = q[at(j)]
      BY <1>1, <1>2, <1>22, <2>1
    <3>2. at(i) = at(j)
      BY <1>1, <3>1
    <3> QED
      BY <1>2, <3>2
  <2>2. ASSUME NEW i \in 1..Len(left)
        PROVE  /\ request[left[i]].pane = p
               /\ IF i = 1 THEN request[left[i]].pc \in {"granted", "writing", "waiting"}
                  ELSE request[left[i]].pc = "waiting"
    <3>1. PICK j \in 1..Len(q) : left[i] = q[j] /\ (i # 1 => j # 1)
      BY <1>1, <1>2, <1>22
    <3> QED
      BY <3>1 DEF Locked, Queued
  <2>3. ASSUME NEW i \in 1..Len(left)
        PROVE  /\ request'[left[i]].pane = p
               /\ request'[left[i]].pc \in IF i = 1 THEN {"granted", "writing"} ELSE {"waiting"}
    <3>1. CASE i = 1
      BY <1>2, <1>7, <1>9, <1>12, <2>2, <3>1 DEF Same
    <3>2. CASE i # 1
      <4>1. ~next(left[i])
        BY <1>8, <1>12, <2>1, <3>2
      <4> QED
        BY <1>7, <1>12, <2>2, <3>2, <4>1 DEF Same
    <3> QED
      BY <3>1, <3>2
  <2> QED
    BY <1>4, <2>1, <2>3 DEF Queued
<1>14. ASSUME NEW o \in Panes \ {p} PROVE Queued(o)'
  <2>1. Queued(o) /\ queue'[o] = queue[o] /\ queue[o] \in Seq(Requests)
    BY <1>4 DEF Locked, Typed
  <2>2. \A m \in Requests : next(m) => request[m].pane = p
    <3>1. ASSUME left # << >> PROVE \E j \in 1..Len(q) : left[1] = q[j]
      <4>1. 1 \in 1..Len(left)
        BY <1>2, <3>1
      <4>2. left[1] = IF 1 < k THEN q[1] ELSE q[2]
        BY <1>22, <4>1
      <4>3. 1 \in 1..Len(q) /\ (~(1 < k) => 2 \in 1..Len(q))
        BY <1>1, <1>22, <4>1
      <4> QED
        BY <4>2, <4>3
    <3>2. left # << >> => request[left[1]].pane = p
      BY <3>1 DEF Locked, Queued
    <3> QED
      BY <1>8, <3>2
  <2>3. ASSUME NEW i \in 1..Len(queue[o])
        PROVE  /\ request'[queue[o][i]].pane = request[queue[o][i]].pane
               /\ request'[queue[o][i]].pc = request[queue[o][i]].pc
    <3>1. queue[o][i] \in Requests /\ request[queue[o][i]].pane = o
      BY <2>1 DEF Queued
    <3>2. queue[o][i] # n /\ ~next(queue[o][i])
      BY <1>0, <2>2, <3>1
    <3> QED
      BY <1>7, <3>1, <3>2 DEF Same
  <2> QED
    BY <2>1, <2>3 DEF Queued
<1>15. ASSUME NEW m \in Requests PROVE InQueue(m)'
  <2> SUFFICES ASSUME request'[m].pc \in {"waiting", "granted", "writing"}
               PROVE  \E i \in 1..Len(queue'[request'[m].pane]) : queue'[request'[m].pane][i] = m
    BY DEF InQueue
  <2>1. m # n /\ request'[m].pane = request[m].pane
        /\ request[m].pc \in {"waiting", "granted", "writing"}
    BY <1>7, <1>8 DEF Same
  <2>2. PICK j \in 1..Len(queue[request[m].pane]) : queue[request[m].pane][j] = m
    BY <2>1 DEF Locked, InQueue
  <2>3. CASE request[m].pane = p
    <3>1. \E i \in 1..Len(left) : left[i] = m
      <4>1. CASE j < k
        BY <1>1, <1>22, <2>2, <2>3, <4>1
      <4>2. CASE j > k
        <5>1. j - 1 \in 1..Len(left) /\ left[j - 1] = m
          BY <1>1, <1>22, <2>2, <2>3, <4>2
        <5> QED
          BY <5>1
      <4> QED
        BY <1>1, <1>22, <2>1, <2>2, <2>3, <4>1, <4>2
    <3> QED
      BY <1>4, <2>1, <2>3, <3>1
  <2>4. CASE request[m].pane # p
    <3>1. request[m].pane \in Panes
      BY <2>1 DEF Locked, Known
    <3> QED
      BY <1>4, <2>1, <2>2, <2>4, <3>1
  <2> QED
    BY <2>3, <2>4
<1>16. Locked'
  BY <1>10, <1>11, <1>13, <1>14, <1>15 DEF Locked
<1> QED
  BY <1>0, <1>4, <1>6, <1>7, <1>8, <1>16

-----------------------------------------------------------------------------
(***************************************************************************)
(* What a step leaves as it was.                                           *)
(***************************************************************************)
\* Terminals are given more, never less, and do not open again.
Extends ==
    \A p \in Panes :
        /\ term'[p].open => term[p].open
        /\ Len(term[p].input) <= Len(term'[p].input)
        /\ \A i \in 1..Len(term[p].input) : term'[p].input[i] = term[p].input[i]

SameInput ==
    \A p \in Panes :
        (term'[p].open => term[p].open) /\ term'[p].input = term[p].input

\* An entry of a terminal's input.
LEMMA EntryTyped ==
  ASSUME Typed, NEW p \in Panes
  PROVE  /\ Len(term[p].input) \in Nat
         /\ \A i \in 1..Len(term[p].input) :
               /\ term[p].input[i][1] \in Requests /\ term[p].input[i][2] \in 1..TextSize
               /\ term[p].input[i] = <<term[p].input[i][1], term[p].input[i][2]>>
BY DEF Typed, TermType, Input

LEMMA SameExtends ==
  ASSUME Typed, SameInput
  PROVE  Extends
BY DEF SameInput, Extends, Typed, TermType, Input

LEMMA TextStays ==
  ASSUME Typed, Typed', Extends, NEW p \in Panes, NEW b, TextIsThere(p, b)
  PROVE  TextIsThere(p, b)'
<1>1. Len(term[p].input) \in Nat /\ Len(term'[p].input) \in Nat
  BY DEF Typed, TermType, Input
<1> QED
  BY <1>1 DEF Extends, TextIsThere

\* Steps that write nothing.
LEMMA WrittenKeeps ==
  ASSUME Typed, Locked, Written, SameInput,
         \A m \in Requests : request[m].pc \in {"writing", "done"} =>
            Same(m) /\ request'[m].pc \in {"writing", "done"},
         \A m \in Requests : request[m].pc = "writing" =>
            \/ request'[m].pc = "writing" /\ request'[m].wrote = request[m].wrote
            \/ ~term'[request[m].pane].open,
         \A m \in Requests : request'[m].pc = "writing" =>
            \/ request[m].pc = "writing" /\ request'[m].wrote = request[m].wrote
            \/ request'[m].wrote = 0
  PROVE  Written'
<1>1. ASSUME NEW p \in Panes, NEW i \in 1..Len(term[p].input)
      PROVE  LET m == term[p].input[i][1]
             IN  /\ m \in Requests /\ request[m].pc \in {"writing", "done"}
                 /\ request[m].pane = p
  BY DEF Typed, TermType, Input, Written, Given
<1>2. ASSUME NEW p \in Panes PROVE Given(p)' /\ Whole(p)'
  <2>0. PICK input : input = term[p].input /\ input = term'[p].input
    BY DEF SameInput
  <2>1. ASSUME NEW i \in 1..Len(input)
        PROVE  LET m == input[i][1]
               IN  /\ request'[m].pc \in {"writing", "done"}
                   /\ request'[m].pane = p /\ request'[m].size = request[m].size
                   /\ input[i][2] <= request[m].size
    <3>1. PICK m \in Requests : m = input[i][1] /\ request[m].pc \in {"writing", "done"}
                                /\ request[m].pane = p
      BY <1>1, <2>0
    <3>2. input[i][2] <= request[m].size
      BY <2>0, <3>1 DEF Written, Given
    <3>3. Same(m) /\ request'[m].pc \in {"writing", "done"}
      BY <3>1
    <3> QED
      BY <3>1, <3>2, <3>3 DEF Same
  <2>2. \A i \in 1..Len(input) :
           LET n == input[i][1]
           IN  /\ input[i][2] > 1 => i > 1 /\ input[i - 1] = <<n, input[i][2] - 1>>
               /\ i < Len(input) /\ input[i][2] < request[n].size =>
                     input[i + 1] = <<n, input[i][2] + 1>>
    BY <2>0 DEF Written, Whole
  <2>3. Given(p)'
    BY <2>0, <2>1 DEF Given
  <2>4. Whole(p)'
    BY <2>0, <2>1, <2>2 DEF Whole
  <2> QED
    BY <2>3, <2>4
<1>3. ASSUME NEW p \in Panes PROVE LastIsWhole(p)'
  <2> SUFFICES ASSUME term'[p].open, term[p].input # << >>
               PROVE  LET last == term[p].input[Len(term[p].input)]
                      IN  \/ last[2] = request'[last[1]].size
                          \/ request'[last[1]].pc = "writing" /\ last[2] = request'[last[1]].wrote
    BY DEF SameInput, LastIsWhole
  <2> DEFINE l == Len(term[p].input)
             m == term[p].input[l][1]
  <2>1. l \in 1..Len(term[p].input)
    BY DEF Typed, TermType, Input
  <2>2. m \in Requests /\ request[m].pc \in {"writing", "done"} /\ request[m].pane = p
    BY <1>1, <2>1
  <2>3. \/ term[p].input[l][2] = request[m].size
        \/ request[m].pc = "writing" /\ term[p].input[l][2] = request[m].wrote
    BY DEF SameInput, Written, LastIsWhole
  <2> HIDE DEF m, l
  <2>4. \/ term[p].input[l][2] = request'[m].size
        \/ request'[m].pc = "writing" /\ term[p].input[l][2] = request'[m].wrote
    BY <2>2, <2>3 DEF Same
  <2> QED
    BY <2>4 DEF m, l
<1>4. ASSUME NEW n \in Requests PROVE WritesAtEnd(n)'
  <2> SUFFICES ASSUME request'[n].pc = "writing", request'[n].wrote > 0
               PROVE  LET input == term'[request'[n].pane].input
                      IN  input # << >> /\ input[Len(input)] = <<n, request'[n].wrote>>
    BY DEF WritesAtEnd
  <2>1. request[n].pc = "writing" /\ request'[n].wrote = request[n].wrote
    OBVIOUS
  <2>2. request'[n].pane = request[n].pane /\ request[n].pane \in Panes
    BY <2>1 DEF Same, Locked, Known
  <2>3. PICK p \in Panes : p = request[n].pane /\ p = request'[n].pane
    BY <2>2
  <2>4. term'[p].input = term[p].input
    BY DEF SameInput
  <2>5. term[p].input # << >> /\ term[p].input[Len(term[p].input)] = <<n, request[n].wrote>>
    BY <2>1, <2>3 DEF Written, WritesAtEnd
  <2> QED
    BY <2>1, <2>3, <2>4, <2>5
<1> QED
  BY <1>2, <1>3, <1>4 DEF Written

\* Requests that are made stay as they are, and a new one is no Enter or a late one.
LEMMA LateKeeps ==
  ASSUME Typed, Typed', Locked, Followed, Extends,
         \A m \in Requests : request[m].pc # "new" => Same(m),
         \A m \in Requests : request[m].pc = "new" /\ request'[m].pc # "new" =>
            \A p \in Panes, b \in 0..MaxRequests :
               request'[m].pane = p /\ request'[m].body = b /\ b # 0 => TextIsThere(p, b),
         \A m \in Requests : request'[m].pc # "new" => request'[m].pane \in Panes
  PROVE  \A n \in Requests : EnterIsLate(n)'
<1> SUFFICES ASSUME NEW n \in Requests, request'[n].pc # "new", request'[n].body # 0,
                    NEW p \in Panes, p = request'[n].pane,
                    NEW b \in 0..MaxRequests, b = request'[n].body
             PROVE  TextIsThere(p, b)'
  <2>1. \A n \in Requests : request'[n].body \in 0..MaxRequests
    BY DEF Typed, RequestType
  <2> QED
    BY <2>1 DEF EnterIsLate, TextIsThere
<1>1. TextIsThere(p, b)
  BY DEF Followed, EnterIsLate, Same
<1> QED
  BY <1>1, TextStays

\* A session that goes on waiting as it did finds the texts it has sent.
LEMMA AwaitedKeeps ==
  ASSUME Typed, Typed', Followed, Extends,
         NEW s \in Sessions, session'[s] = session[s],
         \A m \in Requests : request[m].pc # "new" => request'[m].pc # "new" /\ Same(m),
         \A m \in Requests : request[m].pc = "done" => request'[m].pc = "done",
         \A m \in Requests : request'[m].pc = "done" /\ request[m].pc # "done" =>
            \A p \in Panes : request[m].pane = p /\ request[m].size = TextSize =>
               \/ TextIsThere(p, m)'
               \/ request[m].from # None => session[request[m].from].waits # m
  PROVE  Awaited(s)'
<1>0. ASSUME NEW i \in 1..Len(session[s].enters),
             NEW p \in Panes, p = session[s].enters[i][1],
             NEW b \in Requests, b = session[s].enters[i][2]
      PROVE  /\ request'[b].pc # "new"
             /\ request'[b].from = s /\ request'[b].pane = p
             /\ request'[b].size = TextSize
             /\ request'[b].pc = "done" => TextIsThere(p, b)'
             /\ request'[b].pc # "done" => session'[s].waits = b
  <2>2. /\ request[b].pc # "new" /\ request[b].from = s /\ request[b].pane = p
        /\ request[b].size = TextSize
        /\ IF request[b].pc = "done" THEN TextIsThere(p, b) ELSE session[s].waits = b
    BY <1>0 DEF Followed, Awaited
  <2>3. s # None
    BY NoneAssumption
  <2>4. request'[b].pc # "new" /\ Same(b)
    BY <2>2
  <2>5. CASE request[b].pc = "done"
    <3>1. TextIsThere(p, b)
      BY <2>2, <2>5
    <3>2. TextIsThere(p, b)'
      BY <3>1, TextStays
    <3>3. request'[b].pc = "done"
      BY <2>5
    <3> QED
      BY <2>2, <2>4, <3>2, <3>3 DEF Same
  <2>6. CASE request[b].pc # "done"
    <3>1. session[s].waits = b
      BY <2>2, <2>6
    <3>2. request'[b].pc = "done" => TextIsThere(p, b)'
      BY <2>2, <2>3, <2>6, <3>1
    <3> QED
      BY <2>2, <2>4, <3>1, <3>2 DEF Same
  <2> QED
    BY <2>5, <2>6
<1>1. \A i \in 1..Len(session[s].enters) :
        session[s].enters[i][1] \in Panes /\ session[s].enters[i][2] \in Requests
  BY DEF Typed, SessionType
<1>2. ASSUME NEW i \in 1..Len(session[s].enters)
      PROVE  LET p == session[s].enters[i][1]
                 b == session[s].enters[i][2]
             IN  /\ request'[b].pc # "new"
                 /\ request'[b].from = s /\ request'[b].pane = p
                 /\ request'[b].size = TextSize
                 /\ request'[b].pc = "done" => TextIsThere(p, b)'
                 /\ request'[b].pc # "done" => session'[s].waits = b
  BY <1>0, <1>1
<1> QED
  BY <1>2 DEF Followed, Awaited

LEMMA EntersKeep ==
  ASSUME Typed, Written, Followed, SameInput,
         \A m \in Requests : request[m].pc # "new" => Same(m)
  PROVE  \A p \in Panes : EntersFollow(p)'
<1> SUFFICES ASSUME NEW p \in Panes PROVE EntersFollow(p)'
  OBVIOUS
<1>1. PICK input : input = term[p].input /\ input = term'[p].input
  BY DEF SameInput
<1>2. ASSUME NEW i \in 1..Len(input)
      PROVE  request'[input[i][1]].body = request[input[i][1]].body
  <2>1. input[i][1] \in Requests /\ request[input[i][1]].pc # "new"
    BY <1>1, EntryTyped DEF Written, Given
  <2> QED
    BY <2>1 DEF Same
<1>3. \A i \in 1..Len(input) :
        LET body == request[input[i][1]].body
        IN  body # 0 => \E j \in 1..(i - 1) : input[j] = <<body, TextSize>>
  BY <1>1 DEF Followed, EntersFollow
<1> QED
  BY <1>1, <1>2, <1>3 DEF EntersFollow

-----------------------------------------------------------------------------
(***************************************************************************)
(* Requests are made.                                                      *)
(***************************************************************************)
LEMMA MadeCounts ==
  ASSUME Typed, Numbered
  PROVE  Made \in Nat /\ \A n \in Requests : request[n].pc # "new" <=> n <= Made
<1>1. PICK k \in 0..MaxRequests : \A n \in Requests : request[n].pc # "new" <=> n <= k
  BY DEF Numbered
<1>2. {n \in Requests : request[n].pc # "new"} = 1..k
  <2>1. \A n : n \in 1..k => n \in Requests
    BY <1>1, BoundsAssumption DEF Requests
  <2>2. \A n \in Requests : n <= k => n \in 1..k
    BY <1>1, BoundsAssumption DEF Requests
  <2>3. \A n \in 1..k : n <= k
    OBVIOUS
  <2> QED
    BY <1>1, <2>1, <2>2, <2>3
<1>3. Cardinality(1..k) = k
  BY <1>1, FS_Interval
<1>4. Made = k
  BY <1>2, <1>3 DEF Made
<1> QED
  BY <1>1, <1>4

LEMMA Posting ==
  ASSUME Inv, NEW n \in Requests, NEW from \in Sessions \cup {None}, NEW p \in Panes,
         NEW size \in {1, TextSize}, NEW body \in 0..MaxRequests,
         Post(n, from, p, size, body), body # 0 => TextIsThere(p, body),
         session' \in [Sessions -> SessionType]
  PROVE  /\ Typed' /\ Locked' /\ Written'
         /\ \A m \in Requests : EnterIsLate(m)'
         /\ \A o \in Panes : EntersFollow(o)'
         /\ \A m \in Requests : request[m].pc # "new" => m # n
         /\ \A m \in Requests \ {n} : request'[m] = request[m]
         /\ request'[n].pc = "ready" /\ request'[n].from = from
         /\ request'[n].pane = p /\ request'[n].size = size
<1> DEFINE r == [pc |-> "ready", from |-> from, pane |-> p, size |-> size,
                 body |-> body, wrote |-> 0]
<1>1. /\ request' = [request EXCEPT ![n] = r] /\ n = Made + 1
      /\ UNCHANGED <<queue, term, screen>>
  BY DEF Post
<1>2. Made \in Nat /\ \A m \in Requests : request[m].pc # "new" <=> m <= Made
  BY MadeCounts DEF Inv, Locked
<1>3. request \in [Requests -> RequestType] /\ r \in RequestType
  BY SizeAssumption, StepsAre DEF Inv, Typed, RequestType
<1>4. request[n].pc = "new"
  BY <1>1, <1>2 DEF Requests
<1>5. r.pc = "ready" /\ r.from = from /\ r.pane = p /\ r.size = size /\ r.body = body
      /\ r.wrote = 0
  OBVIOUS
<1> HIDE DEF r
<1>6. /\ request'[n] = r /\ request' \in [Requests -> RequestType]
      /\ \A m \in Requests \ {n} : request'[m] = request[m]
  BY <1>1, <1>3
<1>7. Typed'
  BY <1>1, <1>6 DEF Inv, Typed
<1>8. Numbered'
  <2>1. Made + 1 \in 0..MaxRequests
    BY <1>1, <1>2, BoundsAssumption DEF Requests
  <2>2. \A m \in Requests : request'[m].pc # "new" <=> m <= Made + 1
    BY <1>1, <1>2, <1>5, <1>6 DEF Requests
  <2> QED
    BY <2>1, <2>2 DEF Numbered
<1>9. ASSUME NEW m \in Requests PROVE Known(m)' /\ InQueue(m)'
  <2>1. CASE m = n
    BY <1>5, <1>6, <2>1 DEF Known, InQueue
  <2>2. CASE m # n
    BY <1>1, <1>6, <2>2 DEF Inv, Locked, Known, InQueue
  <2> QED
    BY <2>1, <2>2
<1>10. ASSUME NEW o \in Panes PROVE Queued(o)'
  <2>1. Queued(o) /\ queue[o] \in Seq(Requests)
    BY DEF Inv, Typed, Locked
  <2>2. \A i \in 1..Len(queue[o]) : queue[o][i] \in Requests \ {n}
    BY <1>4, <2>1 DEF Queued
  <2> QED
    BY <1>1, <1>6, <2>1, <2>2 DEF Queued
<1>11. Locked'
  BY <1>8, <1>9, <1>10 DEF Locked
<1>12. SameInput
  BY <1>1 DEF SameInput
<1>13. \A m \in Requests : request[m].pc # "new" =>
         Same(m) /\ m # n /\ request'[m].pc = request[m].pc
         /\ request'[m].wrote = request[m].wrote
  BY <1>4, <1>6 DEF Same
<1>14. Written'
  <2>1. \A m \in Requests : request'[m].pc = "writing" =>
            request[m].pc = "writing" /\ request'[m].wrote = request[m].wrote
    BY <1>4, <1>5, <1>6
  <2> QED
    BY <1>12, <1>13, <2>1, WrittenKeeps DEF Inv
<1>15. \A m \in Requests : EnterIsLate(m)'
  <2>1. Extends
    BY <1>12, SameExtends DEF Inv
  <2>2. \A m \in Requests : request[m].pc = "new" /\ request'[m].pc # "new" => m = n
    BY <1>6
  <2>3. request'[n].pane = p /\ request'[n].body = body
    BY <1>5, <1>6
  <2>4. \A m \in Requests : request'[m].pc # "new" => request'[m].pane \in Panes
    BY <1>11 DEF Locked, Known
  <2> QED
    BY <1>7, <1>13, <2>1, <2>2, <2>3, <2>4, LateKeeps DEF Inv
<1>16. \A o \in Panes : EntersFollow(o)'
  BY <1>12, <1>13, EntersKeep DEF Inv
<1> QED
  BY <1>4, <1>5, <1>6, <1>7, <1>11, <1>14, <1>15, <1>16

-----------------------------------------------------------------------------
(***************************************************************************)
(* The clients.                                                            *)
(***************************************************************************)
\* A session that waits for no answer has sent every text whose Enter it owes.
LEMMA IdleHasSent ==
  ASSUME Inv, NEW s \in Sessions, Idle(s), NEW i \in 1..Len(session[s].enters)
  PROVE  LET p == session[s].enters[i][1]
             b == session[s].enters[i][2]
         IN  p \in Panes /\ b \in Requests /\ request[b].pc = "done" /\ TextIsThere(p, b)
<1>1. session[s].enters[i][1] \in Panes /\ session[s].enters[i][2] \in Requests
  BY DEF Inv, Typed, SessionType
<1>2. PICK p \in Panes, b \in Requests :
        p = session[s].enters[i][1] /\ b = session[s].enters[i][2]
  BY <1>1
<1>3. IF request[b].pc = "done" THEN TextIsThere(p, b) ELSE session[s].waits = b
  BY <1>2 DEF Inv, Followed, Awaited
<1>4. b # 0
  BY DEF Requests
<1>5. request[b].pc = "done"
  BY <1>3, <1>4 DEF Idle, InProgress
<1> QED
  BY <1>2, <1>3, <1>5

\* What a session that does not wait owes is still there when it has posted a
\* request, the others' too; what the session adds or takes off is shown apart.
LEMMA PostingKeepsAwaited ==
  ASSUME Inv, Typed', NEW s \in Sessions, Idle(s), SameInput,
         \A m \in Requests : request[m].pc # "new" => request'[m] = request[m],
         \A m \in Requests : request[m].pc = "new" => request'[m].pc # "done",
         \A t \in Sessions \ {s} : session'[t] = session[t]
  PROVE  /\ \A i \in 1..Len(session[s].enters) :
               LET p == session[s].enters[i][1]
                   b == session[s].enters[i][2]
               IN  /\ request'[b].pc = "done"
                   /\ request'[b].from = s /\ request'[b].pane = p
                   /\ request'[b].size = TextSize
                   /\ \/ ~term'[p].open
                      \/ \E j \in 1..Len(term'[p].input) : term'[p].input[j] = <<b, TextSize>>
         /\ \A t \in Sessions \ {s} : Awaited(t)'
<1>0. Extends
  BY SameExtends DEF Inv
<1>1. ASSUME NEW i \in 1..Len(session[s].enters)
      PROVE  LET p == session[s].enters[i][1]
                 b == session[s].enters[i][2]
             IN  /\ request'[b].pc = "done"
                 /\ request'[b].from = s /\ request'[b].pane = p
                 /\ request'[b].size = TextSize
                 /\ \/ ~term'[p].open
                    \/ \E j \in 1..Len(term'[p].input) : term'[p].input[j] = <<b, TextSize>>
  <2>1. PICK p \in Panes, b \in Requests :
          /\ p = session[s].enters[i][1] /\ b = session[s].enters[i][2]
          /\ request[b].pc = "done" /\ TextIsThere(p, b)
    BY IdleHasSent
  <2>2. request[b].from = s /\ request[b].pane = p /\ request[b].size = TextSize
    BY <2>1 DEF Inv, Followed, Awaited
  <2>3. request'[b] = request[b]
    BY <2>1
  <2>4. TextIsThere(p, b)'
    BY <1>0, <2>1, TextStays DEF Inv
  <2> QED
    BY <2>1, <2>2, <2>3, <2>4 DEF TextIsThere
<1>2. ASSUME NEW t \in Sessions \ {s} PROVE Awaited(t)'
  <2>1. ASSUME NEW m \in Requests, request[m].pc # "new"
        PROVE  Same(m) /\ request'[m].pc = request[m].pc
    BY <2>1 DEF Same
  <2>2. \A m \in Requests : request'[m].pc = "done" => request[m].pc = "done"
    BY <2>1
  <2> QED
    BY <1>0, <2>1, <2>2, AwaitedKeeps DEF Inv
<1> QED
  BY <1>1, <1>2

LEMMA InvGuiInput ==
  ASSUME Inv, GuiInput
  PROVE  Inv'
<1>1. PICK n \in Requests, p \in Panes : Post(n, None, p, TextSize, 0) /\ UNCHANGED session
  BY DEF GuiInput
<1>2. session' \in [Sessions -> SessionType]
  BY <1>1 DEF Inv, Typed
<1>3. 0 \in 0..MaxRequests
  BY BoundsAssumption
<1>4. /\ Typed' /\ Locked' /\ Written'
      /\ \A m \in Requests : EnterIsLate(m)'
      /\ \A o \in Panes : EntersFollow(o)'
      /\ \A m \in Requests : request[m].pc # "new" => m # n
      /\ \A m \in Requests \ {n} : request'[m] = request[m]
      /\ request'[n].pc = "ready"
  BY <1>1, <1>2, <1>3, Posting
<1>5. SameInput
  BY <1>1 DEF Post, SameInput
<1>6. Extends
  BY <1>5, SameExtends DEF Inv
<1>7. ASSUME NEW s \in Sessions PROVE Awaited(s)'
  <2>1. ASSUME NEW m \in Requests, request[m].pc # "new"
        PROVE  Same(m) /\ request'[m].pc = request[m].pc
    BY <1>4, <2>1 DEF Same
  <2>2. \A m \in Requests : request'[m].pc = "done" => request[m].pc = "done"
    BY <1>4
  <2> QED
    BY <1>1, <1>4, <1>6, <2>1, <2>2, AwaitedKeeps DEF Inv
<1> QED
  BY <1>4, <1>7 DEF Inv, Followed

\* A session posts a request and waits for it; what it owes then is what it owed,
\* less what it sends now, or the Enter of what it sends now.
LEMMA SessionPosts ==
  ASSUME Inv, NEW s \in Sessions, Idle(s),
         NEW n \in Requests, NEW p \in Panes, NEW size \in {1, TextSize},
         NEW body \in 0..MaxRequests,
         Post(n, s, p, size, body), body # 0 => TextIsThere(p, body),
         NEW enters \in Seq(Panes \X Requests), session' = Waiting(s, n, enters),
         \A i \in 1..Len(enters) :
            \/ \E j \in 1..Len(session[s].enters) : enters[i] = session[s].enters[j]
            \/ enters[i] = <<p, n>> /\ size = TextSize
  PROVE  Inv'
<1> DEFINE u == [session[s] EXCEPT !.waits = n, !.enters = enters]
<1>1. session \in [Sessions -> SessionType] /\ session' = [session EXCEPT ![s] = u]
  BY DEF Inv, Typed, Waiting
<1>2. u \in SessionType
  <2>1. n \in 0..MaxRequests
    BY BoundsAssumption DEF Requests
  <2>2. session[s] \in SessionType
    BY <1>1
  <2> QED
    BY <2>1, <2>2 DEF SessionType
<1>3. u.waits = n /\ u.enters = enters /\ u.open
  BY <1>1 DEF SessionType, Idle
<1> HIDE DEF u
<1>4. session' \in [Sessions -> SessionType] /\ session'[s] = u
      /\ \A t \in Sessions \ {s} : session'[t] = session[t]
  BY <1>1, <1>2
<1>5. /\ Typed' /\ Locked' /\ Written'
      /\ \A m \in Requests : EnterIsLate(m)'
      /\ \A o \in Panes : EntersFollow(o)'
      /\ \A m \in Requests : request[m].pc # "new" => m # n
      /\ \A m \in Requests \ {n} : request'[m] = request[m]
      /\ request'[n].pc = "ready" /\ request'[n].from = s
      /\ request'[n].pane = p /\ request'[n].size = size
  BY <1>4, Posting
<1>6. SameInput
  BY DEF Post, SameInput
<1>7. /\ \A i \in 1..Len(session[s].enters) :
            LET o == session[s].enters[i][1]
                b == session[s].enters[i][2]
            IN  /\ request'[b].pc = "done"
                /\ request'[b].from = s /\ request'[b].pane = o
                /\ request'[b].size = TextSize
                /\ \/ ~term'[o].open
                   \/ \E j \in 1..Len(term'[o].input) : term'[o].input[j] = <<b, TextSize>>
      /\ \A t \in Sessions \ {s} : Awaited(t)'
  <2>1. \A m \in Requests : request[m].pc # "new" => request'[m] = request[m]
    BY <1>5
  <2>2. \A m \in Requests : request[m].pc = "new" => request'[m].pc # "done"
    BY <1>5
  <2> QED
    BY <1>4, <1>5, <1>6, <2>1, <2>2, PostingKeepsAwaited
<1> DEFINE Sent(o, b) ==
             /\ request'[b].pc # "new"
             /\ request'[b].from = s /\ request'[b].pane = o
             /\ request'[b].size = TextSize
             /\ request'[b].pc = "done" =>
                   \/ ~term'[o].open
                   \/ \E j \in 1..Len(term'[o].input) : term'[o].input[j] = <<b, TextSize>>
             /\ request'[b].pc # "done" => n = b
<1>8. ASSUME NEW i \in 1..Len(enters)
      PROVE  Sent(enters[i][1], enters[i][2])
  <2>1. CASE \E j \in 1..Len(session[s].enters) : enters[i] = session[s].enters[j]
    <3>1. PICK j \in 1..Len(session[s].enters) : enters[i] = session[s].enters[j]
      BY <2>1
    <3>2. PICK o, b : o = session[s].enters[j][1] /\ b = session[s].enters[j][2]
      OBVIOUS
    <3>3. /\ request'[b].pc = "done" /\ request'[b].from = s /\ request'[b].pane = o
          /\ request'[b].size = TextSize
          /\ \/ ~term'[o].open
             \/ \E k \in 1..Len(term'[o].input) : term'[o].input[k] = <<b, TextSize>>
      BY <1>7, <3>2
    <3>4. o = enters[i][1] /\ b = enters[i][2]
      BY <3>1, <3>2
    <3> QED
      BY <3>3, <3>4
  <2>2. CASE enters[i] = <<p, n>> /\ size = TextSize
    BY <1>5, <2>2
  <2> QED
    BY <2>1, <2>2
<1> HIDE DEF Sent
<1>9. Awaited(s)'
  <2>1. session'[s].enters = enters /\ session'[s].waits = n /\ session'[s].open
    BY <1>3, <1>4
  <2>2. \A i \in 1..Len(session'[s].enters) :
           Sent(session'[s].enters[i][1], session'[s].enters[i][2])
    BY <1>8, <2>1
  <2>3. ASSUME NEW i \in 1..Len(session'[s].enters)
        PROVE  LET o == session'[s].enters[i][1]
                   b == session'[s].enters[i][2]
               IN  /\ request'[b].pc # "new"
                   /\ request'[b].from = s /\ request'[b].pane = o
                   /\ request'[b].size = TextSize
                   /\ request'[b].pc = "done" =>
                         \/ ~term'[o].open
                         \/ \E j \in 1..Len(term'[o].input) :
                               term'[o].input[j] = <<b, TextSize>>
                   /\ request'[b].pc # "done" => session'[s].waits = b
    BY <2>1, <2>2 DEF Sent
  <2> QED
    BY <2>1, <2>3 DEF Awaited, TextIsThere
<1> QED
  BY <1>5, <1>7, <1>9 DEF Inv, Followed

\* The requests and what was written do not depend on the sessions.
LEMMA InputElsewhere ==
  ASSUME Locked, Written, UNCHANGED <<request, queue, term>>
  PROVE  Locked' /\ Written'
<1>1. Locked'
  BY DEF Locked, Numbered, Known, InQueue, Queued
<1>2. Written'
  BY DEF Written, Given, Whole, LastIsWhole, WritesAtEnd
<1> QED
  BY <1>1, <1>2

LEMMA SessionOnly ==
  ASSUME Inv, NEW s \in Sessions, NEW u \in SessionType, session' = [session EXCEPT ![s] = u],
         UNCHANGED <<request, queue, term, screen>>,
         \/ u.enters = << >>
         \/ /\ u.open /\ u.waits = session[s].waits
            /\ \A i \in 1..Len(u.enters) :
                  \E j \in 1..Len(session[s].enters) : u.enters[i] = session[s].enters[j]
  PROVE  Inv'
<1>1. session \in [Sessions -> SessionType]
  BY DEF Inv, Typed
<1>2. session'[s] = u /\ \A t \in Sessions \ {s} : session'[t] = session[t]
  BY <1>1
<1>3. Typed'
  BY <1>1 DEF Inv, Typed
<1>4. Locked' /\ Written'
  BY InputElsewhere DEF Inv
<1>5. \A n \in Requests : EnterIsLate(n)'
  BY DEF Inv, Followed, EnterIsLate, TextIsThere
<1>6. \A p \in Panes : EntersFollow(p)'
  BY DEF Inv, Followed, EntersFollow
<1>7. ASSUME NEW t \in Sessions \ {s} PROVE Awaited(t)'
  <2>1. Extends
    BY DEF Extends, Inv, Typed, TermType, Input
  <2>2. \A m \in Requests : Same(m) /\ request'[m].pc = request[m].pc
    BY DEF Same
  <2> QED
    BY <1>2, <1>3, <2>1, <2>2, AwaitedKeeps DEF Inv
<1>8. Awaited(s)'
  <2>1. CASE u.enters = << >>
    BY <1>2, <2>1 DEF Awaited
  <2>2. CASE /\ u.open /\ u.waits = session[s].waits
             /\ \A i \in 1..Len(u.enters) :
                   \E j \in 1..Len(session[s].enters) : u.enters[i] = session[s].enters[j]
    <3>1. session'[s].open /\ session'[s].waits = session[s].waits
      BY <1>2, <2>2
    <3>2. ASSUME NEW i \in 1..Len(session'[s].enters)
          PROVE  LET p == session'[s].enters[i][1]
                     b == session'[s].enters[i][2]
                 IN  /\ request'[b].pc # "new"
                     /\ request'[b].from = s /\ request'[b].pane = p
                     /\ request'[b].size = TextSize
                     /\ request'[b].pc = "done" =>
                           \/ ~term'[p].open
                           \/ \E j \in 1..Len(term'[p].input) :
                                 term'[p].input[j] = <<b, TextSize>>
                     /\ request'[b].pc # "done" => session'[s].waits = b
      <4>1. PICK j \in 1..Len(session[s].enters) :
              session'[s].enters[i] = session[s].enters[j]
        BY <1>2, <2>2
      <4>2. PICK p, b : p = session[s].enters[j][1] /\ b = session[s].enters[j][2]
        OBVIOUS
      <4>3. /\ request[b].pc # "new"
            /\ request[b].from = s /\ request[b].pane = p
            /\ request[b].size = TextSize
            /\ request[b].pc = "done" => TextIsThere(p, b)
            /\ request[b].pc # "done" => session[s].waits = b
        BY <4>2 DEF Inv, Followed, Awaited
      <4>4. p = session'[s].enters[i][1] /\ b = session'[s].enters[i][2]
        BY <4>1, <4>2
      <4>5. /\ request'[b].pc # "new"
            /\ request'[b].from = s /\ request'[b].pane = p
            /\ request'[b].size = TextSize
            /\ request'[b].pc = "done" =>
                  \/ ~term'[p].open
                  \/ \E k \in 1..Len(term'[p].input) : term'[p].input[k] = <<b, TextSize>>
            /\ request'[b].pc # "done" => session'[s].waits = b
        BY <3>1, <4>3 DEF TextIsThere
      <4> QED
        BY <4>4, <4>5
    <3> QED
      BY <3>1, <3>2 DEF Awaited, TextIsThere
  <2> QED
    BY <2>1, <2>2
<1> QED
  BY <1>3, <1>4, <1>5, <1>6, <1>7, <1>8 DEF Inv, Followed

LEMMA InvWeb ==
  ASSUME Inv, NEW s \in Sessions, Web(s)
  PROVE  Inv'
<1> DEFINE u == session[s]
<1>1. u \in SessionType /\ u.enters \in Seq(Panes \X Requests)
  BY DEF Inv, Typed, SessionType
<1>2. Idle(s) => u.open
  BY DEF Idle
<1>3. CASE SelectPane(s)
  <2>1. PICK p \in Panes : session' = [session EXCEPT ![s].selected = p]
    BY <1>3 DEF SelectPane
  <2> DEFINE v == [u EXCEPT !.selected = p]
  <2>2. v \in SessionType /\ v.open /\ v.waits = u.waits /\ v.enters = u.enters
    BY <1>1, <1>2, <1>3 DEF SelectPane, SessionType
  <2>3. session' = [session EXCEPT ![s] = v] /\ UNCHANGED <<request, queue, term, screen>>
    BY <1>3, <2>1 DEF SelectPane
  <2> HIDE DEF v
  <2> QED
    BY <2>2, <2>3, SessionOnly
<1>4. CASE WebInput(s)
  <2>1. PICK n \in Requests : /\ Post(n, s, u.selected, TextSize, 0)
                              /\ session' = Waiting(s, n, u.enters)
    BY <1>4 DEF WebInput
  <2>2. PICK p \in Panes : p = u.selected
    BY <1>1, <1>4 DEF WebInput, SessionType
  <2>3. PICK enters \in Seq(Panes \X Requests) : enters = u.enters
    BY <1>1
  <2>4. PICK size \in {1, TextSize}, body \in 0..MaxRequests : size = TextSize /\ body = 0
    BY BoundsAssumption
  <2>5. Idle(s) /\ Post(n, s, p, size, body) /\ session' = Waiting(s, n, enters)
    BY <1>4, <2>1, <2>2, <2>3, <2>4 DEF WebInput
  <2>6. \A i \in 1..Len(enters) : \E j \in 1..Len(session[s].enters) :
           enters[i] = session[s].enters[j]
    BY <2>3
  <2>7. body # 0 => TextIsThere(p, body)
    BY <2>4
  <2> QED
    BY <2>5, <2>6, <2>7, SessionPosts
<1>5. CASE InjectSnippet(s)
  <2>1. PICK n \in Requests :
          /\ Post(n, s, u.selected, TextSize, 0)
          /\ session' = Waiting(s, n, Append(u.enters, <<u.selected, n>>))
    BY <1>5 DEF InjectSnippet
  <2>2. PICK p \in Panes : p = u.selected
    BY <1>1, <1>5 DEF InjectSnippet, SessionType
  <2>3. PICK enters \in Seq(Panes \X Requests) : enters = Append(u.enters, <<p, n>>)
    BY <1>1, AppendProperties
  <2>4. PICK size \in {1, TextSize}, body \in 0..MaxRequests : size = TextSize /\ body = 0
    BY BoundsAssumption
  <2>5. Idle(s) /\ Post(n, s, p, size, body) /\ session' = Waiting(s, n, enters)
    BY <1>5, <2>1, <2>2, <2>3, <2>4 DEF InjectSnippet
  <2>6. ASSUME NEW i \in 1..Len(enters)
        PROVE  \/ \E j \in 1..Len(session[s].enters) : enters[i] = session[s].enters[j]
               \/ enters[i] = <<p, n>> /\ size = TextSize
    BY <1>1, <2>3, <2>4, AppendProperties
  <2>7. body # 0 => TextIsThere(p, body)
    BY <2>4
  <2> QED
    BY <2>5, <2>6, <2>7, SessionPosts
<1>6. CASE SendEnter(s)
  <2>0. Idle(s) /\ u.enters # << >> /\ 1 \in 1..Len(u.enters) /\ Head(u.enters) = u.enters[1]
    BY <1>1, <1>6 DEF SendEnter
  <2>1. PICK n \in Requests : /\ Post(n, s, u.enters[1][1], 1, u.enters[1][2])
                              /\ session' = Waiting(s, n, Tail(u.enters))
    BY <1>6, <2>0 DEF SendEnter
  <2>2. PICK p \in Panes, b \in Requests :
          /\ p = u.enters[1][1] /\ b = u.enters[1][2]
          /\ request[b].pc = "done" /\ TextIsThere(p, b)
    BY <2>0, IdleHasSent
  <2>3. PICK enters \in Seq(Panes \X Requests) : enters = Tail(u.enters)
    BY <1>1, <2>0, HeadTailProperties
  <2>4. PICK size \in {1, TextSize}, body \in 0..MaxRequests : size = 1 /\ body = b
    BY BoundsAssumption DEF Requests
  <2>5. Post(n, s, p, size, body) /\ session' = Waiting(s, n, enters)
    BY <2>1, <2>2, <2>3, <2>4
  <2>6. ASSUME NEW i \in 1..Len(enters)
        PROVE  \E j \in 1..Len(session[s].enters) : enters[i] = session[s].enters[j]
    <3>1. i + 1 \in 1..Len(u.enters) /\ enters[i] = u.enters[i + 1]
      BY <1>1, <2>0, <2>3, HeadTailProperties
    <3> QED
      BY <3>1
  <2>7. body # 0 => TextIsThere(p, body)
    BY <2>2, <2>4
  <2> QED
    BY <2>0, <2>5, <2>6, <2>7, SessionPosts
<1>7. CASE SkipEnter(s)
  <2> DEFINE enters == Tail(u.enters)
             v == [u EXCEPT !.enters = enters]
  <2>0. Idle(s) /\ u.enters # << >>
    BY <1>7 DEF SkipEnter
  <2>1. /\ enters \in Seq(Panes \X Requests) /\ Len(enters) = Len(u.enters) - 1
        /\ \A i \in 1..Len(enters) : enters[i] = u.enters[i + 1]
    BY <1>1, <2>0, HeadTailProperties
  <2>2. session' = [session EXCEPT ![s] = v] /\ UNCHANGED <<request, queue, term, screen>>
    BY <1>7 DEF SkipEnter
  <2> HIDE DEF enters
  <2>3. v \in SessionType /\ v.open /\ v.waits = u.waits /\ v.enters = enters
    BY <1>1, <1>2, <2>0, <2>1 DEF SessionType
  <2> HIDE DEF v
  <2>4. ASSUME NEW i \in 1..Len(enters)
        PROVE  \E j \in 1..Len(session[s].enters) : enters[i] = session[s].enters[j]
    <3>1. i + 1 \in 1..Len(u.enters)
      BY <1>1, <2>1
    <3> QED
      BY <2>1, <3>1
  <2> QED
    BY <2>2, <2>3, <2>4, SessionOnly
<1>8. CASE GiveUp(s)
  <2> DEFINE none == << >>
             v == [u EXCEPT !.open = FALSE, !.enters = none, !.waits = 0]
  <2>1. none \in Seq(Panes \X Requests)
    OBVIOUS
  <2>2. session' = [session EXCEPT ![s] = v] /\ UNCHANGED <<request, queue, term, screen>>
    BY <1>8 DEF GiveUp
  <2> HIDE DEF none
  <2>3. 0 \in 0..MaxRequests
    BY BoundsAssumption
  <2>4. v \in SessionType /\ v.enters = none
    BY <1>1, <2>1, <2>3 DEF SessionType
  <2> HIDE DEF v
  <2> QED
    BY <2>2, <2>4, SessionOnly DEF none
<1> QED
  BY <1>3, <1>4, <1>5, <1>6, <1>7, <1>8 DEF Web

-----------------------------------------------------------------------------
(***************************************************************************)
(* The handlers.                                                           *)
(***************************************************************************)
\* Steps that give no terminal anything.
LEMMA NothingWritten ==
  ASSUME Inv, Typed', Locked', SameInput, UNCHANGED session,
         \A m \in Requests : request[m].pc = "new" => request'[m].pc = "new",
         \A m \in Requests : request[m].pc # "new" => request'[m].pc # "new" /\ Same(m),
         \A m \in Requests : request[m].pc = "done" => request'[m].pc = "done",
         \A m \in Requests : request[m].pc = "writing" =>
            \/ request'[m].pc = "writing" /\ request'[m].wrote = request[m].wrote
            \/ request'[m].pc = "done" /\ ~term'[request[m].pane].open,
         \A m \in Requests : request'[m].pc = "writing" =>
            \/ request[m].pc = "writing" /\ request'[m].wrote = request[m].wrote
            \/ request'[m].wrote = 0,
         \A m \in Requests : request'[m].pc = "done" /\ request[m].pc # "done" =>
            \/ ~term'[request[m].pane].open
            \/ request[m].from # None => session[request[m].from].waits # m
  PROVE  Inv'
<1>1. Extends
  BY SameExtends DEF Inv
<1>2. Written'
  BY WrittenKeeps DEF Inv
<1>3. \A n \in Requests : EnterIsLate(n)'
  <2>1. \A m \in Requests : request'[m].pc # "new" => request'[m].pane \in Panes
    BY DEF Locked, Known
  <2> QED
    BY <1>1, <2>1, LateKeeps DEF Inv
<1>4. \A p \in Panes : EntersFollow(p)'
  BY EntersKeep DEF Inv
<1>5. ASSUME NEW s \in Sessions PROVE Awaited(s)'
  <2>1. ASSUME NEW m \in Requests, request'[m].pc = "done", request[m].pc # "done",
               NEW p \in Panes, request[m].pane = p
        PROVE  \/ TextIsThere(p, m)'
               \/ request[m].from # None => session[request[m].from].waits # m
    BY <2>1 DEF TextIsThere
  <2> QED
    BY <1>1, <2>1, AwaitedKeeps DEF Inv
<1> QED
  BY <1>2, <1>3, <1>4, <1>5 DEF Inv, Followed

LEMMA InvLock ==
  ASSUME Inv, NEW n \in Requests, Lock(n) \/ Resume(n)
  PROVE  Inv'
<1>0. PICK p \in Panes : p = request[n].pane
  BY DEF Inv, Locked, Known, Lock, Resume
<1>1. /\ request \in [Requests -> RequestType] /\ queue[p] \in Seq(Requests)
      /\ queue \in [Panes -> Seq(Requests)]
      /\ Queued(p) /\ InQueue(n) /\ Known(n)
  BY DEF Inv, Typed, Locked
<1>2. PICK pc \in {"waiting", "writing"} : request' = [request EXCEPT ![n].pc = pc]
  BY DEF Lock, Resume
<1>3. /\ request'[n].pc = pc /\ request'[n].wrote = request[n].wrote
      /\ \A m \in Requests \ {n} : request'[m] = request[m]
      /\ \A m \in Requests : Same(m)
      /\ request' \in [Requests -> RequestType]
  BY <1>1, <1>2, StepsAre DEF RequestType, Same
<1>4. request[n].pc \in {"ready", "granted"} /\ request[n].wrote = 0
  BY <1>1 DEF Lock, Resume, Known
<1>5. queue' \in [Panes -> Seq(Requests)]
  <2>1. CASE Lock(n)
    <3>1. queue' = [queue EXCEPT ![p] = Append(queue[p], n)]
      BY <1>0, <2>1 DEF Lock
    <3>2. Append(queue[p], n) \in Seq(Requests)
      BY <1>1, AppendProperties
    <3> QED
      BY <1>1, <3>1, <3>2
  <2>2. CASE Resume(n)
    BY <1>1, <2>2 DEF Resume
  <2> QED
    BY <2>1, <2>2
<1>6. Typed'
  BY <1>3, <1>5 DEF Inv, Typed, Lock, Resume
<1>7. Numbered'
  BY <1>3, <1>4 DEF Inv, Locked, Numbered
<1>8. ASSUME NEW m \in Requests PROVE Known(m)'
  <2>1. Known(m)
    BY DEF Inv, Locked
  <2>2. 0 < request[n].size
    BY <1>1, <1>4, SizeAssumption DEF Known
  <2> QED
    BY <1>3, <1>4, <2>1, <2>2 DEF Known, Same
<1>9. ASSUME Lock(n) PROVE Locked'
  <2> DEFINE q == queue[p]
  <2>1. /\ queue' = [queue EXCEPT ![p] = Append(q, n)]
        /\ request[n].pc = "ready"
        /\ request'[n].pc = IF q = << >> THEN "writing" ELSE "waiting"
    BY <1>0, <1>1, <1>9 DEF Lock
  <2>2. /\ q \in Seq(Requests) /\ Len(q) \in Nat /\ (q = << >> <=> Len(q) = 0)
        /\ Len(Append(q, n)) = Len(q) + 1
        /\ \A i \in 1..Len(q) : Append(q, n)[i] = q[i]
        /\ Append(q, n)[Len(q) + 1] = n
    BY <1>1, AppendProperties
  <2>3. queue'[p] = Append(q, n) /\ \A o \in Panes \ {p} : queue'[o] = queue[o]
    BY <1>1, <2>1
  <2>4. ASSUME NEW o \in Panes, NEW i \in 1..Len(queue[o])
        PROVE  queue[o][i] \in Requests \ {n}
    <3>1. queue[o][i] \in Requests
      BY DEF Inv, Typed
    <3>2. Queued(o)
      BY DEF Inv, Locked
    <3>3. request[queue[o][i]].pc \in {"granted", "writing", "waiting"}
      BY <3>2 DEF Queued
    <3> QED
      BY <2>1, <3>1, <3>3
  <2>5. ASSUME NEW o \in Panes \ {p} PROVE Queued(o)'
    BY <1>3, <2>3, <2>4 DEF Inv, Locked, Queued
  <2>6. Queued(p)'
    <3>0. /\ \A i, j \in 1..Len(q) : q[i] = q[j] => i = j
          /\ \A i \in 1..Len(q) : /\ q[i] \in Requests \ {n} /\ request'[q[i]].pane = p
                                  /\ request'[q[i]].pc = request[q[i]].pc
                                  /\ i = 1 => request[q[i]].pc \in {"granted", "writing"}
                                  /\ i # 1 => request[q[i]].pc = "waiting"
      BY <1>1, <1>3, <2>4 DEF Queued
    <3>1. request'[n].pane = p
      BY <1>0, <1>3 DEF Same
    <3> DEFINE r == Append(q, n)
    <3> HIDE DEF q, r
    <3>2. \A i, j \in 1..Len(r) : r[i] = r[j] => i = j
      BY <2>2, <3>0 DEF r
    <3>3. ASSUME NEW i \in 1..Len(r)
          PROVE  /\ request'[r[i]].pane = p
                 /\ request'[r[i]].pc \in IF i = 1 THEN {"granted", "writing"} ELSE {"waiting"}
      <4>1. CASE i \in 1..Len(q)
        <5>1. r[i] = q[i]
          BY <2>2, <4>1 DEF r
        <5> QED
          BY <3>0, <4>1, <5>1
      <4>2. CASE i = Len(q) + 1
        <5>1. r[i] = n
          BY <2>2, <4>2 DEF r
        <5> QED
          BY <2>1, <2>2, <3>1, <4>2, <5>1 DEF q
      <4> QED
        BY <2>2, <4>1, <4>2 DEF r
    <3> QED
      BY <2>3, <3>2, <3>3 DEF Queued, r
  <2>7. ASSUME NEW m \in Requests PROVE InQueue(m)'
    <3>1. CASE m = n
      <4>1. request'[n].pane = p
        BY <1>0, <1>3 DEF Same
      <4>2. Len(q) + 1 \in 1..Len(Append(q, n))
        BY <2>2
      <4> QED
        BY <2>2, <2>3, <3>1, <4>1, <4>2 DEF InQueue
    <3>2. CASE m # n
      <4> SUFFICES ASSUME request'[m].pc \in {"waiting", "granted", "writing"}
                   PROVE  \E i \in 1..Len(queue'[request'[m].pane]) :
                             queue'[request'[m].pane][i] = m
        BY DEF InQueue
      <4>1. request'[m] = request[m]
        BY <1>3, <3>2
      <4>2. PICK i \in 1..Len(queue[request[m].pane]) : queue[request[m].pane][i] = m
        BY <4>1 DEF Inv, Locked, InQueue
      <4>3. request[m].pane \in Panes
        BY <4>1 DEF Inv, Locked, Known
      <4>4. CASE request[m].pane = p
        <5>1. i \in 1..Len(Append(q, n)) /\ Append(q, n)[i] = m
          BY <2>2, <4>2, <4>4
        <5> QED
          BY <2>3, <4>1, <4>4, <5>1
      <4>5. CASE request[m].pane # p
        BY <2>3, <4>1, <4>2, <4>3, <4>5
      <4> QED
        BY <4>4, <4>5
    <3> QED
      BY <3>1, <3>2
  <2> QED
    BY <1>7, <1>8, <2>5, <2>6, <2>7 DEF Locked
<1>10. ASSUME Resume(n) PROVE Locked'
  <2>1. queue' = queue /\ request[n].pc = "granted" /\ request'[n].pc = "writing"
    BY <1>1, <1>10 DEF Resume
  <2>2. ASSUME NEW m \in Requests PROVE InQueue(m)'
    BY <1>3, <2>1 DEF Inv, Locked, InQueue, Same
  <2>3. ASSUME NEW o \in Panes PROVE Queued(o)'
    <3>1. \A i \in 1..Len(queue[o]) : queue[o][i] \in Requests
      BY DEF Inv, Typed
    <3> QED
      BY <1>3, <2>1, <3>1 DEF Inv, Locked, Queued, Same
  <2> QED
    BY <1>7, <1>8, <2>2, <2>3 DEF Locked
<1>11. SameInput /\ UNCHANGED session
  BY DEF Lock, Resume, SameInput
<1> QED
  BY <1>3, <1>4, <1>6, <1>9, <1>10, <1>11, NothingWritten

\* The shell has exited, or the client is gone.
LEMMA InvLeaves ==
  ASSUME Inv, NEW n \in Requests, WriteFails(n) \/ HangUp(n)
  PROVE  Inv'
<1>1. PICK wrote \in 0..TextSize :
        /\ Leave(n, wrote)
        /\ WriteFails(n) \/ wrote = 0
  <2>1. request[n].wrote \in 0..TextSize /\ 0 \in 0..TextSize
    BY SizeAssumption DEF Inv, Typed, RequestType
  <2> QED
    BY <2>1 DEF WriteFails, HangUp
<1>2. request[n].pc \in {"ready", "waiting", "granted", "writing"}
  BY DEF WriteFails, HangUp
<1>3. /\ request' \in [Requests -> RequestType]
      /\ queue' \in [Panes -> Seq(Requests)]
      /\ Locked'
      /\ \A m \in Requests : Same(m)
      /\ request'[n].pc = "done"
      /\ \A m \in Requests \ {n} :
            /\ request'[m].wrote = request[m].wrote
            /\ \/ request'[m].pc = request[m].pc
               \/ request[m].pc = "waiting" /\ request'[m].pc = "granted"
  BY <1>1, <1>2, Leaving DEF Inv
<1>4. UNCHANGED <<term, screen, session>>
  BY DEF WriteFails, HangUp
<1>5. Typed' /\ SameInput
  BY <1>3, <1>4 DEF Inv, Typed, SameInput
<1>6. \/ request[n].pc = "writing" /\ ~term[request[n].pane].open
      \/ /\ request[n].pc # "writing"
         /\ request[n].from # None => session[request[n].from].waits # n
  BY DEF WriteFails, HangUp
<1> QED
  BY <1>2, <1>3, <1>4, <1>5, <1>6, NothingWritten

-----------------------------------------------------------------------------
(***************************************************************************)
(* The shell, the read loop and those that read the parser.                *)
(***************************************************************************)
LEMMA InvTerminal ==
  ASSUME Inv, NEW p \in Panes,
         ShellReads(p) \/ ShellExits(p) \/ Loop(p) \/ LockParser(p) \/ ReadParser(p)
  PROVE  Inv'
<1>1. /\ term \in [Panes -> TermType]
      /\ screen \in [Panes -> {"none", "waiting", "granted"}]
  BY DEF Inv, Typed
<1>2. UNCHANGED <<request, queue, session>>
  BY DEF ShellReads, ShellExits, Loop, LoopReads, LoopProcesses, LockParser, ReadParser
<1>3. screen' \in [Panes -> {"none", "waiting", "granted"}]
  BY <1>1 DEF ShellReads, ShellExits, Loop, LoopReads, LoopProcesses, LockParser, ReadParser
<1>4. /\ term[p].open \in BOOLEAN /\ term[p].input \in Input /\ term[p].read \in Nat
      /\ term[p].out \in 0..OutCap /\ term[p].loop \in Loops /\ OutCap \in Nat
  BY <1>1, SizeAssumption DEF TermType
<1> DEFINE Fits(t) == /\ t \in TermType
                      /\ t.input = term[p].input /\ (t.open => term[p].open)
<1>5. ASSUME NEW t, Fits(t), term' = [term EXCEPT ![p] = t]
      PROVE  Inv'
  <2>1. /\ term' \in [Panes -> TermType] /\ term'[p] = t
        /\ \A o \in Panes \ {p} : term'[o] = term[o]
    BY <1>1, <1>5
  <2>2. Typed'
    BY <1>2, <1>3, <2>1 DEF Inv, Typed
  <2>3. SameInput
    BY <1>5, <2>1 DEF SameInput
  <2>4. Locked'
    BY <1>2 DEF Inv, Locked, Numbered, Known, InQueue, Queued
  <2>5. \A m \in Requests : request'[m] = request[m] /\ Same(m)
    BY <1>2 DEF Same
  <2> QED
    BY <1>2, <2>2, <2>3, <2>4, <2>5, NothingWritten
<1>6. CASE ShellReads(p)
  <2> DEFINE t == [term[p] EXCEPT !.read = term[p].read + 1]
             u == [term[p] EXCEPT !.read = term[p].read + 1, !.out = term[p].out + 1]
  <2>1. Fits(t)
    BY <1>1, <1>4 DEF TermType
  <2>2. ASSUME term[p].out < OutCap PROVE Fits(u)
    <3>1. term[p].out + 1 \in 0..OutCap /\ term[p].read + 1 \in Nat
      BY <1>4, <2>2
    <3> QED
      BY <1>1, <1>4, <3>1 DEF TermType
  <2>3. CASE p \in Watched
    <3>1. term' = [term EXCEPT ![p] = u] /\ term[p].out < OutCap
      BY <1>6, <2>3 DEF ShellReads
    <3> HIDE DEF u, Fits
    <3> QED
      BY <1>5, <2>2, <3>1
  <2>4. CASE p \notin Watched
    <3>1. term' = [term EXCEPT ![p] = t]
      BY <1>6, <2>4 DEF ShellReads
    <3> HIDE DEF t, Fits
    <3> QED
      BY <1>5, <2>1, <3>1
  <2> QED
    BY <2>3, <2>4
<1>7. CASE ShellExits(p)
  <2> DEFINE t == [term[p] EXCEPT !.open = FALSE]
  <2>1. Fits(t)
    BY <1>1, <1>4 DEF TermType
  <2>2. term' = [term EXCEPT ![p] = t]
    BY <1>7 DEF ShellExits
  <2> HIDE DEF t, Fits
  <2> QED
    BY <1>5, <2>1, <2>2
<1>8. CASE LoopReads(p)
  <2>1. PICK loop \in Loops :
          term' = [term EXCEPT ![p].out = term[p].out - 1, ![p].loop = loop]
    BY <1>8 DEF LoopReads, Loops
  <2> DEFINE t == [term[p] EXCEPT !.out = term[p].out - 1, !.loop = loop]
  <2>2. Fits(t)
    BY <1>1, <1>4, <1>8 DEF TermType, LoopReads
  <2>3. term' = [term EXCEPT ![p] = t]
    BY <2>1
  <2> HIDE DEF t, Fits
  <2> QED
    BY <1>5, <2>2, <2>3
<1>9. CASE LoopProcesses(p) \/ LockParser(p) \/ ReadParser(p)
  <2>1. PICK loop \in Loops : term' = [term EXCEPT ![p].loop = loop]
    <3>1. CASE LoopProcesses(p)
      BY <3>1 DEF LoopProcesses, Loops
    <3>2. CASE LockParser(p)
      <4>1. term' = [term EXCEPT ![p].loop = term[p].loop]
        BY <1>1, <3>2 DEF LockParser, TermType
      <4> QED
        BY <1>4, <4>1
    <3>3. CASE ReadParser(p)
      BY <1>4, <3>3 DEF ReadParser, Loops
    <3> QED
      BY <1>9, <3>1, <3>2, <3>3
  <2> DEFINE t == [term[p] EXCEPT !.loop = loop]
  <2>2. Fits(t)
    BY <1>1, <1>4 DEF TermType
  <2>3. term' = [term EXCEPT ![p] = t]
    BY <2>1
  <2> HIDE DEF t, Fits
  <2> QED
    BY <1>5, <2>2, <2>3
<1> QED
  BY <1>6, <1>7, <1>8, <1>9 DEF Loop

-----------------------------------------------------------------------------
(***************************************************************************)
(* Writing.                                                                *)
(***************************************************************************)
\* Who writes to a pane does so alone.
LEMMA WritesAlone ==
  ASSUME Typed, Locked, NEW n \in Requests, NEW m \in Requests,
         request[n].pc = "writing", request[m].pc = "writing",
         request[m].pane = request[n].pane
  PROVE  m = n
<1>1. PICK p \in Panes : p = request[n].pane
  BY DEF Locked, Known
<1>2. PICK i \in 1..Len(queue[p]) : queue[p][i] = n
  BY <1>1 DEF Locked, InQueue
<1>3. PICK j \in 1..Len(queue[p]) : queue[p][j] = m
  BY <1>1 DEF Locked, InQueue
<1>4. Queued(p)
  BY DEF Locked
<1>5. i = 1 /\ j = 1
  BY <1>2, <1>3, <1>4 DEF Queued
<1> QED
  BY <1>2, <1>3, <1>5

\* A step in which n gives p one chunk more, and has written if it was the last.
Gives(n, p) ==
    /\ p = request[n].pane /\ request[n].pc = "writing" /\ term[p].open
    /\ term'[p].input = Append(term[p].input, <<n, request[n].wrote + 1>>)
    /\ \A o \in Panes \ {p} : term'[o] = term[o]
    /\ \A m \in Requests : Same(m)
    /\ request'[n].wrote = request[n].wrote + 1
    /\ request'[n].pc = IF request[n].wrote + 1 = request[n].size THEN "done" ELSE "writing"
    /\ \A m \in Requests \ {n} :
          /\ request'[m].wrote = request[m].wrote
          /\ \/ request'[m].pc = request[m].pc
             \/ request[m].pc = "waiting" /\ request'[m].pc = "granted"

LEMMA WrittenGrows ==
  ASSUME Typed, Locked, Written, NEW n \in Requests, NEW p \in Panes, Gives(n, p)
  PROVE  Written'
<1> DEFINE input == term[p].input
           next == term'[p].input
           L == Len(input)
           w == request[n].wrote
           size == request[n].size
           e == <<n, w + 1>>
<1>0. /\ term[p].input \in Seq(Requests \X (1..TextSize))
      /\ Len(term[p].input) \in Nat
      /\ request[n].wrote \in Nat /\ request[n].size \in 1..TextSize
      /\ request[n].wrote < request[n].size
  <2>1. request[n].pc = "writing"
    BY DEF Gives
  <2>2. Known(n) /\ request[n].wrote \in 0..TextSize
    BY DEF Typed, RequestType, Locked
  <2> QED
    BY <2>1, <2>2, SizeAssumption DEF Known, Typed, TermType, Input
<1>1. /\ L \in Nat /\ w \in Nat /\ size \in Nat /\ w < size /\ L = Len(input)
      /\ input \in Seq(Requests \X (1..TextSize))
  BY <1>0, SizeAssumption
<1>2. e[1] = n /\ e[2] = w + 1 /\ e = <<n, w + 1>> /\ e \in Requests \X (1..TextSize)
  <2>1. w + 1 \in 1..TextSize
    <3>1. w \in Nat /\ size \in Nat /\ w < size /\ size <= TextSize /\ TextSize \in Nat
      BY <1>0, SizeAssumption
    <3> HIDE DEF w, size
    <3> QED
      BY <3>1
  <2> HIDE DEF w
  <2> QED
    BY <2>1
<1>22. next = Append(input, e)
  BY DEF Gives
<1>33. /\ \A m \in Requests : Same(m)
       /\ request'[n].wrote = w + 1 /\ request'[n].size = size
       /\ request'[n].pc = IF w + 1 = size THEN "done" ELSE "writing"
       /\ request'[n].pane = p
  BY DEF Gives, Same
<1>34. /\ p = request[n].pane /\ request[n].pc = "writing" /\ term[p].open
       /\ \A o \in Panes \ {p} : term'[o] = term[o]
       /\ \A m \in Requests \ {n} :
             /\ request'[m].wrote = request[m].wrote
             /\ \/ request'[m].pc = request[m].pc
                \/ request[m].pc = "waiting" /\ request'[m].pc = "granted"
  BY DEF Gives
<1>35. input = term[p].input /\ w = request[n].wrote /\ size = request[n].size
       /\ next = term'[p].input
  OBVIOUS
<1> HIDE DEF input, next, L, w, size, e
<1>3. /\ Len(next) = L + 1 /\ next[L + 1] = e /\ next # << >>
      /\ \A i \in 1..L : next[i] = input[i]
  BY <1>1, <1>2, <1>22
<1>4. \A i \in 1..Len(next) : i \in 1..L \/ i = L + 1
  BY <1>1, <1>3
<1>5. ASSUME NEW o \in Panes, NEW i \in 1..Len(term[o].input)
      PROVE  LET m == term[o].input[i][1]
             IN  /\ m \in Requests /\ request[m].pc \in {"writing", "done"}
                 /\ request[m].pane = o /\ term[o].input[i][2] <= request[m].size
  BY EntryTyped DEF Written, Given
<1>6. ASSUME NEW m \in Requests, request[m].pc \in {"writing", "done"}
      PROVE  request'[m].pc \in {"writing", "done"}
  BY <1>6, <1>33, <1>34
<1>7. ASSUME NEW o \in Panes PROVE Given(o)'
  <2>1. CASE o = p
    <3>1. ASSUME NEW i \in 1..Len(next)
          PROVE  LET m == next[i][1]
                 IN  /\ request'[m].pc \in {"writing", "done"}
                     /\ request'[m].pane = p /\ next[i][2] <= request'[m].size
      <4>1. CASE i \in 1..L
        <5>1. PICK m \in Requests : /\ m = input[i][1] /\ request[m].pc \in {"writing", "done"}
                                    /\ request[m].pane = p /\ input[i][2] <= request[m].size
          BY <1>1, <1>5, <1>35, <4>1
        <5>2. request'[m].pc \in {"writing", "done"} /\ Same(m)
          BY <1>6, <1>33, <5>1
        <5> QED
          BY <1>3, <4>1, <5>1, <5>2 DEF Same
      <4>2. CASE i = L + 1
        <5>1. next[i] = e /\ w + 1 <= size
          BY <1>1, <1>3, <4>2
        <5> QED
          BY <1>2, <1>33, <5>1
      <4> QED
        BY <1>4, <4>1, <4>2
    <3> QED
      BY <1>35, <2>1, <3>1 DEF Given
  <2>2. CASE o # p
    <3>1. term'[o].input = term[o].input
      BY <1>34, <2>2
    <3>2. ASSUME NEW i \in 1..Len(term[o].input)
          PROVE  LET m == term[o].input[i][1]
                 IN  /\ request'[m].pc \in {"writing", "done"}
                     /\ request'[m].pane = o /\ term[o].input[i][2] <= request'[m].size
      BY <1>5, <1>6, <1>33 DEF Same
    <3> QED
      BY <3>1, <3>2 DEF Given
  <2> QED
    BY <2>1, <2>2
<1>8. input # << >> => L \in 1..L
  BY <1>1
<1>9. \A i \in 1..L : input[i][1] \in Requests /\ input[i] = <<input[i][1], input[i][2]>>
        /\ input[i][2] \in 1..TextSize
  BY <1>1, <1>35, EntryTyped
<1>10. ASSUME L > 0, input[L][2] < request[input[L][1]].size
       PROVE  e = <<input[L][1], input[L][2] + 1>>
  <2>1. L \in 1..L /\ input # << >>
    BY <1>1, <1>10
  <2>2. PICK m \in Requests : m = input[L][1] /\ request[m].pane = p
    BY <1>1, <1>5, <1>35, <2>1
  <2>3. input[L][2] # request[m].size
    BY <1>1, <1>9, <1>10, <2>1, <2>2, SizeAssumption DEF Typed, RequestType
  <2>4. request[m].pc = "writing" /\ input[L][2] = request[m].wrote
    BY <1>1, <1>34, <1>35, <2>1, <2>2, <2>3 DEF Written, LastIsWhole
  <2>5. m = n
    BY <1>34, <2>2, <2>4, WritesAlone
  <2> QED
    BY <1>2, <1>35, <2>2, <2>4, <2>5
<1>11. ASSUME w + 1 > 1 PROVE L > 0 /\ input[L] = <<n, w>>
  <2>1. input # << >> /\ input[L] = <<n, w>>
    BY <1>1, <1>11, <1>34, <1>35 DEF Written, WritesAtEnd
  <2> QED
    BY <1>1, <2>1
<1>12. ASSUME NEW o \in Panes PROVE Whole(o)'
  <2>1. CASE o = p
    <3>1. ASSUME NEW i \in 1..Len(next)
          PROVE  LET m == next[i][1]
                 IN  /\ next[i][2] > 1 => i > 1 /\ next[i - 1] = <<m, next[i][2] - 1>>
                     /\ i < Len(next) /\ next[i][2] < request'[m].size =>
                           next[i + 1] = <<m, next[i][2] + 1>>
      <4>1. CASE i \in 1..L
        <5>1. PICK m \in Requests : m = input[i][1] /\ request'[m].size = request[m].size
          BY <1>9, <1>33, <4>1 DEF Same
        <5>2. next[i] = input[i]
          BY <1>3, <4>1
        <5>3. input[i][2] > 1 => i > 1 /\ input[i - 1] = <<m, input[i][2] - 1>>
          BY <1>1, <1>35, <4>1, <5>1 DEF Written, Whole
        <5>4. i > 1 => next[i - 1] = input[i - 1]
          BY <1>1, <1>3, <4>1
        <5>5. CASE i < L
          <6>1. input[i][2] < request[m].size => input[i + 1] = <<m, input[i][2] + 1>>
            BY <1>1, <1>35, <4>1, <5>1, <5>5 DEF Written, Whole
          <6>2. next[i + 1] = input[i + 1]
            BY <1>1, <1>3, <4>1, <5>5
          <6> QED
            BY <5>1, <5>2, <5>3, <5>4, <6>1, <6>2
        <5>6. CASE i = L
          <6>1. L > 0 /\ next[i + 1] = e
            BY <1>1, <1>3, <4>1, <5>6
          <6>2. input[i][2] < request[m].size => e = <<m, input[i][2] + 1>>
            BY <1>10, <5>1, <5>6, <6>1
          <6> QED
            BY <5>1, <5>2, <5>3, <5>4, <6>1, <6>2
        <5> QED
          BY <1>1, <4>1, <5>5, <5>6
      <4>2. CASE i = L + 1
        <5>1. next[i] = e /\ ~(i < Len(next))
          BY <1>1, <1>3, <4>2
        <5>2. e[1] = n /\ e[2] = w + 1
          BY <1>2
        <5>3. ASSUME w + 1 > 1 PROVE i > 1 /\ next[i - 1] = <<n, w>>
          <6>1. L > 0 /\ input[L] = <<n, w>>
            BY <1>11, <5>3
          <6> QED
            BY <1>1, <1>3, <4>2, <6>1
        <5>4. (w + 1) - 1 = w
          BY <1>1
        <5> QED
          BY <5>1, <5>2, <5>3, <5>4
      <4> QED
        BY <1>4, <4>1, <4>2
    <3> QED
      BY <1>35, <2>1, <3>1 DEF Whole
  <2>2. CASE o # p
    <3>1. term'[o].input = term[o].input
      BY <1>34, <2>2
    <3>2. \A i \in 1..Len(term[o].input) :
            request'[term[o].input[i][1]].size = request[term[o].input[i][1]].size
      BY <1>5, <1>33 DEF Same
    <3> QED
      BY <3>1, <3>2 DEF Written, Whole
  <2> QED
    BY <2>1, <2>2
<1>13. ASSUME NEW o \in Panes PROVE LastIsWhole(o)'
  <2>1. CASE o = p
    <3>1. e[1] = n /\ e[2] = w + 1 /\ next[Len(next)] = e
      BY <1>2, <1>3
    <3>2. \/ w + 1 = request'[n].size
          \/ request'[n].pc = "writing" /\ w + 1 = request'[n].wrote
      BY <1>33
    <3> QED
      BY <1>35, <2>1, <3>1, <3>2 DEF LastIsWhole
  <2>2. CASE o # p
    <3> SUFFICES ASSUME term[o].open, term[o].input # << >>
                 PROVE  LET last == term[o].input[Len(term[o].input)]
                        IN  \/ last[2] = request'[last[1]].size
                            \/ /\ request'[last[1]].pc = "writing"
                               /\ last[2] = request'[last[1]].wrote
      <4>1. term'[o] = term[o]
        BY <1>34, <2>2
      <4> QED
        BY <4>1 DEF LastIsWhole
    <3>1. Len(term[o].input) \in 1..Len(term[o].input)
      BY DEF Typed, TermType, Input
    <3>2. PICK last, m : /\ last = term[o].input[Len(term[o].input)] /\ m = last[1]
                         /\ m \in Requests /\ request[m].pane = o
      BY <1>5, <3>1
    <3>3. m # n
      BY <1>34, <2>2, <3>2
    <3>4. \/ last[2] = request[m].size
          \/ request[m].pc = "writing" /\ last[2] = request[m].wrote
      BY <3>2 DEF Written, LastIsWhole
    <3>5. \/ last[2] = request'[m].size
          \/ request'[m].pc = "writing" /\ last[2] = request'[m].wrote
      BY <1>33, <1>34, <3>2, <3>3, <3>4 DEF Same
    <3> QED
      BY <3>2, <3>5
  <2> QED
    BY <2>1, <2>2
<1>14. ASSUME NEW m \in Requests PROVE WritesAtEnd(m)'
  <2> SUFFICES ASSUME request'[m].pc = "writing", request'[m].wrote > 0,
                      NEW o, o = request'[m].pane
               PROVE  /\ term'[o].input # << >>
                      /\ term'[o].input[Len(term'[o].input)] = <<m, request'[m].wrote>>
    BY DEF WritesAtEnd
  <2>1. CASE m = n
    <3>1. o = p
      BY <1>33, <2>1
    <3>2. next # << >> /\ next[Len(next)] = <<n, request'[n].wrote>>
      BY <1>2, <1>3, <1>33
    <3> QED
      BY <1>35, <2>1, <3>1, <3>2
  <2>2. CASE m # n
    <3>1. request[m].pc = "writing" /\ request[m].wrote > 0 /\ o = request[m].pane
          /\ request'[m].wrote = request[m].wrote
      BY <1>33, <1>34, <2>2 DEF Same
    <3>2. o \in Panes \ {p}
      BY <1>34, <2>2, <3>1, WritesAlone DEF Locked, Known
    <3>3. term'[o] = term[o]
      BY <1>34, <3>2
    <3>4. WritesAtEnd(m)
      BY DEF Written
    <3> QED
      BY <3>1, <3>3, <3>4 DEF WritesAtEnd
  <2> QED
    BY <2>1, <2>2
<1> QED
  BY <1>7, <1>12, <1>13, <1>14 DEF Written

LEMMA InvWrite ==
  ASSUME Inv, NEW n \in Requests, Write(n)
  PROVE  Inv'
<1>1. PICK p \in Panes : p = request[n].pane
  BY DEF Inv, Locked, Known, Write
<1> DEFINE w == request[n].wrote
           e == <<n, w + 1>>
           t == [term[p] EXCEPT !.input = Append(term[p].input, e)]
<1>2. /\ request[n].pc = "writing" /\ term[p].open
      /\ term' = [term EXCEPT ![p] = t]
      /\ UNCHANGED <<screen, session>>
  BY <1>1 DEF Write
<1>3. /\ request \in [Requests -> RequestType] /\ term \in [Panes -> TermType]
      /\ queue \in [Panes -> Seq(Requests)]
  BY DEF Inv, Typed
<1>4. /\ w \in Nat /\ w < request[n].size /\ request[n].size \in 1..TextSize
      /\ w + 1 \in 0..TextSize /\ w + 1 \in 1..TextSize
  <2>1. Known(n) /\ request[n].wrote \in 0..TextSize
    BY DEF Inv, Typed, RequestType, Locked
  <2>2. w \in Nat /\ w < request[n].size /\ request[n].size \in 1..TextSize
    BY <1>2, <2>1, SizeAssumption DEF Known
  <2> QED
    BY <2>2, SizeAssumption
<1>5. /\ t.input = Append(term[p].input, e) /\ t.open = term[p].open
      /\ t \in TermType
  <2>1. term[p].input \in Input /\ e \in Requests \X (1..TextSize)
    BY <1>3, <1>4 DEF TermType
  <2>2. Append(term[p].input, e) \in Input
    BY <2>1, AppendProperties DEF Input
  <2> QED
    BY <1>3, <2>2 DEF TermType
<1> HIDE DEF e, t, w
<1>6. /\ term' \in [Panes -> TermType] /\ term'[p] = t
      /\ \A o \in Panes \ {p} : term'[o] = term[o]
  BY <1>2, <1>3, <1>5
<1>7. /\ request' \in [Requests -> RequestType]
      /\ queue' \in [Panes -> Seq(Requests)]
      /\ Locked'
      /\ \A m \in Requests : Same(m)
      /\ request'[n].wrote = w + 1
      /\ request'[n].pc = IF w + 1 = request[n].size THEN "done" ELSE "writing"
      /\ \A m \in Requests \ {n} :
            /\ request'[m].wrote = request[m].wrote
            /\ \/ request'[m].pc = request[m].pc
               \/ request[m].pc = "waiting" /\ request'[m].pc = "granted"
  <2>1. CASE w + 1 = request[n].size
    <3>1. PICK wrote \in 0..TextSize : wrote = w + 1 /\ Leave(n, wrote)
      BY <1>4, <2>1 DEF Write, w
    <3> QED
      BY <1>2, <2>1, <3>1, Leaving DEF Inv
  <2>2. CASE w + 1 # request[n].size
    <3>1. request' = [request EXCEPT ![n].wrote = w + 1] /\ queue' = queue
      BY <2>2 DEF Write, w
    <3>2. /\ request' \in [Requests -> RequestType]
          /\ request'[n].pc = "writing" /\ request'[n].wrote = w + 1
          /\ \A m \in Requests : Same(m) /\ request'[m].pc = request[m].pc
          /\ \A m \in Requests \ {n} : request'[m] = request[m]
      BY <1>2, <1>3, <1>4, <3>1 DEF RequestType, Same
    <3>3. Numbered'
      BY <3>2 DEF Inv, Locked, Numbered
    <3>4. ASSUME NEW m \in Requests PROVE Known(m)'
      <4>1. Known(m)
        BY DEF Inv, Locked
      <4>2. w + 1 < request[n].size
        BY <1>4, <2>2
      <4> QED
        BY <3>2, <4>1, <4>2 DEF Known, Same
    <3>5. ASSUME NEW m \in Requests PROVE InQueue(m)'
      BY <3>1, <3>2 DEF Inv, Locked, InQueue, Same
    <3>6. ASSUME NEW o \in Panes PROVE Queued(o)'
      <4>1. \A i \in 1..Len(queue[o]) : queue[o][i] \in Requests
        BY <1>3
      <4>2. Queued(o)
        BY DEF Inv, Locked
      <4> QED
        BY <3>1, <3>2, <4>1, <4>2 DEF Queued, Same
    <3> QED
      BY <1>3, <2>2, <3>1, <3>2, <3>3, <3>4, <3>5, <3>6 DEF Locked
  <2> QED
    BY <2>1, <2>2
<1>8. Typed'
  BY <1>2, <1>6, <1>7 DEF Inv, Typed
<1>9. Written'
  <2>1. Gives(n, p)
    BY <1>1, <1>2, <1>5, <1>6, <1>7 DEF Gives, e, w
  <2> QED
    BY <2>1, WrittenGrows DEF Inv
<1>10. /\ term[p].input \in Seq(Requests \X (1..TextSize)) /\ Len(term[p].input) \in Nat
       /\ Len(term'[p].input) = Len(term[p].input) + 1
       /\ \A i \in 1..Len(term[p].input) : term'[p].input[i] = term[p].input[i]
       /\ term'[p].input[Len(term[p].input) + 1] = e
  <2>1. term[p].input \in Seq(Requests \X (1..TextSize))
    BY <1>3 DEF TermType, Input
  <2>2. e \in Requests \X (1..TextSize)
    BY <1>4 DEF e
  <2> QED
    BY <1>5, <1>6, <2>1, <2>2, AppendProperties
<1>11. Extends
  <2>1. ASSUME NEW o \in Panes \ {p}
        PROVE  term'[o] = term[o] /\ Len(term[o].input) <= Len(term'[o].input)
    BY <1>3, <1>6 DEF TermType, Input
  <2> QED
    BY <1>5, <1>6, <1>10, <2>1 DEF Extends
<1>12. \A m \in Requests : request[m].pc = "new" <=> request'[m].pc = "new"
  BY <1>2, <1>7
<1>13. \A m \in Requests : EnterIsLate(m)'
  <2>1. \A m \in Requests : request'[m].pc # "new" => request'[m].pane \in Panes
    BY <1>7 DEF Locked, Known
  <2> QED
    BY <1>7, <1>8, <1>11, <1>12, <2>1, LateKeeps DEF Inv
<1>14. ASSUME NEW o \in Panes PROVE EntersFollow(o)'
  <2>1. ASSUME NEW i \in 1..Len(term[o].input)
        PROVE  LET m == term[o].input[i][1]
               IN  /\ request'[m].body = request[m].body
                   /\ request[m].body # 0 =>
                         \E j \in 1..(i - 1) : term[o].input[j] = <<request[m].body, TextSize>>
    <3>1. term[o].input[i][1] \in Requests
      BY EntryTyped DEF Inv
    <3> QED
      BY <1>7, <3>1 DEF Same, Inv, Followed, EntersFollow
  <2>2. CASE o # p
    <3>1. term'[o].input = term[o].input
      BY <1>6, <2>2
    <3> QED
      BY <2>1, <3>1 DEF EntersFollow
  <2>3. CASE o = p
    <3>1. ASSUME NEW i \in 1..Len(term'[p].input), NEW body,
                 body = request'[term'[p].input[i][1]].body, body # 0
          PROVE  \E j \in 1..(i - 1) : term'[p].input[j] = <<body, TextSize>>
      <4>1. CASE i \in 1..Len(term[p].input)
        <5>1. term'[p].input[i] = term[p].input[i]
          BY <1>10, <4>1
        <5>2. PICK j \in 1..(i - 1) : term[p].input[j] = <<body, TextSize>>
          BY <2>1, <2>3, <3>1, <4>1, <5>1
        <5>3. j \in 1..Len(term[p].input)
          BY <1>10, <4>1
        <5> QED
          BY <1>10, <5>2, <5>3
      <4>2. CASE i = Len(term[p].input) + 1
        <5>1. body = request[n].body
          BY <1>7, <1>10, <3>1, <4>2 DEF Same, e
        <5>2. TextIsThere(p, body)
          BY <1>1, <1>2, <3>1, <5>1 DEF Inv, Followed, EnterIsLate
        <5>3. PICK j \in 1..Len(term[p].input) : term[p].input[j] = <<body, TextSize>>
          BY <1>2, <5>2 DEF TextIsThere
        <5>4. j \in 1..(i - 1)
          BY <1>10, <4>2
        <5> QED
          BY <1>10, <5>3, <5>4
      <4> QED
        BY <1>10, <4>1, <4>2
    <3> QED
      BY <2>3, <3>1 DEF EntersFollow
  <2> QED
    BY <2>2, <2>3
<1>15. ASSUME NEW s \in Sessions PROVE Awaited(s)'
  <2>1. ASSUME NEW m \in Requests, request'[m].pc = "done", request[m].pc # "done",
               NEW o \in Panes, request[m].pane = o, request[m].size = TextSize
        PROVE  TextIsThere(o, m)'
    <3>1. m = n /\ o = p /\ w + 1 = TextSize
      BY <1>1, <1>7, <2>1
    <3>2. term'[p].input[Len(term[p].input) + 1] = <<m, TextSize>>
      BY <1>10, <3>1 DEF e
    <3>3. Len(term[p].input) + 1 \in 1..Len(term'[p].input)
      BY <1>10
    <3> QED
      BY <3>1, <3>2, <3>3 DEF TextIsThere
  <2>2. \A m \in Requests : request[m].pc = "done" => request'[m].pc = "done"
    BY <1>2, <1>7
  <2> QED
    BY <1>2, <1>7, <1>8, <1>11, <1>12, <2>1, <2>2, AwaitedKeeps DEF Inv
<1> QED
  BY <1>7, <1>8, <1>9, <1>13, <1>14, <1>15 DEF Inv, Followed

-----------------------------------------------------------------------------
LEMMA InvNext == Inv /\ [Next]_vars => Inv'
<1> SUFFICES ASSUME Inv, [Next]_vars PROVE Inv'
  OBVIOUS
<1>1. CASE GuiInput
  BY <1>1, InvGuiInput
<1>2. ASSUME NEW s \in Sessions, Web(s) PROVE Inv'
  BY <1>2, InvWeb
<1>3. ASSUME NEW n \in Requests, Handler(n) \/ HangUp(n) PROVE Inv'
  <2>1. CASE Lock(n) \/ Resume(n)
    BY <2>1, InvLock
  <2>2. CASE Write(n)
    BY <2>2, InvWrite
  <2>3. CASE WriteFails(n) \/ HangUp(n)
    BY <2>3, InvLeaves
  <2> QED
    BY <1>3, <2>1, <2>2, <2>3 DEF Handler
<1>4. ASSUME NEW p \in Panes,
             ShellReads(p) \/ ShellExits(p) \/ Loop(p) \/ LockParser(p) \/ ReadParser(p)
      PROVE  Inv'
  BY <1>4, InvTerminal
<1>5. CASE UNCHANGED vars
  <2>1. UNCHANGED <<request, queue, term, screen, session>>
    BY <1>5 DEF vars
  <2>2. Typed'
    BY <2>1 DEF Inv, Typed
  <2>3. Locked'
    BY <2>1, InputElsewhere DEF Inv
  <2>4. SameInput /\ \A m \in Requests : Same(m)
    BY <2>1 DEF SameInput, Same
  <2> QED
    BY <2>1, <2>2, <2>3, <2>4, NothingWritten
<1> QED
  BY <1>1, <1>2, <1>3, <1>4, <1>5 DEF Next

\* The invariant the properties follow from: who has each pane's writer, what it
\* still has to write, and which Enters are owed for which text.
THEOREM Invariance == Spec => []Inv
<1>1. Init => Inv
  BY InvInit
<1>2. Inv /\ [Next]_vars => Inv'
  BY InvNext
<1> QED
  BY <1>1, <1>2, PTL DEF Spec

\* Requests, queues, terminals and sessions have their types, whatever fails when.
THEOREM TypeCorrect == Spec => []TypeOK
<1>1. Inv => TypeOK
  BY DEF Inv, Typed, TypeOK, RequestType, Steps, TermType, Input, Loops, SessionType
<1> QED
  BY <1>1, Invariance, PTL

\* However many handlers write to a pane at once, fail half-way or are abandoned as
\* they wait for its writer (send_input_handler), its terminal is given one
\* request after the other, each in order and whole unless the shell exits.
THEOREM WritesStayWhole == Spec => []WritesAreWhole
<1>1. Inv => WritesAreWhole
  BY DEF Inv, Written, Whole, WritesAreWhole
<1> QED
  BY <1>1, Invariance, PTL

\* An Enter that a session of the web client has put off (inject_snippet) comes after
\* the whole of its text, in the pane of the text, with whatever else is typed.
THEOREM EntersComeAfter == Spec => []EnterFollowsItsBody
<1>1. Inv => EnterFollowsItsBody
  BY DEF Inv, Followed, EntersFollow, EnterFollowsItsBody
<1> QED
  BY <1>1, Invariance, PTL

=============================================================================
