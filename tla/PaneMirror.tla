----------------------------- MODULE PaneMirror -----------------------------
(***************************************************************************)
(* What a stream connection promises its client, without the log, the      *)
(* channel or the parser: the terminal of a connected client shows a run   *)
(* of consecutive chunks of the pane's output, a run that only ever grows  *)
(* at its end and never beyond what the pane has processed.  The run may   *)
(* start late (the log forgets), and a resync may move its start to 1.     *)
(***************************************************************************)
EXTENDS Naturals

CONSTANT Conns

VARIABLES output,       \* chunks the pane has processed
          shown         \* shown[c]: what c's client shows, or Off

Off == [on |-> FALSE, first |-> 0, last |-> 0]
Run(first, last) == [on |-> TRUE, first |-> first, last |-> last]
Blank == Run(1, 0)
Torn == Run(0, 0)       \* not a run: no behaviour below ever shows it

vars == <<output, shown>>

Init == output = 0 /\ shown = [c \in Conns |-> Off]

Produce == /\ output' = output + 1
           /\ UNCHANGED shown

Open(c) == /\ shown[c] = Off
           /\ shown' = [shown EXCEPT ![c] = Blank]
           /\ UNCHANGED output

\* The run grows at its end; the first frame chooses where it starts, and a
\* resync moves the start back to the first chunk.
Advance(c) ==
    /\ shown[c].on
    /\ \E last \in 1..output, first \in 1..output :
          /\ first <= last
          /\ shown[c].last <= last
          /\ shown[c] = Blank \/ first \in {1, shown[c].first}
          /\ shown' = [shown EXCEPT ![c] = Run(first, last)]
    /\ UNCHANGED output

Close(c) == /\ shown[c].on
            /\ shown' = [shown EXCEPT ![c] = Off]
            /\ UNCHANGED output

Next == Produce \/ \E c \in Conns : Open(c) \/ Advance(c) \/ Close(c)

Spec == Init /\ [][Next]_vars

=============================================================================
