--------------------------- MODULE PaneProcessProofs ---------------------------
(***************************************************************************)
(* What PaneProcess guarantees for any panes, stream connections, size of  *)
(* the thread pool and of a terminal's buffer.                             *)
(***************************************************************************)
EXTENDS PaneProcess, SequenceTheorems, TLAPS

-----------------------------------------------------------------------------
(***************************************************************************)
(* Type correctness.                                                       *)
(***************************************************************************)
LEMMA TypeInit == Init => TypeOK
BY BufferAssumption DEF Init, TypeOK, Tasks

LEMMA QueueHead ==
    ASSUME TypeOK, queue # << >>
    PROVE  /\ Head(queue) = queue[1] /\ Head(queue) \in Tasks
           /\ Tail(queue) \in Seq(Tasks)
           /\ Len(queue) \in Nat \ {0} /\ Len(Tail(queue)) = Len(queue) - 1
           /\ \A i \in 1..Len(Tail(queue)) : Tail(queue)[i] = queue[i + 1]
<1>1. queue \in Seq(Tasks)
  BY DEF TypeOK
<1> QED
  BY <1>1, HeadTailProperties, EmptySeq

LEMMA QueueAppend ==
    ASSUME TypeOK, NEW t \in Tasks
    PROVE  /\ Append(queue, t) \in Seq(Tasks) /\ Len(queue) \in Nat
           /\ Len(Append(queue, t)) = Len(queue) + 1
           /\ \A i \in 1..Len(queue) : Append(queue, t)[i] = queue[i]
           /\ Append(queue, t)[Len(queue) + 1] = t
<1>1. queue \in Seq(Tasks)
  BY DEF TypeOK
<1> QED
  BY <1>1, AppendProperties

LEMMA TypeKernel ==
    ASSUME TypeOK, NEW p \in Panes, Kernel(p)
    PROVE  TypeOK'
<1> USE DEF TypeOK, shells, pool, clients
<1>1. CASE Write(p)
  <2>1. unread[p] + 1 \in 0..Buffer
    BY <1>1, BufferAssumption DEF Write
  <2> QED
    BY <1>1, <2>1 DEF Write
<1>2. CASE StartJob(p)
  BY <1>2 DEF StartJob
<1>3. CASE EndJob(p)
  BY <1>3 DEF EndJob
<1>4. ASSUME NEW from \in {"running", "dying"}, Die(p, from)
      PROVE  TypeOK'
  <2>1. shell' \in [Panes -> {"none", "running", "dying", "zombie"}]
    BY <1>4 DEF Die
  <2> QED
    BY <1>4, <2>1 DEF Die
<1> QED
  BY <1>1, <1>2, <1>3, <1>4 DEF Kernel

LEMMA TypeTasks ==
    ASSUME TypeOK, NEW p \in Panes,
           Create(p) \/ Read(p) \/ ReadFails(p) \/ DropChild(p) \/ StartTask
    PROVE  TypeOK'
<1>1. CASE Create(p)
  <2>1. Append(queue, ReadTask(p)) \in Seq(Tasks)
    BY QueueAppend DEF Tasks
  <2> QED
    BY <1>1, <2>1 DEF Create, TypeOK, clients
<1>2. CASE ReadChunk(p)
  <2>1. unread[p] - 1 \in 0..Buffer
    BY <1>2, BufferAssumption DEF ReadChunk, TypeOK
  <2> QED
    BY <1>2, <2>1 DEF ReadChunk, TypeOK, pool, clients
<1>3. CASE ReadEnds(p) \/ ReadFails(p)
  <2>1. reader' = [reader EXCEPT ![p] = "ended"]
        /\ UNCHANGED <<shells, child, map, deletion, failed, pool, clients, server>>
    BY <1>3 DEF ReadEnds, ReadFails
  <2> QED
    BY <2>1 DEF TypeOK, shells, pool, clients
<1>4. CASE ReaderDrops(p)
  BY <1>4 DEF ReaderDrops, TypeOK, shells, clients
<1>5. CASE DropChild(p)
  BY <1>5 DEF DropChild, TypeOK, shells, clients
<1>6. CASE StartTask
  <2>1. Head(queue) \in Tasks /\ Tail(queue) \in Seq(Tasks)
    BY <1>6, QueueHead DEF StartTask
  <2> QED
    BY <1>6, <2>1 DEF StartTask, TypeOK, shells, clients
<1> QED
  BY <1>1, <1>2, <1>3, <1>4, <1>5, <1>6 DEF Read

LEMMA TypeDeletion ==
    ASSUME TypeOK, NEW p \in Panes, Remove(p) \/ Delete(p)
    PROVE  TypeOK'
<1>1. CASE Remove(p)
  BY <1>1 DEF Remove, TypeOK, shells, pool, clients
<1>2. CASE Kill(p)
  BY <1>2 DEF Kill, Signalled, TypeOK, pool, clients
<1>3. CASE KillFails(p)
  BY <1>3 DEF KillFails, TypeOK, shells, pool, clients
<1>4. CASE TakeChild(p)
  <2>1. Append(queue, DropTask(p)) \in Seq(Tasks)
    BY QueueAppend DEF Tasks
  <2> QED
    BY <1>4, <2>1 DEF TakeChild, TypeOK, shells, clients
<1> QED
  BY <1>1, <1>2, <1>3, <1>4 DEF Delete

LEMMA TypeServer ==
    ASSUME TypeOK, Stop \/ Shutdown
    PROVE  TypeOK'
<1> DEFINE ServerType == [pc : {"serving", "stopping", "killing", "joining", "exited"},
                          todo : SUBSET Panes]
<1>0. server \in ServerType /\ map \in SUBSET Panes
  BY DEF TypeOK
<1>1. CASE Stop
  BY <1>1 DEF Stop, TypeOK, shells, pool, clients
<1>2. CASE ListenersDone
  BY <1>2 DEF ListenersDone, TypeOK, shells, pool, clients
<1>3. ASSUME NEW p \in Panes, ShutdownPane(p)
      PROVE  TypeOK'
  <2>1. server' \in ServerType
    BY <1>0, <1>3 DEF ShutdownPane
  <2>2. shell' \in [Panes -> {"none", "running", "dying", "zombie"}]
    <3>1. shell' = shell \/ shell' = Signalled(p)
      BY <1>3 DEF ShutdownPane
    <3>2. shell \in [Panes -> {"none", "running", "dying", "zombie"}]
      BY DEF TypeOK
    <3> QED
      BY <3>1, <3>2 DEF Signalled
  <2>3. failed' \subseteq Panes
    BY <1>3 DEF ShutdownPane, TypeOK
  <2>4. child' \in [Panes -> {"none", "pane", "task", "dropped"}]
    BY <1>3 DEF ShutdownPane, TypeOK
  <2> QED
    BY <1>3, <2>1, <2>2, <2>3, <2>4 DEF ShutdownPane, TypeOK, pool, clients
<1>4. ASSUME NEW failure \in BOOLEAN, PanesDone(failure)
      PROVE  TypeOK'
  BY <1>4 DEF PanesDone, TypeOK, shells, pool, clients
<1>5. CASE ThreadsJoined
  BY <1>5 DEF ThreadsJoined, TypeOK, shells, pool, clients
<1> QED
  BY <1>1, <1>2, <1>3, <1>4, <1>5 DEF Shutdown

LEMMA TypeConn ==
    ASSUME TypeOK, NEW c \in Conns, Disconnect(c) \/ \E p \in Panes : Connect(c, p)
    PROVE  TypeOK'
<1>1. CASE Disconnect(c)
  BY <1>1 DEF Disconnect, TypeOK, shells, pool
<1>2. ASSUME NEW p \in Panes, Connect(c, p)
      PROVE  TypeOK'
  <2>1. {p} \in SUBSET Panes
    OBVIOUS
  <2> QED
    BY <1>2, <2>1 DEF Connect, TypeOK, shells, pool
<1> QED
  BY <1>1, <1>2

LEMMA TypeInput ==
    ASSUME TypeOK, NEW p \in Panes, Type(p)
    PROVE  TypeOK'
<1>1. input \in [Panes -> {"none", "http", "https"}]
  BY DEF TypeOK
<1>2. PICK i \in {"none", "http", "https"} : input' = [input EXCEPT ![p] = i]
  BY DEF Type, EndInput, StartInput
<1>3. input' \in [Panes -> {"none", "http", "https"}]
  BY <1>1, <1>2
<1>4. UNCHANGED <<shells, reader, child, map, deletion, failed, pool, stream, server>>
  BY DEF Type, EndInput, StartInput
<1> QED
  BY <1>3, <1>4 DEF TypeOK, shells, pool

LEMMA TypeNext == TypeOK /\ [Next]_vars => TypeOK'
<1> SUFFICES ASSUME TypeOK, [Next]_vars PROVE TypeOK'
  OBVIOUS
<1>1. CASE UNCHANGED vars
  BY <1>1 DEF vars, TypeOK
<1>2. CASE StartTask
  <2>1. queue # << >>
    BY <1>2 DEF StartTask
  <2>2. PICK p \in Panes : TRUE
    BY <2>1, QueueHead DEF Tasks
  <2> QED
    BY <1>2, <2>2, TypeTasks
<1>3. CASE Next /\ ~StartTask
  BY <1>3, TypeKernel, TypeTasks, TypeDeletion, TypeServer, TypeConn, TypeInput DEF Next
<1> QED
  BY <1>1, <1>2, <1>3

\* Shells, threads, children and the server stay within their types.
THEOREM TypeCorrect == Spec => []TypeOK
BY TypeInit, TypeNext, PTL DEF Spec

-----------------------------------------------------------------------------
(***************************************************************************)
(* What is left behind: no shell is forgotten.                             *)
(*                                                                         *)
(* A shell that runs is a pane's in the map or in the hands of a deletion  *)
(* that has not signalled it yet; when the listeners are done no deletion  *)
(* is under way, so what shutdown_panes finds in the map are all of them.  *)
(***************************************************************************)
InHand(p) ==
    /\ p \in Deleting => server.pc \in {"serving", "stopping"}
    /\ shell[p] = "running" =>
          CASE server.pc \in {"serving", "stopping"} -> p \in map \/ deletion[p] = "removed"
            [] server.pc = "killing"                 -> p \in server.todo \/ p \in failed
            [] server.pc \in {"joining", "exited"}   -> p \in failed

Inv == TypeOK /\ \A p \in Panes : InHand(p)

LEMMA InvInit == Init => Inv
BY TypeInit DEF Init, Inv, InHand, Deleting

\* A step that leaves all this alone.
LEMMA InvKept ==
    ASSUME Inv, UNCHANGED <<shell, map, deletion, failed, server>>, NEW q \in Panes
    PROVE  InHand(q)'
BY DEF Inv, InHand, Deleting

LEMMA InvKernel ==
    ASSUME Inv, NEW p \in Panes, Kernel(p), NEW q \in Panes
    PROVE  InHand(q)'
<1>1. CASE Write(p) \/ StartJob(p) \/ EndJob(p)
  BY <1>1, InvKept DEF Write, StartJob, EndJob
<1>2. CASE Die(p, "running") \/ Die(p, "dying")
  BY <1>2 DEF Die, Inv, TypeOK, InHand, Deleting
<1> QED
  BY <1>1, <1>2 DEF Kernel

\* Read loops, the pool's tasks and the clients have no part in it.
LEMMA InvThreads ==
    ASSUME Inv, NEW p \in Panes, Read(p) \/ ReadFails(p) \/ DropChild(p) \/ StartTask \/ Type(p),
           NEW q \in Panes
    PROVE  InHand(q)'
BY InvKept DEF Read, ReadChunk, ReadEnds, ReaderDrops, ReadFails, DropChild, StartTask,
               Type, StartInput, EndInput, shells

LEMMA InvConns ==
    ASSUME Inv, NEW c \in Conns, Disconnect(c) \/ \E p \in Panes : Connect(c, p), NEW q \in Panes
    PROVE  InHand(q)'
BY InvKept DEF Disconnect, Connect, shells

LEMMA InvPanes ==
    ASSUME Inv, NEW p \in Panes, Create(p) \/ Remove(p) \/ Delete(p), NEW q \in Panes
    PROVE  InHand(q)'
<1> USE DEF Inv, TypeOK, InHand, Deleting
<1>1. CASE Create(p)
  BY <1>1 DEF Create
<1>2. CASE Remove(p)
  BY <1>2 DEF Remove, shells
<1>3. CASE Kill(p)
  BY <1>3 DEF Kill, Signalled
<1>4. CASE KillFails(p)
  BY <1>4 DEF KillFails, shells
<1>5. CASE TakeChild(p)
  BY <1>5 DEF TakeChild, shells
<1> QED
  BY <1>1, <1>2, <1>3, <1>4, <1>5 DEF Delete

\* The shutdown: the only place where the order of requests and signals counts.
LEMMA InvServer ==
    ASSUME Inv, Stop \/ Shutdown, NEW q \in Panes
    PROVE  InHand(q)'
<1> USE DEF Inv, TypeOK, InHand, Deleting
<1>1. CASE Stop
  BY <1>1 DEF Stop, shells
<1>2. CASE ListenersDone
  BY <1>2 DEF ListenersDone, shells
<1>3. ASSUME NEW p \in Panes, ShutdownPane(p)
      PROVE  InHand(q)'
  <2>1. CASE p = q
    BY <1>3, <2>1 DEF ShutdownPane, Signalled
  <2>2. CASE p # q
    BY <1>3, <2>2 DEF ShutdownPane, Signalled
  <2> QED
    BY <2>1, <2>2
<1>4. ASSUME NEW failure \in BOOLEAN, PanesDone(failure)
      PROVE  InHand(q)'
  BY <1>4 DEF PanesDone, shells
<1>5. CASE ThreadsJoined
  BY <1>5 DEF ThreadsJoined, shells
<1> QED
  BY <1>1, <1>2, <1>3, <1>4, <1>5 DEF Shutdown

LEMMA InvNext == Inv /\ [Next]_vars => Inv'
<1> SUFFICES ASSUME Inv, [Next]_vars, NEW q \in Panes PROVE InHand(q)'
  BY TypeNext DEF Inv
<1>1. CASE UNCHANGED vars
  BY <1>1, InvKept DEF vars
<1>2. CASE Next
  BY <1>2, InvKernel, InvThreads, InvPanes, InvConns, InvServer DEF Next
<1> QED
  BY <1>1, <1>2

\* The invariant that the result below rests on.
THEOREM Invariance == Spec => []Inv
BY InvInit, InvNext, PTL DEF Spec

\* No shell outlives the server but one the system refused to signal, however
\* the shutdown falls among creations and deletions and whichever way run() ends.
THEOREM NoShellIsLeft == Spec => []NoShellOutlivesServer
<1>1. Inv => NoShellOutlivesServer
  BY DEF Inv, InHand, NoShellOutlivesServer
<1> QED
  BY <1>1, Invariance, PTL
=============================================================================
