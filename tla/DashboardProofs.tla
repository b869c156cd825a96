-------------------------- MODULE DashboardProofs --------------------------
(***************************************************************************)
(* Proofs about Dashboard, for every set of runs, tools, tool assignment   *)
(* and pipe capacity: the type invariant, the safety invariants, the slot  *)
(* action property, the refinement of ToolRuns and what ToolRuns promises. *)
(***************************************************************************)
EXTENDS Dashboard, TLAPS

USE DashboardAssumption

-----------------------------------------------------------------------------
(* Type correctness.                                                       *)

LEMMA TypeInit == Init => TypeOK
  BY DEF Init, TypeOK, Phases, Streams

LEMMA TypeStep == TypeOK /\ [Next]_vars => TypeOK'
<1> SUFFICES ASSUME TypeOK, [Next]_vars PROVE TypeOK'
  OBVIOUS
<1> USE DEF TypeOK, Phases, Streams, Goto, procs
<1>1. ASSUME NEW r \in Runs, StartRun(r) PROVE TypeOK'
  BY <1>1 DEF StartRun, Notified
<1>2. ASSUME NEW t \in Tools, StopTool(t) PROVE TypeOK'
  BY <1>2 DEF StopTool, Notified
<1>3. ASSUME NEW r \in Runs, Task(r) PROVE TypeOK'
  <2>1. CASE LaunchBuild(r)
    BY <2>1 DEF LaunchBuild
  <2>2. CASE StopBuild(r) \/ NoStopInBuild(r) \/ PollBuild(r) \/ SpawnFails(r)
    BY <2>2 DEF StopBuild, NoStopInBuild, PollBuild, SpawnFails
  <2>3. CASE SpawnChild(r)
    BY <2>3 DEF SpawnChild
  <2>4. CASE StopChild(r)
    BY <2>4 DEF StopChild
  <2>5. CASE NoStopInRun(r) \/ PollChild(r) \/ Drain(r) \/ SendDone(r)
    BY <2>5 DEF NoStopInRun, PollChild, Drain, SendDone
  <2>6. CASE ClearSlot(r)
    BY <2>6 DEF ClearSlot
  <2> QED
    BY <1>3, <2>1, <2>2, <2>3, <2>4, <2>5, <2>6 DEF Task
<1>4. ASSUME NEW r \in Runs, NEW s \in Streams, Reader(r, s) PROVE TypeOK'
  <2>1. CASE ReadLine(r, s)
    <3>1. unread[r][s] - 1 \in 0..PipeCap
      BY <2>1 DEF ReadLine
    <3>2. unread' \in [Runs -> [Streams -> 0..PipeCap]]
      BY <2>1, <3>1 DEF ReadLine
    <3> QED
      BY <2>1, <3>2 DEF ReadLine
  <2>2. CASE ReadEof(r, s)
    BY <2>2 DEF ReadEof
  <2> QED
    BY <1>4, <2>1, <2>2 DEF Reader
<1>5. ASSUME NEW r \in Runs, Processes(r) PROVE TypeOK'
  <2>1. ASSUME NEW s \in Streams, ChildWrites(r, s) PROVE TypeOK'
    <3>1. unread[r][s] + 1 \in 0..PipeCap
      BY <2>1 DEF ChildWrites
    <3>2. unread' \in [Runs -> [Streams -> 0..PipeCap]]
      BY <2>1, <3>1 DEF ChildWrites
    <3> QED
      BY <2>1, <3>2 DEF ChildWrites
  <2>2. CASE CargoEnds(r)
    BY <2>2 DEF CargoEnds
  <2>3. CASE ChildExits(r) \/ ChildDies(r)
    BY <2>3 DEF ChildExits, ChildDies
  <2>4. CASE StartHelper(r) \/ HelperExits(r)
    BY <2>4 DEF StartHelper, HelperExits
  <2> QED
    BY <1>5, <2>1, <2>2, <2>3, <2>4 DEF Processes
<1>6. CASE UNCHANGED vars
  BY <1>6 DEF vars
<1> QED
  BY <1>1, <1>2, <1>3, <1>4, <1>5, <1>6 DEF Next

\* Every variable keeps its type, whatever the runs, tools and pipe capacity.
THEOREM TypeCorrect == Spec => []TypeOK
  BY TypeInit, TypeStep, PTL DEF Spec

-----------------------------------------------------------------------------
(* The inductive invariant.                                                *)

\* A Notify nobody has been given yet holds no permit.
UnstartedIsQuiet == \A r \in Runs : pc[r] = "idle" => ~permit[r]

\* Before the spawn there is no process, no reader and nothing to read.
Unspawned ==
    \A r \in Runs : pc[r] \in {"idle", "queued", "build", "built", "spawn"} =>
        /\ child[r] = "none"
        /\ \A s \in Streams : unread[r][s] = 0 /\ reader[r][s] = "off"

\* A reader at the end of its pipe has read everything, and the process that
\* could have written more is gone: without it Drain would not give DoneIsLast.
EofIsFinal ==
    \A r \in Runs : \A s \in Streams :
        reader[r][s] = "eof" => child[r] \in {"none", "dead"} /\ unread[r][s] = 0

IInv ==
    /\ TypeOK
    /\ NoOrphan
    /\ UnstartedIsQuiet /\ SlotIsLive
    /\ Unspawned /\ EofIsFinal /\ DoneIsLast

LEMMA IInvInit == Init => IInv
  BY TypeInit DEF Init, IInv, NoOrphan, UnstartedIsQuiet, SlotIsLive, Unspawned,
                  EofIsFinal, DoneIsLast, Listening, Streams

\* Readers and processes touch neither the slots, the signals nor the tasks.
LEMMA ControlUntouched ==
  ASSUME NEW r \in Runs, Processes(r) \/ \E s \in Streams : Reader(r, s)
  PROVE  UNCHANGED <<slot, permit, pc>>
<1>1. CASE \E s \in Streams : Reader(r, s)
  BY <1>1 DEF Reader, ReadLine, ReadEof
<1>2. CASE Processes(r)
  BY <1>2 DEF Processes, CargoEnds, ChildExits, ChildDies, StartHelper, HelperExits,
              ChildWrites
<1> QED
  BY <1>1, <1>2

\* What a step of a task does to the tasks, the signals and the slots: it moves
\* one task, may consume that run's permit on the way out of a select, and
\* releases that run's own slot on the way to "done".
LEMMA TaskControl ==
  ASSUME TypeOK, NEW r \in Runs, Task(r)
  PROVE  /\ pc[r] \notin {"idle", "ended"}
         /\ pc' = [pc EXCEPT ![r] = pc'[r]]
         /\ pc'[r] \in Phases \ {"idle", "queued"}
         /\ \/ permit' = permit
            \/ /\ permit' = [permit EXCEPT ![r] = FALSE]
               /\ pc'[r] \notin Listening
         /\ \/ /\ slot' = slot
               /\ pc[r] \notin {"clear", "done"}
               /\ pc'[r] \notin {"done", "ended"}
               /\ pc'[r] \in Listening => pc[r] \in Listening
            \/ /\ slot' = [slot EXCEPT ![ToolOf[r]] = IF @ = r THEN NoRun ELSE @]
               /\ pc[r] = "clear" /\ pc'[r] = "done" /\ permit' = permit
            \/ /\ slot' = slot
               /\ pc[r] = "done" /\ pc'[r] = "ended" /\ permit' = permit
<1> USE DEF TypeOK, Goto, procs, Phases, Listening
<1>1. CASE LaunchBuild(r)
  BY <1>1 DEF LaunchBuild
<1>2. CASE StopBuild(r) \/ NoStopInBuild(r)
  BY <1>2 DEF StopBuild, NoStopInBuild
<1>3. CASE PollBuild(r)
  BY <1>3 DEF PollBuild
<1>4. CASE SpawnChild(r) \/ SpawnFails(r)
  BY <1>4 DEF SpawnChild, SpawnFails
<1>5. CASE StopChild(r) \/ NoStopInRun(r)
  BY <1>5 DEF StopChild, NoStopInRun
<1>6. CASE PollChild(r)
  BY <1>6 DEF PollChild
<1>7. CASE Drain(r) \/ ClearSlot(r) \/ SendDone(r)
  BY <1>7 DEF Drain, ClearSlot, SendDone
<1> QED
  BY <1>1, <1>2, <1>3, <1>4, <1>5, <1>6, <1>7 DEF Task

LEMMA NoOrphanStep == TypeOK /\ NoOrphan /\ [Next]_vars => NoOrphan'
<1> SUFFICES ASSUME TypeOK, NoOrphan, [Next]_vars,
                    NEW q \in Runs, pc'[q] \in Listening
             PROVE  slot'[ToolOf[q]] = q \/ permit'[q]
  BY DEF NoOrphan
<1> USE DEF TypeOK, NoOrphan
<1>1. ASSUME NEW r \in Runs, StartRun(r) PROVE slot'[ToolOf[q]] = q \/ permit'[q]
  BY <1>1 DEF StartRun, Notified, Goto
<1>2. ASSUME NEW t \in Tools, StopTool(t) PROVE slot'[ToolOf[q]] = q \/ permit'[q]
  BY <1>2 DEF StopTool, Notified
<1>3. ASSUME NEW r \in Runs, Task(r) PROVE slot'[ToolOf[q]] = q \/ permit'[q]
  <2>1. CASE q = r
    BY <1>3, <2>1, TaskControl DEF Listening
  <2>2. CASE q # r
    <3>1. /\ pc' = [pc EXCEPT ![r] = pc'[r]]
          /\ permit' = permit \/ permit' = [permit EXCEPT ![r] = FALSE]
          /\ \/ slot' = slot
             \/ slot' = [slot EXCEPT ![ToolOf[r]] = IF @ = r THEN NoRun ELSE @]
      BY <1>3, TaskControl
    <3>2. pc'[q] = pc[q] /\ permit'[q] = permit[q]
      BY <2>2, <3>1
    <3>3. slot[ToolOf[q]] = q => slot'[ToolOf[q]] = q
      BY <2>2, <3>1
    <3> QED
      BY <3>2, <3>3
  <2> QED
    BY <2>1, <2>2
<1>4. ASSUME NEW r \in Runs, Processes(r) \/ \E s \in Streams : Reader(r, s)
      PROVE  slot'[ToolOf[q]] = q \/ permit'[q]
  BY <1>4, ControlUntouched
<1>5. CASE UNCHANGED vars
  BY <1>5 DEF vars
<1> QED
  BY <1>1, <1>2, <1>3, <1>4, <1>5 DEF Next

LEMMA SlotIsLiveStep ==
  TypeOK /\ UnstartedIsQuiet /\ SlotIsLive /\ [Next]_vars
    => UnstartedIsQuiet' /\ SlotIsLive'
<1> SUFFICES ASSUME TypeOK, UnstartedIsQuiet, SlotIsLive, [Next]_vars
             PROVE  UnstartedIsQuiet' /\ SlotIsLive'
  OBVIOUS
<1> USE DEF TypeOK, UnstartedIsQuiet, SlotIsLive
<1>1. ASSUME NEW r \in Runs, StartRun(r) PROVE UnstartedIsQuiet' /\ SlotIsLive'
  BY <1>1 DEF StartRun, Notified, Goto
<1>2. ASSUME NEW t \in Tools, StopTool(t) PROVE UnstartedIsQuiet' /\ SlotIsLive'
  BY <1>2 DEF StopTool, Notified
<1>3. ASSUME NEW r \in Runs, Task(r) PROVE UnstartedIsQuiet' /\ SlotIsLive'
  <2>1. UnstartedIsQuiet'
    BY <1>3, TaskControl
  <2>2. ASSUME NEW t \in Tools, NEW q \in Runs, slot'[t] = q
        PROVE  ToolOf[q] = t /\ pc'[q] \notin {"idle", "done", "ended"} /\ ~permit'[q]
    <3>1. slot[t] = q
      BY <1>3, <2>2, TaskControl
    <3>2. ToolOf[q] = t /\ pc[q] \notin {"idle", "done", "ended"} /\ ~permit[q]
      BY <3>1
    <3>3. CASE q = r
      BY <1>3, <2>2, <3>2, <3>3, TaskControl
    <3>4. CASE q # r
      BY <1>3, <3>2, <3>4, TaskControl
    <3> QED
      BY <3>3, <3>4
  <2> QED
    BY <2>1, <2>2
<1>4. ASSUME NEW r \in Runs, Processes(r) \/ \E s \in Streams : Reader(r, s)
      PROVE  UnstartedIsQuiet' /\ SlotIsLive'
  BY <1>4, ControlUntouched
<1>5. CASE UNCHANGED vars
  BY <1>5 DEF vars
<1> QED
  BY <1>1, <1>2, <1>3, <1>4, <1>5 DEF Next

Before == {"idle", "queued", "build", "built", "spawn"}
Over == {"clear", "done", "ended"}
Streaming == Unspawned /\ EofIsFinal /\ DoneIsLast

\* A step that moves one task and leaves processes and pipes alone.
LEMMA StreamFrame ==
  ASSUME TypeOK, Streaming, UNCHANGED <<child, unread, reader>>, NEW r \in Runs,
         pc' = [pc EXCEPT ![r] = pc'[r]],
         pc'[r] \in Before => pc[r] \in Before,
         pc'[r] \in Over => pc[r] \in Before \cup Over
  PROVE  Streaming'
  BY DEF TypeOK, Streaming, Unspawned, EofIsFinal, DoneIsLast, Before, Over

LEMMA StreamStep == TypeOK /\ Streaming /\ [Next]_vars => Streaming'
<1> SUFFICES ASSUME TypeOK, Streaming, [Next]_vars PROVE Streaming'
  OBVIOUS
<1>1. ASSUME NEW r \in Runs, StartRun(r) PROVE Streaming'
  BY <1>1, StreamFrame DEF StartRun, Goto, procs, Before, Over, TypeOK
<1>2. ASSUME NEW t \in Tools, StopTool(t) PROVE Streaming'
  BY <1>2 DEF StopTool, procs, Streaming, Unspawned, EofIsFinal, DoneIsLast
<1>3. ASSUME NEW r \in Runs, Task(r) PROVE Streaming'
  <2> USE DEF Goto, procs, TypeOK
  <2>1. CASE LaunchBuild(r) \/ StopBuild(r) \/ NoStopInBuild(r)
    BY <2>1, StreamFrame DEF LaunchBuild, StopBuild, NoStopInBuild, Before, Over
  <2>2. CASE PollBuild(r)
    BY <2>2, StreamFrame DEF PollBuild, Before, Over
  <2>3. CASE SpawnChild(r)
    BY <2>3 DEF SpawnChild, Streaming, Unspawned, EofIsFinal, DoneIsLast
  <2>4. CASE SpawnFails(r) \/ NoStopInRun(r)
    BY <2>4, StreamFrame DEF SpawnFails, NoStopInRun, Before, Over
  <2>5. CASE StopChild(r)
    BY <2>5 DEF StopChild, Streaming, Unspawned, EofIsFinal, DoneIsLast
  <2>6. CASE PollChild(r)
    BY <2>6, StreamFrame DEF PollChild, Before, Over
  <2>7. CASE Drain(r)
    BY <2>7 DEF Drain, Streams, Streaming, Unspawned, EofIsFinal, DoneIsLast
  <2>8. CASE ClearSlot(r)
    BY <2>8, StreamFrame DEF ClearSlot, Before, Over
  <2>9. CASE SendDone(r)
    BY <2>9, StreamFrame DEF SendDone, Before, Over
  <2> QED
    BY <1>3, <2>1, <2>2, <2>3, <2>4, <2>5, <2>6, <2>7, <2>8, <2>9 DEF Task
<1> USE DEF TypeOK, Streaming, Unspawned, EofIsFinal, DoneIsLast
<1>4. ASSUME NEW r \in Runs, NEW s \in Streams, Reader(r, s) PROVE Streaming'
  <2>1. CASE ReadLine(r, s)
    BY <2>1 DEF ReadLine
  <2>2. CASE ReadEof(r, s)
    BY <2>2 DEF ReadEof, Writable
  <2> QED
    BY <1>4, <2>1, <2>2 DEF Reader
<1>5. ASSUME NEW r \in Runs, Processes(r) PROVE Streaming'
  <2>1. ASSUME NEW s \in Streams, ChildWrites(r, s) PROVE Streaming'
    BY <2>1 DEF ChildWrites
  <2>2. CASE CargoEnds(r) \/ StartHelper(r) \/ HelperExits(r)
    <3>1. UNCHANGED <<pc, child, unread, reader>>
      BY <2>2 DEF CargoEnds, StartHelper, HelperExits
    <3> QED
      BY <3>1
  <2>3. CASE ChildExits(r) \/ ChildDies(r)
    <3>1. /\ child[r] \in {"alive", "killed"}
          /\ child' = [child EXCEPT ![r] = "dead"]
          /\ UNCHANGED <<pc, unread, reader>>
      BY <2>3 DEF ChildExits, ChildDies
    <3> QED
      BY <3>1
  <2> QED
    BY <1>5, <2>1, <2>2, <2>3 DEF Processes
<1>6. CASE UNCHANGED vars
  BY <1>6 DEF vars
<1> QED
  BY <1>1, <1>2, <1>3, <1>4, <1>5, <1>6 DEF Next

LEMMA IInvStep == IInv /\ [Next]_vars => IInv'
  BY TypeStep, NoOrphanStep, SlotIsLiveStep, StreamStep DEF IInv, Streaming

LEMMA Inductive == Spec => []IInv
  BY IInvInit, IInvStep, PTL DEF Spec

-----------------------------------------------------------------------------
(* The theorems.                                                           *)

\* No run that may still own a build or a process is out of Stop's reach.
THEOREM NeverOrphaned == Spec => []NoOrphan
<1>1. IInv => NoOrphan
  BY DEF IInv
<1> QED
  BY <1>1, Inductive, PTL

\* What a slot holds is under way and not yet told to stop.
THEOREM SlotsAreLive == Spec => []SlotIsLive
<1>1. IInv => SlotIsLive
  BY DEF IInv
<1> QED
  BY <1>1, Inductive, PTL

\* Nothing is sent, and no process of the run lives, after the done event.
THEOREM DoneComesLast == Spec => []DoneIsLast
<1>1. IInv => DoneIsLast
  BY DEF IInv
<1> QED
  BY <1>1, Inductive, PTL

\* A run loses its slot only by finishing or to a signal that reaches it.
THEOREM SlotsAreHandedOver == Spec => SlotHandover
<1>1. IInv /\ [Next]_vars => [HandedOver]_vars
  <2> SUFFICES ASSUME IInv, [Next]_vars,
                      NEW t \in Tools, NEW q \in Runs, slot[t] = q, slot'[t] # q
               PROVE  pc'[q] = "done" \/ permit'[q]
    BY DEF HandedOver
  <2> USE DEF IInv, TypeOK
  <2>1. ASSUME NEW r \in Runs, StartRun(r) PROVE pc'[q] = "done" \/ permit'[q]
    <3>1. t = ToolOf[r]
      BY <2>1 DEF StartRun
    <3>2. permit'[q] = (permit[q] \/ slot[t] = q)
      BY <2>1, <3>1 DEF StartRun, Notified
    <3> QED
      BY <3>2
  <2>2. ASSUME NEW u \in Tools, StopTool(u) PROVE pc'[q] = "done" \/ permit'[q]
    BY <2>2 DEF StopTool, Notified
  <2>3. ASSUME NEW r \in Runs, Task(r) PROVE pc'[q] = "done" \/ permit'[q]
    <3>1. slot' # slot
      OBVIOUS
    <3>2. /\ slot' = [slot EXCEPT ![ToolOf[r]] = IF @ = r THEN NoRun ELSE @]
          /\ pc'[r] = "done"
      BY <2>3, <3>1, TaskControl
    <3>3. q = r
      BY <3>2
    <3> QED
      BY <3>2, <3>3
  <2>4. ASSUME NEW r \in Runs, Processes(r) \/ \E s \in Streams : Reader(r, s)
        PROVE  pc'[q] = "done" \/ permit'[q]
    BY <2>4, ControlUntouched
  <2>5. CASE UNCHANGED vars
    BY <2>5 DEF vars
  <2> QED
    BY <2>1, <2>2, <2>3, <2>4, <2>5 DEF Next
<1> QED
  BY <1>1, Inductive, PTL DEF Spec, SlotHandover

-----------------------------------------------------------------------------
(* The refinement of ToolRuns.                                             *)

\* The abstract phase of one run, without the function around it.
LEMMA StateOfRun ==
  ASSUME NEW q \in Runs
  PROVE  /\ StateOf[q] = "idle" <=> pc[q] = "idle"
         /\ StateOf[q] = "ended" <=> pc[q] \in {"done", "ended"}
         /\ StateOf[q] = "active" <=> /\ pc[q] \notin {"idle", "done", "ended"}
                                      /\ slot[ToolOf[q]] = q
         /\ StateOf[q] \in Abs!Phases
  BY DEF StateOf, Abs!Phases

\* A step that keeps a run's slot and does not take its task across one of
\* the borders of the abstract phases keeps its abstract phase.
LEMMA SamePhase ==
  ASSUME NEW q \in Runs,
         pc'[q] = "idle" <=> pc[q] = "idle",
         pc'[q] \in {"done", "ended"} <=> pc[q] \in {"done", "ended"},
         slot'[ToolOf[q]] = q <=> slot[ToolOf[q]] = q
  PROVE  StateOf'[q] = StateOf[q]
  BY DEF StateOf

LEMMA AbsUnchanged ==
  ASSUME \A q \in Runs : StateOf'[q] = StateOf[q]
  PROVE  UNCHANGED StateOf
<1>1. StateOf' = [q \in Runs |-> StateOf'[q]] /\ StateOf = [q \in Runs |-> StateOf[q]]
  BY DEF StateOf
<1> QED
  BY <1>1

LEMMA StartImplements ==
  ASSUME TypeOK, SlotIsLive, NEW r \in Runs, StartRun(r)
  PROVE  Abs!Start(r)
<1> USE DEF TypeOK, StartRun, Goto
<1>1. StateOf[r] = "idle"
  BY StateOfRun
<1>2. ASSUME NEW q \in Runs
      PROVE  StateOf'[q] = IF q = r THEN "active"
                           ELSE IF Abs!Displaced(q, ToolOf[r]) THEN "stopping"
                           ELSE StateOf[q]
  <2>1. CASE q = r
    BY <2>1 DEF StateOf
  <2>2. CASE q # r /\ Abs!Displaced(q, ToolOf[r])
    BY <2>2 DEF StateOf, Abs!Displaced
  <2>3. CASE q # r /\ ~Abs!Displaced(q, ToolOf[r])
    <3>1. pc'[q] = pc[q]
      BY <2>3
    <3>2. CASE ToolOf[q] = ToolOf[r]
      <4>1. slot'[ToolOf[q]] # q
        BY <2>3, <3>2
      <4>2. StateOf[q] # "active"
        BY <2>3, <3>2 DEF Abs!Displaced
      <4> QED
        BY <2>3, <3>1, <4>1, <4>2 DEF StateOf
    <3>3. CASE ToolOf[q] # ToolOf[r]
      BY <2>3, <3>1, <3>3 DEF StateOf
    <3> QED
      BY <3>2, <3>3
  <2> QED
    BY <2>1, <2>2, <2>3
<1>3. StateOf' = [q \in Runs |-> StateOf'[q]]
  BY DEF StateOf
<1> QED
  BY <1>1, <1>2, <1>3 DEF Abs!Start

LEMMA StopImplements ==
  ASSUME TypeOK, SlotIsLive, NEW t \in Tools, StopTool(t)
  PROVE  Abs!Stop(t)
<1> USE DEF TypeOK, StopTool
<1>1. PICK p \in Runs : slot[t] = p
  OBVIOUS
<1>2. ToolOf[p] = t /\ StateOf[p] = "active"
  BY <1>1, StateOfRun DEF SlotIsLive
<1>3. ASSUME NEW q \in Runs
      PROVE  StateOf'[q] = IF Abs!Displaced(q, t) THEN "stopping" ELSE StateOf[q]
  <2>1. pc'[q] = pc[q]
    OBVIOUS
  <2>2. CASE ToolOf[q] = t
    <3>1. slot'[ToolOf[q]] # q
      BY <2>2
    <3> QED
      BY <2>1, <2>2, <3>1 DEF StateOf, Abs!Displaced
  <2>3. CASE ToolOf[q] # t
    <3>1. slot'[ToolOf[q]] = slot[ToolOf[q]]
      BY <2>3
    <3> QED
      BY <2>1, <2>3, <3>1 DEF StateOf, Abs!Displaced
  <2> QED
    BY <2>2, <2>3
<1>4. StateOf' = [q \in Runs |-> StateOf'[q]]
  BY DEF StateOf
<1> QED
  BY <1>2, <1>3, <1>4 DEF Abs!Stop, Abs!Displaced

LEMMA ClearImplements ==
  ASSUME TypeOK, NEW r \in Runs, ClearSlot(r)
  PROVE  Abs!Finish(r)
<1> USE DEF TypeOK, ClearSlot, Goto
<1>1. StateOf[r] \in {"active", "stopping"}
  BY DEF StateOf
<1>2. ASSUME NEW q \in Runs
      PROVE  StateOf'[q] = IF q = r THEN "ended" ELSE StateOf[q]
  <2>1. CASE q = r
    BY <2>1 DEF StateOf
  <2>2. CASE q # r
    <3>1. pc'[q] = pc[q]
      BY <2>2
    <3>2. slot'[ToolOf[q]] = q <=> slot[ToolOf[q]] = q
      BY <2>2
    <3> QED
      BY <2>2, <3>1, <3>2, SamePhase
  <2> QED
    BY <2>1, <2>2
<1>3. StateOf' = [q \in Runs |-> StateOf'[q]]
  BY DEF StateOf
<1>4. StateOf = [q \in Runs |-> StateOf[q]]
  BY DEF StateOf
<1>5. StateOf' = [StateOf EXCEPT ![r] = "ended"]
  BY <1>2, <1>3, <1>4
<1> QED
  BY <1>1, <1>5 DEF Abs!Finish

LEMMA TaskImplements ==
  ASSUME TypeOK, NEW r \in Runs, Task(r)
  PROVE  UNCHANGED StateOf \/ Abs!Finish(r)
<1>1. CASE ClearSlot(r)
  BY <1>1, ClearImplements
<1>2. CASE pc[r] # "clear"
  <2>1. slot' = slot
    BY <1>2, TaskControl
  <2>2. ASSUME NEW q \in Runs PROVE StateOf'[q] = StateOf[q]
    <3>1. CASE q = r
      BY <2>1, <3>1, <1>2, TaskControl, SamePhase DEF Phases
    <3>2. CASE q # r
      <4>1. pc'[q] = pc[q]
        BY <3>2, TaskControl DEF TypeOK
      <4> QED
        BY <2>1, <4>1, SamePhase
    <3> QED
      BY <3>1, <3>2
  <2> QED
    BY <2>2, AbsUnchanged
<1>3. pc[r] = "clear" => ClearSlot(r)
  BY DEF Task, LaunchBuild, StopBuild, NoStopInBuild, PollBuild, SpawnChild, SpawnFails,
         StopChild, NoStopInRun, PollChild, Drain, SendDone, Goto
<1> QED
  BY <1>1, <1>2, <1>3

LEMMA StepImplements == IInv /\ [Next]_vars => [Abs!Next]_StateOf
<1> SUFFICES ASSUME IInv, [Next]_vars PROVE Abs!Next \/ UNCHANGED StateOf
  OBVIOUS
<1> USE DEF IInv
<1>1. ASSUME NEW r \in Runs, StartRun(r) PROVE Abs!Next
  BY <1>1, StartImplements DEF Abs!Next
<1>2. ASSUME NEW t \in Tools, StopTool(t) PROVE Abs!Next
  BY <1>2, StopImplements DEF Abs!Next
<1>3. ASSUME NEW r \in Runs, Task(r) PROVE Abs!Next \/ UNCHANGED StateOf
  BY <1>3, TaskImplements DEF Abs!Next
<1>4. ASSUME NEW r \in Runs, Processes(r) \/ \E s \in Streams : Reader(r, s)
      PROVE  UNCHANGED StateOf
  BY <1>4, ControlUntouched DEF StateOf
<1>5. CASE UNCHANGED vars
  BY <1>5 DEF vars, StateOf
<1> QED
  BY <1>1, <1>2, <1>3, <1>4, <1>5 DEF Next

\* Every behaviour of the dashboard is a behaviour of ToolRuns: a request
\* takes the tool over and stops the active run in one step, Stop reaches the
\* active run and no other, and a run that has ended never becomes active again.
THEOREM DashboardImplementsToolRuns == Spec => ImplementsToolRuns
<1>1. Init => Abs!Init
  BY DEF Init, Abs!Init, StateOf
<1> QED
  BY <1>1, StepImplements, Inductive, PTL DEF Spec, ImplementsToolRuns, Abs!Spec

-----------------------------------------------------------------------------
(* What ToolRuns promises, whatever implements it.                         *)

\* The abstract phases stay what they are said to be.
LEMMA AbsTypeStep == Abs!TypeOK /\ [Abs!Next]_StateOf => Abs!TypeOK'
<1> SUFFICES ASSUME Abs!TypeOK, [Abs!Next]_StateOf PROVE Abs!TypeOK'
  OBVIOUS
<1> USE DEF Abs!TypeOK, Abs!Phases
<1>1. ASSUME NEW r \in Runs, Abs!Start(r) PROVE Abs!TypeOK'
  BY <1>1 DEF Abs!Start
<1>2. ASSUME NEW r \in Runs, Abs!Finish(r) PROVE Abs!TypeOK'
  BY <1>2 DEF Abs!Finish
<1>3. ASSUME NEW t \in Tools, Abs!Stop(t) PROVE Abs!TypeOK'
  BY <1>3 DEF Abs!Stop
<1>4. CASE UNCHANGED StateOf
  BY <1>4
<1> QED
  BY <1>1, <1>2, <1>3, <1>4 DEF Abs!Next

\* A run that becomes active displaces every active run of its tool.
LEMMA AbsOneActiveStep ==
  Abs!TypeOK /\ Abs!OneActive /\ [Abs!Next]_StateOf => Abs!OneActive'
<1> SUFFICES ASSUME Abs!TypeOK, Abs!OneActive, [Abs!Next]_StateOf PROVE Abs!OneActive'
  OBVIOUS
<1> USE DEF Abs!TypeOK, Abs!OneActive
<1>1. ASSUME NEW r \in Runs, Abs!Start(r) PROVE Abs!OneActive'
  BY <1>1 DEF Abs!Start, Abs!Displaced
<1>2. ASSUME NEW r \in Runs, Abs!Finish(r) PROVE Abs!OneActive'
  BY <1>2 DEF Abs!Finish
<1>3. ASSUME NEW t \in Tools, Abs!Stop(t) PROVE Abs!OneActive'
  BY <1>3 DEF Abs!Stop
<1>4. CASE UNCHANGED StateOf
  BY <1>4
<1> QED
  BY <1>1, <1>2, <1>3, <1>4 DEF Abs!Next

\* A tool never has two active runs, however often it is started: what run_tool
\* keeps a slot per tool for, and what Dashboard inherits as an implementation.  The
\* proof uses ToolRuns' own actions and nothing of what the phases are made of.
THEOREM NeverTwoActive == Abs!Spec => []Abs!OneActive
<1>1. Abs!Init => Abs!TypeOK /\ Abs!OneActive
  BY DEF Abs!Init, Abs!TypeOK, Abs!OneActive, Abs!Phases
<1>2. Abs!TypeOK /\ Abs!OneActive /\ [Abs!Next]_StateOf => (Abs!TypeOK /\ Abs!OneActive)'
  BY AbsTypeStep, AbsOneActiveStep
<1> QED
  BY <1>1, <1>2, PTL DEF Abs!Spec
=============================================================================
