------------------------- MODULE FileMonitorProofs -------------------------
(***************************************************************************)
(* Proofs about FileMonitor, for every set of files and hashes: TypeOK,    *)
(* CheckIsRight and OnlyNews.                                              *)
(***************************************************************************)
EXTENDS FileMonitor, TLAPS

\* While a scan is going on, what it has made of the files nobody touched is true.
SeenIsTrue == pc = "scan" => \A f \in held \ todo : seen[f] = Readable(disk[f])

\* Between two checks last_reported is what the user knows; only after a one-shot check,
\* which remembers nothing, is it not.
ReportedIsKnown == (watch \/ pc # "told") => known = lastReported

\* The change that a scan makes of a file nobody touches.
SeenDrift(f) == Kind(loaded[f], Readable(disk[f]))

\* After a check the user knows of exactly the changes that a scan makes of the files that
\* kept still.
KnownIsTrue ==
    pc = "told" =>
        /\ out \subseteq known
        /\ \A f \in held : \A k \in Kinds :
              [kind |-> k, file |-> f] \in known <=> SeenDrift(f) = k

MonitorInv == TypeOK /\ SeenIsTrue /\ ReportedIsKnown /\ KnownIsTrue

\* What a scan makes of a file goes into a snapshot.
LEMMA SnapshotFacts ==
  /\ Nothing \in Snapshots
  /\ \A x \in Hashes \cup {Absent, Locked} : Readable(x) \in Hashes \cup {Absent}
  BY DEF Nothing, Snapshots, Readable

\* No run has begun.
LEMMA MonitorInit == Init => MonitorInv
  BY SnapshotFacts DEF Init, MonitorInv, TypeOK, SeenIsTrue, ReportedIsKnown, KnownIsTrue

\* Every step keeps the types.
LEMMA MonitorTypes == TypeOK /\ [Next]_vars => TypeOK'
<1> SUFFICES ASSUME TypeOK, [Next]_vars PROVE TypeOK'
  OBVIOUS
<1> USE SnapshotFacts DEF TypeOK, monitor
<1>1. ASSUME NEW f \in Files, Touch(f) PROVE TypeOK'
  BY <1>1 DEF Touch
<1>2. CASE Truncate \/ Save \/ SaveFails
  BY <1>2 DEF Truncate, Save, SaveFails
<1>3. CASE StartRun
  BY <1>3 DEF StartRun
<1>4. CASE Load
  BY <1>4 DEF Load
<1>5. CASE Gone
  BY <1>5 DEF Gone
<1>6. CASE BeginCheck
  BY <1>6 DEF BeginCheck
<1>7. CASE HashFile
  <2>1. PICK f \in todo, h \in Hashes \cup {Absent} :
          todo' = todo \ {f} /\ seen' = [seen EXCEPT ![f] = h]
    BY <1>7 DEF HashFile
  <2>2. seen' \in Snapshots
    BY <2>1 DEF Snapshots
  <2> QED
    BY <1>7, <2>1, <2>2 DEF HashFile
<1>8. CASE Report
  <2>1. Diff(loaded, seen) \in SUBSET Changes
    BY DEF Diff
  <2> QED
    BY <1>8, <2>1 DEF Report, Remembered
<1>9. CASE NextTick
  BY <1>9 DEF NextTick
<1>10. CASE UNCHANGED vars
  BY <1>10 DEF vars
<1> QED
  BY <1>1, <1>2, <1>3, <1>4, <1>5, <1>6, <1>7, <1>8, <1>9, <1>10
     DEF Next, Monitor, LoadFails, EndRun

\* The check: what it knows afterwards is the difference between the snapshots.
LEMMA ReportKnows ==
  ASSUME MonitorInv, Report
  PROVE  /\ known' = Diff(loaded, seen)
         /\ out' = Diff(loaded, seen) \ known
  BY DEF MonitorInv, ReportedIsKnown, Report

\* What the run's own steps and everybody else's make of the invariant.
LEMMA MonitorStep == MonitorInv /\ [Next]_vars => MonitorInv'
<1> SUFFICES ASSUME MonitorInv, [Next]_vars PROVE SeenIsTrue' /\ ReportedIsKnown' /\ KnownIsTrue'
  BY MonitorTypes DEF MonitorInv
<1>0. TypeOK /\ SeenIsTrue /\ ReportedIsKnown /\ KnownIsTrue
  BY DEF MonitorInv
<1> USE DEF monitor
<1>1. ASSUME NEW f \in Files, Touch(f) PROVE SeenIsTrue' /\ ReportedIsKnown' /\ KnownIsTrue'
  <2>1. /\ held' = held \ {f} /\ \A g \in Files \ {f} : disk'[g] = disk[g]
        /\ UNCHANGED <<pc, watch, seen, todo, loaded, lastReported, out, known>>
    BY <1>0, <1>1 DEF Touch, TypeOK
  <2>2. held \in SUBSET Files
    BY <1>0 DEF TypeOK
  <2>3. \A g \in held' : g \in held /\ Readable(disk'[g]) = Readable(disk[g])
    BY <2>1, <2>2
  <2>4. SeenIsTrue'
    BY <1>0, <2>1, <2>3 DEF SeenIsTrue
  <2>5. ReportedIsKnown'
    BY <1>0, <2>1 DEF ReportedIsKnown
  <2>6. KnownIsTrue'
    BY <1>0, <2>1, <2>3 DEF KnownIsTrue, SeenDrift
  <2> QED
    BY <2>4, <2>5, <2>6
<1>2. CASE Truncate \/ Save \/ SaveFails \/ UNCHANGED vars
  <2>1. UNCHANGED <<disk, pc, watch, seen, todo, held, loaded, lastReported, out, known>>
    BY <1>2 DEF Truncate, Save, SaveFails, vars
  <2> QED
    BY <1>0, <2>1 DEF SeenIsTrue, ReportedIsKnown, KnownIsTrue, SeenDrift
<1>3. CASE StartRun \/ Load \/ NextTick
  BY <1>0, <1>3 DEF StartRun, Load, NextTick, SeenIsTrue, ReportedIsKnown, KnownIsTrue
<1>4. CASE Gone
  BY <1>4 DEF Gone, SeenIsTrue, ReportedIsKnown, KnownIsTrue
<1>5. CASE BeginCheck
  BY <1>0, <1>5 DEF BeginCheck, SeenIsTrue, ReportedIsKnown, KnownIsTrue
<1>6. CASE HashFile
  <2>1. PICK f \in todo : \E h \in IF f \in held THEN {Readable(disk[f])} ELSE Hashes \cup {Absent} :
          todo' = todo \ {f} /\ seen' = [seen EXCEPT ![f] = h]
    BY <1>6 DEF HashFile
  <2>2. pc = "scan" /\ UNCHANGED <<disk, pc, watch, held, loaded, lastReported, out, known>>
    BY <1>6 DEF HashFile
  <2>3. SeenIsTrue'
    BY <1>0, <2>1, <2>2 DEF SeenIsTrue, TypeOK, Snapshots
  <2> QED
    BY <1>0, <2>2, <2>3 DEF ReportedIsKnown, KnownIsTrue
<1>7. CASE Report
  <2> DEFINE D == Diff(loaded, seen)
  <2>1. known' = D /\ out' = D \ known
    BY <1>7, ReportKnows
  <2>2. /\ pc = "scan" /\ pc' = "told" /\ todo = {}
        /\ lastReported' = IF watch THEN D ELSE lastReported
        /\ UNCHANGED <<disk, watch, held, loaded>>
    BY <1>7 DEF Report, Remembered
  <2>3. held \in SUBSET Files
    BY <1>0 DEF TypeOK
  <2>4. \A f \in held : \A k \in Kinds : [kind |-> k, file |-> f] \in D <=> SeenDrift(f) = k
    <3> SUFFICES ASSUME NEW f \in held, NEW k \in Kinds
                 PROVE  [kind |-> k, file |-> f] \in D <=> SeenDrift(f) = k
      OBVIOUS
    <3>1. seen[f] = Readable(disk[f])
      BY <1>0, <2>2 DEF SeenIsTrue
    <3>2. [kind |-> k, file |-> f] \in Changes
      BY <2>3 DEF Changes
    <3> QED
      BY <3>1, <3>2 DEF Diff, SeenDrift
  <2> HIDE DEF D
  <2>5. KnownIsTrue'
    BY <2>1, <2>2, <2>4 DEF KnownIsTrue, SeenDrift
  <2> QED
    BY <2>1, <2>2, <2>5 DEF SeenIsTrue, ReportedIsKnown
<1> QED
  BY <1>1, <1>2, <1>3, <1>4, <1>5, <1>6, <1>7 DEF Next, Monitor, LoadFails, EndRun

\* The invariant holds of every behaviour.
LEMMA MonitorInvariant == Spec => []MonitorInv
  BY MonitorInit, MonitorStep, PTL DEF Spec

-----------------------------------------------------------------------------

\* Every variable of the monitor keeps its type.
THEOREM TypeCorrect == Spec => []TypeOK
<1>1. MonitorInv => TypeOK
  BY DEF MonitorInv
<1> QED
  BY <1>1, MonitorInvariant, PTL

\* However the directory changes under a scan, a check is right about every file that
\* kept still while it ran and was readable or not there: that such a file is reported as
\* gone, added or modified means that it is.
THEOREM ChecksStayRight == Spec => []CheckIsRight
<1>1. MonitorInv => CheckIsRight
  <2>1. \A f \in Tellable : SeenDrift(f) = Drift(f)
    BY DEF Tellable, SeenDrift, Drift, Readable
  <2> QED
    BY <2>1 DEF MonitorInv, KnownIsTrue, CheckIsRight
<1> QED
  BY <1>1, MonitorInvariant, PTL

\* No check of a watch prints what the user has been told and what has not been gone
\* since.
THEOREM NothingIsReprinted == Spec => OnlyNews
<1>1. MonitorInv /\ [Next]_vars => [(pc = "scan" /\ pc' = "told") => (out' \cap known = {})]_vars
  <2> SUFFICES ASSUME MonitorInv, [Next]_vars, pc = "scan", pc' = "told"
               PROVE  out' \cap known = {}
    OBVIOUS
  <2>1. Report
    BY DEF Next, Touch, Truncate, Save, SaveFails, StartRun, Monitor, Load, LoadFails, Gone,
           BeginCheck, HashFile, NextTick, EndRun, vars, monitor
  <2> QED
    BY <2>1, ReportKnows
<1> QED
  BY <1>1, MonitorInvariant, PTL DEF Spec, OnlyNews
=============================================================================
