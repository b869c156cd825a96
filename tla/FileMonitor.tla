---------------------------- MODULE FileMonitor ----------------------------
(***************************************************************************)
(* FeeFiFoFIM (FeeFiFoFIM/src): one run that checks or watches a directory *)
(* against the baseline it loaded, one run of --init that may be going on  *)
(* at the same time, and a directory that changes under both of them, also *)
(* while they are hashing it.  Either run can be killed at any point.      *)
(***************************************************************************)
EXTENDS FiniteSets

CONSTANTS Files,     \* paths below the monitored directory
          Hashes,    \* contents, told apart by their hash
          Absent,    \* no such file, or none that a snapshot has
          Locked,    \* a file that cannot be read
          Torn       \* a baseline file cut short

ASSUME FileMonitorAssumption ==
    /\ {Absent, Locked, Torn} \cap Hashes = {}
    /\ Cardinality({Absent, Locked, Torn}) = 3

VARIABLES
    disk,          \* what is at each path
    base,          \* the baseline file: Absent, Torn or a snapshot
    ipc,           \* where the --init run is
    pc, watch,     \* where the other run is, and whether it has --watch
    seen, todo,    \* the snapshot it is building and what is left to hash
    held,          \* the files nobody touched since that scan began
    loaded,        \* the baseline it read
    lastReported,  \* last_reported of run_watch
    out,           \* the lines its last check printed
    known          \* lines it has printed and every check since has confirmed

vars == <<disk, base, ipc, pc, watch, seen, todo, held, loaded, lastReported, out, known>>
monitor == <<pc, watch, seen, todo, held, loaded, lastReported, out, known>>

\* A snapshot has a hash for every file that could be read.
Snapshots == [Files -> Hashes \cup {Absent}]
Nothing == [f \in Files |-> Absent]

Kinds == {"added", "removed", "modified"}
Changes == [kind : Kinds, file : Files]

Init ==
    /\ disk \in [Files -> Hashes \cup {Absent}]
    /\ base = Absent
    /\ ipc = "idle"
    /\ pc = "idle"
    /\ watch = FALSE
    /\ seen = Nothing
    /\ todo = {}
    /\ held = {}
    /\ loaded = Nothing
    /\ lastReported = {}
    /\ out = {}
    /\ known = {}

\* The kind of change from the baseline's b to the current s, if there is one.
Kind(b, s) ==
    CASE b = s -> "same"
      [] b # s /\ b = Absent -> "added"
      [] b # s /\ s = Absent -> "removed"
      [] OTHER -> "modified"

-----------------------------------------------------------------------------
(* Plausible bugs in the definitions below. *)

\* last_reported keeps only what was printed this time.
RememberedPrinted(D) == D \ lastReported

\* A file that is gone is not looked for.
DiffCurrentOnly(b, s) ==
    {c \in Changes : c.kind = Kind(b[c.file], s[c.file]) /\ s[c.file] # Absent}

\* load takes what is left of a torn baseline for a baseline without files.
LoadAnything ==
    /\ pc = "load"
    /\ base # Absent
    /\ pc' = "begin"
    /\ loaded' = base
    /\ UNCHANGED <<disk, base, ipc, watch, seen, todo, held, lastReported, out, known>>

-----------------------------------------------------------------------------
(* The directory, changed by anybody at any time.                          *)

Touch(f) ==
    /\ \E x \in (Hashes \cup {Absent, Locked}) \ {disk[f]} : disk' = [disk EXCEPT ![f] = x]
    /\ held' = held \ {f}
    /\ UNCHANGED <<base, ipc, pc, watch, seen, todo, loaded, lastReported, out, known>>

-----------------------------------------------------------------------------
(* scan::scan: the tree is walked file by file.                            *)

\* What a scan makes of a file nobody touches: unreadable ones are left out.
Readable(x) == IF x = Locked THEN Absent ELSE x

\* A file that changes while the tree is walked can be missed by read_dir,
\* fail to open, or be hashed in any of its states or between two of them.
HashFile ==
    /\ pc = "scan"
    /\ \E f \in todo :
          /\ todo' = todo \ {f}
          /\ \E h \in IF f \in held THEN {Readable(disk[f])} ELSE Hashes \cup {Absent} :
                seen' = [seen EXCEPT ![f] = h]
    /\ UNCHANGED <<disk, base, ipc, pc, watch, held, loaded, lastReported, out, known>>

-----------------------------------------------------------------------------
(* run_init.                                                               *)

\* Its scan ends with some snapshot: the tree may have changed all along.
\* save: fs::write truncates the baseline, then writes it.
Truncate ==
    /\ ipc = "idle"
    /\ ipc' = "write"
    /\ base' = Torn
    /\ UNCHANGED <<disk, monitor>>

Save ==
    /\ ipc = "write"
    /\ ipc' = "idle"
    /\ base' \in Snapshots
    /\ UNCHANGED <<disk, monitor>>

\* Killed, or the baseline cannot be written: it stays cut short.
SaveFails ==
    /\ ipc = "write"
    /\ ipc' = "idle"
    /\ UNCHANGED <<disk, base, monitor>>

-----------------------------------------------------------------------------
(* run_check and run_watch.                                                *)

\* diff.
Diff(b, s) == {c \in Changes : c.kind = Kind(b[c.file], s[c.file])}

StartRun ==
    /\ pc = "idle"
    /\ pc' = "load"
    /\ watch' \in BOOLEAN
    /\ UNCHANGED <<disk, base, ipc, seen, todo, held, loaded, lastReported, out, known>>

Load ==
    /\ pc = "load"
    /\ base \in Snapshots
    /\ pc' = "begin"
    /\ loaded' = base
    /\ UNCHANGED <<disk, base, ipc, watch, seen, todo, held, lastReported, out, known>>

\* For a one-shot check at once, for run_watch after its sleep.
BeginCheck ==
    /\ pc = "begin"
    /\ pc' = "scan"
    /\ seen' = Nothing
    /\ todo' = Files
    /\ held' = Files
    /\ UNCHANGED <<disk, base, ipc, watch, loaded, lastReported, out, known>>

\* still_present becomes last_reported; a one-shot check prints everything.
Remembered(D) == D

Report ==
    LET D == Diff(loaded, seen)
        lines == D \ lastReported
    IN  /\ pc = "scan" /\ todo = {}
        /\ pc' = "told"
        /\ out' = lines
        /\ lastReported' = IF watch THEN Remembered(D) ELSE lastReported
        /\ known' = (known \cap D) \cup lines
        /\ seen' = Nothing
        /\ UNCHANGED <<disk, base, ipc, watch, todo, held, loaded>>

NextTick ==
    /\ pc = "told" /\ watch
    /\ pc' = "begin"
    /\ held' = {} /\ out' = {}
    /\ UNCHANGED <<disk, base, ipc, watch, seen, todo, loaded, lastReported, known>>

\* The process is gone, and what it remembered with it.
Gone ==
    /\ pc' = "idle"
    /\ watch' = FALSE
    /\ loaded' = Nothing
    /\ lastReported' = {} /\ out' = {} /\ known' = {}
    /\ seen' = Nothing /\ todo' = {} /\ held' = {}
    /\ UNCHANGED <<disk, base, ipc>>

\* No baseline, or none that parses: the run ends.
LoadFails == pc = "load" /\ base \notin Snapshots /\ Gone

\* A one-shot check is through, or somebody kills the run.
EndRun == pc # "idle" /\ Gone

Monitor == Load \/ LoadFails \/ BeginCheck \/ HashFile \/ Report \/ NextTick

-----------------------------------------------------------------------------

Next ==
    \/ \E f \in Files : Touch(f)
    \/ Truncate \/ Save \/ SaveFails
    \/ StartRun \/ Monitor \/ EndRun

\* The process runs and its sleep ends; nobody has to start or stop anything.
Spec == Init /\ [][Next]_vars /\ WF_vars(Monitor)

-----------------------------------------------------------------------------
(* Correctness.                                                            *)

TypeOK ==
    /\ disk \in [Files -> Hashes \cup {Absent, Locked}]
    /\ base \in Snapshots \cup {Absent, Torn}
    /\ ipc \in {"idle", "write"}
    /\ pc \in {"idle", "load", "begin", "scan", "told"}
    /\ watch \in BOOLEAN
    /\ seen \in Snapshots
    /\ todo \in SUBSET Files
    /\ held \in SUBSET Files
    /\ loaded \in Snapshots
    /\ lastReported \in SUBSET Changes
    /\ out \in SUBSET Changes
    /\ known \in SUBSET Changes

\* The files whose contents a scan can tell; that one is gone can be told as well.
Tellable == {f \in Files : disk[f] # Locked}

\* The change such a file has undergone since the baseline the run loaded.
Drift(f) == Kind(loaded[f], disk[f])

\* A check is right about every file that kept still while it ran, however the
\* others moved, as long as it can be read or is not there: if the file differs from
\* the baseline, the user has been told of exactly that difference, now or by an
\* earlier check; if it does not, nothing is printed about it.  What is said of a file
\* that cannot be read is the subject of RemovedIsGone.
CheckIsRight ==
    pc = "told" => \A f \in held \cap Tellable : \A k \in Kinds :
        LET c == [kind |-> k, file |-> f]
        IN  IF Drift(f) = k THEN c \in known ELSE c \notin out \cup known

\* The README says of REMOVED "A file in the baseline no longer exists": when the line
\* is printed about a file that nobody has touched since the scan began, it is not there.
\* That does not hold of a file that is there and cannot be read.
RemovedIsGone ==
    pc = "told" => \A c \in out : (c.kind = "removed" /\ c.file \in held) => disk[c.file] = Absent

\* A difference the watch has printed and found again in every check since is
\* not printed a second time ("an ongoing difference doesn't get reprinted
\* forever"), but one that was gone in between is.
OnlyNews == [][(pc = "scan" /\ pc' = "told") => (out' \cap known = {})]_vars

\* A file that differs from the baseline and stays as it is, readable or gone, gets
\* reported, as long as the watch keeps running, whatever happens to the other files.
DriftIsPrinted ==
    \A f \in Files :
        (<>[](pc # "idle" /\ watch) /\ <>[][disk'[f] = disk[f]]_vars)
            => <>[]((f \in Tellable /\ Drift(f) # "same")
                       => [kind |-> Drift(f), file |-> f] \in known)
=============================================================================
