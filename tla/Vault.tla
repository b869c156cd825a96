------------------------------- MODULE Vault -------------------------------
(***************************************************************************)
(* FluShot's vault (FluShot/src/main.rs and crypto.rs): runs of fetch,     *)
(* stash and open against one vault directory and one output directory.    *)
(* Every exists(), create and write is a step of its own, and a run can be *)
(* killed between any two of them (the dashboard's Stop is a SIGKILL).     *)
(***************************************************************************)
EXTENDS Integers, FiniteSets

CONSTANTS Procs,     \* the runs of the tool
          Names,     \* sanitized file names
          MaxItems,  \* how many urls, files or blobs one run is given
          Overlap,   \* TRUE: runs may be alive at the same time
          NoKey, NoItem, Absent, Torn

ASSUME VaultAssumption ==
    /\ MaxItems \in Nat
    /\ Overlap \in BOOLEAN
    /\ IsFiniteSet(Procs)
    /\ {NoKey, Absent, Torn} \cap Procs = {}
    /\ Absent # Torn
    /\ {Absent, Torn} \cap [key : Procs \cup {NoKey},
                            item : [name : Names, by : Procs, turn : 1..MaxItems]] = {}

VARIABLES
    keyFile,  \* .flushot.key: Absent, Torn (created, not yet 32 bytes) or a key
    disk,     \* every path of the two directories
    pc, cmd,  \* where each run is and what it was asked to do
    key,      \* the key a run holds in memory
    left,     \* the items a run has still to do
    item,     \* the item it is at, with its name and its data
    n,        \* unique_path's counter
    saved     \* every SAVED and OPENED line printed: the path and what went there

vars == <<keyFile, disk, pc, cmd, key, left, item, n, saved>>

Dirs == {"vault", "out"}
MaxN == Cardinality(Procs) * MaxItems

\* <name>.enc or <name> is number 0; number i is the same with ".i" appended
\* (no sanitized name is another one's numbered form: the names are kept apart).
Paths == [dir : Dirs, name : Names, nr : 0..MaxN]

\* The data of an item is named after the run that read it and its turn there.
Items == [name : Names, by : Procs, turn : 1..MaxItems]

\* A vault file is an item sealed with a key, an output file is a plain one.
File(k, i) == [key |-> k, item |-> i]
Contents == {Absent, Torn} \cup [key : Procs \cup {NoKey}, item : Items]

Init ==
    /\ keyFile = Absent
    /\ disk = [q \in Paths |-> Absent]
    /\ pc = [p \in Procs |-> "idle"]
    /\ cmd = [p \in Procs |-> "save"]
    /\ key = [p \in Procs |-> NoKey]
    /\ left = [p \in Procs |-> 0]
    /\ item = [p \in Procs |-> NoItem]
    /\ n = [p \in Procs |-> 0]
    /\ saved = {}

Over == {"exit", "killed"}
Goto(p, from, to) == pc[p] = from /\ pc' = [pc EXCEPT ![p] = to]

\* Where the run puts the item it is at.
Target(p) == [dir |-> IF cmd[p] = "save" THEN "vault" ELSE "out",
              name |-> item[p].name, nr |-> n[p]]

-----------------------------------------------------------------------------
(* Plausible bugs in the definitions below. *)

\* unique_path gives up looking after the first name.
NameTakenAnyway(p) ==
    /\ Goto(p, "name", "create") /\ disk[Target(p)] # Absent
    /\ UNCHANGED <<keyFile, disk, cmd, key, left, item, n, saved>>

\* The key is generated and used, and never written down.
KeyKeptInMemory(p) ==
    /\ Goto(p, "writeKey", "next")
    /\ key' = [key EXCEPT ![p] = p]
    /\ UNCHANGED <<keyFile, disk, cmd, left, item, n, saved>>

\* open_or_create does not look whether there is a key.
CheckKeyNever(p) ==
    /\ Goto(p, "checkKey", "makeKey")
    /\ UNCHANGED <<keyFile, disk, cmd, key, left, item, n, saved>>

\* The counter starts at one, so the numbers run past the last path.
NameSkipsTwo(p) ==
    /\ pc[p] = "name" /\ disk[Target(p)] # Absent
    /\ n' = [n EXCEPT ![p] = @ + MaxN + 1]
    /\ UNCHANGED <<keyFile, disk, pc, cmd, key, left, item, saved>>

-----------------------------------------------------------------------------
(* Starting a run, and Vault::open_or_create / open_existing.              *)

Start(p) ==
    /\ pc[p] = "idle"
    /\ Overlap \/ \A q \in Procs : pc[q] \in Over \cup {"idle"}
    /\ \E c \in {"save", "open"} :
          /\ cmd' = [cmd EXCEPT ![p] = c]
          /\ pc' = [pc EXCEPT ![p] = IF c = "save" THEN "checkKey" ELSE "readKey"]
    /\ left' = [left EXCEPT ![p] = MaxItems]
    /\ UNCHANGED <<keyFile, disk, key, item, n, saved>>

CheckKey(p) ==
    /\ Goto(p, "checkKey", IF keyFile = Absent THEN "makeKey" ELSE "readKey")
    /\ UNCHANGED <<keyFile, disk, cmd, key, left, item, n, saved>>

\* A key file that is missing or not 32 bytes long ends the run.
ReadKey(p) ==
    /\ \/ keyFile \in Procs /\ Goto(p, "readKey", "next")
       \/ keyFile \in {Absent, Torn} /\ Goto(p, "readKey", "exit")
    /\ key' = [key EXCEPT ![p] = keyFile]
    /\ UNCHANGED <<keyFile, disk, cmd, left, item, n, saved>>

\* fs::write creates or truncates the file, then writes the 32 bytes.
MakeKey(p) ==
    /\ Goto(p, "makeKey", "writeKey")
    /\ keyFile' = Torn
    /\ UNCHANGED <<disk, cmd, key, left, item, n, saved>>

WriteKey(p) ==
    /\ Goto(p, "writeKey", "next")
    /\ keyFile' = p
    /\ key' = [key EXCEPT ![p] = p]
    /\ UNCHANGED <<disk, cmd, left, item, n, saved>>

\* The write fails, the half-written key file stays, and `?` ends the run.
KeyFails(p) ==
    /\ Goto(p, "writeKey", "exit")
    /\ UNCHANGED <<keyFile, disk, cmd, key, left, item, n, saved>>

-----------------------------------------------------------------------------
(* The loops of cmd_fetch, cmd_stash and cmd_open.                         *)

\* A download, a file or a blob that cannot be read is reported and skipped.
SkipItem(p) ==
    /\ pc[p] = "next" /\ left[p] > 0
    /\ left' = [left EXCEPT ![p] = @ - 1]
    /\ UNCHANGED <<keyFile, disk, pc, cmd, key, item, n, saved>>

\* The bytes come from a url or a file.
TakeItem(p) ==
    /\ cmd[p] = "save" /\ left[p] > 0
    /\ Goto(p, "next", "name")
    /\ \E m \in Names : item' = [item EXCEPT ![p] = [name |-> m, by |-> p, turn |-> left[p]]]
    /\ n' = [n EXCEPT ![p] = 0]
    /\ UNCHANGED <<keyFile, disk, cmd, key, left, saved>>

\* unseal: only a whole blob sealed with this run's key opens.
OpenBlob(p) ==
    /\ cmd[p] = "open" /\ left[p] > 0
    /\ Goto(p, "next", "name")
    /\ \E q \in Paths :
          /\ q.dir = "vault" /\ disk[q] \notin {Absent, Torn}
          /\ disk[q].key = key[p]
          /\ item' = [item EXCEPT ![p] = disk[q].item]
    /\ n' = [n EXCEPT ![p] = 0]
    /\ UNCHANGED <<keyFile, disk, cmd, key, left, saved>>

\* unique_path: one exists() after the other.
NameTaken(p) ==
    /\ pc[p] = "name" /\ disk[Target(p)] # Absent
    /\ n' = [n EXCEPT ![p] = @ + 1]
    /\ UNCHANGED <<keyFile, disk, pc, cmd, key, left, item, saved>>

NameFree(p) ==
    /\ Goto(p, "name", "create") /\ disk[Target(p)] = Absent
    /\ UNCHANGED <<keyFile, disk, cmd, key, left, item, n, saved>>

\* fs::write: create or truncate, then write.
Create(p) ==
    /\ Goto(p, "create", "write")
    /\ disk' = [disk EXCEPT ![Target(p)] = Torn]
    /\ UNCHANGED <<keyFile, cmd, key, left, item, n, saved>>

Write(p) ==
    LET f == File(IF cmd[p] = "save" THEN key[p] ELSE NoKey, item[p])
    IN  /\ Goto(p, "write", "next")
        /\ disk' = [disk EXCEPT ![Target(p)] = f]
        /\ saved' = saved \cup {[path |-> Target(p), file |-> f]}
        /\ left' = [left EXCEPT ![p] = @ - 1]
        /\ UNCHANGED <<keyFile, cmd, key, item, n>>

\* The file cannot be made, or not written: what is there of it stays.
WriteFails(p) ==
    /\ Goto(p, "create", "next") \/ Goto(p, "write", "next")
    /\ left' = [left EXCEPT ![p] = @ - 1]
    /\ UNCHANGED <<keyFile, disk, cmd, key, item, n, saved>>

Exit(p) ==
    /\ left[p] = 0
    /\ Goto(p, "next", "exit")
    /\ UNCHANGED <<keyFile, disk, cmd, key, left, item, n, saved>>

Kill(p) ==
    /\ pc[p] \notin Over \cup {"idle"}
    /\ pc' = [pc EXCEPT ![p] = "killed"]
    /\ UNCHANGED <<keyFile, disk, cmd, key, left, item, n, saved>>

Run(p) ==
    \/ CheckKey(p) \/ ReadKey(p) \/ MakeKey(p) \/ WriteKey(p) \/ KeyFails(p)
    \/ SkipItem(p) \/ TakeItem(p) \/ OpenBlob(p) \/ NameTaken(p) \/ NameFree(p)
    \/ Create(p) \/ Write(p) \/ WriteFails(p) \/ Exit(p)

Next == \E p \in Procs : Start(p) \/ Run(p) \/ Kill(p)

Spec == Init /\ [][Next]_vars

-----------------------------------------------------------------------------
(* Correctness.                                                            *)

TypeOK ==
    /\ keyFile \in Procs \cup {Absent, Torn}
    /\ DOMAIN disk = Paths /\ \A q \in Paths : disk[q] \in Contents
    /\ pc \in [Procs -> Over \cup {"idle", "checkKey", "readKey", "makeKey", "writeKey",
                                   "next", "name", "create", "write"}]
    /\ cmd \in [Procs -> {"save", "open"}]
    /\ key \in [Procs -> Procs \cup {NoKey, Absent, Torn}]
    /\ left \in [Procs -> 0..MaxItems]
    /\ item \in [Procs -> Items \cup {NoItem}]
    /\ n \in [Procs -> 0..MaxN]
    /\ saved \in SUBSET [path : Paths, file : Contents]

\* What a run has reported as saved or opened stays where it was reported, byte
\* for byte, through later runs, name collisions and kills ("an existing file
\* is never clobbered").
SavedSurvives == \A s \in saved : disk[s.path] = s.file

\* Whatever was reported as saved can be opened: it is sealed with the key that
\* is in the vault's key file, even if a run died while it was making that key.
SavedOpens == \A s \in saved : s.path.dir = "vault" => s.file.key = keyFile

\* A vault's key is made once: no later run replaces it, because every blob
\* sealed with the old one would be lost.
KeyIsForever == [][(keyFile \in Procs) => (keyFile' = keyFile)]_vars

\* cmd_list and flushot_info list the files whose extension is "enc".
Listed(path) == path.dir = "vault" /\ path.nr = 0

\* The help text of list says "List the blobs currently in the vault": every
\* blob reported as saved is listed.  It does not hold of a blob whose name was taken.
SavedIsListed == \A s \in saved : s.path.dir = "vault" => Listed(s.path)
=============================================================================
