------------------------------ MODULE PortScan ------------------------------
(***************************************************************************)
(* Portofino's scan (Portofino/src/main.rs): scan_targets parses the       *)
(* target, and run starts a progress thread and a number of workers that   *)
(* draw indices into hosts x ports from one atomic counter, send what is   *)
(* open over a channel, and count what they have scanned; run joins the    *)
(* workers, joins the progress thread, and reports what the channel holds. *)
(***************************************************************************)
EXTENDS Integers, FiniteSets, TargetRange

CONSTANTS Targets,     \* the inputs a user may give as target
          NPorts,      \* how many ports are scanned
          Requested,   \* the thread counts a user may ask for
          MaxThreads   \* MAX_THREADS

ASSUME PortScanAssumption ==
    /\ Targets \subseteq Input
    /\ NPorts \in Nat \ {0}
    /\ Requested \subseteq Nat
    /\ MaxThreads \in Nat

\* clamp_threads has an upper limit only.
Clamp(n) == IF n > MaxThreads THEN MaxThreads ELSE n

Workers == 1..MaxThreads

\* The port list has no duplicates; its members are their own indices.
Ports == 0..(NPorts - 1)

VARIABLES
    target,   \* what the user gave as target
    threads,  \* how many workers run starts
    nextIdx,  \* next_index
    scanned,  \* how many indices have been counted as scanned
    wpc, idx, \* where each worker is, and the index it drew
    tries,    \* how often each address and port has been connected to
    isOpen,   \* the ones whose connection was accepted
    chan,     \* how often each has been sent over the channel
    ppc,      \* the progress thread
    mpc,      \* the main thread
    report    \* what is reported open

vars == <<target, threads, nextIdx, scanned, wpc, idx, tries, isOpen, chan, ppc, mpc, report>>
userVars == <<target, threads>>

Sockets == Address \X Ports

\* The hosts scanned, when the target was not refused.
Scope == ParseRange(target)
NHosts == Scope.last - Scope.first + 1
Total == NHosts * NPorts
Work == 0..(Total - 1)

Init ==
    /\ target \in Targets
    /\ threads \in {Clamp(n) : n \in Requested}
    /\ nextIdx = 0
    /\ scanned = 0
    /\ wpc = [w \in Workers |-> "unborn"]
    /\ idx = [w \in Workers |-> 0]
    /\ tries = [s \in Sockets |-> 0]
    /\ isOpen = {}
    /\ chan = [s \in Sockets |-> 0]
    /\ ppc = "unborn"
    /\ mpc = "parse"
    /\ report = {}

Move(w, from, to) == wpc[w] = from /\ wpc' = [wpc EXCEPT ![w] = to]

-----------------------------------------------------------------------------
(* Plausible bugs in the definitions below. *)

\* A load and a store in place of fetch_add: an update can be lost.
DrawLossy(w) ==
    /\ Move(w, "draw", "connect")
    /\ nextIdx < Total
    /\ idx' = [idx EXCEPT ![w] = nextIdx]
    /\ nextIdx' \in {nextIdx, nextIdx + 1}
    /\ UNCHANGED <<userVars, scanned, tries, isOpen, chan, ppc, mpc, report>>

\* The test lets the index one past the end through.
DrawPastEnd(w) ==
    /\ Move(w, "draw", "connect")
    /\ nextIdx <= Total
    /\ idx' = [idx EXCEPT ![w] = nextIdx]
    /\ nextIdx' = nextIdx + 1
    /\ UNCHANGED <<userVars, scanned, tries, isOpen, chan, ppc, mpc, report>>

\* The index is split by the number of hosts.
AddrOfByHosts(i) == Scope.first + (i \div NHosts)

\* The progress thread waits for the counter to pass the total.
ProgressStrict ==
    /\ ppc = "watch"
    /\ scanned > Total
    /\ ppc' = "exit"
    /\ UNCHANGED <<userVars, nextIdx, scanned, wpc, idx, tries, isOpen, chan, mpc, report>>

-----------------------------------------------------------------------------
(* scan_worker.                                                            *)

AddrOf(i) == Scope.first + (i \div NPorts)
PortOf(i) == i % NPorts
Socket(i) == <<AddrOf(i), PortOf(i)>>

\* fetch_add and the test of its result.
Draw(w) ==
    /\ Move(w, "draw", "connect")
    /\ nextIdx < Total
    /\ idx' = [idx EXCEPT ![w] = nextIdx]
    /\ nextIdx' = nextIdx + 1
    /\ UNCHANGED <<userVars, scanned, tries, isOpen, chan, ppc, mpc, report>>

\* The counter keeps growing past the total, once per worker.
DrawNone(w) ==
    /\ Move(w, "draw", "exit")
    /\ nextIdx >= Total
    /\ nextIdx' = nextIdx + 1
    /\ UNCHANGED <<userVars, scanned, idx, tries, isOpen, chan, ppc, mpc, report>>

\* A plausible bug: the index is counted before the result is sent.
CountFirst(w) ==
    /\ \E ok \in BOOLEAN :
          /\ Move(w, "connect", IF ok THEN "send" ELSE "draw")
          /\ isOpen' = IF ok THEN isOpen \cup {Socket(idx[w])} ELSE isOpen
    /\ tries' = [tries EXCEPT ![Socket(idx[w])] = @ + 1]
    /\ scanned' = scanned + 1
    /\ UNCHANGED <<userVars, nextIdx, idx, chan, ppc, mpc, report>>

\* connect_timeout: the network decides.
Connect(w) ==
    /\ \E ok \in BOOLEAN :
          /\ Move(w, "connect", IF ok THEN "send" ELSE "count")
          /\ isOpen' = IF ok THEN isOpen \cup {Socket(idx[w])} ELSE isOpen
    /\ tries' = [tries EXCEPT ![Socket(idx[w])] = @ + 1]
    /\ UNCHANGED <<userVars, nextIdx, scanned, idx, chan, ppc, mpc, report>>

Send(w) ==
    /\ Move(w, "send", "count")
    /\ chan' = [chan EXCEPT ![Socket(idx[w])] = @ + 1]
    /\ UNCHANGED <<userVars, nextIdx, scanned, idx, tries, isOpen, ppc, mpc, report>>

Count(w) ==
    /\ Move(w, "count", "draw")
    /\ scanned' = scanned + 1
    /\ UNCHANGED <<userVars, nextIdx, idx, tries, isOpen, chan, ppc, mpc, report>>

Worker(w) == Draw(w) \/ DrawNone(w) \/ Connect(w) \/ Send(w) \/ Count(w)

-----------------------------------------------------------------------------
(* print_progress: polls until everything is counted.                      *)

Progress ==
    /\ ppc = "watch"
    /\ scanned >= Total
    /\ ppc' = "exit"
    /\ UNCHANGED <<userVars, nextIdx, scanned, wpc, idx, tries, isOpen, chan, mpc, report>>

-----------------------------------------------------------------------------
(* scan_targets and run.                                                   *)

Refuse ==
    /\ mpc = "parse"
    /\ ~Scope.ok
    /\ mpc' = "refused"
    /\ UNCHANGED <<userVars, nextIdx, scanned, wpc, idx, tries, isOpen, chan, ppc, report>>

StartProgress ==
    /\ mpc = "parse"
    /\ Scope.ok
    /\ mpc' = "spawn"
    /\ ppc' = "watch"
    /\ UNCHANGED <<userVars, nextIdx, scanned, wpc, idx, tries, isOpen, chan, report>>

\* Workers start one after the other, the first ones already at work.
SpawnWorker(w) ==
    /\ mpc = "spawn"
    /\ w <= threads
    /\ \A v \in Workers : v < w => wpc[v] # "unborn"
    /\ Move(w, "unborn", "draw")
    /\ UNCHANGED <<userVars, nextIdx, scanned, idx, tries, isOpen, chan, ppc, mpc, report>>

AllSpawned ==
    /\ mpc = "spawn"
    /\ \A w \in Workers : w <= threads => wpc[w] # "unborn"
    /\ mpc' = "join"
    /\ UNCHANGED <<userVars, nextIdx, scanned, wpc, idx, tries, isOpen, chan, ppc, report>>

JoinWorkers ==
    /\ mpc = "join"
    /\ \A w \in Workers : w <= threads => wpc[w] = "exit"
    /\ mpc' = "joinProgress"
    /\ UNCHANGED <<userVars, nextIdx, scanned, wpc, idx, tries, isOpen, chan, ppc, report>>

\* Join the progress thread, drop the sender, drain the channel, print.
Report ==
    /\ mpc = "joinProgress"
    /\ ppc = "exit"
    /\ mpc' = "done"
    /\ report' = {s \in (Scope.first..Scope.last) \X Ports : chan[s] > 0}
    /\ UNCHANGED <<userVars, nextIdx, scanned, wpc, idx, tries, isOpen, chan, ppc>>

RunThread ==
    \/ Refuse \/ StartProgress \/ AllSpawned \/ JoinWorkers \/ Report
    \/ \E w \in Workers : SpawnWorker(w)

-----------------------------------------------------------------------------

Next == RunThread \/ Progress \/ \E w \in Workers : Worker(w)

\* Threads are scheduled, and connect_timeout bounds every connection attempt.
Fairness ==
    /\ WF_vars(RunThread)
    /\ WF_vars(Progress)
    /\ \A w \in Workers : WF_vars(Worker(w))

Spec == Init /\ [][Next]_vars /\ Fairness

-----------------------------------------------------------------------------
(* Correctness.                                                            *)

TypeOK ==
    /\ target \in Targets
    /\ threads \in 0..MaxThreads
    /\ nextIdx \in Nat
    /\ wpc \in [Workers -> {"unborn", "draw", "connect", "send", "count", "exit"}]
    /\ idx \in [Workers -> Nat]
    /\ tries \in [Sockets -> Nat]
    /\ isOpen \in SUBSET Sockets
    /\ chan \in [Sockets -> Nat]
    /\ ppc \in {"unborn", "watch", "exit"}
    /\ mpc \in {"parse", "refused", "spawn", "join", "joinProgress", "done"}
    /\ report \in SUBSET Sockets
    /\ (\E w \in Workers : wpc[w] # "unborn") => Scope.ok /\ scanned \in 0..Total

\* However the workers interleave, no address and port is connected to twice, and
\* nothing is sent twice ("every thread stays busy across the whole scan").
AtMostOnce == \A s \in Sockets : tries[s] <= 1 /\ chan[s] <= 1

\* The progress bar at 100% is true: every port of every address the target stands
\* for has been tried, nothing else has, and every open one is already in the channel
\* when print_progress ends.
ProgressIsHonest ==
    ppc = "exit" =>
        \A s \in Sockets :
            /\ tries[s] = 1 <=> s[1] \in Denoted(target)
            /\ s \in isOpen => chan[s] = 1

\* The report names exactly the ports that accepted a connection, each under its own
\* address, for exactly the addresses the target stands for.
ReportIsExact ==
    mpc = "done" => report = isOpen /\ isOpen \subseteq Denoted(target) \X Ports

\* A scan ends, with its report printed, or its target is refused.
ScanEnds == <>(mpc \in {"done", "refused"})
=============================================================================
