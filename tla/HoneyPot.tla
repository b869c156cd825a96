------------------------------ MODULE HoneyPot ------------------------------
(***************************************************************************)
(* OneForTheHoney: one thread per decoy port accepts connections, one      *)
(* thread per connection asks the shared ScanTracker whether its source    *)
(* has touched enough ports (OneForTheHoney/src/main.rs and tracker.rs).   *)
(* ScanTracker::check reads the clock first and then takes its two locks   *)
(* one after the other, so checks interleave between the three.            *)
(***************************************************************************)
EXTENDS Integers, FiniteSets

CONSTANTS Conns,      \* the connections, each handled by a thread of its own
          Sources, Ports,
          Window, Threshold, Cooldown,
          MaxTime     \* bound of the clock

ASSUME HoneyPotAssumption ==
    /\ Window \in Nat /\ MaxTime \in Nat
    /\ Threshold \in Nat \ {0} /\ Cooldown \in Nat \ {0}
    /\ Sources # {} /\ Ports # {}

VARIABLES
    clock,      \* the monotonic clock of Instant::now
    listener,   \* the thread of each decoy port
    pc,         \* the thread of each connection
    peer, port, \* where each connection came from and which port it reached
    now,        \* the instant its check has read
    distinct,   \* the ports its check has counted
    hits,       \* ScanTracker.hits: what is in each source's deque
    lastAlert,  \* ScanTracker.last_alert; Never when absent
    alerts,     \* every alert printed, with the instant and ports it was based on
    inOrder     \* no check recorded its hit after a check with a later instant

vars == <<clock, listener, pc, peer, port, now, distinct, hits, lastAlert, alerts, inOrder>>
shared == <<hits, lastAlert, alerts, inOrder>>

Never == -1
Times == 0..MaxTime

Init ==
    /\ clock = 0
    /\ listener = [p \in Ports |-> "starting"]
    /\ pc = [c \in Conns |-> "none"]
    /\ peer = [c \in Conns |-> CHOOSE s \in Sources : TRUE]
    /\ port = [c \in Conns |-> CHOOSE p \in Ports : TRUE]
    /\ now = [c \in Conns |-> 0]
    /\ distinct = [c \in Conns |-> {}]
    /\ hits = [s \in Sources |-> {}]
    /\ lastAlert = [s \in Sources |-> Never]
    /\ alerts = {}
    /\ inOrder = TRUE

Move(c, from, to) == pc[c] = from /\ pc' = [pc EXCEPT ![c] = to]

\* Instant::duration_since: zero when the earlier instant is the later one.
Elapsed(t, since) == IF t > since THEN t - since ELSE 0

PortsOf(H) == {h.port : h \in H}

-----------------------------------------------------------------------------
(* Plausible bugs in the definitions below. *)

\* The alert is not remembered.
AlertForgotten(c) ==
    /\ Move(c, "alert", "closed")
    /\ alerts' = alerts \cup {[source |-> peer[c], at |-> now[c], ports |-> distinct[c]]}
    /\ UNCHANGED <<clock, listener, peer, port, now, distinct, hits, lastAlert, inOrder>>

\* The deque is pruned by the cooldown.
RecordLongWindow(c) ==
    LET H == {h \in hits[peer[c]] \cup {[at |-> now[c], port |-> port[c]]} :
                 Elapsed(now[c], h.at) <= Cooldown}
    IN  /\ Move(c, "record", IF Cardinality(PortsOf(H)) < Threshold THEN "closed" ELSE "alert")
        /\ hits' = [hits EXCEPT ![peer[c]] = H]
        /\ distinct' = [distinct EXCEPT ![c] = PortsOf(H)]
        /\ inOrder' = (inOrder /\ \A h \in hits[peer[c]] : h.at <= now[c])
        /\ UNCHANGED <<clock, listener, peer, port, now, lastAlert, alerts>>

\* More ports than the threshold are asked for.
RecordAboveThreshold(c) ==
    LET H == {h \in hits[peer[c]] \cup {[at |-> now[c], port |-> port[c]]} :
                 Elapsed(now[c], h.at) <= Window}
    IN  /\ Move(c, "record", IF Cardinality(PortsOf(H)) <= Threshold THEN "closed" ELSE "alert")
        /\ hits' = [hits EXCEPT ![peer[c]] = H]
        /\ distinct' = [distinct EXCEPT ![c] = PortsOf(H)]
        /\ inOrder' = (inOrder /\ \A h \in hits[peer[c]] : h.at <= now[c])
        /\ UNCHANGED <<clock, listener, peer, port, now, lastAlert, alerts>>

\* The instant is rounded up to the next tick of a coarser clock.
StampNext(c) ==
    /\ Move(c, "stamp", "record")
    /\ now' = [now EXCEPT ![c] = clock + 1]
    /\ UNCHANGED <<clock, listener, peer, port, distinct, shared>>

-----------------------------------------------------------------------------
(* listen_on_port.                                                         *)

\* A failed bind ends this thread and leaves the other ports alone.
Bind(p) ==
    /\ listener[p] = "starting"
    /\ \E l \in {"listening", "skipped"} : listener' = [listener EXCEPT ![p] = l]
    /\ UNCHANGED <<clock, pc, peer, port, now, distinct, shared>>

Accept(c) ==
    \E p \in Ports, s \in Sources :
        /\ listener[p] = "listening"
        /\ Move(c, "none", "stamp")
        /\ port' = [port EXCEPT ![c] = p]
        /\ peer' = [peer EXCEPT ![c] = s]
        /\ UNCHANGED <<clock, listener, now, distinct, shared>>

-----------------------------------------------------------------------------
(* handle_connection and ScanTracker::check.  The banner it then sends and *)
(* the one read with a timeout touch nothing that is shared.               *)

\* peer_addr fails: the connection is dropped without a word.
NoPeer(c) ==
    /\ Move(c, "stamp", "closed")
    /\ UNCHANGED <<clock, listener, peer, port, now, distinct, shared>>

Stamp(c) ==
    /\ Move(c, "stamp", "record")
    /\ now' = [now EXCEPT ![c] = clock]
    /\ UNCHANGED <<clock, listener, peer, port, distinct, shared>>

\* Under the hits lock: push, prune by this check's own instant, count.
Record(c) ==
    LET H == {h \in hits[peer[c]] \cup {[at |-> now[c], port |-> port[c]]} :
                 Elapsed(now[c], h.at) <= Window}
    IN  /\ Move(c, "record", IF Cardinality(PortsOf(H)) < Threshold THEN "closed" ELSE "alert")
        /\ hits' = [hits EXCEPT ![peer[c]] = H]
        /\ distinct' = [distinct EXCEPT ![c] = PortsOf(H)]
        /\ inOrder' = (inOrder /\ \A h \in hits[peer[c]] : h.at <= now[c])
        /\ UNCHANGED <<clock, listener, peer, port, now, lastAlert, alerts>>

CoolingDown(c) ==
    /\ lastAlert[peer[c]] # Never
    /\ Elapsed(now[c], lastAlert[peer[c]]) < Cooldown

\* Under the last_alert lock.
Alert(c) ==
    /\ ~CoolingDown(c)
    /\ Move(c, "alert", "closed")
    /\ lastAlert' = [lastAlert EXCEPT ![peer[c]] = now[c]]
    /\ alerts' = alerts \cup {[source |-> peer[c], at |-> now[c], ports |-> distinct[c]]}
    /\ UNCHANGED <<clock, listener, peer, port, now, distinct, hits, inOrder>>

Suppress(c) ==
    /\ CoolingDown(c)
    /\ Move(c, "alert", "closed")
    /\ UNCHANGED <<clock, listener, peer, port, now, distinct, shared>>

Tick ==
    /\ clock < MaxTime
    /\ clock' = clock + 1
    /\ UNCHANGED <<listener, pc, peer, port, now, distinct, shared>>

Check(c) == NoPeer(c) \/ Stamp(c) \/ Record(c) \/ Alert(c) \/ Suppress(c)

Next ==
    \/ Tick
    \/ \E p \in Ports : Bind(p)
    \/ \E c \in Conns : Accept(c) \/ Check(c)

Spec == Init /\ [][Next]_vars

-----------------------------------------------------------------------------
(* Correctness.                                                            *)

TypeOK ==
    /\ clock \in Times
    /\ listener \in [Ports -> {"starting", "listening", "skipped"}]
    /\ pc \in [Conns -> {"none", "stamp", "record", "alert", "closed"}]
    /\ peer \in [Conns -> Sources]
    /\ port \in [Conns -> Ports]
    /\ now \in [Conns -> Times]
    /\ distinct \in [Conns -> SUBSET Ports]
    /\ hits \in [Sources -> SUBSET [at : Times, port : Ports]]
    /\ lastAlert \in [Sources -> Times \cup {Never}]
    /\ alerts \in SUBSET [source : Sources, at : Times, ports : SUBSET Ports]
    /\ inOrder \in BOOLEAN

\* A connection whose hit is in the tracker.
Recorded(c) == pc[c] \in {"alert", "closed"} /\ distinct[c] # {}

\* Two alerts about one source are a cooldown apart, even when their checks
\* overlap and take the locks in the opposite order of their instants.
AlertsAreSpaced ==
    \A a, b \in alerts :
        (a.source = b.source /\ a # b) =>
            \/ a.at >= b.at + Cooldown
            \/ b.at >= a.at + Cooldown

\* An alert is about ports its source really touched, all that it counts and enough
\* of them.  None was touched longer than the window before the alert's instant, and
\* if checks reach the lock in the order of their instants none after it either: the
\* alert then rests on one window.  (A check with an old instant also keeps and counts
\* what later ones have recorded, however much later; see AlertMeansScan.)
AlertIsEarned ==
    \A a \in alerts :
        /\ Cardinality(a.ports) >= Threshold
        /\ \A p \in a.ports : \E c \in Conns :
              /\ Recorded(c) /\ peer[c] = a.source /\ port[c] = p
              /\ listener[p] = "listening"
              /\ now[c] >= a.at - Window
              /\ inOrder => now[c] <= a.at

\* OneForTheHoney's README says of ALERT "One source touched 3+ distinct decoy ports
\* within 10 seconds", and so does the alert itself: some of the source's connections,
\* at any instants no further apart than the window, reached that many ports.
AlertMeansScan ==
    \A a \in alerts : \E C \in SUBSET {c \in Conns : Recorded(c) /\ peer[c] = a.source} :
        /\ Cardinality({port[c] : c \in C}) >= Threshold
        /\ \A c, d \in C : now[c] <= now[d] + Window

\* If checks reach the lock in the order of their instants, no scanner gets
\* away: a source that touched enough ports within one window has been alerted
\* about no longer than a cooldown before the last of those hits.
NoScannerMissed ==
    inOrder =>
        \A C \in SUBSET {c \in Conns : Recorded(c) /\ pc[c] # "alert"} : \A s \in Sources :
            (/\ \A c \in C : peer[c] = s
             /\ Cardinality({port[c] : c \in C}) >= Threshold
             /\ \A c, d \in C : now[c] <= now[d] + Window)
            => \E a \in alerts : a.source = s /\ \A c \in C : now[c] < a.at + Cooldown
=============================================================================
