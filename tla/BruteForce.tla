----------------------------- MODULE BruteForce -----------------------------
(***************************************************************************)
(* Bunyan's BruteForceTracker (Bunyan/src/tracker.rs) as process_line      *)
(* feeds it (Bunyan/src/main.rs): one journal entry after the other, each  *)
(* with the time journald gave it.  The tracker keeps a pruned deque per   *)
(* source; the log of everything that happened is only kept here, for the  *)
(* properties to compare the tracker with.                                 *)
(***************************************************************************)
EXTENDS Integers, Sequences, FiniteSets

CONSTANTS Sources,
          Window, FailureThreshold, SuccessMin, Cooldown,
          MaxTime, MaxEvents \* bounds of the times and of the log

ASSUME BruteForceAssumption ==
    /\ Window \in Nat /\ Cooldown \in Nat \ {0}
    /\ FailureThreshold \in Nat /\ SuccessMin \in Nat
    /\ MaxTime \in Nat /\ MaxEvents \in Nat

VARIABLES
    failures,          \* the deque of failure times of each source
    lastFailureAlert,  \* Never when absent
    lastSuccessAlert,
    log                \* every login seen, with whether it raised an alert

vars == <<failures, lastFailureAlert, lastSuccessAlert, log>>

Times == 0..MaxTime
Never == -1

Init ==
    /\ failures = [s \in Sources |-> <<>>]
    /\ lastFailureAlert = [s \in Sources |-> Never]
    /\ lastSuccessAlert = [s \in Sources |-> Never]
    /\ log = <<>>

\* event_time.duration_since(seen).is_ok_and(|d| d <= WINDOW): an instant in
\* the future of the event is not within the window either.
InWindow(seen, at) == seen <= at /\ at - seen <= Window

\* Plausible bug in Prune: nothing is dropped from the deque.
PruneNothing(q, at) == q

\* retain: from the front, what is within the window.
Prune(q, at) ==
    LET kept[i \in 0..Len(q)] ==
            IF i = 0 THEN <<>>
            ELSE IF InWindow(q[i], at) THEN Append(kept[i - 1], q[i])
            ELSE kept[i - 1]
    IN  kept[Len(q)]

-----------------------------------------------------------------------------
(* Plausible bugs in the definitions below. *)

\* The count is taken before the new failure is pushed.
DequeBeforePush(s, at) == Prune(failures[s], at)

\* An alert only has to be later than the one before.
LaterThanLast(last, at) == last = Never \/ at >= last

\* A success clears the source's failures.
AcceptedClears(s, at) ==
    /\ failures' = [failures EXCEPT ![s] = <<>>]
    /\ log' = Append(log, [kind |-> "accepted", source |-> s, at |-> at, alert |-> FALSE])
    /\ UNCHANGED <<lastFailureAlert, lastSuccessAlert>>

\* check_failure stamps the alert with the time after the event's.
FailedLate(s, at) ==
    /\ failures' = [failures EXCEPT ![s] = Append(@, at + 1)]
    /\ log' = Append(log, [kind |-> "failed", source |-> s, at |-> at, alert |-> FALSE])
    /\ UNCHANGED <<lastFailureAlert, lastSuccessAlert>>

-----------------------------------------------------------------------------

\* cooldown_ok, whose caller records the time when it is.
CooldownOk(last, at) == last = Never \/ (at >= last /\ at - last >= Cooldown)

\* The deque of check_failure: push, then prune.
Pushed(s, at) == Prune(Append(failures[s], at), at)

\* check_failure.
Failed(s, at) ==
    LET q == Pushed(s, at)
        alert == Len(q) >= FailureThreshold /\ CooldownOk(lastFailureAlert[s], at)
    IN  /\ failures' = [failures EXCEPT ![s] = q]
        /\ lastFailureAlert' = [lastFailureAlert EXCEPT ![s] = IF alert THEN at ELSE @]
        /\ log' = Append(log, [kind |-> "failed", source |-> s, at |-> at, alert |-> alert])
        /\ UNCHANGED lastSuccessAlert

\* check_success: recent_failures prunes the deque as well.
Accepted(s, at) ==
    LET q == Prune(failures[s], at)
        alert == Len(q) >= SuccessMin /\ CooldownOk(lastSuccessAlert[s], at)
    IN  /\ failures' = [failures EXCEPT ![s] = q]
        /\ lastSuccessAlert' = [lastSuccessAlert EXCEPT ![s] = IF alert THEN at ELSE @]
        /\ log' = Append(log, [kind |-> "accepted", source |-> s, at |-> at, alert |-> alert])
        /\ UNCHANGED lastFailureAlert

\* Any time can come next: a replayed --file need not be sorted, and an entry
\* without a readable timestamp gets the wall clock's.
Next ==
    /\ Len(log) < MaxEvents
    /\ \E s \in Sources, at \in Times : Failed(s, at) \/ Accepted(s, at)

Spec == Init /\ [][Next]_vars

-----------------------------------------------------------------------------
(* Correctness.                                                            *)

TypeOK ==
    /\ failures \in [Sources -> Seq(Times)]
    /\ lastFailureAlert \in [Sources -> Times \cup {Never}]
    /\ lastSuccessAlert \in [Sources -> Times \cup {Never}]
    /\ log \in Seq([kind : {"failed", "accepted"}, source : Sources,
                    at : Times, alert : BOOLEAN])

\* The failures of entry k's source that entry k should know of.
FailuresBefore(k) ==
    {j \in 1..k : /\ log[j].kind = "failed" /\ log[j].source = log[k].source
                  /\ InWindow(log[j].at, log[k].at)}

Limit(k) == IF log[k].kind = "failed" THEN FailureThreshold ELSE SuccessMin

SameKind(j, k) == log[j].kind = log[k].kind /\ log[j].source = log[k].source

\* Every alert rests on enough failures of that very source within the window,
\* although the tracker has only its pruned deque to go by.
AlertIsEarned ==
    \A k \in DOMAIN log : log[k].alert => Cardinality(FailuresBefore(k)) >= Limit(k)

\* Two alerts of one kind about one source are at least a cooldown apart in
\* event time, whatever the other kind and the other sources do in between.
AlertsAreSpaced ==
    \A j, k \in DOMAIN log :
        (j < k /\ SameKind(j, k) /\ log[j].alert /\ log[k].alert)
            => log[k].at >= log[j].at + Cooldown

\* The times up to entry k never went back.
OrderedUpTo(k) == \A i, j \in 1..k : i <= j => log[i].at <= log[j].at

\* As long as times do not go back, no burst is missed: an entry that crosses
\* the limit raises an alert itself or comes less than a cooldown after one
\* that did.
NoBurstMissed ==
    \A k \in DOMAIN log :
        (OrderedUpTo(k) /\ Cardinality(FailuresBefore(k)) >= Limit(k)) =>
            \E j \in 1..k : SameKind(j, k) /\ log[j].alert /\ log[k].at < log[j].at + Cooldown

\* check_success works "without disturbing the failure window": what it prunes
\* would not have counted for any later entry, as long as times do not go back.
PassiveSuccess ==
    LET e == log'[Len(log')]
    IN  (e.kind = "accepted" /\ OrderedUpTo(Len(log))') =>
            \A s \in Sources : \A at \in e.at..MaxTime :
                Prune(failures'[s], at) = Prune(failures[s], at)

SuccessIsPassive == [][PassiveSuccess]_vars
=============================================================================
