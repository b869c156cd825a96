------------------------------- MODULE Canary -------------------------------
(***************************************************************************)
(* FuckAroundFindOut (FuckAroundFindOut/src/main.rs, probe.rs, alert.rs):  *)
(* the loop that sweeps its targets, tells its reader in lines whether     *)
(* any of them can be reached, and raises one popup at a time.             *)
(***************************************************************************)
EXTENDS Lines

CONSTANTS Targets,   \* the addresses probed
          Heartbeat  \* --heartbeat-secs, in sweeps

VARIABLES
    cpc,        \* where main is
    exposed,
    sinceBeat,  \* sweeps since last_heartbeat, up to Heartbeat
    popups,     \* the user left the native popup on
    flag,       \* popup_open
    boxes,      \* popup threads whose message box is on the screen
    closing     \* popup threads whose box has been dismissed

canaryVars == <<cpc, exposed, sinceBeat, popups, flag, boxes, closing>>
popupVars == <<popups, flag, boxes, closing>>

AlertLine == <<"alert", "more">>
SafeLine == <<"safe", "more">>
TextLine == <<"text", "more">>

\* The banner is framed by empty lines.
Banner == <<Break>> \o TextLine \o <<Break, Break>>

\* The pipe has room for whatever is written at a time.
ASSUME CanaryAssumption == Heartbeat \in Nat /\ Len(Banner) <= PipeCap

\* No last_heartbeat yet: the first heartbeat is due at once.
InitCanary ==
    /\ cpc = "off" /\ exposed = FALSE /\ sinceBeat = Heartbeat
    /\ popups = FALSE /\ flag = FALSE /\ boxes = 0 /\ closing = 0

\* A new process, or none; its threads go with it.
ResetCanary(at, withPopups) ==
    /\ cpc' = at /\ exposed' = FALSE /\ sinceBeat' = Heartbeat
    /\ popups' = withPopups /\ flag' = FALSE /\ boxes' = 0 /\ closing' = 0

\* One sweep: all targets are tried at the same time, each up to the timeout, and
\* answers are the ones that accepted.  Any of them is a hit.
Reachable(answers) == answers # {}

Goto(from, to) == cpc = from /\ cpc' = to

-----------------------------------------------------------------------------
(* Plausible bugs in the definitions below. *)

\* The heartbeat's time is taken at every sweep.
QuietResets(answers) ==
    /\ Goto("sweep", "sleep") /\ ~Reachable(answers) /\ ~exposed /\ sinceBeat < Heartbeat
    /\ sinceBeat' = 0
    /\ UNCHANGED <<exposed, popupVars, lineVars>>

\* popup_open is set, but what it was is not looked at.
RaiseAnyway ==
    /\ Goto("popup", "nag")
    /\ flag' = (flag \/ popups)
    /\ boxes' = IF popups THEN boxes + 1 ELSE boxes
    /\ UNCHANGED <<exposed, sinceBeat, popups, closing, lineVars>>

\* The connection that is lost again is only noted.
RegainSilently(answers) ==
    /\ Goto("sweep", "sleep") /\ ~Reachable(answers) /\ exposed
    /\ exposed' = FALSE
    /\ sinceBeat' = 0
    /\ UNCHANGED <<popupVars, lineVars>>

-----------------------------------------------------------------------------
(* main.                                                                   *)

\* The line that names the targets.  One longer than the buffer of stdout reaches
\* the pipe in pieces.
Greet ==
    \/ /\ cpc = "greet"
       /\ \/ Println(TextLine \o <<Break>>) /\ cpc' = "sweep"
          \/ Println(<<Head(TextLine)>>) /\ cpc' = "greeting"
       /\ UNCHANGED <<exposed, sinceBeat, popupVars>>
    \/ /\ cpc = "greeting"
       /\ Println(Tail(TextLine) \o <<Break>>)
       /\ cpc' = "sweep"
       /\ UNCHANGED <<exposed, sinceBeat, popupVars>>


\* Safe to exposed: the banner, once.
Breach(answers) ==
    /\ Goto("sweep", "popup") /\ Reachable(answers) /\ ~exposed
    /\ exposed' = TRUE
    /\ Println(Banner)
    /\ UNCHANGED <<sinceBeat, popupVars>>

StillExposed(answers) ==
    /\ Goto("sweep", "nag") /\ Reachable(answers) /\ exposed
    /\ UNCHANGED <<exposed, sinceBeat, popupVars, lineVars>>

\* Exposed to safe.
Regain(answers) ==
    /\ Goto("sweep", "sleep") /\ ~Reachable(answers) /\ exposed
    /\ exposed' = FALSE
    /\ Println(SafeLine \o <<Break>>)
    /\ sinceBeat' = 0
    /\ UNCHANGED popupVars

\* Still safe: a heartbeat if one is due.
Beat(answers) ==
    /\ Goto("sweep", "sleep") /\ ~Reachable(answers) /\ ~exposed /\ sinceBeat >= Heartbeat
    /\ Println(SafeLine \o <<Break>>)
    /\ sinceBeat' = 0
    /\ UNCHANGED <<exposed, popupVars>>

Quiet(answers) ==
    /\ Goto("sweep", "sleep") /\ ~Reachable(answers) /\ ~exposed /\ sinceBeat < Heartbeat
    /\ UNCHANGED <<exposed, sinceBeat, popupVars, lineVars>>

\* popup_open.swap: a thread for the box unless one is there.
Raise ==
    /\ Goto("popup", "nag")
    /\ flag' = (flag \/ popups)
    /\ boxes' = IF popups /\ ~flag THEN boxes + 1 ELSE boxes
    /\ UNCHANGED <<exposed, sinceBeat, popups, closing, lineVars>>

\* The line of every exposed sweep.
Nag ==
    /\ Goto("nag", "sleep")
    /\ Println(AlertLine \o <<Break>>)
    /\ UNCHANGED <<exposed, sinceBeat, popupVars>>

\* thread::sleep, and the time that has passed since the last heartbeat.
Sleep ==
    /\ Goto("sleep", "sweep")
    /\ sinceBeat' = IF sinceBeat < Heartbeat THEN sinceBeat + 1 ELSE Heartbeat
    /\ UNCHANGED <<exposed, popupVars, lineVars>>

Loop ==
    \/ Greet \/ Raise \/ Nag \/ Sleep
    \/ \E answers \in SUBSET Targets :
          \/ Breach(answers) \/ StillExposed(answers)
          \/ Regain(answers) \/ Beat(answers) \/ Quiet(answers)

-----------------------------------------------------------------------------
(* The popup thread: the box, which returns when the user dismisses it (at *)
(* once where there are no native popups), and then the flag.              *)

DismissBox ==
    /\ boxes > 0
    /\ boxes' = boxes - 1
    /\ closing' = closing + 1
    /\ UNCHANGED <<cpc, exposed, sinceBeat, popups, flag, lineVars>>

LowerFlag ==
    /\ closing > 0
    /\ closing' = closing - 1
    /\ flag' = FALSE
    /\ UNCHANGED <<cpc, exposed, sinceBeat, popups, boxes, lineVars>>
=============================================================================
