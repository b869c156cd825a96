------------------------------ MODULE FafoPage ------------------------------
(***************************************************************************)
(* The canary's page (dashboard/static/fafo.html): its status pill and the *)
(* breach modal, driven by the lines of one event stream and by the user.  *)
(***************************************************************************)
EXTENDS Lines

VARIABLES
    pill,    \* what the status pill says
    mirror,  \* the page's own `exposed`
    modal,   \* the breach modal is shown
    acked    \* the user has dismissed the modal since the pill turned to exposed (history)

viewVars == <<pill, mirror, modal, acked>>
pageVars == <<open, viewVars>>

\* What run_tool itself sends.
StoppedLine == <<"stopped">>
DoneLine == <<"done">>

InitPage == open = FALSE /\ pill = "idle" /\ mirror = FALSE /\ modal = FALSE /\ acked = FALSE

-----------------------------------------------------------------------------
(* Plausible bugs in the definitions below. *)

\* Clear leaves `exposed` as it is.
ResetViewKeepsMirror(state) ==
    /\ pill' = state
    /\ modal' = FALSE /\ acked' = FALSE
    /\ UNCHANGED mirror

-----------------------------------------------------------------------------
(* The handlers of the stream.                                             *)

\* The modal comes once per breach.
OnExposed ==
    /\ pill' = "exposed"
    /\ mirror' = TRUE
    /\ modal' = (modal \/ ~mirror)
    /\ UNCHANGED acked

OnSafe ==
    /\ pill' = "safe"
    /\ mirror' = FALSE
    /\ acked' = FALSE
    /\ UNCHANGED modal

\* Any other line is only appended to the panel.
HandleLine(line) ==
    \/ Head(line) = "alert" /\ OnExposed
    \/ Head(line) = "safe" /\ OnSafe
    \/ Head(line) \notin {"alert", "safe"} /\ UNCHANGED viewVars

\* The done event and a broken stream end alike: "stopped".
Ended == open' = FALSE /\ pill' = "idle" /\ acked' = FALSE /\ UNCHANGED <<mirror, modal>>

\* The next event of the stream.
Deliver ==
    /\ open /\ lane # <<>>
    /\ lane' = Tail(lane)
    /\ \/ Head(lane) = DoneLine /\ Ended
       \/ Head(lane) # DoneLine /\ HandleLine(Head(lane)) /\ UNCHANGED open
    /\ UNCHANGED <<pipe, current>>

\* onerror: the page gives up; what was on its way is lost.
Broken ==
    /\ open
    /\ Ended
    /\ lane' = <<>>
    /\ UNCHANGED <<pipe, current>>

-----------------------------------------------------------------------------
(* The user.                                                               *)

ResetView(state) ==
    /\ pill' = state
    /\ mirror' = FALSE /\ modal' = FALSE /\ acked' = FALSE

Clear == ResetView("idle") /\ UNCHANGED <<open, lineVars>>

Dismiss ==
    /\ modal
    /\ modal' = FALSE
    /\ acked' = (pill = "exposed")
    /\ UNCHANGED <<open, pill, mirror, lineVars>>

\* submit: the page's part of a new run.
Submit == ResetView("starting") /\ open' = TRUE
=============================================================================
