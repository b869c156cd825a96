------------------------------- MODULE Watch -------------------------------
(***************************************************************************)
(* A canary watched from its page: FAFO (Canary), the way of its lines     *)
(* (Lines), the page (FafoPage), and what run_fafo and stop_fafo of the    *)
(* dashboard do for the run the page has started last.  Runs of the same   *)
(* tool that a new one supersedes are Dashboard's subject: their streams   *)
(* are closed, and nothing of them reaches the page any more.              *)
(***************************************************************************)
EXTENDS Canary, FafoPage

VARIABLE run  \* the phase of run_tool's task

vars == <<run, canaryVars, lineVars, pageVars>>

Init == run = "none" /\ InitCanary /\ InitLines /\ InitPage

-----------------------------------------------------------------------------
(* run_fafo and the task of run_tool.                                      *)

\* Start Monitoring: whatever stream the page had is closed first.
Start ==
    /\ Submit
    /\ run' = "build"
    /\ ResetLines
    /\ \E withPopups \in BOOLEAN : ResetCanary("off", withPopups)

\* The tool is built and started; without a target it could parse it exits at once.
Launch ==
    /\ run = "build"
    /\ \/ run' = "up" /\ ResetCanary("greet", popups)
       \/ run' = "drain" /\ UNCHANGED canaryVars
    /\ UNCHANGED <<lineVars, pageVars>>

BuildFails ==
    /\ run = "build"
    /\ run' = "over"
    /\ lane' = Sent(<<TextLine, DoneLine>>)
    /\ UNCHANGED <<canaryVars, pipe, current, pageVars>>

\* Stop, also from another page: the build is given up, or the process killed.
Stop ==
    \/ /\ run = "build"
       /\ run' = "over"
       /\ lane' = Sent(<<StoppedLine, DoneLine>>)
       /\ UNCHANGED <<canaryVars, pipe, current, pageVars>>
    \/ /\ run = "up"
       /\ run' = "drain"
       /\ lane' = Sent(<<StoppedLine>>)
       /\ ResetCanary("off", popups)
       /\ UNCHANGED <<pipe, current, pageVars>>

\* Somebody else ends the process.
Die ==
    /\ run = "up"
    /\ run' = "drain"
    /\ ResetCanary("off", popups)
    /\ UNCHANGED <<lineVars, pageVars>>

\* stream_chunks at work, then at the end of the pipe.
Read ==
    /\ \E n \in 1..Len(pipe) : ReadChunk(n)
    /\ UNCHANGED <<run, canaryVars, pageVars>>

Eof ==
    /\ run = "drain"
    /\ ReadEof
    /\ run' = "drained"
    /\ UNCHANGED <<canaryVars, pageVars>>

Done ==
    /\ run = "drained"
    /\ lane' = Sent(<<DoneLine>>)
    /\ run' = "over"
    /\ UNCHANGED <<canaryVars, pipe, current, pageVars>>

-----------------------------------------------------------------------------

Tool == Loop /\ UNCHANGED <<run, pageVars>>
Popup == (DismissBox \/ LowerFlag) /\ UNCHANGED <<run, pageVars>>
Task == Launch \/ BuildFails \/ Eof \/ Done
Browser == Deliver /\ UNCHANGED <<run, canaryVars>>
User == (Clear \/ Dismiss) /\ UNCHANGED <<run, canaryVars>>

Next ==
    \/ Tool \/ Popup \/ Task \/ Read \/ Browser \/ User
    \/ Start \/ Stop \/ Die
    \/ Broken /\ UNCHANGED <<run, canaryVars>>

\* The tool's loop, the tasks of the dashboard and the browser's event loop are scheduled.
\* Users, networks and whoever kills processes are not held to anything.
Fairness == WF_vars(Tool) /\ WF_vars(Task) /\ WF_vars(Read) /\ WF_vars(Browser)

Spec == Init /\ [][Next]_vars /\ Fairness

-----------------------------------------------------------------------------
(* Correctness.                                                            *)

Words == {"alert", "safe", "text", "more"}

TypeOK ==
    /\ run \in {"none", "build", "up", "drain", "drained", "over"}
    /\ cpc \in {"off", "greet", "greeting", "sweep", "popup", "nag", "sleep"}
    /\ exposed \in BOOLEAN /\ sinceBeat \in 0..Heartbeat
    /\ popups \in BOOLEAN /\ flag \in BOOLEAN /\ boxes \in Nat /\ closing \in Nat
    /\ pipe \in Seq(Words \cup {Break}) /\ Len(pipe) <= PipeCap
    /\ current \in Seq(Words)
    /\ lane \in Seq(Seq(Words) \cup {StoppedLine, DoneLine})
    /\ open \in BOOLEAN /\ mirror \in BOOLEAN /\ modal \in BOOLEAN /\ acked \in BOOLEAN
    /\ pill \in {"idle", "starting", "safe", "exposed"}

\* popup_open is true exactly while the one popup thread lives, however the
\* connection flaps and whenever the user gets to the box: boxes never stack up
\* ("a flapping connection can't stack up a pile of message boxes"), and the flag
\* is never left set with nobody to lower it.
PopupFlagIsTrue == boxes + closing <= 1 /\ (flag <=> boxes + closing = 1)

\* The pill after one word, and after words that come one after the other.
Says(before, word) ==
    CASE word = "alert" -> "exposed" [] word = "safe" -> "safe" [] OTHER -> before

SaysAfter(before, words) ==
    LET said[i \in 0..Len(words)] == IF i = 0 THEN before ELSE Says(said[i - 1], words[i])
    IN  said[Len(words)]

\* What the pill will say once everything on the way has arrived: what is sent, of which
\* the page looks at the first word, and then what is still in front of the splitter.
PillToBe ==
    SaysAfter(SaysAfter(SaysAfter(pill, [k \in 1..Len(lane) |-> Head(lane[k])]), current), pipe)

Status == IF exposed THEN "exposed" ELSE "safe"

\* The page is never wrong for longer than its mail takes: between two sweeps,
\* with everything the tool has printed delivered, the pill says what the tool's own
\* state is, or that it does not know (not started, or cleared by the user).  So
\* a page that says ISOLATED while the tool is exposed has the ALERT on its way.
PillCatchesUp ==
    (open /\ run = "up" /\ cpc \in {"sweep", "sleep"}) => PillToBe \in {Status, "idle", "starting"}

\* "fire the loud, one-shot warnings": while the pill says EXPOSED the modal is on
\* the screen, or the user has dismissed it since the pill turned; a Clear or a new
\* run in the middle of a breach brings it back with the next line.
BreachIsLoud == pill = "exposed" => modal \/ acked

\* Of lines sent, the tool's.
ToolLines(lines) ==
    LET told[i \in 0..Len(lines)] ==
            IF i = 0 THEN <<>>
            ELSE IF lines[i] \in {StoppedLine, DoneLine} THEN told[i - 1]
            ELSE Append(told[i - 1], lines[i])
    IN  told[Len(lines)]

Split == INSTANCE Splitting

Fifo == INSTANCE LineFifo
            WITH Writes <- {Banner, AlertLine \o <<Break>>, SafeLine \o <<Break>>,
                            TextLine \o <<Break>>, <<Head(TextLine)>>,
                            Tail(TextLine) \o <<Break>>},
                 queue <- IF open THEN ToolLines(lane) \o Split!LinesOf(current \o pipe) ELSE <<>>,
                 rest <- IF open THEN Split!RestOf(current \o pipe) ELSE <<>>

\* Whatever chunks the pipe is read in, between the tool and the page its lines are a
\* FIFO: each comes whole, once, in order, and the piece of a line that a killed tool
\* left behind comes last.
ImplementsFifo == Fifo!Spec

\* While a tool runs, its status gets to the pill of a page that listens, even if the
\* user clears the page (the nags and heartbeats repeat it), and when its run is over
\* the page stops.
StatusIsShown ==
    /\ \A s \in {"exposed", "safe"} :
          (open /\ run = "up" /\ Status = s)
              ~> (pill = s \/ ~(open /\ run = "up" /\ Status = s))
    /\ (open /\ run = "over") ~> ~(open /\ run = "over")
=============================================================================
