----------------------------- MODULE Dashboard -----------------------------
(***************************************************************************)
(* The dashboard's run_tool and stop_tool (dashboard/src/main.rs): each    *)
(* run of a tool registers a Notify under the tool's key, builds the tool  *)
(* with cargo, spawns it, copies its stdout and stderr to the browser, and *)
(* ends with "__DONE__".  HTTP handlers, the tasks of the runs, their two  *)
(* stream_chunks tasks and the processes all interleave.                   *)
(***************************************************************************)
EXTENDS Naturals, FiniteSets

CONSTANTS Runs,       \* the requests to the /run routes, each with its own Notify
          Tools,      \* the tool keys of RunState
          ToolOf,     \* the key each run registers under
          Lingering,  \* the tools whose process starts a helper on its own stderr
          PipeCap,    \* how many unread lines a pipe holds before a writer blocks
          NoRun       \* an empty slot

ASSUME DashboardAssumption ==
    /\ ToolOf \in [Runs -> Tools]
    /\ Lingering \subseteq Tools
    /\ PipeCap \in Nat
    /\ NoRun \notin Runs

VARIABLES
    slot,    \* RunState: the run whose Notify is registered, per tool
    permit,  \* the permit notify_one stores in a run's Notify
    pc,      \* where the task of a run is
    build,   \* the cargo process of a run
    child,   \* the tool's process
    helper,  \* the helper process of a Lingering tool
    unread,  \* lines written to a pipe and not yet sent to the browser
    reader   \* the stream_chunks task of each pipe

vars == <<slot, permit, pc, build, child, helper, unread, reader>>
procs == <<build, child, helper, unread, reader>>

Streams == {"out", "err"}

\* "build"/"built" and "run"/"ran" are the two polls of a biased select: the
\* stop signal first, then the process.
Phases == {"idle", "queued", "build", "built", "spawn", "run", "ran",
           "drain", "clear", "done", "ended"}

Init ==
    /\ slot = [t \in Tools |-> NoRun]
    /\ permit = [r \in Runs |-> FALSE]
    /\ pc = [r \in Runs |-> "idle"]
    /\ build = [r \in Runs |-> "none"]
    /\ child = [r \in Runs |-> "none"]
    /\ helper = [r \in Runs |-> "none"]
    /\ unread = [r \in Runs |-> [s \in Streams |-> 0]]
    /\ reader = [r \in Runs |-> [s \in Streams |-> "off"]]

Goto(r, from, to) == pc[r] = from /\ pc' = [pc EXCEPT ![r] = to]

-----------------------------------------------------------------------------
(* Plausible bugs, each the body of a definition below with one thing wrong. *)

\* The insert overwrites the slot without notifying the run that was there.
StartRunSilently(r) ==
    /\ Goto(r, "idle", "queued")
    /\ slot' = [slot EXCEPT ![ToolOf[r]] = r]
    /\ UNCHANGED <<permit, procs>>

\* clear_slot without Arc::ptr_eq.
ClearAnySlot(r) ==
    /\ Goto(r, "clear", "done")
    /\ slot' = [slot EXCEPT ![ToolOf[r]] = NoRun]
    /\ UNCHANGED <<permit, procs>>

\* The error path of spawn returns without clear_slot.
SpawnFailsUncleared(r) ==
    /\ Goto(r, "spawn", "done")
    /\ UNCHANGED <<slot, permit, procs>>

\* err_task is not awaited.
DrainStdoutOnly(r) ==
    /\ reader[r]["out"] = "eof"
    /\ Goto(r, "drain", "clear")
    /\ UNCHANGED <<slot, permit, procs>>

\* The stop branch of the second select forgets start_kill.
StopChildNoKill(r) ==
    /\ permit[r]
    /\ Goto(r, "run", "drain")
    /\ permit' = [permit EXCEPT ![r] = FALSE]
    /\ UNCHANGED <<slot, procs>>

\* A reader that hands on a line even when there is none.
ReadLineAlways(r, s) ==
    /\ reader[r][s] = "reading"
    /\ unread' = [unread EXCEPT ![r][s] = @ - 1]
    /\ UNCHANGED <<slot, permit, pc, build, child, helper, reader>>

-----------------------------------------------------------------------------
(* The HTTP handlers.  Each holds the RunState lock until the run it found *)
(* has been notified.                                                      *)

\* notify_one stores at most one permit.
Notified(t) == [q \in Runs |-> permit[q] \/ slot[t] = q]

\* run_tool up to tokio::spawn: register, and stop the run registered before.
StartRun(r) ==
    /\ Goto(r, "idle", "queued")
    /\ slot' = [slot EXCEPT ![ToolOf[r]] = r]
    /\ permit' = Notified(ToolOf[r])
    /\ UNCHANGED procs

\* stop_tool when something is registered ("stopping"); otherwise it does nothing.
StopTool(t) ==
    /\ slot[t] # NoRun
    /\ slot' = [slot EXCEPT ![t] = NoRun]
    /\ permit' = Notified(t)
    /\ UNCHANGED <<pc, procs>>

-----------------------------------------------------------------------------
(* The task of a run.                                                      *)

\* select! evaluates Command::output() before it polls the stop signal, so
\* cargo starts even when a stop is pending; cargo may not start at all.
LaunchBuild(r) ==
    /\ Goto(r, "queued", "build")
    /\ \E b \in {"running", "failed"} : build' = [build EXCEPT ![r] = b]
    /\ UNCHANGED <<slot, permit, child, helper, unread, reader>>

\* The stop branch drops the output() future.  The Command has no
\* kill_on_drop, so the cargo process is left to itself.
StopBuild(r) ==
    /\ permit[r]
    /\ Goto(r, "build", "clear")
    /\ permit' = [permit EXCEPT ![r] = FALSE]
    /\ UNCHANGED <<slot, procs>>

NoStopInBuild(r) ==
    /\ ~permit[r]
    /\ Goto(r, "build", "built")
    /\ UNCHANGED <<slot, permit, procs>>

\* The second poll of the build's select, and the match on its result.
PollBuild(r) ==
    /\ \/ build[r] = "running" /\ Goto(r, "built", "build")
       \/ build[r] = "ok" /\ Goto(r, "built", "spawn")
       \/ build[r] = "failed" /\ Goto(r, "built", "clear")
    /\ UNCHANGED <<slot, permit, procs>>

SpawnChild(r) ==
    /\ Goto(r, "spawn", "run")
    /\ child' = [child EXCEPT ![r] = "alive"]
    /\ reader' = [reader EXCEPT ![r] = [s \in Streams |-> "reading"]]
    /\ UNCHANGED <<slot, permit, build, helper, unread>>

SpawnFails(r) ==
    /\ Goto(r, "spawn", "clear")
    /\ UNCHANGED <<slot, permit, procs>>

\* The stop branch: start_kill has no effect on a process that has exited.
StopChild(r) ==
    /\ permit[r]
    /\ Goto(r, "run", "drain")
    /\ permit' = [permit EXCEPT ![r] = FALSE]
    /\ child' = [child EXCEPT ![r] = IF @ = "alive" THEN "killed" ELSE @]
    /\ UNCHANGED <<slot, build, helper, unread, reader>>

NoStopInRun(r) ==
    /\ ~permit[r]
    /\ Goto(r, "run", "ran")
    /\ UNCHANGED <<slot, permit, procs>>

PollChild(r) ==
    /\ \/ child[r] = "alive" /\ Goto(r, "ran", "run")
       \/ child[r] = "dead" /\ Goto(r, "ran", "drain")
    /\ UNCHANGED <<slot, permit, procs>>

\* out_task.await and err_task.await.
Drain(r) ==
    /\ \A s \in Streams : reader[r][s] = "eof"
    /\ Goto(r, "drain", "clear")
    /\ UNCHANGED <<slot, permit, procs>>

\* clear_slot: only if the slot still holds this run's Notify.
ClearSlot(r) ==
    /\ Goto(r, "clear", "done")
    /\ slot' = [slot EXCEPT ![ToolOf[r]] = IF @ = r THEN NoRun ELSE @]
    /\ UNCHANGED <<permit, procs>>

\* "__DONE__", the browser's done event.
SendDone(r) ==
    /\ Goto(r, "done", "ended")
    /\ UNCHANGED <<slot, permit, procs>>

Task(r) ==
    \/ LaunchBuild(r) \/ StopBuild(r) \/ NoStopInBuild(r) \/ PollBuild(r)
    \/ SpawnChild(r) \/ SpawnFails(r)
    \/ StopChild(r) \/ NoStopInRun(r) \/ PollChild(r)
    \/ Drain(r) \/ ClearSlot(r) \/ SendDone(r)

-----------------------------------------------------------------------------
(* stream_chunks, one task per pipe.  A line is what the browser gets as   *)
(* one event; how bytes become lines is not modelled here.                 *)

ReadLine(r, s) ==
    /\ reader[r][s] = "reading"
    /\ unread[r][s] > 0
    /\ unread' = [unread EXCEPT ![r][s] = @ - 1]
    /\ UNCHANGED <<slot, permit, pc, build, child, helper, reader>>

\* A pipe is at its end when nothing is left in it and nobody can write to it.
Writable(r, s) == child[r] \in {"alive", "killed"} \/ (s = "err" /\ helper[r] = "up")

ReadEof(r, s) ==
    /\ reader[r][s] = "reading"
    /\ unread[r][s] = 0
    /\ ~Writable(r, s)
    /\ reader' = [reader EXCEPT ![r][s] = "eof"]
    /\ UNCHANGED <<slot, permit, pc, build, child, helper, unread>>

Reader(r, s) == ReadLine(r, s) \/ ReadEof(r, s)

-----------------------------------------------------------------------------
(* The processes.                                                          *)

CargoEnds(r) ==
    /\ build[r] = "running"
    /\ \E b \in {"ok", "failed"} : build' = [build EXCEPT ![r] = b]
    /\ UNCHANGED <<slot, permit, pc, child, helper, unread, reader>>

ChildWrites(r, s) ==
    /\ child[r] = "alive"
    /\ unread[r][s] < PipeCap
    /\ unread' = [unread EXCEPT ![r][s] = @ + 1]
    /\ UNCHANGED <<slot, permit, pc, build, child, helper, reader>>

ChildExits(r) ==
    /\ child[r] = "alive"
    /\ child' = [child EXCEPT ![r] = "dead"]
    /\ UNCHANGED <<slot, permit, pc, build, helper, unread, reader>>

\* The kernel delivers the SIGKILL of start_kill.
ChildDies(r) ==
    /\ child[r] = "killed"
    /\ child' = [child EXCEPT ![r] = "dead"]
    /\ UNCHANGED <<slot, permit, pc, build, helper, unread, reader>>

\* Bunyan's live_journal: journalctl, with stdout piped and stderr inherited.
StartHelper(r) ==
    /\ child[r] = "alive"
    /\ ToolOf[r] \in Lingering
    /\ helper[r] = "none"
    /\ helper' = [helper EXCEPT ![r] = "up"]
    /\ UNCHANGED <<slot, permit, pc, build, child, unread, reader>>

HelperExits(r) ==
    /\ helper[r] = "up"
    /\ helper' = [helper EXCEPT ![r] = "gone"]
    /\ UNCHANGED <<slot, permit, pc, build, child, unread, reader>>

Processes(r) ==
    \/ CargoEnds(r) \/ ChildExits(r) \/ ChildDies(r) \/ StartHelper(r) \/ HelperExits(r)
    \/ \E s \in Streams : ChildWrites(r, s)

-----------------------------------------------------------------------------

Next ==
    \/ \E t \in Tools : StopTool(t)
    \/ \E r \in Runs :
        \/ StartRun(r)
        \/ Task(r)
        \/ \E s \in Streams : Reader(r, s)
        \/ Processes(r)

\* The runtime polls every task that can move and the kernel delivers a kill.
\* Nothing is assumed of the user, of cargo, of a tool or of a helper.
Fairness ==
    \A r \in Runs :
        /\ WF_vars(Task(r))
        /\ \A s \in Streams : WF_vars(Reader(r, s))
        /\ WF_vars(ChildDies(r))

Spec == Init /\ [][Next]_vars /\ Fairness

-----------------------------------------------------------------------------
(* Correctness.                                                            *)

TypeOK ==
    /\ slot \in [Tools -> Runs \cup {NoRun}]
    /\ permit \in [Runs -> BOOLEAN]
    /\ pc \in [Runs -> Phases]
    /\ build \in [Runs -> {"none", "running", "ok", "failed"}]
    /\ child \in [Runs -> {"none", "alive", "killed", "dead"}]
    /\ helper \in [Runs -> {"none", "up", "gone"}]
    /\ unread \in [Runs -> [Streams -> 0..PipeCap]]
    /\ reader \in [Runs -> [Streams -> {"off", "reading", "eof"}]]

\* The phases in which the task of a run still listens for its stop signal.
Listening == {"queued", "build", "built", "spawn", "run", "ran"}

\* A run that may still own a build or a process can be stopped: either Stop
\* reaches it through its tool's slot or a stop is already waiting for it.  This
\* is what run_tool's comment promises ("Otherwise that first process is
\* orphaned"), whatever other runs of the tool start, stop or finish meanwhile.
NoOrphan ==
    \A r \in Runs : pc[r] \in Listening => (slot[ToolOf[r]] = r \/ permit[r])

\* What a slot holds is a run of that tool that is under way and has not been
\* told to stop: the Stop button is never spent on a run that is over, and a
\* second Stop never reaches the run the first one signalled.
SlotIsLive ==
    \A t \in Tools : \A r \in Runs :
        slot[t] = r => /\ ToolOf[r] = t
                       /\ pc[r] \notin {"idle", "done", "ended"}
                       /\ ~permit[r]

\* When a run gives its slot up and reports "__DONE__", its process is gone
\* and every line it wrote has been sent: the browser closes the stream on the
\* done event and would lose whatever came after it.
DoneIsLast ==
    \A r \in Runs : pc[r] \in {"clear", "done", "ended"} =>
        /\ child[r] \in {"none", "dead"}
        /\ \A s \in Streams : unread[r][s] = 0 /\ reader[r][s] # "reading"

\* A run that lost its slot in this step is done or has a signal waiting.
HandedOver ==
    \A t \in Tools : \A r \in Runs :
        (slot[t] = r /\ slot'[t] # r) => (pc'[r] = "done" \/ permit'[r])

\* A slot is taken from a run only by that run, by a Stop or by a newer run, and
\* the last two always leave the run a signal (clear_slot: "avoids a finishing
\* run clobbering a different, newer run's stop signal").
SlotHandover == [][HandedOver]_vars

\* A run that was told to stop ends, whatever cargo, the tool and the user do:
\* only a helper that outlives the tool can keep its stream open.
StopEndsRun == \A r \in Runs : permit[r] ~> (pc[r] = "ended" \/ helper[r] = "up")

\* The same without the exception.  Bunyan/README.md calls the journalctl that
\* outlives a stopped Bunyan "Harmless (it just keeps tailing quietly)".
StoppedStreamEnds == \A r \in Runs : permit[r] ~> (pc[r] = "ended")

\* The abstract phase of a run.
StateOf ==
    [r \in Runs |->
        IF pc[r] = "idle" THEN "idle"
        ELSE IF pc[r] \in {"done", "ended"} THEN "ended"
        ELSE IF slot[ToolOf[r]] = r THEN "active"
        ELSE "stopping"]

Abs == INSTANCE ToolRuns WITH state <- StateOf

\* Every behaviour of the dashboard is one ToolRuns allows: a new run takes
\* its tool over and stops the old one in one step, Stop reaches exactly the
\* active run, and a run that is over never comes back.
ImplementsToolRuns == Abs!Spec

\* What run_tool's comment on superseding a run says: "This keeps exactly one
\* live process per tool".  It does not hold: the old run is signalled, not waited for.
OneProcess ==
    \A q, r \in Runs :
        (ToolOf[q] = ToolOf[r] /\ {child[q], child[r]} \subseteq {"alive", "killed"}) => q = r

\* What the doc of run_tool says of Stop: it "kills the build or the running
\* process, whichever is in flight".  Here: a run that is over has left no
\* cargo process behind.
StopKillsBuild == \A r \in Runs : pc[r] = "ended" => build[r] # "running"
=============================================================================
