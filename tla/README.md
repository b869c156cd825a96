# Rusty Toolz in TLA+

A verification project for Rusty Toolz: a dashboard (`dashboard/`, axum and
tokio) that builds, starts, streams and stops nine command-line tools, and the
tools themselves. Most of what is hard in this code is in four places: the
dashboard's run control (tasks, processes, pipes and HTTP handlers that
interleave), the tools that share state between threads (Portofino,
OneForTheHoney, FuckAroundFindOut), the trackers that decide from a pruned
window of the past (OneForTheHoney, Bunyan, 4P), and the tools that keep files
across runs and kills (FluShot, FeeFiFoFIM, 4P's captures). The models follow
that order, and one of them composes a tool, the dashboard's streaming and a
page.

Paths below are relative to the repository's root, `src/`.

## Inventory

| Component | State | Operations | Interacts with | Hard parts | Correct when |
|---|---|---|---|---|---|
| Dashboard run control, `dashboard/src/main.rs` | `RunState` (a slot per tool), a `Notify` per run, the run's task, its build and child process, two pipes | `run_tool`, `stop_tool`, `clear_slot`, `stream_chunks` | browser (SSE, POST), cargo, the tools | superseding, stop in any phase, done event against late output, kill, helper processes | no run is orphaned; Stop reaches the right run; a stopped run ends; done is last |
| Dashboard streaming, `stream_chunks` | the line under way, the channel | chunk, end of file | tool's pipe, page | chunks cut lines anywhere | lines come out whole, once, in order |
| Dashboard handlers and pages | query parameters, one EventSource per page, FAFO page's `exposed` | `run_*`, `stop_*`, `flushot_info`, `pppp_interfaces` | run control | a page and its tool disagree | the page shows what the tool said |
| Portofino | shared counter, count of scanned, channel | `scan_worker`, `print_progress`, `run`, `parse_ip_range` | network | worker interleaving, joins, 32-bit ranges | every pair once; exact report; ends |
| OneForTheHoney | `hits`, `last_alert` under two locks | `listen_on_port`, `handle_connection`, `ScanTracker::check` | network | clock read outside the locks, two locks | alerts earned, spaced, not missed |
| Bunyan | failures and two cooldowns per source | `check_failure`, `check_success`, `process_line`, `live_journal` | journalctl | event time out of order, window bounds, helper process | alerts earned, spaced, not missed |
| FluShot | key file, vault and output directories | `fetch`, `stash`, `open`, `list` | network, dashboard | kill between two writes, name collisions, two runs at once | what is reported saved survives and opens |
| FeeFiFoFIM | baseline file, `last_reported` | `--init`, check, `--watch` | file system | tree changes under the scan, kill while saving | a check is right about files that kept still; news once |
| FuckAroundFindOut | `exposed`, `popup_open`, heartbeat | `sweep`, transitions, popup thread | network, page | flapping, popup race | every breach is alarmed |
| PickAPeckOfPacketParsers (4P) | two trackers, pcap file | `capture`, `parse_ethernet_frame`, `write_packet` | network | kill while capturing, filter before tracker | capture file whole; alerts earned |
| HardHat, HumptyDumpty | none between runs | audits and triage of files | file system | precedence of directives, parsing | findings match the files |

## Modules

| Module | Models | Runs |
|---|---|---|
| `ToolRuns` | the abstract promise of run control | refined by `Dashboard` |
| `Dashboard`, `MCDashboard` | run control | `dashboard`, `stop_kills_build`, `bunyan_helper` |
| `DashboardProofs` | proofs | |
| `TargetRange` | Portofino's `parse_ip_range`, and what a target denotes | (used by `PortScan`) |
| `PortScan`, `MCPortScan` | Portofino's `scan_targets`, `run`, workers and progress thread | `scan` |
| `PortScanProofs` | proofs | |
| `HoneyPot`, `MCHoneyPot` | OneForTheHoney | `honey`, `honey_late` |
| `HoneyPotProofs` | proofs | |
| `BruteForce`, `MCBruteForce` | Bunyan's tracker | `bunyan` |
| `BruteForceProofs` | proofs | |
| `Vault`, `MCVault` | FluShot | `vault`, `vault_overlap` |
| `VaultProofs` | proofs | |
| `FileMonitor` | FeeFiFoFIM | `monitor` |
| `FileMonitorProofs` | proofs | |
| `PcapFile` | 4P's `PcapWriter` behind its `BufWriter` | (used by `Packets`) |
| `Packets`, `MCPackets` | 4P's options, capture loop, filter and trackers | `packets` |
| `PacketsProofs` | proofs | |
| `Splitting`, `LineFifo` | what lines are, and the abstract promise of the streaming | refined by `Watch` |
| `Lines` | a tool's pipe, `stream_chunks` and the event stream | (used by `Watch`) |
| `Canary` | FuckAroundFindOut's loop and popup thread | (used by `Watch`) |
| `FafoPage` | the canary's page, `fafo.html` | (used by `Watch`) |
| `Watch` | the composition of these three with the dashboard's run | `canary` |
| `WatchProofs` | proofs | |

Each module that has definitions under "Plausible bugs" holds variants of its
own definitions with one thing wrong. They are not part of the specification;
each run's properties are tested by putting such a variant in place of the
definition it resembles and seeing the property fail.

### Dashboard and ToolRuns

`slot` is `RunState`: per tool key, the run whose `Notify` is registered. A
run's `Notify` is its `permit`: `notify_one` stores at most one permit, and
`notified()` takes it. `pc` is the place of the run's task. A biased `select!`
polls the stop signal first and then the process, and the signal can arrive
between the two polls, so each select is two phases (`build`/`built`,
`run`/`ran`): `StopBuild` or `NoStopInBuild`, then `PollBuild`. `Command::output()`
is evaluated before the signal is first polled, so `LaunchBuild` is always the
first step. `SpawnChild` creates the process and both reader tasks; `Drain` is
the two awaits, `ClearSlot` the guarded removal (`Arc::ptr_eq`), `SendDone` the
`__DONE__` line. The handlers `StartRun` and `StopTool` hold the mutex while
they notify, so each is one step. The processes are external: cargo may end
well, badly or never; a tool writes lines while its pipe has room, exits when
it likes, and may start a helper that inherits its stderr (`live_journal` does).

`ToolRuns` knows only idle, active, stopping and ended runs. `StateOf` maps a run
of `Dashboard` to its phase: active while it holds its tool's slot, stopping
while it is under way without it.

Fairness: the tasks of a run, its two readers and the kernel's delivery of
SIGKILL are weakly fair, because tokio's scheduler polls every task that can
move and the kernel kills what it was told to kill. Nothing is assumed of the
user, of cargo (a build may hang), of a tool (it may run for ever: FAFO does)
or of a helper.

### TargetRange and PortScan

`ParseRange` is `parse_ip_range` from the point where the parts of the input have
been parsed, in unsigned arithmetic of `Bits` bits. `Denoted` says independently
what an input stands for. `PortScan` begins with a target: `Refuse` is the error exit
of `scan_targets`; for a target that is accepted there is one action per shared access
of `scan_worker`: the `fetch_add` with the test of its result, the connection,
the send, and the count. `run` starts the progress thread, then the workers
one by one, joins them, joins the progress thread and drains the channel.
`tries`, `isOpen` and `chan` are kept per address and port and not per index, so
that a wrong way of splitting an index shows. Fairness: every thread is
scheduled; `connect_timeout` bounds every attempt, so a connection's outcome
always comes.

### HoneyPot

A connection's thread reads the clock (`Stamp`), takes the `hits` lock (`Record`:
push, prune, count), and, above the threshold, the `last_alert` lock (`Alert` or
`Suppress`). Between any two of these other connections act and time passes.
`inOrder` is a history variable: it becomes false when a check records its
hit after one with a later instant, which the code does not prevent. A touch
counts from the instant its check has read, which is the only one the tracker
knows. `AlertIsEarned` bounds the touches behind an alert from below in every
history, and from above, by the alert's instant, while checks come in order. In
a history out of order a check keeps what later ones have recorded, since
`duration_since` of a later instant is zero; that the alert then says too much
is shown by `AlertMeansScan`, the README's sentence about it, in the run
`honey_late`.
`NoScannerMissed` is stated for histories in which that did not happen: then a check
prunes only by instants that are not older than its own.

### BruteForce

One action per login: `check_failure` and `check_success` with their deques and
cooldowns. The process is single-threaded, so a login is one step; the hard
part is time, which comes from the journal and may go back. `log` is a history
variable with every login, and the properties compare the tracker's pruned
deques with the whole log. `NoBurstMissed` and `SuccessIsPassive` are stated for
logs whose times have not gone back so far; with times that go back, the
tracker prunes what it should keep and both fail, as one would expect from a
tracker with one deque. The other two hold at any times.

### Vault

Every `exists()`, every create-or-truncate and every write is a step, and a run
can be killed between any two of them (the dashboard's Stop is a SIGKILL). A
file is `Torn` between its creation and the end of its write. Blobs carry the
key they were sealed with and the item they hold; ciphers, nonces and the
alphabet of names are abstracted away. `saved` is a history variable: what the
run printed as SAVED or OPENED. In the run `vault` the runs of the tool come
one after the other, which is what the dashboard's slot and one terminal give
(up to the moment between a superseding start and the old process's death); in
`vault_overlap` two of them run at once.

### FileMonitor

A directory that anybody changes at any time, one run that checks or watches
it, and an `--init` that may rewrite the baseline meanwhile. The scan hashes file
by file; `held` is the set of files nobody touched since the scan began. What a
scan makes of a touched file is left open (any contents, or missed), which is
more than the code can produce and so covers it. `known` is a history variable,
kept from the printed lines only: what the user has been told and every check
since has found again. The properties compare the code's `last_reported` with
it. `CheckIsRight` and `DriftIsPrinted` define what is right by the files themselves
(`Drift`) and leave out those that exist and cannot be read, of which a check can
know nothing; the code reports them as REMOVED, which `RemovedIsGone` holds against
the README. The snapshot an `--init` saves is any snapshot, because the tree may change
during its scan; no property depends on which one it is. Fairness: the
monitoring process runs and its sleep ends.

### Packets and PcapFile

A frame is a record of what the parser's branches look at: its kind, whether
its layers are whole, hosts, ports and the claimed MAC. `Receive` is one turn of
the capture loop up to the writing: `Shown` follows the parser's branches and
the filter, `Track` feeds the tracker of the branch, and `log` is a history
variable with every frame, the time it came, whether it was printed and whether
it raised an alert. `write_packet` is three steps (`WriteHeader`, `WriteFrame`, `Flush`),
because the dashboard's Stop is a SIGKILL that can fall between them.

`ThisHost` is the host that captures. The tracker looks at no flag, no destination and no
direction: every printed TCP packet is a hit of its source. What it should see are the
scans of this host (`HitsHere`: packets to this host that are not replies to a connection
it has, as far as the log tells, opened itself), and `ScanIsReported` says that none of them goes
unreported. A report in turn rests on enough ports, of whatever hosts, which is 4P's
README ("one source hitting many destination ports fast"); the narrower sentence of
`security.rs` is `AlertMeansScan`, and does not hold.

`PcapFile` counts the file in units. `accepted` is all that the `BufWriter` has ever
taken, `inFile` how much of it has reached the file; every write can fail or be
cut short. When the buffer is full and cannot be flushed the next piece is
refused. The file's own header waits in the buffer for the first record, so a
capture killed before its first packet leaves an empty file.

### Lines, Splitting and LineFifo

A character is a token, `Break` for CR and LF. The tool writes to a pipe with room
for `PipeCap` tokens; `ReadChunk` takes any number of them and does `Feed`, the body of
`stream_chunks`' loop, with one after the other; `ReadEof` is the read of length zero. `lane` is the
channel and the event stream: what is sent and not yet handled by the page.
`Splitting` says over positions, without a loop, what the lines of a sequence are;
`LineFifo` promises that the lines of what is written come out in order, once, whole.

### Canary, FafoPage and Watch

`Canary` is the tool's `main`. One sweep is one step (`Breach`, `StillExposed`, `Regain`, `Beat`,
`Quiet`): its threads only report back, and `answers` is any set of targets. The swap of
`popup_open` is `Raise`; the popup thread is two steps, the box that the user dismisses and
the lowering of the flag, so that a breach can come in between. Lines that are
longer than stdout's buffer reach the pipe in two writes (`Greet`).

`FafoPage` is the page: the pill, its own mirror of `exposed`, the breach modal. `acked` is a
history variable: the user has dismissed the modal since the pill turned to
EXPOSED.

`Watch` composes both with the run that the page started last: `Start` closes the old
stream and begins a new run, `Stop` and `Die` end the process at any point, and the
lines travel through `Lines`. Superseding runs that are still alive are `Dashboard`'s
subject; nothing of them reaches this page, because its stream has been closed.
Only the tool's stdout is there: the canary writes nothing to stderr while it runs, and
`Dashboard` has both readers. The line "Stopped." and the kill are one step, as no line
can tell their order. A read error ends `stream_chunks` as the end of file does
(`ReadEof`).
A stream that breaks is given up by the page, while the tool goes on.

Fairness: the tool's loop, the run's task, the reader and the browser's event loop. Nothing is
assumed of the user, of the network, of the popup or of whoever kills processes.

## Runs and bounds

* `dashboard`: two runs of one tool with a helper, one line per pipe. Two runs
  are one superseding start in every phase of the first run, with a Stop
  before, between and after; one line is a full and an empty pipe. The safety
  properties and the refinement are proved for any number of runs, tools and
  lines. `StopEndsRun` is checked here only: a run told to stop ends, unless a
  helper of its tool is up.
* `stop_kills_build`: the documentation of `run_tool` says that Stop kills the build;
  the cargo process survives it.
* `bunyan_helper`: Bunyan's README calls the `journalctl` that outlives a stopped
  Bunyan harmless; it holds the stderr pipe, so the stopped run never ends.
* `scan`: twelve targets over addresses of four bits with a last octet of two:
  blocks with and without their network and broadcast address, too large and
  malformed ones, ranges in both notations, backwards and too long. Two ports
  and up to three hosts tell the two factors of an index apart; one or two
  workers (three are asked for and clamped) make contention for every index,
  the last one included, and a worker that draws nothing happen. On its way TLC
  evaluates `ParseIsDenoted`: for every CIDR block and every range of that width
  `ParseRange` returns exactly what is denoted or refuses it, with one exception,
  the range of all addresses (`EverythingIsAccepted`): its size wraps to zero and it
  passes the limit on the number of hosts.
* `honey`: four connections, two sources, two ports, a window of one tick, a
  threshold of two ports and a cooldown of two ticks, clock up to three. Window and
  cooldown differ and both expire within the run; four connections give two
  overlapping pairs of checks for one source.
* `honey_late`: two connections of one source, more than a window apart. The first
  has read its instant, the second is recorded, then the first takes the lock and
  counts both: an alert about ports that were not touched within one window.
* `bunyan`: five logins, two sources, times 0 to 3, window and cooldown of two,
  three failures for one alert and two for the other.
* `vault`: three runs of two items each and one name, so that names collide up
  to five times, keys are made and reused, and a kill or a failed write leaves
  a torn file for the next run.
* `vault_overlap`: two runs of one item at once: the second overwrites what the
  first reported as saved.
* `monitor`: two files, two contents, no bound on the number of edits, checks,
  baselines or kills (the state space is finite).
* `packets`: four frames of nine kinds at times 0 to 2 under three requests. Four
  frames make a scan, its cooldown and a second report, an address claimed,
  claimed again and probed in between; a buffer of one record and a half is full
  after two failed flushes. `ShownIsAsked` holds the parser's branches against the
  wording of the options, `ScanIsReported` and `SpoofIsReported` the pruned trackers against
  the whole log (`ThisHost` is the one the other host's packets go to), `CaptureIsSaved` the file against the printed records.
* `canary`: two targets, a heartbeat every third safe sweep, a pipe with room for
  two lines, a browser at most two lines behind. No bound on sweeps, breaches,
  starts, stops or clicks: the state space is finite. A breach fits between any
  two steps of the popup thread, and every chunk boundary within two lines occurs.
  `PillCatchesUp`, `BreachIsLoud` and `PopupFlagIsTrue` are about safety, `StatusIsShown` says that
  the tool's status gets to the page while it listens, and `ImplementsFifo` that the
  streaming implements `LineFifo`.

Deadlock checking is off where the system may stop: all runs of the dashboard
over, a scan finished, every connection closed, the log full, every run of
FluShot ended, the capture gone. `monitor` and `canary` check it.

## Proofs

`DashboardProofs` proves the five safety properties of the run `dashboard`
(`TypeCorrect`, `NeverOrphaned`, `SlotsAreLive`, `DoneComesLast`,
`SlotsAreHandedOver`) and the refinement (`DashboardImplementsToolRuns`) for every
value of the constants that satisfies `DashboardAssumption`: runs have tools,
`PipeCap` is a natural number, and the empty slot is not a run.

The inductive invariant is `IInv`. `NoOrphan` and `SlotIsLive` alone are not
inductive for two reasons. A start needs to know that an unstarted run has no
permit and no slot yet (`UnstartedIsQuiet`). `DoneIsLast` needs to know that a
run which has not spawned its child has no reader and nothing unread (`Unspawned`), and
that a reader at its end of file can never see another line, because nobody
who can write to that pipe is left (`EofIsFinal`). `IInv` was model-checked
before it was proved. The proof that a step preserves it has one step per
action. The refinement proof maps `StartRun` to `Start`, `StopTool` to `Stop`,
`ClearSlot` to `Finish`, and every other action to a stutter; it uses
`SlotIsLive` to know that the run a slot holds is neither idle nor ended.

From that, `NeverTwoActive`: what `Dashboard` implements has at most one active
run per tool.

`PortScanProofs` proves all four safety properties of the run `scan` for every set of
targets, number of ports and number of threads: `TypeCorrect`, `NeverTwice` (`AtMostOnce`),
`ProgressStaysHonest` and `ReportStaysExact`. The first part shows that a target that is
accepted gives a nonempty interval of addresses and that indices and
pairs of address and port correspond one to one (`SocketIsScanned`, `SocketsDiffer`,
`SocketIsDrawn`). `AtMostOnce` is not inductive: it takes that busy workers hold different,
already drawn indices (`Holding`), and for each stage of a worker what has happened to
its socket, to the counted ones and to the rest (`Stages`). That the bar is honest rests on
`Tally`: `scanned` is the number of drawn indices no worker is busy with, so when it has
reached the total, that set is everything. What everything is rests on `ParserIsRight`:
an input that `parse_ip_range` accepts is parsed to exactly the addresses it stands for, for
addresses and octets of any width. Its masks are quotients and remainders, of which
`QuotientSpan` says what is needed. `PowersOfTwo` of `TargetRange` is an assumption worth naming: three
facts of arithmetic (a power of two is a natural number greater than its exponent and
divides the larger ones) that the provers, which know no exponentiation, could not
find; TLC evaluates it. What TLC alone checks of the parser (`ParseIsDenoted`) is that it refuses nothing
it should accept, and the size of what it accepts.

`WatchProofs` proves the four safety properties of the run `canary`, and that the streaming
implements `LineFifo`, for every set of targets, heartbeat and sizes of pipe and backlog. `PopupFlagIsTrue` is inductive with its types.
`BreachIsLoud` takes, as long as lines can come, that the page's mirror is only
set while the pill says EXPOSED (`PageInv`). `TypeOK` and `PillCatchesUp` rest on
`MailInv`. `PillToBe` goes through what is sent, the line under way and the pipe, word by
word; that this tells the pill's future takes that a status word only ever stands at the
beginning of a line (`StatusFirst`), because the page looks at first words only. `PhaseInv` ties the
tool's place in its loop to its state and says where its output is at a line's end; `PillInv` is
the property, kept through all places but the two between a banner and its nag. The steps
then need that a print appends its first word to what the pill hears
(`PrintStep`), that reading a chunk, wherever it cuts, does not change what the pill hears
(`ReadStep`), and that the page handling a line does not either (`DeliverKeepsPill`). `ReadStep`
takes an invariant of `stream_chunks`' loop, at every number of characters read.

`LinesAreFifo` maps the queue to the tool's lines among those sent, followed by the lines
of what is under way and in the pipe, and the rest to what follows these. `Splitting` numbers lines
by the places they end at, so the proof first shows what a character more does to
that: the ends are finite in number and every number is the rank of one (`NthWorks`), and a
break behind a rest that is not empty adds one line, the rest, while any other character
adds none (`LinesAppend`). From this follow how the lines of two sequences compose
(`LinesCompose`) and that the loop of `stream_chunks` has, after any number of characters,
the lines and the rest of what it has read (`SplitIsAll`). A print is then `Write`, a read of any length
changes nothing (`ReadKeepsLines`), the last read of a process that left a piece of a
line is `Close`, and the page handling a line is `Take`, except for the dashboard's own lines, which
are not in the queue. The line a failed build sends is a `Write` too, because nothing is on its way
before a run is up (`PhaseInv`).

`HoneyPotProofs` proves all four properties of the run `honey` for every
number of connections, sources and ports and every window, threshold and cooldown. `AlertIsEarned` takes
that every hit in a deque is that of a connection which came to a listening port
(`HitsAreReal`), and that what a check counted stays earned while it waits for the second lock
(`PendingIsEarned`): its ports were touched within the window before its own instant, whatever
other checks prune or record meanwhile, and not after it while the order holds; once lost, the order
does not come back (`OrderIsNotRestored`). From this follows `AlertsMeanScansInOrder`: while checks
come in order an alert means what it says (`AlertMeansScan`), so the overtaken check of `honey_late` is the only
way to break it. `AlertsAreSpaced` takes that `last_alert` is never
older than an alert of its source (`LastIsLast`), although instants reach the lock out of order.
`NoScannerMissed` is the hardest: the invariant `Thorough` says, while checks come in order, that no
deque has lost a hit but for one too late for its window (`HitsRemain`), that of any connections of a source
one has counted all that its window reaches back to (`LastSeesAll`), that `last_alert` is an
alert that was raised (`LastIsReal`), and that a check which ended with enough ports is covered by an alert less
than a cooldown old (`ClosedIsCovered`).

`BruteForceProofs` proves all five properties of the run `bunyan` for logs of any length, the
types, the earning and the spacing of alerts for times in any order. `AlertIsEarned` and `NoBurstMissed` compare a deque
with the whole log: `DequesMatch` says that some map takes the places of a deque to different
entries of the log, failures of its source at the same times, and, as long as the times have not
gone back, reaches all such failures within the window of the last entry. `AlertsAreSpaced` takes that the tracker remembers no alert older
than one it has raised, `NoBurstMissed` also that it remembers no alert it has not raised (`LastIsReal`).

`PacketsProofs` proves all five properties of the run `packets` for all hosts, ports, times, windows
and thresholds. `ShownIsAsked` is kept frame by frame. `SpoofIsReported` takes that `known` is
the last claim of an address that passed the filter (`KnownIsLast`). `ScanIsReported` takes that a deque is in order, holds hits of the log only,
and all those within the window (`DequeIsWindow`), and that the tracker
remembers the last alert of each source (`AlertedIsLast`). The invariant is that the tracker
decides exactly as the whole log of printed TCP packets would (`TrackerAgrees`); the hits of this host are
some of them, so enough of these are enough. For `CaptureIsSaved`, the
unit at each place of the file is computed from the place (`UnitAt`); what the
writer has taken is that image up to where it stands in the record (`Given`), and after
a flush that succeeded the file has all of it.

`VaultProofs` proves all four properties of the run `vault` for every number of runs, names and items. `TypeOK`
holds even if runs overlap, and its hard part is that `unique_path` stays within the
numbers `0..MaxN`: every file was made in a turn of its own (`FewFiles`: there is an injection from the paths in use
to the turns that have got as far as creating a file), and all numbers up to the one
at which a run looks are taken (`NumbersTried`), so a name without a free number would need more
turns than there are. The other three have the hypothesis that runs do not overlap. They rest on `SoloInv`:
the key a run holds is the one in the key file, the path it is about to create is free,
and the one it is about to write holds its own unfinished file. `VaultAssumption` asks for finitely many runs
and that an absent or torn file is told from a whole one.

`FileMonitorProofs` proves `TypeOK`, `CheckIsRight` and `OnlyNews` of the run `monitor` for all files and hashes. Its
invariant says that what a scan has made of the files nobody touched is true
(`SeenIsTrue`: an unreadable one is seen as missing), that between two checks `last_reported` is what the user knows (`ReportedIsKnown`),
and that after a check the user knows exactly the changes a scan makes of the files that kept still
(`KnownIsTrue`), which for a file that is readable or gone are its own.

The prover's library states induction over data with an operator as a parameter, which
cannot be instantiated here. Where a proof is about what a recursive function makes of a
sequence (`Prune` of `BruteForce`, `SaysAfter`, `ToolLines` and the loop of `ReadChunk` in `Watch`), it
assumes a counterexample, takes a shortest one (`LeastNat`), and looks at the one before.

What the theorems assume of the constants are the `ASSUME`s of the modules, all of which hold of
the code: windows, thresholds and cooldowns are constants of the source and not zero
(`Cooldown \in Nat \ {0}` in `HoneyPot` and `BruteForce`).

Only model-checked: the liveness properties (`StopEndsRun`, `ScanEnds`, `DriftIsPrinted`,
`StatusIsShown`), because the prover does not handle fairness, and what Portofino's parser
refuses (`ParseIsDenoted`).

## Findings

Four disagreements between the code and what the repository says of it have a run
that shows them:

* cargo survives Stop (`stop_kills_build`);
* a leftover `journalctl` keeps a stopped run from ending (`bunyan_helper`);
* an overtaken check of OneForTheHoney alerts about touches further apart than its
  window (`honey_late`). It takes a thread that is held up for longer than what is left of the
  window between two lines of code, so it is rare;
* two FluShot runs can clobber a saved blob (`vault_overlap`).

Six more can be seen with a formula of a module and the constants of a run, and have
no run of their own: put the formula in place of the INVARIANTS and PROPERTIES of the cfg.

| What the repository says | What the code does | Formula, cfg |
|---|---|---|
| `dashboard/src/main.rs:195`: superseding a run "keeps exactly one live process per tool" | the old run is signalled and not waited for: until its task has been polled and its process is dead, the new one's can be up | `OneProcess`, `Dashboard.cfg` |
| `Portofino/src/main.rs:296`: the prompt asks for "a whole number greater than 0" | the command line (and a hand-made query to the dashboard, whose form has a minimum of 1) accepts `--threads 0`: no worker starts, and `run` joins a progress thread that never ends | `ScanEnds`, `PortScan.cfg` with `Requested = {0}` |
| `FluShot/src/crypto.rs:53`: "generating a fresh random key if none exists yet" | `exists()` comes before the write: of two runs that start together on a new vault the later one's key stays, and what the other has saved cannot be opened | `SavedOpens`, `VaultOverlap.cfg` |
| `FluShot/src/main.rs:70`: "List the blobs currently in the vault" | a blob renamed because its name was taken is `<name>.enc.1`, and `list` (and `dashboard/src/main.rs:650`) shows what ends in `.enc` | `SavedIsListed`, `Vault.cfg` |
| `FeeFiFoFIM/README.md:33`: REMOVED means "no longer exists" | a file that cannot be read is left out of the snapshot, and so reported as REMOVED | `RemovedIsGone`, `FileMonitor.cfg` |
| `PickAPeckOfPacketParsers/src/security.rs:9-11`: many "distinct destination ports on this host" | every TCP packet that passes the filter is a hit of its source, whatever its destination and flags: this host is reported for its own connections, and a server for its answers to a client's many ports | `AlertMeansScan`, `Packets.cfg` with either host as `ThisHost` |

Smaller things the models make visible, none contradicted by a document: a 4P
capture killed before its first record leaves a pcap file without a header; once a
full buffer has refused a piece of a record, the rest of the file cannot be
read (`pcap_writer.rs:34-48`); an ARP packet passes `--host` by its sender only; a breach
that comes between the dismissal of a popup and the lowering of `popup_open` has no
popup of its own (the next one has); after its stream broke, the canary's page says
stopped while the tool runs on; a tool's line that reads `__DONE__` ends the page's stream.

## Not modelled

* HardHat and HumptyDumpty audit or triage files once and keep no state between
  operations: what could go wrong there is parsing and numerics over bytes
  (entropy, PE tables, directive syntax), which abstract data would not show.
* Bunyan's message parsing, 4P's DNS and HTTP wording, Portofino's prompts: string
  handling without state. The events they yield are inputs of the models.
* The pages other than the canary's, the public site and the installers:
  presentation, and shell scripts outside the running system.
* How the dashboard's handlers turn query parameters into arguments (except 4P's,
  which are `FilterOf` in `Packets`), `flushot_info` and `pppp_interfaces`.
* FAFO's `--once`, which keeps no state; several directories in FeeFiFoFIM whose
  baselines share a file name (`/a/b` and `/a_b`); two 4P captures started in the
  same second, which share a file name (`dashboard/src/main.rs:362`).
* Memory, file descriptors and threads without limit (OneForTheHoney).
