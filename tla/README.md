# TLA+ for regrow

regrow finds what a Mac's developer tools can make again (caches, build
output, images, leftovers), shows it, and moves or prunes what its owner picks.
It promises that whatever it did is journaled and that what it moved can be put
back. This directory specifies the parts of it that keep that promise, checks
them with TLC and proves the central facts with TLAPS.

    tlc -workers 2 -config MCOpLog.cfg MCOpLog      # one run; see "Runs"
    tlapm OpLogProofs.tla                           # one proof module; see "Proofs"

Contents: the system; the modules and how they correspond to the code; the
runs; the proofs; what is not modelled; the plan.

## The system

One Go binary and one Swift app. Paths are below `src/`.

| part | state it keeps | operations | talks to |
|---|---|---|---|
| oplog, jsonl (`internal/oplog`, `internal/jsonl`) | `oplog.jsonl`, one entry per line, under an flock while written | `Append` (lock, frame, write, sync), `Read`, `Runs`, `OnDisk`, `Summary` | executor, history, undo, autopilot's gate, engine server |
| executor (`internal/executor`) | one run: sequence number, result, `trashUnsafe` | `Execute`, `Undo` | oplog (journal seam), trash (mover seam), commands |
| trash (`internal/trash`) | none; receipts (`from`, `to`, method, inode) | `Move` (Finder, then staging), `Restore`, `Gone`, `GuardPath` | Finder, the file system |
| engine server (`internal/protocol`) | a session: current scan, held plans, the one operation in flight, cancels waiting on it | scan, plan, execute, cancel, tick, history, updates, aerials, aerials_switch, rules, set_rules; shutdown | scanner, planner, executor, autopilot; the app over pipes |
| outbox (`protocol/outbox.go`) | queue, closed flag, write error | `send`, writer goroutine, `close` | every goroutine of the session |
| scanner (`internal/scanner`) | process-wide set of blocked paths; one walk's progress | bounded walks, sizing, some forty tool scanners, rechecks used as pre-actions | planner, executor |
| planner (`internal/engine`) | none: findings and a selection to a plan | `BuildPlanWith`, path forest, account of totals, prune policy, rule schema and loader | server, clean, tui |
| autopilot (`internal/autopilot`) | `prune.state` (deferral clocks) under a non-blocking flock | `Tick`, gate, target, `Prune` | headroom, oplog, executor |
| headroom (`internal/headroom`) | `headroom.jsonl`, appended without a lock, compacted by rename | sample, `Append`, `Tail`, forecast, alerts | autopilot, history |
| aerials (`internal/aerials`) | a record of wallpaper picks; a root script's lock | `Status`, `Off`, `On` | macOS, engine server |
| selfupdate (`internal/selfupdate`) | a stamp of the last check; the installed binary | `Update`, `install`, `Inspect` | GitHub releases, file system |
| docker (`internal/docker`) | a ledger of when volumes were first seen | snapshot, classify, volume export | docker CLI |
| config (`internal/config`) | `config.yaml` | load, validate, `SetRules` | rule switch |
| commands and TUI (`cmd/regrow`, `internal/tui`) | a selection | clean, undo, history, tick, prune, engine, update, doctor | all of the above |
| app (`app/Sources`) | engine process, pending requests, menu state, instance lock, update in progress | router, child process, watch timer, app update and bundle swap | engine server |

### What is hard in it

* Several processes write one journal; disks fill in the middle of a write;
  processes are killed; power is lost.
* A run acts on a disk that Finder, the owner, the owner's tools and another
  run change at the same time; Finder may finish a move or an Empty Trash after
  regrow has given up on it; Finder reuses names.
* In the engine a read loop, one operation goroutine, answer goroutines, one
  writer and a shutdown interleave; plans may outlive what they were made from.
* Calls into the file system may never return (walks, moves).
* What a scan offers is moved hours later, beside an owner who goes on working;
  the recheck right before the move reads many sources one after another.
* The aerials switch's root step outlives the call that began it; the headroom
  history and the installed binary are replaced without a lock.

PROJECT.json lists each such place with its line and the properties aimed at it.

### What makes each part correct

* oplog: an acknowledged entry is durable; a reader has to refuse the journal
  over no line but a lone cut one, whose removal loses no entry; entries stay in
  order; a lock holder never starves the others.
* executor and trash: journaled before acting; no run goes past a move it could
  not record; undo restores the very item to its own place and overwrites
  nothing; the history tells what the executor counted.
* server: a plan runs only against the scan it was made from, in time, once;
  every request gets exactly one terminal event, in the right order; an
  operation that changes the machine is never cut off by an exit.
* outbox: events arrive in order, each once, and no wake-up is lost.
* autopilot and headroom: one prune at a time; a build defers it, not for ever.
* scanner: a walk ends; a size it calls whole is exact; nothing stays blocked for
  nothing; what is in use while an item is rechecked stays.
* aerials: every pick that off deleted is in the record until it is back.
* headroom: a sample stays for the retention; a line crossed is told of once.
* self update: what is installed is the newer release it says it is.
* planner: an item is acted on and counted once, however rules overlap.

## Modules

Each module names its source file; PROJECT.json's "map" gives the lines of
every definition. Definitions marked *Variant* in a comment are not part of any
specification: each is one definition gone wrong the way a bug would make it,
kept beside the right one, to show which property notices.

### Journal, OpLog (`oplog.go`, `jsonl.go`)

`OpLog` is the journal file as a sequence of tokens: an entry is its Opening,
its Middle and its Closing, `NL` ends a line, and a write may stop between any two. Each
process steps through `Append`: Begin, Lock (flock), Frame (the check for a
cut-short last line, which may itself fail), Write (one token reaches the
file), Sync. `Fail` is an error return or a kill at any of these; `PowerLoss`
drops any unsynced suffix and every process. `Read` (entries, `cutShort`,
corrupt lines) is an operator over any prefix of the file, since readers take
no lock. `Read` tells four kinds of line apart: a whole entry; a fragment at
whose end the parser had only run out of input, which it skips (`cutShort`); a
fragment that stops where the parser has another error, after a backslash, inside
`\u`, within a number or a literal (the known limit of docs/ARCHITECTURE.md:105);
and a line with more after a fragment. It refuses the whole journal over the last
two. Three tokens per entry are the least that tell these apart: a write that
stops after the Opening leaves the first kind of fragment, one that stops after
the Middle the second. `RefusesOnlyCuts` says that the code leaves the second kind
at worst, alone on its line, so that whoever removes the refused line by
hand, as the limit has it, loses no entry.

Left out: `Read`'s limit of 1 MiB a line (`oplog.go:145`; an entry longer than
that would be refused), and the encoding.

`Journal` is what the callers rely on: a log that entries join at the end, of
which nothing acknowledged is ever lost. `ImplementsJournal` is OpLog's
refinement of it (`log <- Read(file)`, `kept <- acked`); of a journal that `Read`
refuses, `log` is what it holds once the refused lines are removed.

### Trash, RunLog, Executor (`move.go`, `oplog.go`, `summary.go`, `executor.go`, `boundedMover`)

`Trash` is the disk: a function from objects (inodes) to places, places being
original paths, names in the Trash (`Finder`'s numbering) and names in a run's
staging directory; on a case-blind volume two spellings are one place. It has
the receipts and `Gone`, `holds`, `MayRestore`, and what rename(2) does. `Lstat`
has three answers: what is there, that nothing is, and a refusal (`Refused`: any
error but ENOENT and ENOTDIR). A copy of which it is refused is not gone, cannot
be identified, and is not restored.

`RunLog` is what is read out of journal entries: copies reused by later lines,
pending receipts, present copies, and `regrow history`'s Summary.

`Executor` has, for each run, the steps of `Execute`: Finish (end or Stop),
SkipTrash, JournalStart, then the action (Refuse, FinderMoves, or FinderFails
and StageRenames or StageFails; Identify; RunCommand), then JournalAfter with
the counting. Runs of the app's engine may also GiveUp a move (boundedMover),
which may land later (StrayLands). So may a move of any run that osascript ended
with an error of (FinderFails in worlds with `finderLags`): the error may be an
AppleEvent that timed out, or have come after the move, and the code goes on to
stage either way (`move.go:109-117`). Finder's move lands before the staging
rename, which then fails, or after it, and then takes what was made again at the
path. Kill ends a run at any step. Undo is UndoStart (the present copies are read
once), then check, rename (whose MkdirAll or rename may fail) and log per receipt.
The owner, Finder and macOS act in between: Lstat of a copy is refused and later
answers again (LstatTurns); items are made again with a new
inode, copies are removed or put back, the Trash is emptied, items of the same
name are trashed, an abandoned Empty Trash is carried out after all. The
journal in this module is `Journal`'s (one step per Append, which may fail with
the entry written or not), which `OpLog` is shown to implement.

A receipt with an inode stands for the item it names, not for the one run that
wrote it: an item put back and moved to the same name again is the later line's,
and `OnDiskExact` says what OnDisk's split tells of all others: what is still the
moved item is listed as present, and beside it only what Lstat is refused of.

`ReceiptUnlessCut` lists every way in which a move may lack its receipt: its run
ended there; its action is journaled as failed, because the run gave up on it or
Finder made it after an error; or Finder, after an error, took what was made again
where the item had been that the same action staged (`MovedAfterStaging`). In the
last two the run goes on, and undo cannot find what Finder moved.

Lstat is refused of places in the Trash only, which is what macOS guards. (Of an
item it is refused for, a run fails that action, as for one that is gone; were it
refused of names in the staging folder, `stage`'s search for a free one would not
end, `move.go:138-143`.)

Left to the environment: a plan's actions are any sequence `BuildPlan` could
order; what a pre-action decides is a choice; sizes are small numbers.

### Stream, Outbox (`outbox.go`)

`Outbox` has the queue, the closed flag and the write error under the mutex,
the one-slot wake channel, the writer's batch, and a step for each critical
section and channel operation of `send`, `run` and `close`. `close` picks a
grace (Serve) or none (ScanOnce). `Stream` is the promise: the peer reads the
accepted events in order, a prefix of them at any moment.

### EngineServer (`server.go`, `aerials.go`)

One session of `regrow engine`. Requests are numbered in the order read; the
number also names the scan or the plan it made. Each request handler under
`s.mu` is one action (Malformed, StartScan, MakePlan, StartExecute, Cancel,
StartOther, StartAside, Rules); an operation's goroutine has a step per
critical section or emit (ScanBegins, RuleReports, ScanWrapsUp, ScanEnds,
ExecutorBuilt or NoExecutor, ActionBegins, ActionEnds, ExecuteEnds, OtherEnds,
AsideEnds); Serve's end is StdinEnds, GraceEnds, Stopped, Answered, Exit.
`said` is what the last step put into the outbox and `ended` the requests that
have had a terminal event. The executor's own steps are those of `Executor`,
here an action begun and an action journaled; the outbox is `Outbox`.

Left out: event contents, the line reader (a line that is no request is
Malformed), the FDA probe, encoding failures.

### Planner (`forest.go`, `plan.go`, `account.go`)

From a finished scan to a plan. A path is a sequence of characters, since how
`buildForest` sorts them is the point of its trailing slash; what an item holds
is a set of files, so that a byte counted twice or not at all shows. The forest
is the stack walk of `buildForest` as a recursive function over the sorted
items, and gives each item the stack it was pushed on. BuildPlan takes a
selection (`DefaultSelection`, or any few atoms, unknown ones included),
DraftRule is one turn of BuildPlanWith's loop over the rules (whole-rule
commands, commands per item by path or by key, moves to the Trash, with every
refusal), ResolveNesting drops what another action deletes, and counts. The
ledger (`Bucket`, `Exclusive`, `Total`, `Share`) is operators over the same
forest.

Left out: argv text and quoting, and the order of actions within the two groups
(those that empty the Trash go first; the rest keep the drafts' order). Every
item has a key, as `withItemKeys` sees to, and rules that only prune are not in
the scans. That a run performs its actions in order is `Executor`'s.

### Autopilot (`autopilot.go`, `state.go`, `prune.go`, the executor's prune)

Each tick with autotrim, and each `regrow prune`, is a process that steps
through `Tick` or `Prune`: ReadGate, Lock (the flock on `prune.state`),
LookForBuilds with the deferral clock, Truncate and Save (the file is rewritten
in place, so there is a moment when it is empty; Unsaved is a full disk), Plan
(`PrunePlan`'s cutoff over whole hours), JournalStart, Find (one entry at a
time, each looked at again), FindEnds, JournalAfter. Kill ends it at any step;
the kernel drops its flock, and its find may go on by itself (OrphanFinds).
Meanwhile hours pass and builds use entries. Time is in hours, because the
cutoff is; an entry is one block. `seen` and `saved` are kept for OverrideExact
only: the hours in which autotrim met a build, and those whose deferral was
written down.

Left out: a clock set back (a clock that started "in the future" only puts the
override off for longer); entries `go` deletes itself, or that cannot be read
while the cache is surveyed; the moment between find's look at an entry and its
unlink; where the cache is and whether it is one (any plan may come to nothing);
samples, history, forecast and alerts, of which autotrim takes a number for free
space and one for the target.

### Walker (`walk.go`, `size.go`)

Sizings of trees of which any call may never answer. Each sizing is the root's
lstat through `bounded` (Lstat, LstatAnswers, LstatWrittenOff, LstatCanceled,
LateAnswer) and then a walk: workers Pop a folder, Look whether it is blocked,
open it, Touch, read and close it, and Finish hands its subfolders on; the
walk's own goroutine writes stalled workers off, up to MaxWriteOffs, starts
replacements and returns. All sizings share `blocked` and the progress clock
(`quiet`). A written-off worker stays in its call and may come back at any time;
the owner deletes a folder meanwhile, and folders may refuse to be read. Time is
in stall windows, since that is all the watchdog tells apart; a folder's entries
come in one batch. A directory list (`walker.list`) is the same calls without
workers.

### Recheck and the queries (`tool_*.go`, `running.go`, `hold.go`)

`Recheck` is the frame of eleven queries whose items are looked at again before
they are moved: a scan offers, the world changes, an item's recheck reads its
sources one after another, each at a moment of its own, and lets the item go or
not. A query is a module of operators: Starts and Changes (the machine), Uses
(what truly is in use, and by whom; from the machine, not from the code), and
from the code the order of the sources, `Offers` and `LetsGo`. `Maps` has the two
helpers with which the worlds change.

A use is one and the same for as long as it lasts: its tuple names the spec, the
file as it is, the bundle, the process. Told more coarsely ("an app owns it") it
would go on while one reason took over from another between two reads, and then
UsedStays is false from three changes on: the owner uninstalls a version and pins
it anew, or a download is replaced, once each source is read.

| module | query | what keeps an item |
|---|---|---|
| Fnm | fnm-node-versions | aliases, version files of projects, launchd jobs, processes; anything not understood keeps all it could mean |
| Agents | agent-scratch | sessions in processes, in registries of three config folders, in recent transcripts and scratch |
| Downloads | downloaded-installers | an app that is not installed, or older, by identifier or by name and version |
| BuildOutput | build-output | git's answers through submodules, tracked files, recent work in the project or its superprojects, processes |
| Worktrees | git-worktrees | commits on no base or branch, ignored or hidden edits, operations under way, recent changes |
| Casks | brew-cask-records | an app in its place, in an app folder or on a disk not mounted; steps that need a password |
| AppLeftovers | app-leftovers | installed or running apps, their entitlements, makers and products, what points at the folder |
| Npx | npx-cache | a process in it, a run within the week |
| Superseded | codex-releases, cursor-agent-versions | the build the links lead to, newer builds, processes |
| DockerUpdate | docker-update-download | an update newer than what is installed, one being written |
| Guard | unless_running, hold | the command, bundle or folder running; the hold's check |

Simplifications: a scan's sources are read at one moment (a scan torn between
two only offers what its recheck then refuses or what an earlier world offered);
one item of a scan is rechecked, so no two rechecks share a process's caches but
for AppLeftovers' memo, which is in its world; text a tool prints is what it
says, parsed. Two consequences of the code are not violations here and worth
knowing: an owned leftover folder does not keep its maker's other folders, and an
app installed within the memo's minute is missed until the minute is over if it is
never started, or is started from the place of another one that the memo read
(`Uses` counts it from then on; see Findings).

### Aerials (`aerials.go`)

Each Off or On is a call in a process of its own: Look, TakeLock, ReadAgain
after the password, WriteRecord (off only), JournalStart, StartStep, then the
root step, StepReported, Judge, and PutBack or Mark. The root step is a script
that outlives its call: TakeRootLock, Clear and StopLoader, or PutIn, RollBack.
Stop is the stop in the app, at sudo, or of the step's shell (its sqlite3 then
goes on without it); Kill ends the call and leaves the step. Beside them the
owner picks, macOS's catalogue loses a pick, and the downloader starts, with the
picks of that moment, and ends. `owed` is kept for PicksKept: what some off
deleted and nothing brought back.

Left out: rows renumbered between the read and the step, power loss (the record
is synced before its rename), picks of other users, which surfaces show an
aerial.

### Headroom (`history.go`, `alerts.go`, `Autopilot.Tick`)

Files are lines by inode, and a tick is its system calls: ReadPrev, Compact (the
decision), CreateTmp, FillTmp, Rename, OpenToAppend, Write, Report; any may be
killed after, and a full disk cuts either write. Two ticks may be at it, with no
lock. `Step` and `Replay` are the alert conditions over a history, of which the
free-space bands stand for all four. `Tail`'s stable sort is stated by ranks: the
n-th sample is the one with n - 1 before it. `written`, `risked` and `told` are
history variables: what was appended, which of that the missing lock may cost,
and what was reported.

### SelfUpdate (`selfupdate.go`)

Each process is a command with its daily check (CheckDue, MarkChecked) or
`regrow update`, then Owned, ReadLatest, FetchSums, FetchArchive, Try and Rename,
and GivesUp anywhere. Beside them releases are published, pulled and given other
assets, the owner runs the install line, and days pass. A build is the version
it says, or Broken.

### Machine, MCMachine

Recheck, Aerials, Headroom and SelfUpdate share no state, so one run checks the
four of them: `part` says in the initial state whose behaviour this is, the
variables of the others stay unused, and the states of the four add up.
`Machine` composes the three that are also proved about, Aerials, SelfUpdate and
Headroom; `MCMachine` extends it by the queries. A behaviour of MCMachine in one
of Machine's parts is one of Machine with the added variables unused, so what is
proved of `Machine!Spec` holds of it.

## Runs

CHECK_DEADLOCK is off everywhere: runs, sessions and bounded numbers of appends
and requests come to an end, and the ended state is a correct one. Where
something must go on, a liveness property says so.

| run | bounds | states | what it shows |
|---|---|---|---|
| oplog | 2 processes, 2 appends each | 218,000 | no prefix of the file has a line to refuse but lone fragments, the file implements the abstract journal (so acknowledged entries survive), nobody waits for ever |
| executor | seven worlds: 2 runs one after the other, 2 paths whose names differ in case; the same with a Finder that lags behind its errors; the same with one name and Lstat of its first copy refused now and then; 2 runs and an undo at once, items of one name; 2 engine runs of 4 actions (Empty Trash, checked move, prune, move; checked move, measured command, export, prune); 1 terminal run of 3 (Empty Trash, 2 moves) with a Finder that lags; 3 objects, 2 Trash names each, 1 undo, failures and kills | 1,069,000 | what undo offers is exact but for what Lstat is refused of, goes back where it was unless its line was lost, overwrites nothing; start lines come first; a failed Empty Trash spares the run's moves; no run goes past a move it has no receipt of as though all were well; Summary equals Result |
| executor_wrong_thing | 2 runs, a journal line may be lost | violation | see Findings |
| outbox | 2 senders, 2 events each, close with and without grace | 22,000 | the peer reads a prefix of what was accepted, drained means written, close returns |
| server_runs | 5 requests: scan, plan, execute, cancel, set_rules; 1 rule, plans ageing | 1,776,000 | an execute runs a plan of the current scan, in time; no scan runs twice, terminal events are last words, cancels answered after their target |
| server_live | 3 requests of ten kinds, the end of stdin at any moment | 112,000 | everyone is answered or the engine leaves; it leaves with nothing running but a scan that had its grace |
| planner | 2 or 3 rules with up to 3 items each over 4 paths (one inside another, one that sorts between the two, one unreadable), a tool's item with no path, every selection of up to 3 atoms, 3 faces | 1,050,000 | the forest is containment, nothing surface-only is deleted, each byte is counted once, every pick is deleted or answered, skips and Includes tell the truth, what a face offers can be planned, the ledger adds up |
| autopilot | 2 processes, 3 ticks or prunes, a cache of 2 entries, 3 hours, min_age 1 h, the override after 2 h, journals that hold a clean, a failed prune or a completed one | 2,665,000 | one prune at a time, none by autotrim first, a prune beside a build exactly when it was put off for as long as it may be, nothing recent deleted, and no more than the cache can spare |
| walker | 3 scenes: a folder and its subfolder sized twice, or it and the part, by one worker each; a folder with two by two workers; 1 write-off per walk, one folder refuses, one vanishes, one ctx may end | 220,000 | every sizing returns though no call need answer; what it calls whole was counted once each; a blocked path has a call still out |
| walker_shared | the same | violation | see Findings |
| machine | queries: 2 changes after the scan, 1 recheck; aerials: 3 calls, or 2 with 2 changes of the owner or macOS, 2 picks of which one can be carried; headroom: 1 process with 3 ticks over 4 readings, or 2 with 2 ticks and an old history; updates: 2 processes, 3 releases, 2 publications, 2 days | 4,256,000 | nothing in use all through its recheck goes, and a recheck agrees with its scan; every pick is in the record until it is back, and the downloader does not go on unnoticed; no sample goes before its time but where the missing lock takes it, crossings are told once; updates go forward |
| server_aerials | 2 requests: scan, aerials status | violation | see Findings |

Why these bounds. Journal: gluing needs a fragment of one process and a write
of another; two appends each give a fragment before, between and after whole
entries. Disk: reuse of a name needs two moves and one free name, so two names
and three objects; a restore onto an item needs it made again, one more object.
Server: a scan run against twice needs scan, plan, plan, execute, execute, five
requests; the other hazards need three or four. Planner: a chain of three nested
items is the least in which a skip's cover was itself dropped, and the third
path is what the trailing slash is for; the schema's kinds of rule are all there.
Autopilot: the override needs three ticks, two of them deferrals, over three
hours with no gap; a second flight needs two processes, and a find left behind
beside another one a third operation; two entries of different hours are the
least of which one may go. Executor: the seven worlds differ in their plans and in
what may go wrong, so one run holds them all; what they leave out of one another
(a lagging Finder or a refused Lstat beside kills, say) the proofs cover. Walker: one write-off is the least
at which the limit and a replacement both happen; a mark shared by two calls
needs two sizings; two workers need two subfolders. Queries: a use that moves from one source
to another (a session that registers as its process starts) is one change, and a
second may end it; each query's worlds have one item or two of every kind it
tells apart. Aerials: a record put back over another's needs two offs and an on,
or an on beside an off left behind; with two calls the owner's pick and macOS's
loss may come between any two steps. Headroom: a crossing told twice needs a
reading below, one between the line and its rearm line, and one more; the lock
missed needs two ticks. Updates: the slower updater needs a newer release
published after it read the record, and one pulled needs a third.

What TLAPS proves for all sizes is not always run as well: TypeOK of OpLog,
Outbox and Autopilot, OneWriter, NoGlue, AckedDurable, InOrder, NoLostWakeup and
PlansCurrent are stated in their modules and are theorems below. TypeOK of
Executor, EngineServer and Planner document the types and are in no run.

Fairness. OpLog: a process that has begun an Append is scheduled, flock
included (WF on each step suffices, since waiting processes are granted one at
a time and each waits a bounded number of times). Outbox: goroutines run and the
pipe's reader reads; nothing makes anyone send, close or fail. EngineServer:
operations end by themselves (the code waits for ever on a command that never
ends, and so would the model without this), timers fire, the main goroutine goes
on; nothing makes the peer ask or hang up. Walker: workers that are not in a call
run, a sizing's own goroutine runs, and stall windows pass (WF on each); no call
need ever answer. The executor modules and the parts of `machine` have no
liveness property: a run, a call, a tick and an update may each be killed.

## Findings

Where the code does other than its comments say (each is a run whose violation
is expected).

* **executor_wrong_thing**: `oplog.go:128-131` says skipping a cut-short line
  can never undo the wrong thing. With a receipt that has no inode it can: the
  lost done line of a later run is also what marked the older copy's path as
  reused. `RightUnlessLost` shows that the lost line is needed.
* **server_aerials**: `server.go:167-169` says shutdown waits for the requests
  answered off the read loop; an aerials status request is answered on a
  goroutine nothing counts, and may go unanswered without the grace.
* **walker_shared**: `walk.go:26-29` says a written-off call's path stays blocked
  until that call answers. The set keeps no count: of two calls written off on
  one path the first to answer unblocks it (`walk.go:112-119`) while the other is
  still stuck there.

Met while modelling, with no run of its own. `oplog.go:186-189` says that what
sits at a reused path is the later action's item; with two runs at once the order
of done lines need not be the order of the moves, and an intact copy may not be
offered for restore.

An off whose call was stopped or killed leaves its root step behind. If an on is
then stopped at the app's prompt without a status, or ends before that step runs,
the on takes the picks for put back, and the step deletes picks no record keeps
(`Overtaken` in PicksKept is exactly this).

A crossing whose tick is killed between its append and its report, or whose
history could not be read, is never told of while free space stays below
(`Unsaid`, `readable` in CrossingsTold). Where two processes tick, a slow one may
read the history before a faster one appends to it, or after: a line rearmed by a
reading that the slow tick does not see counts as still crossed for it, and its
crossing of that line is then never told of (`OutOfTurn`). With one process at it
none of this happens, which CrossingsTold says too (`Several`). Two ticks that rewrite the history at
once share one `.tmp`; with a full disk as well the whole history may go, which is
more than the known limit of docs/ARCHITECTURE.md:104.

That `regrow undo` can put back what was moved to the Trash rests on the receipt. Where
osascript ends with an error although Finder moves the item, the run stages what it
finds, fails, and goes on: the item is in the Trash with no receipt, and its journal
line says "fail" (`ReceiptUnlessCut`'s second case). Put Back in Finder still works.

A name in the Trash or in staging may change hands in two moments, which a
receipt's identity does not cover (`MoveOf`, `ChangedHands` in RestoresOwn).
Between a move and the look at the inode that goes into its receipt, an undo at
the same time, or Finder emptying the Trash, may take the copy and another run's
move take the name: the receipt is then of the other item. And between Restore's
check and its rename, where Finder empties the Trash and another move takes the
name. With three actions in one run and two undos TLC finds undo put back the
other item at this one's place; the run's bounds are below that.

A recheck's memo of the installed apps is trusted for a minute if it read every
bundle that runs (`tool_appleftovers.go:268`), and it knows a bundle by its path
alone: an app replaced there within the minute by another, which now runs, is
taken for the one it read, and the new one's folders may go (`Replaces` in
AppLeftovers).

Two commands at once may both begin the daily check, and the slower of two
updaters may bring an older release back (`outrun` in InstallsForward).

An item atom picked together with
its whole rule (`clean docker docker/x`) addresses an item, but `itemsFor`
returns at the whole rule (`plan.go:228`) before it marks the atom, so
`Plan.Unmatched`, documented as "atoms that addressed nothing" (`plan.go:78`),
lists it and `clean` refuses the selection. OfferedPlans shows that nothing a
face offers, or starts from, leads there.

Known and kept out of the models: an item made again between Restore's Lstat
and its rename, or two stagings of one name when an abandoned one is between
its Lstat and its rename, may be replaced where rename(2) replaces (`OwnerActs`
keeps the owner out of that moment).

## Proofs

TLAPS proves the following for every number of runs, processes, calls, senders,
requests, items and entries, and for every value of the bounds:

| module | theorems (property of a run) | argument |
|---|---|---|
| OpLogProofs | TypeCorrect, NeverGlued, AckedIsDurable, MutualExclusion; RefusedForLoneCuts (RefusesOnlyCuts); Refinement (ImplementsJournal) | IInv adds LockInv (the lock is held by exactly those between frame and sync) and BufInv (what a write has left to do, given how the file ends). NoGlue is not inductive alone: whether the next token may be written depends on the file having not changed since Frame looked, which is LockInv, and on the rest of the buffer, which is BufInv. RefusedForLoneCuts reads it line by line: on a line of an unglued file stands at most one entry, whose parts follow one another, so that it is whole or stops after one of them (LineAt's choice has one candidate). For the refinement, Read of a file with one token more is Read of the file, or that and one entry (ReadBy), and of a file cut short a prefix; that the entry is a new one is EndsInTurn: an entry is in the file only once its process wrote its end. |
| OutboxProofs | TypeCorrect, StreamInOrder, WakeupsArrive; DrainIsComplete (DrainedMeansWritten); Refinement (ImplementsStream) | IInv adds Places: where the writer is says what it holds and which flags are set. DrainIsComplete is a consequence: drained means the writer is done, done without an error means queue and batch are empty. The refinement goes step by step: a send that is accepted is an Accept, a write that succeeds reads one event, all else stutters. |
| EngineServerProofs | PlansStayCurrent; NoSecondRun (OneRunPerScan); RunsOnlyCurrentPlans (RunsCurrentPlan); TerminalsComeInOrder (TerminalsInOrder); ExitsClean (CleanExit) | IInv adds Standing: only a spent scan was run, and an execute with no executor yet still stands on the current, finished scan. Without it OneRunPerScan does not survive ExecutorBuilt, since plans made between startExecute and the executor's building are of that scan too. TerminalsInOrder rests on Accounts (who is the operation, who waits in its cancels and who was set aside is unanswered, and each in one of these places once) and ExitsClean on Settled (no one else is unanswered) and Waited (past Stopped only a late scan is left). ExitsClean is for sessions without aerials status requests, as is the run it goes with: with them it is false (see Findings). |
| ExecutorProofs | MovesAreJournaled (JournaledFirst); ReceiptsKept (ReceiptUnlessCut); OwnMovesSurvive (OwnMovesSurviveOwnEmpty); NoOverwriting (NothingOverwritten); OnDiskIsExact (OnDiskExact); RestoresTheMoved (RestoresRight); HistoryAgrees (SummaryAgrees) | IInv says of what may still move what JournaledFirst says of what has: Announced and StraysAnnounced. Books gives the order of a run's lines and that undo goes by done lines. Kept says of each move, done or still to come, why it may lack a receipt: given up on, cut short, or still at hand; a move that Finder may still make after an error is of an action that staged or is about to stage its item, or failed to (Late, ToStaging). Spared says of a run whose Empty Trash may yet be carried out that it has moved nothing and will not. Clear says that the place a rename is about to land on is free, which the step before it looked at. OnDiskIsExact is about the order of done lines for one place (InOrder): a later line for a place means the earlier copy is gone from there, since one run is at work (OneAtWork) and what was left behind gets no done line, but for the one of the same action's staging, which is for another place (StraysOpen). Where Lstat is refused the list may hold more than the copies, never fewer. RestoresTheMoved follows what undo compares: an identified receipt is of what its run found at the place it had moved to (Vouches), and undo renames what it compared with that (ChecksRight); between each look and the step after it only somebody's move brings anything to that name (Watched, over every way the disk changes: Changes). For a receipt without identity it says of each copy whose line is to be trusted: the last for its place, or one yet to be told, or none (Holder); undo works off no line of a place reused since (FreshTodo), nobody is at work beside it (Alone), and no two objects are at one place (Apart). HistoryAgrees compares two sums, one over the lines and one kept step by step: Summary's fold over a run's done lines is the size of a set of units (Units, AddsUp), and one line more adds its own units to it (SumGrows). Beside it go what a start line tells of its action (StartsTell), that each done line follows one (DoneStarted), and which method an action that went well leaves for its line (OutRight). |
| AutopilotProofs | TypeCorrect; GateHolds (ManualFirst); SingleFlight (OneFlight); RecentIsKept (RecentSurvives); EnoughIsKept (KeepsEnough); OverridesExactly (OverrideExact) | Flow says once how a process may move; the invariants follow from it. IInv adds Held (the flock is on the file the name leads to, and held by exactly those who prune: without the one inode a second process gets another lock), Gated (who is past the gate has a completed prune by hand in the journal behind it) and OldEnough (a cutoff chosen stays min_age behind the clock, also in a find whose process is gone). EnoughIsKept needs every cutoff in use, an orphaned find's too, to spare enough of the cache as it is now (Bounded), not as it was when PrunePlan chose it. OverridesExactly ties the clock on disk and in a process's hands to the hours really seen and saved (Timed); the hours between are covered by the largest hour at which that would fail. |
| PlannerProofs | ForestIsExact (ForestExact); SurfaceOnlySafe (NeverSurfaceOnly); PicksAnswered (EveryPickAnswered); PlanIsHonest (PlanSaysTrue); ActionsMeasured; BytesAreExact (BytesExact); OffersPlanCleanly (OfferedPlans) | The forest first: sorted by path and slash, what is inside a path follows it without a gap, so the stack after a node holds exactly the items that hold it. The walk is a recursive function; the least node at which its stack would be wrong contradicts the step before. IInv says of each draft that its items are picked, actionable and without a surface-only conflict, and of each rule passed that its picks are drafted or answered. For skips and Includes: the outermost planned item around a covered one has no planned ancestor, so its draft is kept (Topmost); two kept items have nothing in common (HeldOnce); what is inside a kept item and not planned is inside something its action lists (ListsAll). BytesAreExact is about sums over items, buckets and actions, each shown to be the size of a union of disjoint sets of bytes: what is innermost at an item (the ledger), or beneath an action's outermost items (the plan). |
| WalkerProofs | EveryMarkHasACall (MarksHaveCalls); WholeSizesAreExact (WholeIsExact) | IInv adds what MarksHaveCalls lacks to be inductive: Fresh (a sizing before its walk has no worker and no lstat written off, so that starting the walk forgets none) and PopsHold (a worker between two folders is not written off, so that what it takes next replaces no mark's call). WholeSizesAreExact rests on WalkInv: while a walk may still come out whole, every folder not added up is gone or below an open one (Covered), open ones are queued or in one worker's hands and nothing below them is touched (Apart, Frontier), and the active count is the number of workers at a folder (Counted), so that a count of nought and an empty queue leave nothing open. |
| MachineProofs | PicksStayKept (PicksKept); DownloadsEnd (LoaderStopped); UpdatesGoForward (InstallsForward); SamplesStay (HistoryKept); CrossingsAreTold (CrossingsTold) | Aerials: CallOK says of each call what its stage and its root step's tell of one another, OneHolder that the lock has one holder and what that one knows of the record. A pick is Safe when it is in what of the record stays whatever the holder does next (Base), or was overtaken; OwedSafe, ArmedSafe and PutInSafe say that of what is deleted, of what a step left behind may yet delete, and of what an on has put in. CallMoves, RootMoves and WorldMoves carry this over a step of a call, of a root step and of the owner or macOS. Updates: what was read is carried to the rename by OffersNewer, TriedOut and StillItself (a process whose binary nobody replaced still stands on the build it runs). Headroom: HistoryKept is about the file, but while the file is rewritten a sample is in a tick's memory and in the .tmp, so HistoryInv says of all three that what is due is there (InFile, InKeep, InTmp), and that two rewriters at once leave nothing due (OneRewrites). CrossingsTold relates what ticks saw and said long apart: TellInv says that files hold only what was appended (Sound), a sample is known by its time (Timed), a report is the alert of what its tick saw (Tellings), and a process alone sees everything of its window (Alone). Of the samples under a line since which no rearming was seen, the first is the witness: its own tick told of the line, never reported, or was out of turn, since a silent one saw an earlier one still. What a replay leaves tripped is shown of the recursive function by its least counterexample (ReplayTells). |

Assumptions: the named ASSUMEs of the modules, which TLC evaluates in the runs.
Most say that bounds are naturals and what the types of inputs are. The others:
each walk's folders are finite trees (Walker); places in the Trash and in staging
are not items' own paths (Executor's PathAssumption), and in a plan what empties
the Trash comes before any move, a prune always measures itself and runs no
pre-action, and what exports first does not measure itself (WorldsAssumption, from
`plan.go`'s order, `executor.go` and the rules that declare a measure);
what empties the Trash is a whole-rule command and never safe (the schema), and
items of a rule with one key have one path (Planner; `FillItemKeys` leaves two
items with one key alone since they "are the same target twice", and a key is the
tool's own handle, such as a version or a token, or else the path); a tool lists
each of its own things once, and what has no path is inside nothing that has one
(ToolsOwnThings: without it two pathless items may stand for the same bytes, and
the sums of `account.go`, which has no way to tell, count them twice); the cache is finite and the
deferral's limit is not nought (Autopilot); there is a release, there are finitely
many processes that tick, the lines of a history are older than the first tick,
and alerts look back no further than the retention (Machine; 72 hours and 30
days).

Only model-checked:

* all liveness (WaiterServed, CloseEnds, EveryoneAnswered, Leaves, WalkEnds):
  fairness and ENABLED are outside what the prover handles;
* UsedStays and RecheckAgrees: each query's worlds are spelled out one by one.

Hazards the properties cover in part only (PROJECT.json's notes say the same):

* `move.go:165`, the moment between Restore's Lstat and its rename: `OwnerActs`
  keeps the owner out of it.
* `server.go:426`, a scan cut short that passes for whole: the order of the
  answers is checked and that no plan outlives its scan, not what the scan found.
* `prune.go:378`, the last second of an hour: the model counts whole hours.

## Not modelled

See PROJECT.json's components for each with its reason. In short: text and
layout (doctor, rule docs, CLI output), parsing of tool output and YAML, path
guard strings, I/O wrappers. Not modelled though they have state: docker's
provider, ledger and export; the config file's rewrite; the native command
runner; the terminal UI's selection; the app (router, engine process, update,
bundle swap, instance lock, menus). Of the scanner: path discovery and the
queries whose items have no recheck of their own. Of headroom: the forecast's
arithmetic and the alerts that rest on it.

## Plan

In order, with the abstract specification or reference in brackets.

1. `Router` and the engine process, composed with `EngineServer` [every request
   of the app gets one outcome, also when the engine dies].
2. `Classify` for docker's tiers, `Ledger` and export [nothing newer than its
   tier's age is offered; a volume's clock never restarts].
3. `AppUpdate` and the bundle swap [the app is whole at every moment].
4. For each of them, its invariants and refinement proved as those here are.
