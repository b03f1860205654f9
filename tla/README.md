# Verification of Riqor

Riqor puts a control plane around a coding agent: it opens *assured runs*, records what
commands and tools do as *evidence*, and lets work count as complete only when a
recognized check has passed after the last change.  What is hard is the evidence itself: it
is kept in small files that short-lived processes (CLI commands, shell hooks, plugin hooks)
read and replace at the same time, and any of them may be killed between two writes.  Around
it are tools that are sequential, but may be interrupted, fail half-way or meet a user's own
changes: a benchmark with its published evidence, an installer, shell integration, release
scripts, a backlog gate, governors of an agent's loops, files that agents remember in.  This
directory specifies both in TLA+, checks them with TLC on small instances, and proves
the main results on evidence with TLAPS for all instances.

Paths below are relative to the repository.

## 1. Inventory

| Component | State | Operations | What is hard | What makes it correct |
|---|---|---|---|---|
| Run store, one run (`src/assurance/run-store.ts`) | `events.jsonl`, `run.json`, `.lock` of each run | `appendRunEvents`, `transitionRun`, `completeRun`, `readRun`, reconciliation | a section appends to one file and replaces another; a crash falls between; a line may be cut off | numbers without gaps; `run.json` never ahead; completion only on fresh evidence; nothing after completion |
| Run store, active run (same file, `src/assurance/cli.ts`) | `active.json`, `.active.lock`, the status of every run | `createRun`, `readActiveRun`, `clearActivePointer`, `run start/status/complete` | `readActiveRun` removes the pointer without the lock; completion and clearing are two sections | at most one open run; the pointer names a started run; a stale pointer goes away |
| Lock file (`withFileLock`, `withSessionLock`) | a file with the owner's pid | open `wx`, lstat, read, probe, rm | look and removal are separate steps on a path; empty files; pids of ended processes | exclusion; no one waits for ever behind a dead owner |
| Terminal runtime (`src/terminal-runtime.ts`, `terminalCommand` of `src/harness-cli.ts`) | a session record per terminal: gate and pending command | `preexec`, `postexec`, `status` | helpers run as `... \|\| true` and may fail one by one; session and run are written one after the other | only a check that exited with zero clears the gate; session and run agree |
| Terminal transitions (`src/assurance/terminal-trace.ts`, `repository-identity.ts`) | none of its own | mutation intent, transition of a finished command | the intent is looked up, the repository inspected and the batch appended at three moments | a completion saw the content it vouches for; a passing check always helps |
| Evidence hooks (`plugins/riqor/hooks/state.ts`, `main.ts`) | one state file per turn, a lock directory, runtime mark | `PostToolUse`, `Stop`, `SessionEnd`, `SessionStart` (prune) | each hook is a process with a time limit; times are taken before the lock; files may be damaged; turn locks are recovered | no `Stop` passes while a check is missing; no `Stop` is blocked without a reason |
| Activator (`plugins/riqor/hooks/activator.ts`) | phase, cycle and deadlines of a session | initialize, touch, observe Stop, clear, prune | a lock that is taken over after a minute; prune looks, then removes | one checkpoint per interval; reviews end |
| Adoption ledgers | counters | record, report, reset | read and replace without a lock | no lost counts |
| Swarm lock (`src/assurance/swarm-lock.ts`) | lock file with owner, token, lifetime; recovery directory | acquire, release, query | the file is empty for a moment; lifetimes end while the owner works | one owner inside its lifetime |
| Task ledger, execution cards | lists of tasks and cards | init, add, update, next tasks; create, advance | rewritten under a lock that may have expired | no lost update; dependencies complete first |
| Agent lifecycle (`src/agent-lifecycle-state-machine.ts`) | state, listeners | `transition` | listeners that call back | listeners know the state |
| Governors (`loop-governor.ts`, `goal-orchestrator.ts`, `deliberation-gate.ts`, `auto-research.ts`, `watchdog-interceptor.ts`) | histories and counts in memory | one call per iteration | long sequences of calls; limits and plateaus | every loop ends; counts are those of the turns |
| Backlog policy (`scripts/backlog-*.ts`) | YAML files, read only | validation | cycles, readiness and limits together | an accepted board can go on |
| Installer (`packages/riqor/src`, `scripts/*-shell-integration.py`, `src/doctor-auto-healer.ts`) | payloads, link `current`, aliases, agent profile, plugin registration, manifest; blocks in the user's shell files | install, uninstall, doctor, repair | interruption between steps, steps that fail, files of the user at the same paths | success means it works, or is gone; the user's lines stay |
| Benchmark harness (`src/cli.ts`, `process.ts`, `runner.ts`, `harness.ts`, `capsule.ts`, `checks.ts`) | queue, agents' process trees, capsule, evidence files, publication lock | run, compare, publish | time limits, descendants that keep pipes, two files that must change together, recovery of a killed publisher | nothing outlives the run; one generation of evidence; accepted means better |
| Memory files (`cognitive-memory.ts`, `scratchpad-isolation.ts`, `crystallized-rules.ts`, `evidence-ledger.ts`) | a file each | add, put, append, heartbeat, list | rewritten without a lock | the newest entries stay; live sessions are listed |
| Release scripts (`scripts/build-riqor-package.ts`, ...) | the package, archives, manifest, sums | build, pack, manifest, verify | steps that fail, a tree that is edited, a package built anew for each archive | a payload its provenance accepts is whole; what verification accepts is one build |
| Scanners and reviewers, servers, generated copies | none | one function each | wording and patterns | not modelled, see section 9 |

Interactions: the shell hooks (`config/shell/*.zsh`) call `riqor terminal preexec` before
and `postexec` after each command.  `terminalCommand` updates the session record under the
session lock and then, for the active run, calls `terminal-trace.ts`, which appends to the run
under the run's lock.  The CLI completes runs under the same lock and moves the active pointer
under another.  The plugin hooks keep a gate of their own per turn and do not touch runs; the
activator, the pruning of turn states and the adoption ledger share their data directory and
nothing else.  The tools (installer, benchmark, backlog, release, loops, memory) share no
state with these or with one another.

The hazards that follow from this, each at its line with the properties that
cover it, are listed under `hazards` in `PROJECT.json`.

## 2. Plan

The order is that of importance: what decides whether unsupported work can count as complete comes first.

| # | Module | About | State |
|---|---|---|---|
| 1 | `EvidenceGate` | abstract: pending, cleared, closed | done |
| 2 | `RunTrace`, `RunTraceProofs` | one run with crashes; refines `EvidenceGate` | done, proved |
| 3 | `TerminalTrace` (extends `RunTrace`), `TerminalTraceProofs` | terminals, hooks and CLI on one run | done, proved |
| 4 | `FileLock`, `SessionProofs` | the lock file under 2 and 3 | done, proved |
| 5 | `ActivePointer`, `ActivePointerProofs` | which run is active | done, proved |
| 6 | `TurnGate`, `TurnProofs` | the evidence gate of a turn | done, proved |
| 7 | `TurnLock`, `TurnProofs` | the lock directory of a turn, with recovery | done, proved |
| 8 | `SwarmLock`, `SwarmStores`, `SwarmProofs` | lock with a lifetime; task ledger and cards on top | done, proved |
| 9 | `Activator`, `TurnPrune`, `Adoption` (composed by `MCSession`), `SessionProofs` | phases of reviews, pruning of turn states, adoption counts | done, proved |
| 10 | `Publication`, `Benchmark`, `Evaluation` (`MCBenchmark`), `ToolsProofs`, `RecordsProofs` | a benchmark from its agents to its published evidence | done, proved |
| 11 | `Installer`, `ShellBlock` (`MCTools`), `ToolsProofs`, `RecordsProofs` | order of steps, interruption, the user's changes | done, proved |
| 12 | `Backlog`, `Loops`, `Watchers` (`MCTools`), `RecordsProofs`, `ToolsProofs` | the gate of a backlog; governors and watchers | done; `Backlog` and `Watchers` proved |
| 13 | `Memory`, `Subsequence`, `Heartbeats`, `Release` (`MCTools`), `RecordsProofs`, `ToolsProofs` | files without a lock; release scripts | done, proved |
| 14 | an abstract lock whose owner may die | what `FileLock`, `TurnLock` and `SwarmLock` promise, and the section of `RunTrace` and `ActivePointer` rests on | next |

"Proved" means the safety properties; liveness is checked (section 7).  Worth stating next, besides the abstract
specifications of rows 1 and 14: that `Serializable` of the swarm stores is a refinement of a store whose operations are
atomic, and the safety half of `StalePointerRemoved` and `LockRecovered`: what a process that is killed leaves behind is
always something that the next one removes.

## 3. The modules and the code

**RunTrace** is one run.  `trace` is `events.jsonl` as the sequence of its complete lines, and
`tail` says how the file ends (`clean`; `unterminated`, a whole line without its newline;
`broken`, a part of a line).  `runFile` is `run.json`, reduced to status, `nextSequence` and
whether `completedAt` is there.  A section under the run's lock is split where the code
writes: `Enter` reads, validates and reconciles (`readRunFile`, `reconcileRunState`), then
`AppendLine` appends the batch, `WriteRun` replaces `run.json` and, for a completion,
`WriteCompletedAt` replaces it once more; `MarkStatus` is `transitionRun`, `Refuse` the error
paths, `ReadRun` a reader that may write a reconciled record.  `Crash` and `TornAppend` can
happen between any two writes and inside the append.  `Batch` is the table of events that
`terminal-trace.ts` makes of a command, `NextStatus` the status it asks for, `Derived` the
loop of `deriveRunState`, `FreshEvidence` is `assertFreshCompletionEvidence`.
The lock is abstract: at most one process is in a section and a crash frees it.

**TerminalTrace** extends it with terminals.  A terminal's session is older than the run: it may be pending from the
beginning, and `StartRun` makes the run active at any moment, also in the middle of a command.  A command goes through the
stages of `preexec` (the session record in `Preexec`; the active run in `Locate`; the intent in `RecordIntent`), execution
(`Execute` changes the worktree's `content` or reads it), and `postexec` (the session record in `Postexec`; the active run and
the intent of this command in its trace in `LookUp`, kept in `matched`; the repository in `Inspect`; the batch in
`RecordTransition`).  `Edit` is every change of the worktree that no hook sees: what the classifier calls `agent`
(`terminal-runtime.ts:84`) is recorded like `other` and may change anything, and so do editors and processes in the background;
`hidden` is the history of these versions.  `HelperFails` drops out at any helper, and `Damage` leaves a session record
that cannot be read, which the gate takes for pending.  The variables `seen` and
`passed` are history variables: the content a check read, and the commands that exited with
zero.  `Fingerprint` is what git reports: HEAD and a dirty bit, so two dirty contents look alike.

**FileLock** is `withFileLock`, one action per file operation: `Open`, `Lstat`, `ReadOwner`,
`Probe`, `RemoveStale`, `WriteOwner`, `Release`.  `End` ends a process, inside the protocol
when `MayCrash`, between sections when `MayExit`; `Age` lets `staleMs` pass.

**ActivePointer** is the pointer with the status of every run.  `Start`, `Look` and
`CompleteNamed` begin a command; `ReadPointer`, `ReadStatus` and `RemovePointer` are
`readActiveRun`; `CreateRun`, `AppendStarted`, `WritePointer`, `CreateFails` are `createRun`;
`Finish`, `LockToClear`, `ClearPointer` are `completeRun`.

**TurnGate** is the state file of a turn.  `Fire` is the moment a tool has run and its hook
takes the time, `Apply` the hook's read and write under the turn lock, `Lose` a hook that
does not get there, `Stop` is `consumeEvidenceGate`, `Damage` a file that cannot be parsed.
`log` is a history variable: the tool events in the order they happened.

**EvidenceGate** has no counterpart in the code: it is the promise, in three actions.
`RunTrace` implements it with `pending <- Uncovered(trace)`, `closed <- Ends(trace)`.

**TurnLock** is the directory made by `acquireTurnLock` with `owner.json` and
`.recovery.json` in it; `MakeDir`, `OpenOwner`, `FillOwner`, `Release` acquire and release it, and
`Lstat` to `RemoveDir` are the steps of `recoverAbandonedLock`, any of which may be a
hook's last.  `risks` is a history of the two races the code leaves open.  **TurnPrune** is
`pruneState`, with its first look at every candidate (`FirstLook`), the sort, and the second
look under each lock (`SecondLook`), or none where the lock stays busy; hooks write, clear and damage states in between, and
other prunes remove them.  `pTouched` has the turns whose state something else changed since the prune began and `pGone` those
whose state was gone when the prune came to them: both are history.  **Activator** is `activator.ts` with `AMakeDir`, `AOwn`,
`ALook`, `ASteal` for its lock: the directory of a killed hook grows old (`AAge`), and a hook that has found it old removes
whatever is at the path when it gets there.  `overtaken` in `aFaults` says that this was the directory of a living hook,
`pruned` that a prune removed a state in use.  `TouchResult` and `StopResult` are what the hooks compute; **Adoption** is the unlocked
read (`ReadLedger`) and replacement (`Replace`) of a ledger, and `Report` what it is read for.

**SwarmLock** is `swarm-lock.ts`: `Create` leaves an empty file, `Fill` writes the payload,
`Read`, `TakeRecovery`, `Recheck`, `RemoveLock` are the recovery, `Compare` and `Unlink` the
release.  `faults` records what the protocol does not guard against: `late` (an owner outlives
its lifetime), `blind` (a file is judged while it is missing or half written), failed reads.
**SwarmStores** extends it with the operations on a task ledger or a card; the history variable
`serial` is the store as the operations make it one after the other.

**Publication** is `acquirePublicationLock` and `publishEvidence` of `src/cli.ts`, one action
per file operation, with the recovery of a publisher that was killed.  A copy is not one step: `BackUp` copies the files beside
each other, as `Promise.all` does, and a kill or an error may leave any of the copies `Cut`.  `fault` ends a behaviour at one of three things the code does not guard against: a recovery at the lock of a process that lives
(`Robbing`), a cut backup that a recovery renames over the file it was made of (`RollBack`), and a kill in the cleanup between
its two markers (`KillPublisher`).  **Benchmark** is
`runWithTwoWorkers`, `runScenario` and `runProcess`: an agent is a process tree, `codex` with a `child`
that may leave the group, ignore signals and hold the pipe.  `killTree` is two steps, the listing of the tree (`Lists`,
`ListsForKill`, `ListsWhatIsLeft`) and the signals (`TimesOut`, `ForceKill`, `Returns`), and `Fork` may come at any moment
between them: what it starts then is `late`, and missed by the signals of this `killTree`.  **Evaluation** is the verdict:
`deriveScenarioResult`, `summarizeBenchmark`, `compareBenchmarks` over the evidence of any number of scenarios (`Controls` and
`Candidates` are the lists to be compared).  `Spends` is what a scenario may really have used when no usage was reported: the
property asks that the candidate be better whatever that was.

**Installer** has one action per step of `install` and `uninstall`; `payload` is the set of parts of
each version that are there, `paths` who the file at each managed path belongs to.
`Kill` ends an operation in any step, with the step half done where it is not atomic: a payload in part, a shim without its
marker, which then is taken for the user's (`Remains`), a torn manifest, which is read as one without surfaces.
`UserActs` changes the paths between operations.  `skipped` says that uninstall has reported the shell integration as "not
installed", because `current` led to no script.  **ShellBlock** has the scripts' edits of `.zshenv` and of
Kaku's loader as sequences of lines of a few kinds, and Kaku's interactive file as one of a few texts: Kaku's, patched, the
user's, or what a cut write has left of one (`CutOf`; `half` still has the prefix that is patched).  Every write and copy of the scripts
can be cut: `CutZshenv`, `CutLoader`, `CutPatch` (the backup, or the patch after it), `CutRestore`, `CutManifest`.  **Subsequence** is the one operator it shares
with `Memory`: the elements of a sequence at some of its places, in their order.

**Backlog** holds the rules of `backlog-lib.ts` and `backlog-policy.ts` as operators on a
board, and `Change` moves a board item by item through the gate.  Both searches are the code's: `Visits` is the depth-first
`visit`, a function of how deep it may still go, and `Remaining` has the passes of `initiativeCycleErrors`.  **Loops** has the three
classes that tell an agent to go on, **Watchers** the watchdog's counts, the keeping of
experiments and the state machine with its listeners; their states are the objects' fields.  Of the percentage that is reported
with an experiment the model has the sign, after the rounding to two decimals (`ReportedSign`).
**Memory** is a file that is read, changed and written over (`Load`, `OpenFile`, `FillFile`) or appended to
(`AppendFile`), with the rule of each of four stores; **Heartbeats** the heartbeat file of a session
(`OpenBeat`, `FillBeat`) beside processes that list and remove (`BeginList`, `ReadBeat`, `RemoveBeat`).
**Release** has one action per step of the build (`ResetDist` to `WriteProvenance`), `Pack` for an archive, and the
steps of manifest and verification; `EditTree` and `CommitTree` change the tree meanwhile.

`MCSession`, `MCBenchmark` and `MCTools` put components beside each other that share no state:
`explored` says which of them a behaviour is about, and the others stand still, so that one run
explores each by itself.  The other MC modules only hold the symmetry sets and, for terminals, the function `DirtyBit`.  The
operators whose name begins with `Mut` are faulty variants of a definition; putting one in the
place of the definition must break the property it is listed with in `PROJECT.json`.

## 4. What is checked

| Run | Bounds | Shows |
|---|---|---|
| `run_trace` | 2 processes, 1 command, 1 identity, up to 5 events and the closing one | `SequenceContiguous`, `CompletionIsFresh`, and that the run implements `EvidenceGate`, with any job in any order and a crash anywhere |
| `terminal_one` | 1 terminal, the CLI, 4 commands, 2 changes of the worktree by commands or unseen, clean and dirty, any session before the run | `PassingCheckClears`, `SurfacesAgree`, `CompletionSawContent`, no helper failing |
| `terminal_fails` | 1 terminal, the CLI, 3 commands, 8 events, everything may fail | `EvidenceNeedsZeroExit`, `MutationHoldsGate` |
| `file_lock` | 3 processes that are killed anywhere | `Exclusive` while all live; `LockRecovered` |
| `active_pointer` | 3 processes, 2 runs, crashes and failing disks | `PointedRunStarted`, `ClearsOwnPointer`, `StalePointerRemoved` |
| `active_pointer_two` | 3 processes, 3 runs, no failure | violation: two open runs |
| `turn_gate` | 4 tool events, 4 milliseconds, 4 kinds, 2 scopes | `StopNeedsCheck`, `BlockedForAReason` |
| `turn_lock` | 4 hooks, 2 killed anywhere | `Exclusive` outside two named races, `LockComesBack` |
| `swarm` | 3 agents, 1 killed, clock to 2 with lifetime 1, 2 attempts, 2 writes | `Exclusive` inside the lifetime, `Serializable` of ledger and card |
| `session` | 3 hooks, 1 killed, clock to 3; 3 turns, 1 pruner among hooks that write, clear and damage states, 6 times, age limit 1, 1 kept; 3 recorders, 3 days, 3 events | `AExclusive`, `ReviewsInOrder`; `NewestKept`; `AdoptionExact` |
| `benchmark` | 3 publishers, 2 files, 2 faults, cut copies; 2 workers, 2 scenarios; verdicts over pairs of 13 samples | `OneGeneration`; `NoAgentLeft`, `EvidenceIsComplete`, `RunEnds`; `AcceptedIsBetter` |
| `tools` | 2 versions, 3 operations, 1 change of the user; 3 shell operations, 1 edit, 2 versions of Kaku's file; boards of 3 items; results 0 to 3; 3 experiments with 5 measures, two of which the rounding cannot tell apart, 3 listeners; 4 entries of 2 projects; 2 listers, clock to 5; 2 trees, 5 scripts | `InstallOkWorks`, `CurrentIsWhole`, `RecordedIsRemoved`; `ZshenvKept`, `ShellRestored`; `AcceptedCanProceed`; `LoopAlwaysEnds`; `CountsAreExact`, `ListenersKnow`; `NewestRemembered`; `FreshIsListed`; `ReleaseIsWhole` |

The modules also state a type invariant and, for `RunTrace`, invariants that the proofs use
(section 6); the runs above are about what can go wrong.
`findings` in `PROJECT.json` quotes the line of the document that `active_pointer_two` refutes and tells the counterexample.

### Why the bounds are enough

*Runs.* All rules on evidence relate a boundary, a passing check and a completion, three
events in some order; five events hold every order of them with one event more on either
side, and a batch is at most three lines, so a torn batch and what follows fits.  The proofs
of section 6 remove the bounds.  *Terminals.* Four commands are mutation, check, mutation and
check again with the start of the run and the completion at any moment between; two changes of the worktree are one a hook
saw and one none did, in either order.  With failing helpers, three commands are one whose postexec is lost, one that consumes its
record and one more; what they do to the worktree no longer matters there.  *Lock
file.* Every wrong removal involves an old owner, a new owner and a waiter.  *Pointer.* The
same: one process completes, one looks, one starts; two runs are an old and a new one.
*Turn.* The state is a function of the last mutation and the last check after it; four events
hold two of each.  `MaxClock` 3 with steps of 0 or 1 gives equal and different times in
every combination the comparisons can tell apart.
*Turn lock.* A killed owner, a killed recoverer of its lock, another recoverer and one that acquires.
*Swarm.* An owner that is dead or expired, one that recovers and one that comes after.  Two writes are the lost one and
the one it was lost to.
*Session.* The clock spans an interval, a watchdog and an interval again; a pruner keeps one of three turns, so that the rank of each
of the others matters, and with an age limit of one time and six times in all a state expires before the first look, between the looks, or
not at all, while others are written; three days and events give two days in a row and one with a reset between.
*Publication.* Two files are the least that can be mixed, and a kill of the recovering publisher
needs a third and two faults.  *Agents.* Two workers and two scenarios: one is under way when the other
fails, and both agents can be in a `killTree` at the same time; the queue of more scenarios than workers is covered by the proof
(section 6).  *Verdict.* The samples differ from a good one in each respect that the verdict reads.
*Installer.* Install, interrupted upgrade, repair or uninstall.  *Backlog.* Three items close the
shortest cycle that is not a pair.  *Experiments.* 30000 and 30001 differ by less than half a hundredth of a percent, the
others by more, on both sides of zero.  *Loops.* The plateau is the code's own, the limit of iterations is above it
and there is a level more than it needs.  *Memory.* Four entries overflow a project's capacity of two between another's.
*Heartbeats.* The clock allows two lifetimes, an old heartbeat and a new one.
*Release.* Build, build, manifest, verify, and one script more that breaks off.

`CHECK_DEADLOCK FALSE` is set where work may end: the bounds on commands, events and
runs are reached, or all processes have ended.

## 5. Fairness

Five properties need fairness.

`LockRecovered` (`FileLock!FairSpec`): a process that is not killed goes on with the next step of
the loop in `withFileLock`, a section ends, and time passes.  The code justifies it: the
loop has no step that waits for another process except by sleeping, and the sections do a few
file operations.  Nobody has to begin, to end or to be killed; the property also lets waiters give up.

`StalePointerRemoved` (`ActivePointer!FairSpec`): some process looks at the active run again
and again and is not killed every time it does; strong fairness, because a crash may interrupt
each look.  The shell hooks look at every command, which is that process.  No other process
has to do anything.

`LockComesBack` (`TurnLock!FairSpec`): a hook that is not killed runs on, since its loop of 40 attempts waits for nobody
except by sleeping; the session goes on starting hooks, one after each tool; time passes.  Nothing
has to be killed and nothing has to be alone: that hooks run one after the other from some time on is the
property's premise.

`RunEnds` (`Progress` in `Benchmark`): the workers go on and the timers of `runProcess` fire.
Agents and their descendants need not do anything.  What a `killTree` has missed may hold the pipe of a run for good
(`HeldUp`), and the property says so.

`LoopAlwaysEnds` (`MCTools!MCFairness`): the agent tries again as long as it is told to, with any results.

## 6. What is proved

TLAPS checks `RunTraceProofs`, `TerminalTraceProofs`, `ActivePointerProofs`, `TurnProofs` (`TurnGate` and
`TurnLock`), `SwarmProofs`, `SessionProofs` (`FileLock`, `Activator`, `TurnPrune`, `Adoption`), `ToolsProofs` (`Heartbeats`, `Release`,
`Installer`, `Watchers`, `Benchmark`, `Publication`) and `RecordsProofs` (`Memory`, `ShellBlock`, `Evaluation`, `Backlog`) from nothing but the named assumptions on the
constants, for any number of processes, commands, repository identities, runs, agents, hooks, files
and any bound on events and times.  The assumptions are of three kinds: a value that stands for "nothing" differs
from what may be there (`NoProcAssumption`, `NoFileAssumption`, `StoreAssumption`, `LockFileAssumption`, `StateAssumption`, ...),
a limit or interval is a number, above zero where it is in the code (`TimesAssumption`, `PruneAssumption`, ...), and a set
that the code goes through from first to last is finite and not empty (`PublicationAssumption`, `BenchmarkAssumption`, ...).
Where a component begins from given data, its assumption also says what these are: evidence records (`EvaluationAssumption`),
boards (`BacklogAssumption`), and in `ShellAssumption` a `.zshenv` with nothing of the user's between a pair of the scripts' markers (`Intact`), since
all that is between them is removed by design.
The invariants named below were checked with TLC on the configuration of their run before they were proved, and every safety
property that a passing run checks is now stated by a theorem.

*RunTrace.*  None of the safety properties is inductive alone: a section works
on a copy of `run.json`, and what it writes is right only if the copy agrees with a trace that
has grown meanwhile by its own append.  `IInv` therefore adds two things to the type and the
properties on the trace.  `Sound(run, trace)`: a record that says completed has its
`run_completed`, and a record that counts all events neither hides a completion nor shows an active
run after an open intent.  `SectionInv`: whoever is in a section has the lock, its copy counts
all events and is sound, and is still `run.json` before the append.  The lemmas go along the code: what
`Batch` and `Stamped` return (`BatchType`, `StampedType`, `BatchFinish`, `BatchDecides`), that
reconciliation yields a sound record (`ReconciledSound`), that an append keeps the properties on the
trace (`AppendKeeps`) and yields a sound copy (`AppendSound`), then one lemma per
action.  The theorems `Contiguous`, `NeverAhead`, `FreshCompletion`, `FinalCompletion`,
`IntentHolds`, `RecordedCompletion` follow from `Invariance`; `GateRefinement` shows that
every step is a step of `EvidenceGate` or a stutter: an append to
an open run is a gate step whatever it holds, and the append that closes it is `Complete`, because
`assertFreshCompletionEvidence` has found a passing check that no boundary follows, and the
snapshot it judged still counts all events.

*FileLock.*  `Exclusion` holds as long as no process has ended.  `IInv` says that then the
creator of the file is the process in the section, no file is old, and no waiter is on its way to a removal.
The condition is needed: a waiter that has read the pid of a process which then ends removes the file of the next owner.  This is also how far
the abstract lock of `RunTrace` and `ActivePointer` is justified: a run of the
program in which a waiter probes a pid that has just ended may put two processes into a section,
and their results do not cover it.

*ActivePointer.*  `PointedRunStarted` and `ClearsOwnPointer` follow from `Owns`, what each process may rely on
between two file operations: `run start` keeps `.active.lock` to its end, no pointer names the run
it is creating, and the run that a completion has closed is not opened again.  The last is why the
second section of `completeRun`, which compares the pointer with its own run, cannot remove a
newer one, although the lock was free in between.  Nothing of the kind holds for `readActiveRun`, which
removes the pointer without the lock (`active_pointer_two`).

*TurnGate.*  `StopIsEarned` and `BlockIsEarned` assume `~Overlap`: the hooks of a tool end before the next
tool runs.  `GateInv` says what the file means: without a file, the last
mutation that was reported has had its check; with one, the record stands for that mutation
(`StandsFor`), and `verifiedAt` is there exactly when a sufficient check has followed.  It needs that no
waiting hook has a time before `mutatedAt`, which is where overlap would break it.
`VerifiedWhenChecked` then shows that the comparison of milliseconds in `consumeEvidenceGate` never decides wrongly.
`LogInv` adds that a `Stop` is answered when all hooks have ended.  `TypeCorrect` needs no assumption on overlap.

*TerminalTrace.*  The steps of terminals and CLI on the store's variables are steps of `RunTrace` by the way the module is
written, except that a job must be one which `RunTrace` admits; that is shown together with the terminals' own invariant
(`TermAndStore`).  `RunTrace`'s `IInv`, and with it everything above, therefore holds here (`TerminalCompletionIsFresh`).
The other theorems assume one terminal (`OneTerminal`).  `NeedsZeroExit` and `HoldsGate` hold whatever fails.  `ZeroExitInv` says that every intent
in the trace, and every one that a passing check in the trace covers, has a later command that exited with zero, unless it is of the
command that is under way.  `HoldInv` says of every record, in the file and in the hands of a section, that it is not active after a mutation
that comes last, and of a transition on its way whose intent was found that the last decision of the trace is still that of a mutation: nobody
else can have recorded a passing check since.
`SurfacesAgree`, `PassingCheckClears` and `CompletionSawContent` also assume that no helper fails.
Then session record and run differ only by what a hook has on its way from one to the other, and by what came before the run was started;
`SyncInv` says for each stage of a command what that is, and `Coupled` is the relation itself: the run pending means the session pending, and the converse from
the first mutation or passing check that the run was told of (`RunWasTold`).  A passing check in the trace read all of the content
but what is in `hidden`, and so does every later one.
Both assumptions are needed: with two terminals, or with a helper that dies, the surfaces do come apart (section 8).

*TurnLock.*  `TurnLockExclusive` rests on `DisposeInv`: at most one hook at a time *disposes of* the lock directory, because it has made
it or because it is removing a killed hook's, and its owner's file is the disposer's own or the killed hook's.  A recoverer can be
trusted with that because the token it read was of a hook that is gone (`SeenInv`), and because the recovery marker it made stays
its own until it removes it (`MarkerInv`).  `risks` names when each of these is not so in the code: a recovery that
was begun without a token, and a recoverer whose marker another one has removed.

*SwarmLock, SwarmStores.*  `LockInv`: without the faults `late` and `blind`, the file carries the payload of the agent that created it, which
has not expired, and a file that a recoverer is about to remove has no holder and gets none, because there is one recovery at a
time.  `StoreInv` carries this over to the stores: what an agent in its section is about to change is the store as
it is, and `serial`, the operations one after the other, is that too.  `WritesInv` bounds the writes by the operations begun.  The guard of
`Begin`, which lets nothing begin after a fault, is a bound of the model and not of the code: it is where the property ends.

*Activator.*  `LockInv`: what a hook is about to remove was found old, so it was the lock of a killed hook when it was looked at
(`aSaw`); a hook in its section has the lock until somebody removes a directory that he has not looked at (`overtaken`), which takes a
killed hook.  So `ActivatorExclusive` says what ageing locks can and cannot do, for any number of kills.  `ActivatorReviews` ends also where
a state in use was pruned (after either fault the model begins nothing more); `ReviewInv` ties the state file to the history
of the answers: the state tells which answer was the last, when it was given, and whether one is due.
*TurnPrune.*  Its invariant says, with hooks and other prunes between any two looks, how far a pruner has come.  Of an untouched turn: in the first pass,
that it is a candidate with its time, or removed as expired.  In the second: the candidates a pruner is through with are those that it has kept and
those that were gone when it came to them or that it has removed itself, and it removes none while fewer than `MaxFiles` are kept; so the number it has
kept is the rank of the next one, up to the limit, among the candidates that were there.  That needs times all
different, as the order of equal times is the directory's.
*Adoption.*  As long as nothing overlaps there is one recorder, which has read the ledger that is there (`RecorderInv`), and the ledger's last
day is the greatest of the days counted (`LedgerInv`), which makes the comparison of the day with the last one enough.

*Publication.*  `LockInv` says what is known of the lock's holder by its step: before it renames, nothing has been touched
(`Fresh`) and its backups are copies of what is there, or parts of one (`Copying`); while it renames and restores, each file is of its own generation or of the one
before, of which it has a complete backup of every file (`Replacing`); while it cleans up, all are of one (`Cleaning`).  Of a holder that is gone, `Undoable`: there is one
generation of which every file is there or in a complete backup, what other backups there are is of it or cut (`Before`), and what any recovery has already put back is of that
generation.  That is why several recoveries of one lock do not harm each other, and why one that is killed can be taken up by the next.
`NoPart` and `OneGeneration` are what is left of it when nobody holds the lock, outside the three faults of section 3.
*Benchmark.*  The queue is the end of the list of scenarios (`QueueInv`), so its length tells which were taken; a worker holds one of
these or has its result in (`WorkInv`).  `AgentInv`: without a worker that waits for it, an agent has no process but a `late` one, which no later listing
will find, and a result that is in is
of an agent that nothing changes any more; one that was timed out and not yet killed for good is still waited for.  `NoAgentLeft` and `EvidenceIsComplete` follow.

*Heartbeats.*  A session's heartbeat is on file, with its last time, or that time is over (`BeatFileInv`); `hit` names the three races that
break it.  *Release.*  `BuildInv` has what a build has made at each step, `PackageInv` what a package without a build under way may be, also when a script was ended: one whose
provenance accepts its runtime is of one build.  `ArchiveInv` and `ManifestInv` carry that to the archives and the manifest, and to the tree
when it has not been edited since they were begun: what they hold is the tree as it is, what they name is HEAD.
*Installer.*  `InstallInv` and `UninstallInv` say what an operation has achieved by each of its steps, the latter also that the shell integration
is gone once its step has ended well, unless it was skipped.  `CurrentInv` adds that in an
uninstall that is past the step `current` the link leads to no version, since the payloads go next.
*Watchers.*  The life cycle: only listeners that call from within have calls nested in them (`OuterInv`), so every listener up to the first of those
has been told of the current state or is about to be, by the innermost call (`EarlyInv`); the ones after it are not covered, and can in fact be told last
of an older state.  The counts: `repeat` and `failing` are the lengths of the longest tails of the window that qualify (`WatchInv`);
the winner is the first of the best experiments (`ResearchInv`), and better than the baseline; the sign that is reported of it follows, 1 or, below the
resolution of two decimals, 0.  The measures are integers.

The last four components compute with sequences, sums and graphs.  The provers cannot instantiate an induction theorem, so `RecordsProofs`
argues by the first counterexample: a set of natural numbers that is not empty has a least member (`LeastNatural`), hence what
holds at 0 and passes from each number to the next holds up to any number (`UpTo`), and what holds of the empty sequence
and is kept by appending holds of all (`EverySequence`).  `RecursionExists` gives the same for functions defined by recursion:
there is one that follows a given step, so the one the model chooses follows it.  Each recursive definition of a model then
gets a lemma that says what it computes.
*Memory.*  `MemIInv`: as long as no two calls overlapped and none was killed while it wrote (`disturbed`), one process at most is
writing, and what it will write is what the rule of its store keeps of the entries so far and its own (`Undisturbed`).
That rests on lemmas on selections: to append an entry and prune the oldest ones of its project leaves the latest of the longer
list (`PrunedRemembers`), and touches no other project.  The evidence is appended to, and overlap
cannot harm it except for a second header (`HeaderFirst`), so there the theorem needs no such condition.
*ShellBlock.*  `StripKeeps` and `RenderKeeps`: to cut the managed blocks out of any lines in which they are intact and well formed, and to
add a new one, leaves the user's lines as they were, in their order.  `HealedIntact` and `PartIntact`: what the healer makes of the file, and
what a cut write leaves of it, is intact again, so the next script may rely on it.  `ShIInv`
carries that through the steps of the scripts: the lines that a script is about to write have the user's (`LinesKept`), or the file has
been backed up; and an uninstall has removed what its step says (`Removed`).  Of Kaku's interactive file `FileHeld` says that it is as it was left, or a backup has that
and the file is its patched form or what a cut write left; and `Records` that a manifest which names a backup names that of the present file, or, after a cut
write of that file, one of its remains.  A manifest that is cut names none, and `Known` finds the backup again by its content.
`lapse` names where the code breaks
these: a write of `.zshenv` that is cut, with a backup or without one (`cut`, `lost`), a patch that no manifest
records because the script was killed before or in its writing (`unrecorded`, until an install that records it), and a newer file of Kaku's (`replaced`).
*Evaluation.*  A sum is monotone in its terms (`TotalMonotone`), so the tokens that are known are the least a control can
have used (`KnownIsLeast`): a reduction of these is one whatever the unknown ones were.  The candidate's are all known, since
complete evidence is required of it.
*Backlog.*  `DependencyCyclesIs` is the correctness of the depth-first search.  A search is `Sound` when it has found a cycle only where there
is one, and what it has finished without finding one is closed under dependencies and free of cycles; every visit keeps this and
finishes its item (`VisitLeads`), because everything on the trail leads to the item visited (`OnTrail`) and the trail gets longer by one at
each level, so the depth suffices.  `RemainingIs` is that of the passes: each takes one initiative away at
least, and in a finite set in which every member waits for another one there is a cycle (`WaitingHasCycle`).
`SomeCanProceed` uses the same lemma on the items: an item that has begun rests on what is done, so it can go on; with
none in progress there is room for one that is ready; and if all that is open is only accepted, one of these waits for none of the others,
as there is no cycle.  `StepIsValid` shows of each of these steps that no rule is broken by it.

Type correctness of each of these modules, `FileNotAhead`, `CompletedIsFinal`, `IntentHoldsGate` and `CompletedIsRecorded` are proved
but not part of a run any more: the runs are spent on what can go wrong.

## 7. What is only model-checked

- `LockRecovered`, `StalePointerRemoved`, `LockComesBack`, `RunEnds` and `LoopAlwaysEnds`: liveness under fairness is out of the
  prover's reach.
- The safety properties are proved without bounds, but of the models: what the models leave out (section 9) is left out of both.
- `Loops` has no property but `LoopAlwaysEnds`.

`active_pointer_two` is a counterexample and needs no proof.

## 8. Known disagreements

What the code does and a document, or its own purpose, says otherwise.  The first is a run with a finding; the others
were met while modelling, and the properties are stated so that they end where these begin.

- Two runs can be open (`active_pointer_two`): `readActiveRun` removes a pointer without the lock.
- A process killed between the two writes of `completeRun` leaves a completed run without `completedAt`
  for good (`run-store.ts:822`; `docs/SECURITY_MODEL.md:119`).
- With two terminals, a mutation whose intent was cleared by the other's check ends with the run
  active but not completable, and passing checks no longer help (`terminal-trace.ts:152`; `docs/CLI_REFERENCE.md:281`).
- A session that is pending when `riqor run start` makes a run active stays pending beside a run that is active, until the next check (`terminal-runtime.ts:302`).
- What agents, editors and processes in the background change after a check is not noticed: the worktree's identity is HEAD and a dirty bit, so a completion may
  vouch for a content that nothing has checked (`repository-identity.ts`; `README.md`: "A recognized check passes after the latest change").
- Helpers that fail leave a pending verification behind, and the exit status of a later, unrelated
  command clears the gate (`terminal-runtime.ts:322`).
- A waiter that has read the pid of a process that then ends removes the lock file of the next, live owner (`run-store.ts:351`).
- A documentation mutation replaces a pending code mutation, and a documentation check then clears both (`state.ts:283`).
- Two live agents can both win the swarm lock inside its lifetime: one finds the other's file empty, takes it for
  damaged and removes it (`swarm-lock.ts:60`); and a recovery directory of a killed agent is never removed, so that the lock stays
  refused once that agent's lock has expired (`swarm-lock.ts:114`).
- A torn recovery marker keeps hooks out of a turn's lock for ever (`state.ts:117`).
- `agentRun` in `src/cli.ts:167` returns the promise of the agent without awaiting it inside `try`, so that the capsule is
  destroyed while the agent runs.
- A process that an agent starts between the listing and the signals of the last `killTree`, outside the process groups that are signalled, is never ended;
  it may hold the pipe, and with it the run, for good (`src/process.ts:63`).
- A publisher that is killed in the copy of a backup leaves a part of the file, which the next publisher's recovery renames over the whole one (`src/cli.ts:122`, `:83`).
- A publisher killed during its cleanup, when the committed marker is gone and the owner is not, is rolled back although it had committed (`src/cli.ts:140`).
- `autoHealEnvironment` is exported by `checks.ts` and called by no command; the healer drops what follows an unclosed marker (a backup keeps it).
- Uninstall reports the shell integration as "not installed" whenever `current` leads to no script, and succeeds with the recorded block still in `.zshenv`: after a repeated
  install that was killed between `rm` and `rename` (`install.ts:67`), or when it is repeated after it has failed at the shell and removed the payload (`uninstall.ts:70`).
- A torn install manifest is read as one without surfaces, so uninstall takes agents and plugin for not installed (`uninstall.ts:32`).
- An install of the shell integration that is killed between the patch of the interactive file and the end of the manifest's write leaves a patch that uninstall does not take back,
  while it reports success (`install-shell-integration.py:160`, `uninstall-shell-integration.py:60`); the backup stays.
- What a cut write leaves of the interactive file is taken for the user's: it is not restored, and patched and backed up anew when it still has the prefix (`install-shell-integration.py:154`).
- An experiment that is kept can be reported with an improvement of 0, or of the wrong sign over a negative baseline (`auto-research.ts:86`).
- A release made of a tree with uncommitted edits names HEAD as its commit (`build-riqor-package.ts:57`), and `release:verify` accepts it.
- `agy-harness` and `riqor-agy` are installed (`install-shell-integration.py:84`) and never removed by uninstall; a `codex-harness` of the user is overwritten.
- Two listers, or a lister and a session, race for a heartbeat file (`scratchpad-isolation.ts:61`).
- `provenance.json` does not list `dist/cli.mjs`, and `verify-release-artifacts.ts` does not read `SHA256SUMS`, which is older than the
  manifest when `release:manifest` was killed between its two files.

## 9. What is not modelled, and why

- The tests of single files for symbolic links, sizes and malformed JSON: one outcome,
  unreadable, in which the operation refuses (`Readable`), or damaged, in which the gate of a turn
  takes the worst case (`ReadState`).
- The recognition of commands as mutations or checks (`Kinds`, `Scopes` are its results).
- Files that are not written by Riqor, except for the damaged state of a turn.
- Time limits of the locks are nondeterministic choices, not clocks.
- Overlapping hooks of one turn: `TurnGate` has the constant `Overlap` for hosts that run tools
  in parallel.  With it, `StopNeedsCheck` does not hold, because a late hook of an older mutation
  moves `mutatedAt` back; whether a host does this is outside the repository.
- A lost hook of a mutation, which nothing can notice.
- That `ps` fails in `killTree`, and that an agent cannot be spawned at all.
- Cut copies of a `.zshenv` backup: the file itself is whole then and is read before; and copies of evidence that are still under way when another one has failed.
- Three pairs of reads are one step each, because only another recovery or prune could come between them, which a later step notices: owner and marker of a stale publication lock,
  the state of an activator and its lock in the last look of its prune, and the fields of one JSON file.
- Scanners and reviewers, and the servers: functions from texts to texts without state.  Their content is patterns and wording,
  which a model could only repeat.
- The main command `harness-cli.ts` outside `terminalCommand`: dispatch and output.
- `swarm-isolation.ts`, the plugin managers an installation calls, `git`, `tar`, `bun` and Codex itself: external programs,
  present as steps that succeed or fail.
- The fixtures, scenarios and command lines of the benchmark, the receipts of the adoption ledger, the rendered backlog.
- Generated copies of the hooks (`main.mjs`) and the skill texts.
