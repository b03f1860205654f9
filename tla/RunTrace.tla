------------------------------ MODULE RunTrace ------------------------------
(***************************************************************************)
(* One run of the assurance store (src/assurance/run-store.ts): the trace  *)
(* events.jsonl, the record run.json, and the sections that processes run  *)
(* under the per-run lock.                                                 *)
(*                                                                         *)
(* A section is split at its disk writes, because a process may die        *)
(* between any two of them.  The lock itself is abstract here: it is held  *)
(* by one live process, and the lock file of a process that died is        *)
(* removed by the next acquirer, so that a crash frees it.  FileLock.tla   *)
(* models the protocol behind it and says when that abstraction is sound.  *)
(***************************************************************************)
EXTENDS Naturals, Sequences

CONSTANTS
  Procs,              \* processes that open sections on the run
  NoProc,             \* "nobody": the lock is free
  Commands,           \* terminal commands, one per (digest, startedAt) pair
  NoCmd,
  Repos,              \* repository identities: (HEAD, dirty) pairs
  NoRepo,             \* provenance unavailable
  TransitionTargets,  \* statuses callers pass to transitionRun
  MaxEvents           \* bound: only run_completed is appended to a trace this long

Statuses == {"active", "verification-pending", "completed", "failed", "abandoned"}

\* The statuses of a run that is not writable any more.
Closed == {"completed", "failed", "abandoned"}

ASSUME NoProcAssumption == NoProc \notin Procs
ASSUME NoRepoAssumption == NoRepo \notin Repos
ASSUME MaxEventsAssumption == MaxEvents \in Nat
ASSUME TransitionAssumption == TransitionTargets \subseteq {"failed", "abandoned"}

Kinds == {"mutation", "verification", "other"}

EventTypes == {"run_started", "command_completed", "workspace_mutated",
               "verification_required", "verification_completed", "run_completed"}

\* What the caller says of an event; the store adds its sequence number.
EventInput == [type : EventTypes, ok : BOOLEAN, kind : Kinds \cup {"none"},
               cmd : Commands \cup {NoCmd}, repo : Repos \cup {NoRepo}]

Event == [seq : Nat, input : EventInput]

\* run.json: status, nextSequence, and whether completedAt is present.
RunRecord == [status : Statuses, next : Nat, finished : BOOLEAN]

\* What a process asks of the store: one record for the operations that
\* open a section, with the fields the operation does not use at a default.
Jobs == [op : {"intent", "transition", "complete", "mark"}, kind : Kinds,
         cmd : Commands \cup {NoCmd}, ok : BOOLEAN, matched : BOOLEAN,
         repo : Repos \cup {NoRepo}, target : {"failed", "abandoned"}]

NoJob == [op |-> "mark", kind |-> "other", cmd |-> NoCmd, ok |-> FALSE,
          matched |-> FALSE, repo |-> NoRepo, target |-> "failed"]

NoSnap == [status |-> "active", next |-> 1, finished |-> FALSE]

VARIABLES
  trace,    \* events.jsonl, as the events its complete lines hold
  tail,     \* how the file ends: "clean", "unterminated", "broken"
  runFile,  \* run.json
  lock,     \* the holder of .lock
  pc,       \* where each process is in its section
  job,      \* what it asked for
  snap      \* the run record it holds in memory

vars == <<trace, tail, runFile, lock, pc, job, snap>>

-----------------------------------------------------------------------------
Input(type, ok, kind, cmd, repo) ==
  [type |-> type, ok |-> ok, kind |-> kind, cmd |-> cmd, repo |-> repo]

\* An event after which earlier verification no longer counts.
IsMutationBoundary(in) ==
  \/ in.type \in {"workspace_mutated", "verification_required"}
  \/ in.type = "command_completed" /\ in.ok /\ in.kind = "mutation"

IsPassing(in) == in.type = "verification_completed" /\ in.ok

\* The events deriveRunState reacts to.
Decides(in) ==
  \/ IsMutationBoundary(in)
  \/ in.type \in {"verification_completed", "run_completed"}

StatusAfter(in) ==
  CASE in.type = "run_completed"          -> "completed"
    [] in.type = "verification_completed" -> "active"
    [] OTHER                              -> "verification-pending"

\* i is the position of the last event of t that decides the status.
LastDecision(t, i) ==
  /\ i \in DOMAIN t
  /\ Decides(t[i].input)
  /\ \A j \in DOMAIN t : Decides(t[j].input) => j <= i

\* The loop of deriveRunState overwrites the status at every deciding event,
\* so the last one wins; without one the run keeps what run.json says.
Derived(run, t) ==
  IF \E i \in DOMAIN t : LastDecision(t, i)
    THEN LET last == t[CHOOSE i \in DOMAIN t : LastDecision(t, i)].input
         IN  [status   |-> StatusAfter(last),
              finished |-> last.type = "run_completed"]
    ELSE [status |-> run.status, finished |-> run.finished]

\* Mutant: reconciliation forgets that run.json may lag behind the trace.
MutReconciled(run, t) == run

\* Mutant: reconciliation counts the events but keeps the recorded status.
MutReconciledStatus(run, t) == [run EXCEPT !.next = Len(t) + 1]

\* reconcileRunState: a run.json that is behind its trace is rebuilt from it.
Reconciled(run, t) ==
  IF run.next = Len(t) + 1
    THEN run
    ELSE [status |-> Derived(run, t).status, next |-> Len(t) + 1,
          finished |-> Derived(run, t).finished]

\* reconcileRunState and readValidatedEvents refuse an unreadable trace and
\* a run.json that is ahead of it.
Readable == tail # "broken" /\ runFile.next <= Len(trace) + 1

\* Mutant: any passing verification counts, also one before the last mutation.
MutFreshEvidence(t, repo) ==
  \/ \A i \in DOMAIN t : ~IsMutationBoundary(t[i].input)
  \/ \E v \in DOMAIN t : IsPassing(t[v].input) /\ t[v].input.repo = repo /\ repo # NoRepo

\* assertFreshCompletionEvidence: no mutation at all, or a passing
\* verification after the last mutation, the last such one taken on the
\* repository identity that completion sees.
FreshEvidence(t, repo) ==
  \/ \A i \in DOMAIN t : ~IsMutationBoundary(t[i].input)
  \/ \E v \in DOMAIN t :
       /\ IsPassing(t[v].input)
       /\ t[v].input.repo = repo
       /\ repo # NoRepo
       /\ \A j \in DOMAIN t : j > v => ~IsMutationBoundary(t[j].input)
                                       /\ ~IsPassing(t[j].input)

-----------------------------------------------------------------------------
\* The events each operation appends to a run it found in status s, and the
\* status they leave behind: the batches of terminal-trace.ts after the
\* whenStatus and nextStatus handling of appendEventsLocked.

Completed(j) == Input("command_completed", j.ok, j.kind, j.cmd, NoRepo)
Mutated(j)   == Input("workspace_mutated", j.ok, "none", j.cmd, NoRepo)
Required(j)  == Input("verification_required", FALSE, "none", j.cmd, NoRepo)
Verified(j)  == Input("verification_completed", TRUE, "none", j.cmd, j.repo)
Finished     == Input("run_completed", TRUE, "none", NoCmd, NoRepo)

\* The terminal ran a mutation; or a passing check of a run that is pending.
RanMutation(j) == j.op = "transition" /\ j.kind = "mutation"
Clears(j, s) == /\ j.op = "transition" /\ j.kind = "verification" /\ j.ok
                /\ s = "verification-pending"

Batch(j, s) ==
  CASE j.op = "intent"                      -> <<Required(j)>>
    [] j.op = "complete"                    -> <<Finished>>
    [] RanMutation(j) /\ j.matched          -> <<Completed(j), Mutated(j)>>
    [] RanMutation(j) /\ ~j.matched         -> <<Completed(j), Mutated(j), Required(j)>>
    [] Clears(j, s)                         -> <<Completed(j), Verified(j)>>
    [] OTHER                                -> <<Completed(j)>>

NextStatus(j, s) ==
  CASE j.op = "intent"                      -> "verification-pending"
    [] j.op = "complete"                    -> "completed"
    [] RanMutation(j) /\ ~j.matched         -> "verification-pending"
    [] Clears(j, s)                         -> "active"
    [] OTHER                                -> s

\* Sequence numbers are dealt from the record the section holds in memory.
Stamped(b, run) == [i \in DOMAIN b |-> [seq |-> run.next + i - 1, input |-> b[i]]]

\* The guards of appendRunEvents and completeRun inside the section.
Admitted(j, run, t) ==
  CASE j.op \in {"intent", "transition"} -> run.status \notin Closed
    [] j.op = "complete"                 -> run.status = "active" /\ FreshEvidence(t, j.repo)
    [] OTHER                             -> TRUE

-----------------------------------------------------------------------------
\* A run as createRun leaves it: run_started recorded, active.
Init ==
  /\ trace = <<[seq |-> 1, input |-> Input("run_started", TRUE, "none", NoCmd, NoRepo)]>>
  /\ tail = "clean"
  /\ runFile = [status |-> "active", next |-> 2, finished |-> FALSE]
  /\ lock = NoProc
  /\ pc = [p \in Procs |-> "idle"]
  /\ job = [p \in Procs |-> NoJob]
  /\ snap = [p \in Procs |-> NoSnap]

\* What a process held in memory ends with its section.
Leave(p) ==
  /\ lock' = NoProc
  /\ pc' = [pc EXCEPT ![p] = "idle"]
  /\ job' = [job EXCEPT ![p] = NoJob]
  /\ snap' = [snap EXCEPT ![p] = NoSnap]

\* Take the lock, read run.json and reconcile it with the trace.
Enter(p, j) ==
  /\ pc[p] = "idle"
  /\ lock = NoProc
  /\ Readable
  /\ lock' = p
  /\ runFile' = Reconciled(runFile, trace)
  /\ snap' = [snap EXCEPT ![p] = Reconciled(runFile, trace)]
  /\ job' = [job EXCEPT ![p] = j]
  /\ pc' = [pc EXCEPT ![p] = "entered"]
  /\ UNCHANGED <<trace, tail>>

\* readRun: a section that only reconciles.
ReadRun(p) ==
  /\ pc[p] = "idle"
  /\ lock = NoProc
  /\ Readable
  /\ runFile' = Reconciled(runFile, trace)
  /\ UNCHANGED <<trace, tail, lock, pc, job, snap>>

\* The operation throws inside the section; the lock is released.
Refuse(p) ==
  /\ pc[p] = "entered"
  /\ ~Admitted(job[p], snap[p], trace)
  /\ Leave(p)
  /\ UNCHANGED <<trace, tail, runFile>>

\* The bound of the model: completion, which ends the trace, is exempt.
WithinBound(j) == j.op = "complete" \/ Len(trace) < MaxEvents

\* appendEventsLocked up to appendLine.  A file whose last line lost its
\* line terminator takes the first new event into that same line, which no
\* reader can parse any more.
AppendLine(p) ==
  /\ pc[p] = "entered"
  /\ job[p].op # "mark"
  /\ WithinBound(job[p])
  /\ Admitted(job[p], snap[p], trace)
  /\ LET es == Stamped(Batch(job[p], snap[p].status), snap[p])
     IN  /\ trace' = trace \o es
         /\ snap' = [snap EXCEPT ![p].status = NextStatus(job[p], snap[p].status),
                                 ![p].next = snap[p].next + Len(es)]
  /\ tail' = IF tail = "clean" THEN "clean" ELSE "broken"
  /\ pc' = [pc EXCEPT ![p] = "appended"]
  /\ UNCHANGED <<runFile, lock, job>>

\* The process dies, or the disk fills, inside the one write of appendLine:
\* the first k lines are complete and the next may be cut, or the last
\* complete one lacks its terminator.
TornAppend(p, k) ==
  /\ pc[p] = "entered"
  /\ job[p].op # "mark"
  /\ WithinBound(job[p])
  /\ Admitted(job[p], snap[p], trace)
  /\ LET es == Stamped(Batch(job[p], snap[p].status), snap[p])
     IN  /\ k \in 0..Len(es)
         /\ trace' = trace \o SubSeq(es, 1, k)
         /\ tail' \in IF tail = "clean"
                        THEN (IF k > 0 THEN {"clean", "unterminated"} ELSE {})
                             \cup (IF k < Len(es) THEN {"broken"} ELSE {})
                        ELSE {"broken"}
  /\ Leave(p)
  /\ UNCHANGED runFile

\* writeJsonAtomic of run.json; completeRun goes on to a second write.
WriteRun(p) ==
  /\ pc[p] = "appended"
  /\ runFile' = snap[p]
  /\ IF job[p].op = "complete"
       THEN pc' = [pc EXCEPT ![p] = "completing"] /\ UNCHANGED <<lock, job, snap>>
       ELSE Leave(p)
  /\ UNCHANGED <<trace, tail>>

\* completeRun stores completedAt in a write of its own.
WriteCompletedAt(p) ==
  /\ pc[p] = "completing"
  /\ runFile' = [snap[p] EXCEPT !.finished = TRUE]
  /\ Leave(p)
  /\ UNCHANGED <<trace, tail>>

\* transitionRun: any current status is overwritten and no event is recorded.
MarkStatus(p) ==
  /\ pc[p] = "entered"
  /\ job[p].op = "mark"
  /\ runFile' = [snap[p] EXCEPT !.status = job[p].target]
  /\ Leave(p)
  /\ UNCHANGED <<trace, tail>>

\* The process is killed between two writes.
Crash(p) ==
  /\ pc[p] # "idle"
  /\ Leave(p)
  /\ UNCHANGED <<trace, tail, runFile>>

HasIntent(t, c) ==
  \E i \in DOMAIN t : t[i].input.type = "verification_required" /\ t[i].input.cmd = c

\* The jobs the callers of the store submit: terminal-trace.ts and the run
\* commands of the CLI.
IntentJob(c)      == [NoJob EXCEPT !.op = "intent", !.cmd = c]
CompleteJob(repo) == [NoJob EXCEPT !.op = "complete", !.repo = repo]
MarkJob(s)        == [NoJob EXCEPT !.op = "mark", !.target = s]

\* A terminal that ran c looks for its intent, then inspects the repository.
TransitionJob(kind, c, ok, matched, repo) ==
  [NoJob EXCEPT !.op = "transition", !.kind = kind, !.cmd = c, !.ok = ok,
                !.matched = matched, !.repo = repo]

\* Each appends its events in one call (appendRunEvent and appendRunEvents);
\* completeRun and transitionRun enter the section by themselves.  An intent
\* that a terminal has found in the trace is still there when it enters.
Submit(p) ==
  \/ \E c \in Commands : Enter(p, IntentJob(c))
  \/ \E kind \in Kinds, c \in Commands, ok, found \in BOOLEAN, r \in Repos \cup {NoRepo} :
       /\ found => kind = "mutation" /\ HasIntent(trace, c)
       /\ Enter(p, TransitionJob(kind, c, ok, found, r))
  \/ \E r \in Repos : Enter(p, CompleteJob(r))
  \/ \E s \in TransitionTargets : Enter(p, MarkJob(s))

Section(p) ==
  \/ Refuse(p)
  \/ AppendLine(p)
  \/ \E k \in 0..3 : TornAppend(p, k)
  \/ WriteRun(p)
  \/ WriteCompletedAt(p)
  \/ MarkStatus(p)
  \/ Crash(p)

Next == \E p \in Procs : Submit(p) \/ ReadRun(p) \/ Section(p)

Spec == Init /\ [][Next]_vars

-----------------------------------------------------------------------------
\* The gate of the run, read off its trace.
Uncovered(t) ==
  \E b \in DOMAIN t : /\ IsMutationBoundary(t[b].input)
                      /\ \A v \in DOMAIN t : v > b => ~IsPassing(t[v].input)

Ends(t) == \E i \in DOMAIN t : t[i].input.type = "run_completed"

\* Type invariant.
TypeOK ==
  /\ trace \in Seq(Event)
  /\ tail \in {"clean", "unterminated", "broken"}
  /\ runFile \in RunRecord
  /\ lock \in Procs \cup {NoProc}
  /\ pc \in [Procs -> {"idle", "entered", "appended", "completing"}]
  /\ job \in [Procs -> Jobs]
  /\ snap \in [Procs -> RunRecord]

\* Sequence numbers count the events from 1 without gap or duplicate, also
\* when a process died after appendLine and before run.json was replaced:
\* the next section deals its numbers from the reconciled record.
\* (readValidatedEvents rejects any other trace as a "sequence gap".)
SequenceContiguous == \A i \in DOMAIN trace : trace[i].seq = i

\* run.json never promises more events than the trace holds, so that no
\* crash leaves a run that reconcileRunState refuses as "ahead of trace".
FileNotAhead == runFile.next <= Len(trace) + 1

\* No trace says run_completed unless every mutation boundary before it is
\* followed by a passing verification whose repository provenance is known,
\* whatever crashes and reconciliations produced the trace.
CompletionIsFresh ==
  \A i \in DOMAIN trace : trace[i].input.type = "run_completed" =>
    \A b \in DOMAIN trace : (b < i /\ IsMutationBoundary(trace[b].input)) =>
      \E v \in DOMAIN trace : /\ b < v /\ v < i
                              /\ IsPassing(trace[v].input)
                              /\ trace[v].input.repo \in Repos

\* Nothing is ever recorded after run_completed: the status that closes the
\* run reaches every later section through run.json or reconciliation.
CompletedIsFinal ==
  \A i \in DOMAIN trace : trace[i].input.type = "run_completed" => i = Len(trace)

\* While the last event that decides the status is verification_required,
\* no reader sees an active run: the intent of a mutation holds the gate
\* across every crash (SECURITY_MODEL: completion fails when pending).
IntentHoldsGate ==
  (tail # "broken" /\ \E i \in DOMAIN trace :
      LastDecision(trace, i) /\ trace[i].input.type = "verification_required")
    => Reconciled(runFile, trace).status # "active"

\* A run.json that says completed is backed by a run_completed event.
CompletedIsRecorded ==
  runFile.status = "completed" => Ends(trace)

Gate == INSTANCE EvidenceGate WITH pending <- Uncovered(trace), closed <- Ends(trace)

\* The trace implements the abstract gate through every crash, torn append
\* and reconciliation: run_completed is recorded only while no mutation is
\* uncovered, and the trace ends there (CLI reference: "Completes the active
\* run only when verification is clear").
ImplementsGate == Gate!Spec

\* A run record that agrees with trace t as far as the gates rely on it.
Sound(run, t) ==
  /\ run.status = "completed" => Ends(t)
  /\ run.next = Len(t) + 1 =>
       /\ Ends(t) => run.status \in Closed
       /\ (\E i \in DOMAIN t : LastDecision(t, i) /\ t[i].input.type = "verification_required")
            => run.status # "active"

\* What a process inside its section may rely on.
SectionInv ==
  \A p \in Procs :
    /\ pc[p] # "idle" => lock = p
    /\ pc[p] = "entered" => snap[p] = runFile
    /\ pc[p] # "idle" => snap[p].next = Len(trace) + 1 /\ Sound(snap[p], trace)

\* The inductive invariant behind the safety properties above.
IInv ==
  /\ TypeOK
  /\ SequenceContiguous
  /\ FileNotAhead
  /\ CompletionIsFresh
  /\ CompletedIsFinal
  /\ SectionInv
  /\ Sound(runFile, trace)
=============================================================================
