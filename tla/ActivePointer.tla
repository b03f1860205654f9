---------------------------- MODULE ActivePointer ----------------------------
(***************************************************************************)
(* Which run of a repository is the active one: the pointer active.json,   *)
(* the runs it may name, and createRun, readActiveRun and completeRun of   *)
(* src/assurance/run-store.ts with the CLI commands that call them.        *)
(*                                                                         *)
(* createRun and clearActivePointer work under .active.lock.  The other    *)
(* callers of readActiveRun do not, and readActiveRun removes the pointer  *)
(* of a closed run.  Both locks are abstract, and what happens inside a    *)
(* run is one step each: RunTrace looks into it.                           *)
(*                                                                         *)
(* Left out: a createRun that cannot read back the run it has just         *)
(* written, and a pointer file that vanishes between lstat and read.       *)
(***************************************************************************)
CONSTANTS
  Procs,     \* processes that run commands on the repository
  NoProc,    \* .active.lock is free
  Runs,      \* run identifiers; createRun never draws one twice
  NoRun,     \* there is no pointer
  MayFail    \* may processes be killed and disks fail?

ASSUME NoProcAssumption == NoProc \notin Procs
ASSUME NoRunAssumption == NoRun \notin Runs
ASSUME MayFailAssumption == MayFail \in BOOLEAN

VARIABLES
  run,      \* of each run: "none", "written" (run.json only), "open", "closed",
            \* and "dropped" when createRun failed and removed it again
  pointer,  \* the run that active.json names
  lock,     \* the holder of .active.lock
  pc,       \* the step each process takes next
  task,     \* the command it runs: "start", "read" or "complete"
  held      \* the run it holds in memory

vars == <<run, pointer, lock, pc, task, held>>

Steps == {"idle", "pointer", "status", "remove", "create", "started", "publish",
          "finish", "clear", "cleared"}

Init ==
  /\ run = [r \in Runs |-> "none"]
  /\ pointer = NoRun
  /\ lock = NoProc
  /\ pc = [p \in Procs |-> "idle"]
  /\ task = [p \in Procs |-> "read"]
  /\ held = [p \in Procs |-> NoRun]

Goto(p, step) == pc' = [pc EXCEPT ![p] = step]
Hold(p, r) == held' = [held EXCEPT ![p] = r]

\* The command ends, with a result or with an error.
Done(p) ==
  /\ Goto(p, "idle")
  /\ Hold(p, NoRun)
  /\ lock' = IF lock = p THEN NoProc ELSE lock
  /\ UNCHANGED task

\* run start takes .active.lock before it looks for an active run.
Start(p) ==
  /\ pc[p] = "idle"
  /\ lock = NoProc
  /\ \E r \in Runs : run[r] = "none"
  /\ lock' = p
  /\ task' = [task EXCEPT ![p] = "start"]
  /\ Goto(p, "pointer")
  /\ UNCHANGED <<run, pointer, held>>

\* run status, run complete without --run and every terminal command start
\* with readActiveRun, without that lock.
Look(p, what) ==
  /\ pc[p] = "idle"
  /\ task' = [task EXCEPT ![p] = what]
  /\ Goto(p, "pointer")
  /\ UNCHANGED <<run, pointer, lock, held>>

\* run complete --run r.
CompleteNamed(p, r) ==
  /\ pc[p] = "idle"
  /\ run[r] \in {"open", "closed"}
  /\ task' = [task EXCEPT ![p] = "complete"]
  /\ Hold(p, r)
  /\ Goto(p, "finish")
  /\ UNCHANGED <<run, pointer, lock>>

\* readActiveRun reads active.json; without it there is no active run.
ReadPointer(p) ==
  /\ pc[p] = "pointer"
  /\ IF pointer # NoRun
       THEN Hold(p, pointer) /\ Goto(p, "status") /\ UNCHANGED <<lock, task>>
       ELSE IF task[p] = "start"
              THEN Goto(p, "create") /\ UNCHANGED <<held, lock, task>>
              ELSE Done(p)
  /\ UNCHANGED <<run, pointer>>

\* ... and the run it names.
ReadStatus(p) ==
  /\ pc[p] = "status"
  /\ CASE run[held[p]] = "closed" -> Goto(p, "remove") /\ UNCHANGED <<held, lock, task>>
       [] run[held[p]] = "open" /\ task[p] = "complete" ->
            Goto(p, "finish") /\ UNCHANGED <<held, lock, task>>
       [] OTHER -> Done(p)    \* "an active run already exists", or the answer
  /\ UNCHANGED <<run, pointer>>

\* Mutant: the pointer of a closed run is left to the next start.
MutRemovePointer(p) ==
  /\ pc[p] = "remove"
  /\ Done(p)
  /\ UNCHANGED <<run, pointer>>

\* ... and removes the path when that run is closed.
RemovePointer(p) ==
  /\ pc[p] = "remove"
  /\ pointer' = NoRun
  /\ IF task[p] = "start"
       THEN Goto(p, "create") /\ Hold(p, NoRun) /\ UNCHANGED <<lock, task>>
       ELSE Done(p)
  /\ UNCHANGED run

\* createRun: the directory and run.json,
CreateRun(p, r) ==
  /\ pc[p] = "create"
  /\ run[r] = "none"
  /\ run' = [run EXCEPT ![r] = "written"]
  /\ Hold(p, r)
  /\ Goto(p, "started")
  /\ UNCHANGED <<pointer, lock, task>>

\* Mutant: the pointer is written before the run has its first event.
MutAppendStarted(p) ==
  /\ pc[p] = "started"
  /\ pointer' = held[p]
  /\ Goto(p, "publish")
  /\ UNCHANGED <<run, lock, task, held>>

\* then the event run_started,
AppendStarted(p) ==
  /\ pc[p] = "started"
  /\ run' = [run EXCEPT ![held[p]] = "open"]
  /\ Goto(p, "publish")
  /\ UNCHANGED <<pointer, lock, task, held>>

\* then the pointer.
WritePointer(p) ==
  /\ pc[p] = "publish"
  /\ pointer' = held[p]
  /\ Done(p)
  /\ UNCHANGED run

\* An error after mkdir removes the directory again.
CreateFails(p) ==
  /\ MayFail
  /\ pc[p] \in {"started", "publish"}
  /\ run' = [run EXCEPT ![held[p]] = "dropped"]
  /\ Done(p)
  /\ UNCHANGED pointer

\* The section of completeRun: it closes an open run or refuses, also for
\* evidence that is pending or stale.
Finish(p) ==
  /\ pc[p] = "finish"
  /\ \/ /\ run[held[p]] = "open"
        /\ run' = [run EXCEPT ![held[p]] = "closed"]
        /\ Goto(p, "clear")
        /\ UNCHANGED <<lock, task, held>>
     \/ Done(p) /\ UNCHANGED run
  /\ UNCHANGED pointer

\* clearActivePointer waits for .active.lock, up to its time limit,
LockToClear(p) ==
  /\ pc[p] = "clear"
  /\ IF lock = NoProc
       THEN lock' = p /\ Goto(p, "cleared") /\ UNCHANGED <<task, held>>
       ELSE Done(p)
  /\ UNCHANGED <<run, pointer>>

\* Mutant: the pointer is cleared whichever run it names.
MutClearPointer(p) ==
  /\ pc[p] = "cleared"
  /\ pointer' = NoRun
  /\ Done(p)
  /\ UNCHANGED run

\* and removes the pointer if it names the completed run.
ClearPointer(p) ==
  /\ pc[p] = "cleared"
  /\ pointer' = IF pointer = held[p] THEN NoRun ELSE pointer
  /\ Done(p)
  /\ UNCHANGED run

Crash(p) ==
  /\ MayFail
  /\ pc[p] # "idle"
  /\ Done(p)
  /\ UNCHANGED <<run, pointer>>

Step(p) ==
  \/ ReadPointer(p)
  \/ ReadStatus(p)
  \/ RemovePointer(p)
  \/ \E r \in Runs : CreateRun(p, r)
  \/ AppendStarted(p)
  \/ WritePointer(p)
  \/ Finish(p)
  \/ LockToClear(p)
  \/ ClearPointer(p)

Command(p) ==
  \/ Start(p)
  \/ \E what \in {"read", "complete"} : Look(p, what)
  \/ \E r \in Runs : CompleteNamed(p, r)

Next == \E p \in Procs : Command(p) \/ Step(p) \/ CreateFails(p) \/ Crash(p)

Spec == Init /\ [][Next]_vars

\* Someone looks at the active run again and again, as the hooks do at every
\* command, goes on with what it does, and is not killed at every look.
FairSpec ==
  /\ Spec
  /\ \E p \in Procs : /\ WF_vars(Step(p))
                      /\ SF_vars(Look(p, "read"))
                      /\ SF_vars(ReadPointer(p))
                      /\ SF_vars(ReadStatus(p))
                      /\ SF_vars(RemovePointer(p))

-----------------------------------------------------------------------------
\* Type invariant.
TypeOK ==
  /\ run \in [Runs -> {"none", "written", "open", "closed", "dropped"}]
  /\ pointer \in Runs \cup {NoRun}
  /\ lock \in Procs \cup {NoProc}
  /\ pc \in [Procs -> Steps]
  /\ task \in [Procs -> {"start", "read", "complete"}]
  /\ held \in [Procs -> Runs \cup {NoRun}]

\* The active pointer names a run that exists and has its first event,
\* whoever crashed or failed in createRun: the pointer is published last.
PointedRunStarted == pointer # NoRun => run[pointer] \in {"open", "closed"}

\* What a process may rely on: run start keeps .active.lock from its first to
\* its last step, nobody has published the run it creates, and a run that
\* completeRun has closed is not opened again.
Owns(p) ==
  /\ (task[p] = "start" /\ pc[p] # "idle") => lock = p
  /\ pc[p] \in {"create", "started", "publish"} => task[p] = "start"
  /\ pc[p] \in {"status", "finish"} => held[p] \in Runs
  /\ pc[p] = "started" => held[p] \in Runs /\ run[held[p]] = "written"
  /\ pc[p] = "publish" => /\ held[p] \in Runs
                          /\ run[held[p]] \in {"open", "closed"}
                          /\ pointer # held[p]
  /\ pc[p] \in {"clear", "cleared"} =>
       held[p] \in Runs /\ run[held[p]] \in {"closed", "dropped"}

\* The inductive invariant behind PointedRunStarted and ClearsOwnPointer.
IInv ==
  /\ TypeOK
  /\ PointedRunStarted
  /\ \A p \in Procs : Owns(p)

\* completeRun takes a run off the pointer only when that run is closed, although
\* another one may have been started and made active between its two sections.
ClearsOwnPointer ==
  [][\A p \in Procs : (pc[p] = "cleared" /\ pc'[p] = "idle" /\ pointer' # pointer) =>
        run[pointer] = "closed"]_vars

\* A pointer that a crash of completeRun left behind does not stay for ever:
\* every look at the active run repairs it.
StalePointerRemoved ==
  \A r \in Runs : (pointer = r /\ run[r] = "closed") ~> (pointer # r)

\* There are never two open runs (architecture document: "A second active run
\* is rejected").  The code can break this: an unlocked readActiveRun that
\* saw a closed run removes the pointer that a new run has written since.
SecondRunRejected ==
  \A r, s \in Runs : (run[r] = "open" /\ run[s] = "open") => r = s
=============================================================================
