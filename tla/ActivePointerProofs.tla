------------------------- MODULE ActivePointerProofs -------------------------
(***************************************************************************)
(* Proofs about the pointer to the active run, for any number of processes *)
(* and runs: it names a run that has started, and completeRun clears no    *)
(* other run's pointer.                                                    *)
(***************************************************************************)
EXTENDS ActivePointer, TLAPS

\* A new repository has no pointer and no run.
LEMMA InitIInv == Init => IInv
BY NoProcAssumption, NoRunAssumption DEF Init, IInv, TypeOK, PointedRunStarted, Owns, Steps

\* A step of the system is a step of one process.
Act(p) == Command(p) \/ Step(p) \/ CreateFails(p) \/ Crash(p)

\* Every step keeps the type of the state.
LEMMA TypeKept == ASSUME TypeOK, NEW p \in Procs, Act(p) PROVE TypeOK'
<1> USE DEF TypeOK, Goto, Hold, Done, Steps
<1>1. CASE Start(p)
  BY <1>1 DEF Start
<1>2. ASSUME NEW what \in {"read", "complete"}, Look(p, what) PROVE TypeOK'
  BY <1>2 DEF Look
<1>3. ASSUME NEW r \in Runs, CompleteNamed(p, r) PROVE TypeOK'
  BY <1>3 DEF CompleteNamed
<1>4. CASE ReadPointer(p)
  BY <1>4 DEF ReadPointer
<1>5. CASE ReadStatus(p)
  BY <1>5 DEF ReadStatus
<1>6. CASE RemovePointer(p)
  BY <1>6 DEF RemovePointer
<1>7. ASSUME NEW r \in Runs, CreateRun(p, r) PROVE TypeOK'
  BY <1>7 DEF CreateRun
<1>8. CASE AppendStarted(p)
  BY <1>8 DEF AppendStarted
<1>9. CASE WritePointer(p)
  BY <1>9 DEF WritePointer
<1>10. CASE Finish(p)
  BY <1>10 DEF Finish
<1>11. CASE LockToClear(p)
  BY <1>11 DEF LockToClear
<1>12. CASE ClearPointer(p)
  BY <1>12 DEF ClearPointer
<1>13. CASE CreateFails(p)
  BY <1>13 DEF CreateFails
<1>14. CASE Crash(p)
  BY <1>14 DEF Crash
<1> QED
  BY <1>1, <1>2, <1>3, <1>4, <1>5, <1>6, <1>7, <1>8, <1>9, <1>10, <1>11, <1>12, <1>13, <1>14
  DEF Act, Command, Step

\* A step leaves the position, the command and the memory of the other
\* processes alone, takes the lock only when it is free, and frees only its own.
LEMMA OthersKept ==
  ASSUME TypeOK, NEW p \in Procs, Act(p), NEW q \in Procs, q # p
  PROVE  /\ pc'[q] = pc[q] /\ task'[q] = task[q] /\ held'[q] = held[q]
         /\ lock = q => lock' = q
BY NoProcAssumption
DEF TypeOK, Act, Command, Step, Start, Look, CompleteNamed, ReadPointer, ReadStatus,
    RemovePointer, CreateRun, AppendStarted, WritePointer, Finish, LockToClear, ClearPointer,
    CreateFails, Crash, Goto, Hold, Done

\* How the status of a run may change.
LEMMA RunSteps ==
  ASSUME IInv, NEW p \in Procs, Act(p), NEW r \in Runs, run'[r] # run[r]
  PROVE  \/ run[r] = "none" /\ run'[r] = "written" /\ pc[p] = "create"
         \/ run[r] = "written" /\ run'[r] = "open" /\ pc[p] = "started" /\ held[p] = r
         \/ run[r] = "open" /\ run'[r] = "closed" /\ pc[p] = "finish"
         \/ run'[r] = "dropped" /\ pc[p] \in {"started", "publish"} /\ held[p] = r
<1> USE DEF IInv, TypeOK, Owns, Goto, Hold, Done
<1>1. CASE AppendStarted(p)
  BY <1>1 DEF AppendStarted
<1>2. CASE \E s \in Runs : CreateRun(p, s)
  BY <1>2 DEF CreateRun
<1>3. CASE Finish(p)
  BY <1>3 DEF Finish
<1>4. CASE CreateFails(p)
  BY <1>4 DEF CreateFails
<1> QED
  BY <1>1, <1>2, <1>3, <1>4
  DEF Act, Command, Step, Start, Look, CompleteNamed, ReadPointer, ReadStatus, RemovePointer,
      WritePointer, LockToClear, ClearPointer, Crash

\* The pointer changes to nothing, or to the run that run start publishes.
LEMMA PointerSteps ==
  ASSUME TypeOK, NEW p \in Procs, Act(p), pointer' # pointer
  PROVE  \/ pointer' = NoRun
         \/ pc[p] = "publish" /\ pointer' = held[p] /\ run' = run
BY DEF TypeOK, Act, Command, Step, Start, Look, CompleteNamed, ReadPointer, ReadStatus,
       RemovePointer, CreateRun, AppendStarted, WritePointer, Finish, LockToClear, ClearPointer,
       CreateFails, Crash, Goto, Hold, Done

\* The pointer goes on naming a run that has started.
LEMMA PointedKept == ASSUME IInv, NEW p \in Procs, Act(p) PROVE PointedRunStarted'
<1> SUFFICES ASSUME pointer' # NoRun PROVE run'[pointer'] \in {"open", "closed"}
  BY DEF PointedRunStarted
<1>1. CASE pointer' = pointer
  <2>1. pointer \in Runs /\ run[pointer] \in {"open", "closed"}
    BY <1>1 DEF IInv, TypeOK, PointedRunStarted
  <2>2. CASE run'[pointer] = run[pointer]
    BY <1>1, <2>1, <2>2
  <2>3. CASE run'[pointer] # run[pointer]
    BY <1>1, <2>1, <2>3, RunSteps DEF IInv, Owns
  <2> QED BY <2>2, <2>3
<1>2. CASE pointer' # pointer
  BY <1>2, PointerSteps DEF IInv, Owns
<1> QED BY <1>1, <1>2

\* What the other processes rely on.
LEMMA OthersOwn ==
  ASSUME IInv, NEW p \in Procs, Act(p), NEW q \in Procs, q # p
  PROVE  Owns(q)'
<1>1. /\ pc'[q] = pc[q] /\ task'[q] = task[q] /\ held'[q] = held[q]
      /\ lock = q => lock' = q
  BY OthersKept DEF IInv
<1>2. Owns(q) /\ Owns(p)
  BY DEF IInv
<1>3. ASSUME pc[q] \in {"started", "publish"} PROVE pc[p] \notin {"create", "started", "publish"}
  BY <1>2, <1>3 DEF Owns
<1>4. CASE pc[q] = "started"
  <2>1. held[q] \in Runs /\ run[held[q]] = "written"
    BY <1>2, <1>4 DEF Owns
  <2>2. run'[held[q]] = run[held[q]]
    BY <2>1, <1>3, <1>4, RunSteps
  <2> QED BY <1>1, <1>2, <1>4, <2>1, <2>2 DEF Owns
<1>5. CASE pc[q] = "publish"
  <2>1. held[q] \in Runs /\ run[held[q]] \in {"open", "closed"} /\ pointer # held[q]
    BY <1>2, <1>5 DEF Owns
  <2>2. run'[held[q]] \in {"open", "closed"}
    BY <2>1, <1>3, <1>5, RunSteps
  <2>3. pointer' # held[q]
    BY <2>1, <1>3, <1>5, PointerSteps, NoRunAssumption DEF IInv
  <2> QED BY <1>1, <1>2, <1>5, <2>1, <2>2, <2>3 DEF Owns
<1>6. CASE pc[q] \in {"clear", "cleared"}
  <2>1. held[q] \in Runs /\ run[held[q]] \in {"closed", "dropped"}
    BY <1>2, <1>6 DEF Owns
  <2>2. run'[held[q]] \in {"closed", "dropped"}
    BY <2>1, <1>2, RunSteps DEF Owns
  <2> QED BY <1>1, <1>2, <1>6, <2>1, <2>2 DEF Owns
<1>7. CASE pc[q] \notin {"started", "publish", "clear", "cleared"}
  BY <1>1, <1>2, <1>7 DEF Owns
<1> QED BY <1>4, <1>5, <1>6, <1>7

\* What the process that takes the step relies on afterwards.
LEMMA SelfOwns == ASSUME IInv, NEW p \in Procs, Act(p) PROVE Owns(p)'
<1> USE NoProcAssumption, NoRunAssumption DEF IInv, TypeOK, Owns, Goto, Hold, Done
<1>1. CASE Start(p)
  BY <1>1 DEF Start
<1>2. ASSUME NEW what \in {"read", "complete"}, Look(p, what) PROVE Owns(p)'
  BY <1>2 DEF Look
<1>3. ASSUME NEW r \in Runs, CompleteNamed(p, r) PROVE Owns(p)'
  BY <1>3 DEF CompleteNamed
<1>4. CASE ReadPointer(p)
  BY <1>4 DEF ReadPointer
<1>5. CASE ReadStatus(p)
  BY <1>5 DEF ReadStatus
<1>6. CASE RemovePointer(p)
  BY <1>6 DEF RemovePointer
<1>7. ASSUME NEW r \in Runs, CreateRun(p, r) PROVE Owns(p)'
  BY <1>7 DEF CreateRun
<1>8. CASE AppendStarted(p)
  \* Nothing names the run yet: a pointer names a started run only.
  BY <1>8 DEF AppendStarted, PointedRunStarted
<1>9. CASE WritePointer(p)
  BY <1>9 DEF WritePointer
<1>10. CASE Finish(p)
  <2>1. CASE run[held[p]] = "open" /\ run' = [run EXCEPT ![held[p]] = "closed"]
             /\ Goto(p, "clear") /\ UNCHANGED <<lock, task, held>>
    BY <1>10, <2>1 DEF Finish
  <2>2. CASE Done(p)
    BY <1>10, <2>2 DEF Finish
  <2> QED BY <1>10, <2>1, <2>2 DEF Finish
<1>11. CASE LockToClear(p)
  BY <1>11 DEF LockToClear
<1>12. CASE ClearPointer(p)
  BY <1>12 DEF ClearPointer
<1>13. CASE CreateFails(p)
  BY <1>13 DEF CreateFails
<1>14. CASE Crash(p)
  BY <1>14 DEF Crash
<1> QED
  BY <1>1, <1>2, <1>3, <1>4, <1>5, <1>6, <1>7, <1>8, <1>9, <1>10, <1>11, <1>12, <1>13, <1>14
  DEF Act, Command, Step

\* Every step preserves the inductive invariant.
LEMMA NextIInv == ASSUME IInv, [Next]_vars PROVE IInv'
<1>1. CASE UNCHANGED vars
  BY <1>1 DEF vars, IInv, TypeOK, PointedRunStarted, Owns
<1>2. ASSUME NEW p \in Procs, Act(p) PROVE IInv'
  <2>1. TypeOK'
    BY <1>2, TypeKept DEF IInv
  <2>2. PointedRunStarted'
    BY <1>2, PointedKept
  <2>3. ASSUME NEW q \in Procs PROVE Owns(q)'
    BY <1>2, SelfOwns, OthersOwn
  <2> QED BY <2>1, <2>2, <2>3 DEF IInv
<1> QED BY <1>1, <1>2 DEF Next, Act

\* The inductive invariant holds throughout.
THEOREM Invariance == Spec => []IInv
<1> QED BY InitIInv, NextIInv, PTL DEF Spec

\* The state of the pointer protocol has its type, for any processes and runs.
THEOREM TypeCorrect == Spec => []TypeOK
<1>1. IInv => TypeOK
  BY DEF IInv
<1> QED BY <1>1, Invariance, PTL

\* The active pointer never names a run without its first event, whoever is
\* killed and whichever write of createRun fails.
THEOREM PointerSound == Spec => []PointedRunStarted
<1>1. IInv => PointedRunStarted
  BY DEF IInv
<1> QED BY <1>1, Invariance, PTL

\* The step of completeRun that removes a pointer removes that of a closed run.
LEMMA ClearingStep ==
  ASSUME IInv, [Next]_vars, NEW p \in Procs,
         pc[p] = "cleared", pc'[p] = "idle", pointer' # pointer
  PROVE  run[pointer] = "closed"
<1>1. PICK q \in Procs : Act(q)
  BY DEF Next, Act, vars
<1>2. q = p
  BY <1>1, OthersKept DEF IInv
<1>3. ClearPointer(p)
  BY <1>1, <1>2
  DEF Act, Command, Step, Start, Look, CompleteNamed, ReadPointer, ReadStatus, RemovePointer,
      CreateRun, AppendStarted, WritePointer, Finish, LockToClear, CreateFails, Crash
<1>4. pointer = held[p]
  BY <1>3 DEF ClearPointer
<1>5. pointer \in Runs /\ pointer # NoRun /\ run[pointer] \in {"closed", "dropped"}
  BY <1>4, NoRunAssumption DEF IInv, Owns
<1> QED BY <1>5 DEF IInv, PointedRunStarted

\* completeRun clears no other run's pointer.
THEOREM OwnPointerCleared == Spec => ClearsOwnPointer
<1>1. IInv /\ [Next]_vars =>
        [\A p \in Procs : (pc[p] = "cleared" /\ pc'[p] = "idle" /\ pointer' # pointer) =>
           run[pointer] = "closed"]_vars
  BY ClearingStep
<1> QED BY <1>1, Invariance, PTL DEF Spec, ClearsOwnPointer
=============================================================================
