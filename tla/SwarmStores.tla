------------------------------ MODULE SwarmStores ------------------------------
(***************************************************************************)
(* The two files that agents rewrite under a swarm lock: the task ledger   *)
(* (src/task-plan-ledger.ts) and an execution card                         *)
(* (src/assurance/execution-cards.ts).  Each has a lock of its own, so a   *)
(* behaviour is about one of them; kind says which.                        *)
(*                                                                         *)
(* An operation reads the whole file inside the section, changes it and    *)
(* replaces it by a rename; a card is created without the lock, with "wx". *)
(*                                                                         *)
(* Left out: titles, artifact paths, times.  Bounds: MaxWrites, and no     *)
(* operation begins after a fault (those that run go on).                  *)
(***************************************************************************)
EXTENDS SwarmLock, Sequences, SequencesExt

CONSTANTS
  Tasks,     \* ids of tasks
  NotFound,  \* there is no ledger or card, or it cannot be read
  Unwritten, \* a card file that is created and not yet written
  MaxWrites  \* bound: writes in a behaviour

ASSUME WritesAssumption == MaxWrites \in Nat /\ IsFiniteSet(Agents)

VARIABLES
  kind,   \* "ledger" or "card"
  store,  \* the file
  snap,   \* what each agent has read
  writes, \* operations that were written
  serial  \* history: what these operations make one after the other, until a fault

vars == <<lockVars, kind, store, snap, writes, serial>>

PHASE_ORDER == <<"Discovery", "Specification", "TestPlan", "Implementation", "VerificationGate">>
Phases == Range(PHASE_ORDER)
TaskStatus == {"pending", "completed"}

LedgerJobs == [op : {"init"}] \cup [op : {"add"}, task : Tasks]
              \cup [op : {"update"}, task : Tasks, status : TaskStatus]
CardJobs == [op : {"create"}] \cup [op : {"advance"}, to : Phases]
Jobs == LedgerJobs \cup CardJobs

Ledgers == Seq([id : Tasks, status : TaskStatus])
Cards == [currentPhase : Phases, history : Seq(Phases)]
Stored(s) == IF kind = "ledger" THEN s \in Ledgers ELSE s \in Cards

\* A file that cannot be read is neither.
ASSUME StoreAssumption ==
  NotFound # Unwritten /\ \A s \in {NotFound, Unwritten} : s \notin Ledgers /\ s \notin Cards

Init ==
  /\ LockInit
  /\ kind \in {"ledger", "card"}
  /\ store = NotFound
  /\ snap = [a \in Agents |-> NotFound]
  /\ writes = 0
  /\ serial = NotFound

-----------------------------------------------------------------------------
HasTask(ledger, t) == \E i \in DOMAIN ledger : ledger[i].id = t

\* tasks.find: the first with the id.
FirstWith(ledger, t) ==
  CHOOSE i \in DOMAIN ledger :
    ledger[i].id = t /\ \A k \in 1..(i - 1) : ledger[k].id # t

PhaseIndex(phase) == CHOOSE i \in DOMAIN PHASE_ORDER : PHASE_ORDER[i] = phase

NewCard == [currentPhase |-> PHASE_ORDER[1], history |-> <<PHASE_ORDER[1]>>]

\* Is there anything to write?  An initialised ledger stays; a task or card
\* that is not there and a phase that is not the next are errors.
Permitted(s, j) ==
  CASE j.op = "init"    -> s = NotFound
    [] j.op = "add"     -> TRUE
    [] j.op = "update"  -> s # NotFound /\ HasTask(s, j.task)
    [] j.op = "advance" -> s # NotFound /\ PhaseIndex(j.to) = PhaseIndex(s.currentPhase) + 1

\* initTaskLedger, addTask, updateTaskStatus, createExecutionCard and
\* advanceCardPhase: what is written, given what was read.  A task may be
\* added under an id that is taken.
Result(s, j) ==
  CASE j.op = "init"    -> <<>>
    [] j.op = "add"     ->
         Append(IF s = NotFound THEN <<>> ELSE s, [id |-> j.task, status |-> "pending"])
    [] j.op = "update"  -> [s EXCEPT ![FirstWith(s, j.task)].status = j.status]
    [] j.op = "create"  -> NewCard
    [] j.op = "advance" ->
         [currentPhase |-> j.to, history |-> Append(s.history, j.to)]

Idle(a) == pc[a] = "idle" /\ a \notin gone

\* An agent starts an operation under the lock.
Begin(a) ==
  /\ Idle(a)
  /\ writes < MaxWrites
  /\ faults = {}
  /\ BeginAttempt(a)
  /\ UNCHANGED <<file, recovery, gone, clock, faults, kind, store, snap, writes, serial>>

Lock(a) == LockStep(a) /\ UNCHANGED <<kind, store, snap, writes, serial>>

Written(j) ==
  /\ writes' = writes + 1
  /\ serial' = IF faults = {} THEN Result(serial, j) ELSE NotFound

\* createExecutionCard: open(path, "wx"), without the lock.
OpenCard(a) ==
  /\ Idle(a)
  /\ kind = "card"
  /\ writes < MaxWrites
  /\ faults = {}
  /\ store = NotFound
  /\ store' = Unwritten
  /\ Goto(a, "card")
  /\ UNCHANGED <<file, recovery, now, attempt, gone, clock, faults, kind, snap, writes, serial>>

\* The card is written, or the write fails and the file stays as it is.
WriteCard(a) ==
  /\ pc[a] = "card"
  /\ \/ store' = NewCard /\ Written([op |-> "create"])
     \/ MayFail /\ UNCHANGED <<store, writes, serial>>
  /\ Goto(a, "idle")
  /\ UNCHANGED <<file, recovery, now, attempt, gone, clock, faults, kind, snap>>

Readable(s) == IF s = Unwritten THEN NotFound ELSE s

\* Mutant: the store is read before the lock is taken (the section then only
\* writes), so that what was read may be out of date.
MutReadStore(a) ==
  /\ pc[a] \in {"create", "fill", "work"}
  /\ IF snap[a] = NotFound
       THEN snap' = [snap EXCEPT ![a] = Readable(store)] ELSE UNCHANGED snap
  /\ IF pc[a] = "work" THEN Goto(a, "write") ELSE UNCHANGED pc
  /\ UNCHANGED <<file, recovery, now, attempt, gone, clock, faults, kind, store, writes, serial>>

\* readTaskLedger and getExecutionCard: whatever goes wrong, nothing is found.
ReadStore(a) ==
  /\ pc[a] = "work"
  /\ \/ snap' = [snap EXCEPT ![a] = Readable(store)] /\ UNCHANGED faults
     \/ /\ MayFail
        /\ snap' = [snap EXCEPT ![a] = NotFound]
        /\ faults' = faults \cup {"unread"}
  /\ Goto(a, "write")
  /\ UNCHANGED <<file, recovery, now, attempt, gone, clock, kind, store, writes, serial>>

\* The operation changes what it read and replaces the file.
WriteStore(a, j) ==
  /\ pc[a] = "write"
  /\ IF kind = "ledger" THEN j \in LedgerJobs ELSE j \in CardJobs \ [op : {"create"}]
  /\ Permitted(snap[a], j)
  /\ store' = Result(snap[a], j)
  /\ Written(j)
  /\ snap' = [snap EXCEPT ![a] = NotFound]
  /\ Goto(a, "release")
  /\ UNCHANGED <<file, recovery, now, attempt, gone, clock, faults, kind>>

\* There is nothing to write, or writing fails; the lock is released all the
\* same.
WriteNothing(a) ==
  /\ pc[a] = "write"
  /\ snap' = [snap EXCEPT ![a] = NotFound]
  /\ Goto(a, "release")
  /\ UNCHANGED <<file, recovery, now, attempt, gone, clock, faults, kind, store, writes, serial>>

Kill(a) ==
  /\ Killed(a)
  /\ snap' = [snap EXCEPT ![a] = NotFound]
  /\ UNCHANGED <<kind, store, writes, serial>>

Next ==
  \/ \E a \in Agents :
       \/ Begin(a)
       \/ Lock(a)
       \/ OpenCard(a)
       \/ WriteCard(a)
       \/ ReadStore(a)
       \/ \E j \in Jobs : WriteStore(a, j)
       \/ WriteNothing(a)
       \/ Kill(a)
  \/ Tick /\ UNCHANGED <<kind, store, snap, writes, serial>>

Spec == Init /\ [][Next]_vars

-----------------------------------------------------------------------------
\* Type invariant.
TypeOK ==
  /\ LockTypeOK
  /\ kind \in {"ledger", "card"}
  /\ store \in {NotFound, Unwritten} \/ Stored(store)
  /\ DOMAIN snap = Agents
  /\ \A a \in Agents : snap[a] = NotFound \/ Stored(snap[a])
  /\ writes \in 0..(MaxWrites + Cardinality(Agents))
  /\ serial = NotFound \/ Stored(serial)

\* Every operation that reported success is in the file, as if the operations
\* had run one after the other: no update is lost, none is applied twice, a
\* ledger is never initialised over tasks.  It holds while no owner outlives
\* its lock, no recoverer acts on a missing or half-created file and no read
\* fails; kills and failing writes do not disturb it.
Serializable ==
  faults = {} => Readable(store) = serial
=============================================================================
