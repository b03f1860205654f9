------------------------------ MODULE SwarmProofs ------------------------------
(***************************************************************************)
(* Proofs about the swarm lock and the two stores that agents rewrite      *)
(* under it, for any number of agents, attempts, writes and kills and any  *)
(* lifetime: the lock is exclusive, and no operation on a store is lost or *)
(* applied twice, as long as none of the faults happens that the code does *)
(* not guard against.                                                      *)
(***************************************************************************)
EXTENDS SwarmStores, FiniteSetTheorems, SequenceTheorems, TLAPS

\* Nobody outlived its lock or took a half-created file for a damaged one.
Guarded == faults \cap {"late", "blind"} = {}

\* The agent created the file that is there now.
Holder(a) == pc[a] \in {"fill", "work", "write", "release", "unlink"}

\* The file carries the payload of its holder, which has not expired; one
\* agent at a time is in the recovery, and the file it is about to remove has
\* no holder and will not get one before it is removed.
LockInv ==
  /\ \A a \in Agents : pc[a] \in {"recheck", "remove"} => recovery = a
  /\ Guarded => \A a \in Agents :
       /\ Holder(a) => /\ file # NoFile /\ file.owner = a /\ file.at = now[a]
                       /\ file.filled = (pc[a] # "fill")
       /\ pc[a] \in Owning => clock <= now[a] + Ttl
       /\ pc[a] = "remove" => file # NoFile /\ \A b \in Agents : ~Holder(b)

\* An agent that is not in an acquisition has begun none.
RestInv ==
  \A a \in Agents : /\ pc[a] \in {"idle", "card"} => attempt[a] = 0
                    /\ pc[a] = "card" => kind = "card"

\* While no fault has happened: what an agent is about to change is what is
\* in the store, but for a card that another agent creates after it was looked
\* for in vain; a card is created once and nobody writes it before.
StoreInv ==
  /\ kind = "ledger" => store # Unwritten
  /\ faults = {} =>
       /\ Serializable
       /\ \A a \in Agents :
            /\ pc[a] = "write" => snap[a] = serial \/ (kind = "card" /\ snap[a] = NotFound)
            /\ pc[a] = "card" => /\ store = Unwritten
                                 /\ \A b \in Agents : pc[b] = "card" => b = a

\* Operations that are under way may still write once each.
Writers == {a \in Agents : pc[a] \notin {"idle", "release", "unlink"}}
WritesInv == writes + Cardinality(Writers) <= MaxWrites + Cardinality(Agents)

IInv == TypeOK /\ LockInv /\ RestInv /\ StoreInv /\ WritesInv

-----------------------------------------------------------------------------
\* The operators of the stores.

\* The constants that stand for "nothing there" are told apart from contents.
LEMMA StoredIsThere ==
  ASSUME NEW s, Stored(s)
  PROVE  s # NotFound /\ s # Unwritten /\ Readable(s) = s
BY StoreAssumption DEF Stored, Readable

\* A phase that has a name is one of PHASE_ORDER.
LEMMA FirstPhase == PHASE_ORDER[1] \in Phases
BY DEF PHASE_ORDER, Phases, Range

\* A card as it is created is a card.
LEMMA NewCardIsCard == NewCard \in Cards
<1>1. <<PHASE_ORDER[1]>> \in Seq(Phases)
  BY FirstPhase
<1> QED BY <1>1, FirstPhase DEF NewCard, Cards

\* Marking the task that was found keeps the ledger a ledger.
LEMMA MarkedIsLedger ==
  ASSUME NEW s \in Ledgers, NEW i, NEW v \in TaskStatus
  PROVE  [s EXCEPT ![i].status = v] \in Ledgers
<1> DEFINE Item == [id : Tasks, status : TaskStatus]
<1>1. PICK n \in Nat : s \in [1..n -> Item]
  <2>1. s \in Seq(Item)
    BY DEF Ledgers
  <2> HIDE DEF Item
  <2> QED BY <2>1, SeqDef
<1>2. [s EXCEPT ![i].status = v] \in [1..n -> Item]
  BY <1>1
<1> HIDE DEF Item
<1>3. [s EXCEPT ![i].status = v] \in Seq(Item)
  BY ZenonT(30), <1>2, SeqDef
<1> QED BY <1>3 DEF Ledgers, Item

\* What an operation that is permitted writes is a ledger, or a card.
LEMMA ResultIsStored ==
  ASSUME NEW s, s = NotFound \/ Stored(s), NEW j,
         IF kind = "ledger" THEN j \in LedgerJobs ELSE j \in CardJobs \ [op : {"create"}],
         Permitted(s, j)
  PROVE  Stored(Result(s, j))
<1>1. ASSUME kind = "ledger", j.op = "init" PROVE Result(s, j) \in Ledgers
  BY <1>1 DEF Result, Ledgers
<1>2. ASSUME kind = "ledger", j.op = "add" PROVE Result(s, j) \in Ledgers
  <2> DEFINE before == IF s = NotFound THEN <<>> ELSE s
             item == [id |-> j.task, status |-> "pending"]
  <2>1. before \in Ledgers
    BY <1>2 DEF Stored, Ledgers
  <2>2. j.task \in Tasks
    BY <1>2 DEF LedgerJobs
  <2>3. item \in [id : Tasks, status : TaskStatus]
    BY <2>2 DEF TaskStatus
  <2>4. Append(before, item) \in Ledgers
    BY <2>1, <2>3 DEF Ledgers
  <2> QED BY <1>2, <2>4 DEF Result
<1>3. ASSUME kind = "ledger", j.op = "update" PROVE Result(s, j) \in Ledgers
  <2>1. j.status \in TaskStatus /\ s \in Ledgers
    BY <1>3 DEF LedgerJobs, Permitted, Stored
  <2> QED BY <1>3, <2>1, MarkedIsLedger DEF Result
<1>4. ASSUME kind # "ledger" PROVE Result(s, j) \in Cards
  <2>1. j.op = "advance" /\ j.to \in Phases /\ s \in Cards
    BY <1>4 DEF CardJobs, Permitted, Stored
  <2>2. Append(s.history, j.to) \in Seq(Phases)
    BY <2>1 DEF Cards
  <2> QED BY <2>1, <2>2 DEF Result, Cards
<1>5. kind = "ledger" => j.op \in {"init", "add", "update"}
  BY DEF LedgerJobs
<1> QED BY <1>1, <1>2, <1>3, <1>4, <1>5 DEF Stored
-----------------------------------------------------------------------------
\* Initially nothing is there and nobody is at work.
LEMMA InitIInv == Init => IInv
<1> SUFFICES ASSUME Init PROVE IInv
  OBVIOUS
<1> USE DEF Init, LockInit
<1>1. TypeOK
  <2>1. LockTypeOK
    BY LimitsAssumption DEF LockTypeOK, Steps
  <2>2. Cardinality(Agents) \in Nat
    BY WritesAssumption, FS_CardinalityType
  <2> QED BY <2>1, <2>2, WritesAssumption DEF TypeOK
<1>2. LockInv /\ RestInv /\ StoreInv
  BY StoreAssumption DEF LockInv, Guarded, Holder, Owning, RestInv, StoreInv, Serializable, Readable
<1>3. WritesInv
  <2>1. Writers = {}
    BY DEF Writers
  <2>2. Cardinality(Agents) \in Nat
    BY WritesAssumption, FS_CardinalityType
  <2> QED BY <2>1, <2>2, FS_EmptySet, WritesAssumption DEF WritesInv
<1> QED BY <1>1, <1>2, <1>3 DEF IInv

-----------------------------------------------------------------------------
\* The steps of the lock keep the types of its variables.
LEMMA LockStepKeepsTypes ==
  ASSUME LockTypeOK, RestInv, NEW a \in Agents, LockStep(a)
  PROVE  LockTypeOK'
<1> USE DEF LockTypeOK, Goto, Steps, Done, Faults
<1> USE LimitsAssumption
<1>1. ASSUME Create(a) PROVE LockTypeOK'
  <2>1. [owner |-> a, at |-> now[a], filled |-> FALSE] \in LockPayload
    BY DEF LockPayload
  <2> QED BY <1>1, <2>1 DEF Create
<1>2. ASSUME Fill(a) PROVE LockTypeOK'
  <2>1. file \in LockPayload => [file EXCEPT !.filled = TRUE] \in LockPayload
    BY DEF LockPayload
  <2>2. file' \in LockPayload \cup {NoFile}
    BY <1>2, <2>1 DEF Fill
  <2> QED BY <1>2, <2>2 DEF Fill
<1>3. ASSUME Read(a) PROVE LockTypeOK'
  BY <1>3 DEF Read
<1>4. ASSUME TakeRecovery(a) PROVE LockTypeOK'
  BY <1>4 DEF TakeRecovery
<1>5. ASSUME Recheck(a) PROVE LockTypeOK'
  BY <1>5 DEF Recheck
<1>6. ASSUME RemoveLock(a) PROVE LockTypeOK'
  BY <1>6 DEF RemoveLock
<1>7. ASSUME DropRecovery(a) PROVE LockTypeOK'
  BY <1>7 DEF DropRecovery, BeginAttempt
<1>8. ASSUME Compare(a) PROVE LockTypeOK'
  BY <1>8 DEF Compare
<1>9. ASSUME Unlink(a) PROVE LockTypeOK'
  BY <1>9 DEF Unlink
<1> QED BY <1>1, <1>2, <1>3, <1>4, <1>5, <1>6, <1>7, <1>8, <1>9 DEF LockStep

\* So do the steps of the stores.
LEMMA LockTypesKept ==
  ASSUME LockTypeOK, RestInv, [Next]_vars
  PROVE  LockTypeOK'
<1> USE DEF LockTypeOK, Goto, Steps, Done, Faults
<1> USE LimitsAssumption
<1>1. CASE UNCHANGED vars
  BY <1>1 DEF vars, lockVars
<1>2. ASSUME NEW a \in Agents, Begin(a) PROVE LockTypeOK'
  BY <1>2 DEF Begin, BeginAttempt, RestInv, Idle
<1>3. ASSUME NEW a \in Agents, Lock(a) PROVE LockTypeOK'
  BY <1>3, LockStepKeepsTypes DEF Lock
<1>4. ASSUME NEW a \in Agents, OpenCard(a) PROVE LockTypeOK'
  BY <1>4 DEF OpenCard
<1>5. ASSUME NEW a \in Agents, WriteCard(a) PROVE LockTypeOK'
  BY <1>5 DEF WriteCard
<1>6. ASSUME NEW a \in Agents, ReadStore(a) PROVE LockTypeOK'
  BY <1>6 DEF ReadStore
<1>7. ASSUME NEW a \in Agents, NEW j \in Jobs, WriteStore(a, j) PROVE LockTypeOK'
  BY <1>7 DEF WriteStore
<1>8. ASSUME NEW a \in Agents, WriteNothing(a) PROVE LockTypeOK'
  BY <1>8 DEF WriteNothing
<1>9. ASSUME NEW a \in Agents, Kill(a) PROVE LockTypeOK'
  BY <1>9 DEF Kill, Killed
<1>10. ASSUME Tick PROVE LockTypeOK'
  BY <1>10 DEF Tick
<1> QED BY <1>1, <1>2, <1>3, <1>4, <1>5, <1>6, <1>7, <1>8, <1>9, <1>10 DEF Next
\* Types of the variables of the stores, but for the bound on writes.
StoreTypes ==
  /\ kind \in {"ledger", "card"}
  /\ store \in {NotFound, Unwritten} \/ Stored(store)
  /\ DOMAIN snap = Agents
  /\ \A a \in Agents : snap[a] = NotFound \/ Stored(snap[a])
  /\ writes \in Nat
  /\ serial = NotFound \/ Stored(serial)

\* What was written is of the type of the file, and so is what the same
\* operations make one after the other.
LEMMA StoreTypesKept ==
  ASSUME LockTypeOK, StoreTypes, RestInv, StoreInv, [Next]_vars
  PROVE  StoreTypes'
<1> USE DEF StoreTypes
<1>1. CASE UNCHANGED vars
  BY <1>1 DEF vars, Stored
<1>2. ASSUME UNCHANGED <<kind, store, snap, writes, serial>> PROVE StoreTypes'
  BY <1>2 DEF Stored
<1>3. ASSUME NEW a \in Agents, OpenCard(a) PROVE StoreTypes'
  BY <1>3 DEF OpenCard, Stored
<1>4. ASSUME NEW a \in Agents, WriteCard(a) PROVE StoreTypes'
  <2>1. kind = "card" /\ UNCHANGED <<kind, snap>>
    BY <1>4 DEF WriteCard, RestInv
  <2>2. CASE UNCHANGED <<store, writes, serial>>
    BY <2>1, <2>2 DEF Stored
  <2>3. CASE store' = NewCard /\ Written([op |-> "create"])
    <3>1. Result(serial, [op |-> "create"]) = NewCard
      BY DEF Result
    <3>2. Stored(NewCard)'
      BY <2>1, NewCardIsCard DEF Stored
    <3>3. serial' \in {NewCard, NotFound} /\ writes' = writes + 1
      BY <2>3, <3>1 DEF Written
    <3> QED BY <2>1, <2>3, <3>2, <3>3 DEF Stored
  <2> QED BY <1>4, <2>2, <2>3 DEF WriteCard
<1>5. ASSUME NEW a \in Agents, ReadStore(a) PROVE StoreTypes'
  <2>1. Readable(store) = NotFound \/ Stored(Readable(store))
    BY DEF Readable
  <2> QED BY <1>5, <2>1 DEF ReadStore, Stored
<1>6. ASSUME NEW a \in Agents, NEW j \in Jobs, WriteStore(a, j) PROVE StoreTypes'
  <2>1. /\ IF kind = "ledger" THEN j \in LedgerJobs ELSE j \in CardJobs \ [op : {"create"}]
        /\ Permitted(snap[a], j)
        /\ store' = Result(snap[a], j)
        /\ Written(j)
        /\ snap' = [snap EXCEPT ![a] = NotFound]
        /\ kind' = kind /\ pc[a] = "write"
    BY <1>6 DEF WriteStore
  <2>2. Stored(Result(snap[a], j))
    BY <2>1, ResultIsStored
  <2>3. serial' = NotFound \/ Stored(serial')
    <3>1. CASE faults # {}
      BY <2>1, <3>1 DEF Written
    <3>2. CASE faults = {}
      <4>1. snap[a] = serial \/ (kind = "card" /\ snap[a] = NotFound)
        BY <2>1, <3>2 DEF StoreInv
      <4>2. kind = "card" => snap[a] # NotFound
        BY <2>1 DEF Permitted, CardJobs
      <4>3. serial' = Result(snap[a], j)
        BY <2>1, <3>2, <4>1, <4>2 DEF Written
      <4> QED BY <2>2, <4>3
    <3> QED BY <3>1, <3>2
  <2>4. writes' \in Nat
    BY <2>1 DEF Written
  <2> QED BY <2>1, <2>2, <2>3, <2>4 DEF Stored
<1>7. ASSUME NEW a \in Agents, WriteNothing(a) PROVE StoreTypes'
  BY <1>7 DEF WriteNothing, Stored
<1>8. ASSUME NEW a \in Agents, Kill(a) PROVE StoreTypes'
  BY <1>8 DEF Kill, Stored
<1> QED BY <1>1, <1>2, <1>3, <1>4, <1>5, <1>6, <1>7, <1>8 DEF Next, Begin, Lock

-----------------------------------------------------------------------------
\* Nobody is in an acquisition that has not begun.
LEMMA RestInvKept ==
  ASSUME LockTypeOK, RestInv, [Next]_vars
  PROVE  RestInv'
<1> USE DEF RestInv, LockTypeOK, Goto, Done
<1>1. CASE UNCHANGED vars
  BY <1>1 DEF vars, lockVars
<1>2. ASSUME NEW a \in Agents, Begin(a) PROVE RestInv'
  BY <1>2 DEF Begin, BeginAttempt
<1>3. ASSUME NEW a \in Agents, Lock(a) PROVE RestInv'
  <2>1. kind' = kind
    BY <1>3 DEF Lock
  <2>2. CASE Create(a)
    BY <2>1, <2>2 DEF Create
  <2>3. CASE Fill(a)
    BY <2>1, <2>3 DEF Fill
  <2>4. CASE Read(a)
    BY <2>1, <2>4 DEF Read
  <2>5. CASE TakeRecovery(a)
    BY <2>1, <2>5 DEF TakeRecovery
  <2>6. CASE Recheck(a)
    BY <2>1, <2>6 DEF Recheck
  <2>7. CASE RemoveLock(a)
    BY <2>1, <2>7 DEF RemoveLock
  <2>8. CASE DropRecovery(a)
    BY <2>1, <2>8 DEF DropRecovery, BeginAttempt
  <2>9. CASE Compare(a)
    BY <2>1, <2>9 DEF Compare
  <2>10. CASE Unlink(a)
    BY <2>1, <2>10 DEF Unlink
  <2> QED BY <1>3, <2>2, <2>3, <2>4, <2>5, <2>6, <2>7, <2>8, <2>9, <2>10 DEF Lock, LockStep
<1>4. ASSUME NEW a \in Agents, OpenCard(a) PROVE RestInv'
  BY <1>4 DEF OpenCard, Idle
<1>5. ASSUME NEW a \in Agents, WriteCard(a) PROVE RestInv'
  BY <1>5 DEF WriteCard
<1>6. ASSUME NEW a \in Agents, ReadStore(a) PROVE RestInv'
  BY <1>6 DEF ReadStore
<1>7. ASSUME NEW a \in Agents, NEW j \in Jobs, WriteStore(a, j) PROVE RestInv'
  BY <1>7 DEF WriteStore
<1>8. ASSUME NEW a \in Agents, WriteNothing(a) PROVE RestInv'
  BY <1>8 DEF WriteNothing
<1>9. ASSUME NEW a \in Agents, Kill(a) PROVE RestInv'
  BY <1>9 DEF Kill, Killed
<1>10. ASSUME Tick /\ UNCHANGED <<kind, store, snap, writes, serial>> PROVE RestInv'
  BY <1>10 DEF Tick
<1> QED BY <1>1, <1>2, <1>3, <1>4, <1>5, <1>6, <1>7, <1>8, <1>9, <1>10 DEF Next

-----------------------------------------------------------------------------
\* A step of the lock keeps LockInv: what the lock relies on is that a file is
\* created only where there is none, and removed by its holder or by the one
\* agent in the recovery, after a second look.
LEMMA LockStepKeepsLockInv ==
  ASSUME LockTypeOK, LockInv, NEW a \in Agents, LockStep(a)
  PROVE  LockInv'
<1> USE DEF LockTypeOK, LockInv, Guarded, Holder, Owning, Goto, Done
<1>1. ASSUME Create(a) PROVE LockInv'
  <2>1. CASE file = NoFile
    <3>1. file' = [owner |-> a, at |-> now[a], filled |-> FALSE]
          /\ pc' = [pc EXCEPT ![a] = "fill"]
          /\ UNCHANGED <<recovery, now, attempt, gone, clock, faults>> /\ pc[a] = "create"
      BY <1>1, <2>1 DEF Create
    <3>2. file' # NoFile /\ file'.owner = a /\ file'.at = now[a] /\ ~file'.filled
      <4>1. [owner |-> a, at |-> now[a], filled |-> FALSE] \in LockPayload
        BY DEF LockPayload
      <4>2. file' # NoFile
        BY <3>1, <4>1, NoFileAssumption
      <4> QED BY <3>1, <4>2
    <3>3. ASSUME Guarded' PROVE \A b \in Agents : b # a => ~Holder(b) /\ pc[b] # "remove"
      BY <2>1, <3>1, <3>3
    <3> QED BY <3>1, <3>2, <3>3
  <2>2. CASE file # NoFile
    BY <1>1, <2>2 DEF Create
  <2> QED BY <2>1, <2>2
<1>2. ASSUME Fill(a) PROVE LockInv'
  <2>1. file # NoFile => /\ [file EXCEPT !.filled = TRUE] \in LockPayload
                         /\ [file EXCEPT !.filled = TRUE].owner = file.owner
                         /\ [file EXCEPT !.filled = TRUE].at = file.at
                         /\ [file EXCEPT !.filled = TRUE].filled
    BY DEF LockPayload
  <2>2. CASE Done(a) /\ UNCHANGED file
    BY <1>2, <2>2 DEF Fill
  <2>3. CASE /\ file' = IF file # NoFile /\ file.owner = a
                          THEN [file EXCEPT !.filled = TRUE] ELSE file
             /\ Goto(a, "work")
             /\ UNCHANGED <<now, attempt>>
    <3>1. Guarded => /\ file' # NoFile /\ file'.owner = a /\ file'.at = now[a] /\ file'.filled
                     /\ \A b \in Agents : Holder(b) => b = a
      BY <1>2, <2>1, <2>3, NoFileAssumption DEF Fill
    <3>2. /\ pc' = [pc EXCEPT ![a] = "work"] /\ pc[a] = "fill"
          /\ UNCHANGED <<now, attempt, recovery, clock, faults>>
      BY <1>2, <2>3 DEF Fill
    <3> QED BY <3>1, <3>2
  <2> QED BY <1>2, <2>2, <2>3 DEF Fill
<1>3. ASSUME Read(a) PROVE LockInv'
  BY <1>3 DEF Read
<1>4. ASSUME TakeRecovery(a) PROVE LockInv'
  BY <1>4, NobodyAssumption DEF TakeRecovery
<1>5. ASSUME Recheck(a) PROVE LockInv'
  BY <1>5, LimitsAssumption DEF Recheck, Unreadable, IsExpired, LockPayload
<1>6. ASSUME RemoveLock(a) PROVE LockInv'
  BY <1>6 DEF RemoveLock
<1>7. ASSUME DropRecovery(a) PROVE LockInv'
  BY <1>7, NobodyAssumption, LimitsAssumption DEF DropRecovery, BeginAttempt
<1>8. ASSUME Compare(a) PROVE LockInv'
  BY <1>8 DEF Compare
<1>9. ASSUME Unlink(a) PROVE LockInv'
  BY <1>9 DEF Unlink
<1> QED BY <1>1, <1>2, <1>3, <1>4, <1>5, <1>6, <1>7, <1>8, <1>9 DEF LockStep
\* So does every other step: a section only moves its agent on, and the clock
\* does not pass the lifetime of a holder unless it is noted.
LEMMA LockInvKept ==
  ASSUME LockTypeOK, LockInv, [Next]_vars
  PROVE  LockInv'
<1> USE DEF LockTypeOK, LockInv, Guarded, Holder, Owning, Goto, Done
<1>1. CASE UNCHANGED vars
  BY <1>1 DEF vars, lockVars
<1>2. ASSUME NEW a \in Agents, Begin(a) PROVE LockInv'
  BY <1>2, LimitsAssumption DEF Begin, BeginAttempt, Idle
<1>3. ASSUME NEW a \in Agents, Lock(a) PROVE LockInv'
  BY <1>3, LockStepKeepsLockInv DEF Lock
<1>4. ASSUME NEW a \in Agents, OpenCard(a) PROVE LockInv'
  BY <1>4 DEF OpenCard, Idle
<1>5. ASSUME NEW a \in Agents, WriteCard(a) PROVE LockInv'
  BY <1>5 DEF WriteCard
<1>6. ASSUME NEW a \in Agents, ReadStore(a) PROVE LockInv'
  BY <1>6 DEF ReadStore
<1>7. ASSUME NEW a \in Agents, NEW j \in Jobs, WriteStore(a, j) PROVE LockInv'
  BY <1>7 DEF WriteStore
<1>8. ASSUME NEW a \in Agents, WriteNothing(a) PROVE LockInv'
  BY <1>8 DEF WriteNothing
<1>9. ASSUME NEW a \in Agents, Kill(a) PROVE LockInv'
  BY <1>9 DEF Kill, Killed
<1>10. ASSUME Tick PROVE LockInv'
  BY <1>10, LimitsAssumption DEF Tick
<1> QED BY <1>1, <1>2, <1>3, <1>4, <1>5, <1>6, <1>7, <1>8, <1>9, <1>10 DEF Next

\* What the invariant says of two agents in the section.
LEMMA OneInSection ==
  ASSUME LockInv
  PROVE  Exclusive
BY DEF LockInv, Guarded, Holder, Exclusive, InSection

-----------------------------------------------------------------------------
\* A step of the lock says nothing of the stores, and brings nobody to the
\* point where it writes.
LEMMA LockStepApart ==
  ASSUME LockTypeOK, NEW a \in Agents, LockStep(a)
  PROVE  /\ \A b \in Agents : pc'[b] \in {"write", "card"} => pc[b] = pc'[b]
         /\ faults \subseteq faults'
<1> USE DEF LockTypeOK, Goto, Done
<1>1. CASE Create(a)
  BY <1>1 DEF Create
<1>2. CASE Fill(a)
  BY <1>2 DEF Fill
<1>3. CASE Read(a)
  BY <1>3 DEF Read
<1>4. CASE TakeRecovery(a)
  BY <1>4 DEF TakeRecovery
<1>5. CASE Recheck(a)
  BY <1>5 DEF Recheck
<1>6. CASE RemoveLock(a)
  BY <1>6 DEF RemoveLock
<1>7. CASE DropRecovery(a)
  BY <1>7 DEF DropRecovery, BeginAttempt
<1>8. CASE Compare(a)
  BY <1>8 DEF Compare
<1>9. CASE Unlink(a)
  BY <1>9 DEF Unlink
<1> QED BY <1>1, <1>2, <1>3, <1>4, <1>5, <1>6, <1>7, <1>8, <1>9 DEF LockStep

\* A step that leaves the stores alone, brings nobody to the point where it
\* writes, and forgets no fault, keeps StoreInv.
LEMMA StoresApart ==
  ASSUME StoreInv, UNCHANGED <<kind, store, snap, writes, serial>>,
         \A b \in Agents : pc'[b] \in {"write", "card"} => pc[b] = pc'[b],
         faults \subseteq faults'
  PROVE  StoreInv'
<1>1. faults' = {} => faults = {}
  OBVIOUS
<1> QED BY <1>1 DEF StoreInv, Serializable, Readable

\* Steps keep the store equal to the serial result: the agent that writes is
\* alone in the section, and what it has read is what is there.
LEMMA StoreInvKept ==
  ASSUME LockTypeOK, StoreTypes, StoreTypes', RestInv, LockInv, StoreInv, [Next]_vars
  PROVE  StoreInv'
<1> USE DEF LockTypeOK, Goto
<1>1. CASE UNCHANGED vars
  BY <1>1 DEF vars, lockVars, StoreInv, Serializable, Readable
<1>2. ASSUME NEW a \in Agents, Begin(a) PROVE StoreInv'
  BY <1>2, StoresApart DEF Begin, BeginAttempt
<1>3. ASSUME NEW a \in Agents, Lock(a) PROVE StoreInv'
  BY <1>3, LockStepApart, StoresApart DEF Lock
<1>4. ASSUME NEW a \in Agents, OpenCard(a) PROVE StoreInv'
  <2>1. /\ pc' = [pc EXCEPT ![a] = "card"] /\ pc[a] = "idle" /\ kind = "card"
        /\ store = NotFound /\ store' = Unwritten
        /\ faults = {} /\ UNCHANGED <<faults, kind, snap, serial>>
    BY <1>4 DEF OpenCard, Idle
  <2>2. serial = NotFound /\ \A b \in Agents : pc[b] # "card"
    BY <2>1, StoreAssumption DEF StoreInv, Serializable, Readable
  <2>3. Serializable'
    BY <2>1, <2>2 DEF Serializable, Readable
  <2> QED BY <2>1, <2>2, <2>3 DEF StoreInv
<1>5. ASSUME NEW a \in Agents, WriteCard(a) PROVE StoreInv'
  <2>1. /\ pc' = [pc EXCEPT ![a] = "idle"] /\ pc[a] = "card" /\ kind = "card"
        /\ UNCHANGED <<faults, kind, snap>>
    BY <1>5 DEF WriteCard, RestInv
  <2>2. CASE UNCHANGED <<store, serial>>
    BY <2>1, <2>2 DEF StoreInv, Serializable, Readable
  <2>3. CASE faults = {} /\ store' = NewCard /\ Written([op |-> "create"])
    <3>1. serial' = NewCard
      BY <2>3 DEF Written, Result
    <3>2. Readable(NewCard) = NewCard
      BY NewCardIsCard, StoreAssumption DEF Readable
    <3>3. Serializable'
      BY <2>3, <3>1, <3>2 DEF Serializable, Readable
    <3>4. \A b \in Agents : pc'[b] # "card"
      BY <2>1, <2>3 DEF StoreInv
    <3>5. serial = NotFound
      BY <2>1, <2>3 DEF StoreInv, Serializable, Readable
    <3>6. \A b \in Agents : pc'[b] = "write" => snap'[b] = NotFound
      BY <2>1, <2>3, <3>5 DEF StoreInv
    <3> QED BY <2>1, <3>3, <3>4, <3>6 DEF StoreInv
  <2>4. CASE faults # {}
    BY <2>1, <2>4 DEF StoreInv
  <2> QED BY <1>5, <2>2, <2>3, <2>4 DEF WriteCard
<1>6. ASSUME NEW a \in Agents, ReadStore(a) PROVE StoreInv'
  <2>1. /\ pc' = [pc EXCEPT ![a] = "write"] /\ UNCHANGED <<kind, store, writes, serial>>
        /\ \/ snap' = [snap EXCEPT ![a] = Readable(store)] /\ UNCHANGED faults
           \/ faults' # {}
    BY <1>6 DEF ReadStore
  <2>2. faults' = {} => snap' = [snap EXCEPT ![a] = serial] /\ faults = {}
    BY <2>1 DEF StoreInv, Serializable
  <2> QED BY <2>1, <2>2 DEF StoreInv, StoreTypes, Serializable, Readable
<1>7. ASSUME NEW a \in Agents, NEW j \in Jobs, WriteStore(a, j) PROVE StoreInv'
  <2>1. /\ pc[a] = "write" /\ pc' = [pc EXCEPT ![a] = "release"]
        /\ IF kind = "ledger" THEN j \in LedgerJobs ELSE j \in CardJobs \ [op : {"create"}]
        /\ Permitted(snap[a], j)
        /\ store' = Result(snap[a], j)
        /\ serial' = IF faults = {} THEN Result(serial, j) ELSE NotFound
        /\ snap' = [snap EXCEPT ![a] = NotFound]
        /\ UNCHANGED <<kind, faults>>
    BY <1>7 DEF WriteStore, Written
  <2>2. Stored(store')
    BY <2>1, ResultIsStored DEF StoreTypes
  <2>3. CASE faults # {}
    BY <2>1, <2>2, <2>3, StoredIsThere DEF StoreInv
  <2>4. CASE faults = {}
    <3>1. kind = "card" => snap[a] # NotFound
      BY <2>1 DEF Permitted, CardJobs
    <3>2. snap[a] = serial
      BY <2>1, <2>4, <3>1 DEF StoreInv
    <3>3. Serializable'
      BY <2>1, <2>2, <2>4, <3>2, StoredIsThere DEF Serializable, Readable
    <3>4. \A b \in Agents : pc[b] = "write" => b = a
      BY <2>1, <2>4, OneInSection DEF Exclusive, InSection
    <3>5. \A b \in Agents : pc[b] # "card"
      <4> SUFFICES ASSUME NEW b \in Agents, pc[b] = "card" PROVE FALSE
        OBVIOUS
      <4>1. kind = "card" /\ serial = NotFound
        BY <2>4 DEF StoreInv, RestInv, Serializable, Readable
      <4> QED BY <3>1, <3>2, <4>1
    <3>6. \A b \in Agents : pc'[b] \notin {"write", "card"}
      BY <2>1, <3>4, <3>5
    <3> QED BY <2>1, <2>2, <3>3, <3>6, StoredIsThere DEF StoreInv
  <2> QED BY <2>3, <2>4
<1>8. ASSUME NEW a \in Agents, WriteNothing(a) PROVE StoreInv'
  BY <1>8 DEF WriteNothing, StoreInv, StoreTypes, Serializable, Readable
<1>9. ASSUME NEW a \in Agents, Kill(a) PROVE StoreInv'
  BY <1>9 DEF Kill, Killed, Done, StoreInv, StoreTypes, Serializable, Readable
<1>10. ASSUME Tick, UNCHANGED <<kind, store, snap, writes, serial>> PROVE StoreInv'
  BY <1>10, StoresApart DEF Tick
<1> QED BY <1>1, <1>2, <1>3, <1>4, <1>5, <1>6, <1>7, <1>8, <1>9, <1>10 DEF Next
-----------------------------------------------------------------------------
\* The agents that may still write are finitely many.
LEMMA WritersFinite ==
  /\ IsFiniteSet(Writers) /\ Cardinality(Writers) \in Nat
  /\ Cardinality(Agents) \in Nat /\ Cardinality(Writers) <= Cardinality(Agents)
<1>1. Writers \subseteq Agents
  BY DEF Writers
<1> QED BY <1>1, WritesAssumption, FS_Subset, FS_CardinalityType

\* An operation begins while there is room for a write, and then writes once.
LEMMA WritesInvKept ==
  ASSUME LockTypeOK, writes \in Nat, WritesInv, [Next]_vars
  PROVE  WritesInv'
<1> USE DEF WritesInv, LockTypeOK, Goto
<1> USE WritesAssumption, WritersFinite
<1>0. IsFiniteSet(Writers') /\ Cardinality(Writers') \in Nat
      /\ Cardinality(Writers') <= Cardinality(Agents)
  <2>1. Writers' \subseteq Agents
    BY DEF Writers
  <2> QED BY <2>1, FS_Subset, FS_CardinalityType
<1>1. ASSUME Writers' \subseteq Writers, writes' = writes PROVE WritesInv'
  <2>1. Cardinality(Writers') <= Cardinality(Writers)
    BY <1>1, FS_Subset
  <2> QED BY <1>0, <1>1, <2>1
<1>2. ASSUME NEW a \in Writers, Writers' \subseteq Writers \ {a}, writes' = writes + 1
      PROVE  WritesInv'
  <2>1. /\ IsFiniteSet(Writers \ {a})
        /\ Cardinality(Writers \ {a}) = Cardinality(Writers) - 1
    BY FS_RemoveElement
  <2>2. Cardinality(Writers') <= Cardinality(Writers \ {a})
    BY <1>2, <2>1, FS_Subset
  <2>3. Cardinality(Writers \ {a}) \in Int
    BY <2>1
  <2> QED BY <1>0, <1>2, <2>1, <2>2
<1>3. ASSUME writes < MaxWrites, writes' = writes PROVE WritesInv'
  BY <1>0, <1>3
<1>4. CASE UNCHANGED vars
  BY <1>1, <1>4 DEF vars, lockVars, Writers
<1>5. ASSUME NEW a \in Agents, Begin(a) \/ OpenCard(a) PROVE WritesInv'
  BY <1>3, <1>5 DEF Begin, OpenCard
<1>6. ASSUME NEW a \in Agents, Lock(a) PROVE WritesInv'
  <2>1. Writers' \subseteq Writers
    <3> USE DEF Writers, Done
    <3>1. CASE Create(a)
      BY <3>1 DEF Create
    <3>2. CASE Fill(a)
      BY <3>2 DEF Fill
    <3>3. CASE Read(a)
      BY <3>3 DEF Read
    <3>4. CASE TakeRecovery(a)
      BY <3>4 DEF TakeRecovery
    <3>5. CASE Recheck(a)
      BY <3>5 DEF Recheck
    <3>6. CASE RemoveLock(a)
      BY <3>6 DEF RemoveLock
    <3>7. CASE DropRecovery(a)
      BY <3>7 DEF DropRecovery, BeginAttempt
    <3>8. CASE Compare(a)
      BY <3>8 DEF Compare
    <3>9. CASE Unlink(a)
      BY <3>9 DEF Unlink
    <3> QED BY <1>6, <3>1, <3>2, <3>3, <3>4, <3>5, <3>6, <3>7, <3>8, <3>9 DEF Lock, LockStep
  <2> QED BY <1>1, <1>6, <2>1 DEF Lock
<1>7. ASSUME NEW a \in Agents, WriteCard(a) PROVE WritesInv'
  <2>1. a \in Writers /\ Writers' \subseteq Writers \ {a}
    BY <1>7 DEF WriteCard, Writers
  <2>2. writes' = writes \/ writes' = writes + 1
    BY <1>7 DEF WriteCard, Written
  <2> QED BY <1>1, <1>2, <2>1, <2>2
<1>8. ASSUME NEW a \in Agents, NEW j \in Jobs, WriteStore(a, j) PROVE WritesInv'
  <2>1. a \in Writers /\ Writers' \subseteq Writers \ {a}
    BY <1>8 DEF WriteStore, Writers
  <2>2. writes' = writes + 1
    BY <1>8 DEF WriteStore, Written
  <2> QED BY <1>2, <2>1, <2>2
<1>9. ASSUME NEW a \in Agents, ReadStore(a) \/ WriteNothing(a) PROVE WritesInv'
  BY <1>1, <1>9 DEF ReadStore, WriteNothing, Writers
<1>10. ASSUME NEW a \in Agents, Kill(a) PROVE WritesInv'
  BY <1>1, <1>10 DEF Kill, Killed, Done, Writers
<1>11. ASSUME Tick, UNCHANGED <<kind, store, snap, writes, serial>> PROVE WritesInv'
  BY <1>1, <1>11 DEF Tick, Writers
<1> QED BY <1>4, <1>5, <1>6, <1>7, <1>8, <1>9, <1>10, <1>11 DEF Next

-----------------------------------------------------------------------------
\* The types of the whole state are those of its parts.
LEMMA TypesJoin == TypeOK /\ WritesInv <=> LockTypeOK /\ StoreTypes /\ WritesInv
BY WritersFinite, WritesAssumption DEF TypeOK, StoreTypes, WritesInv

\* The invariant is inductive.
LEMMA IInvKept == IInv /\ [Next]_vars => IInv'
<1> SUFFICES ASSUME IInv, [Next]_vars PROVE IInv'
  OBVIOUS
<1>1. LockTypeOK /\ StoreTypes /\ LockInv /\ RestInv /\ StoreInv /\ WritesInv
  BY TypesJoin DEF IInv
<1>2. LockTypeOK' /\ StoreTypes'
  BY <1>1, LockTypesKept, StoreTypesKept
<1>3. LockInv' /\ RestInv' /\ StoreInv' /\ WritesInv'
  BY <1>1, <1>2, LockInvKept, RestInvKept, StoreInvKept, WritesInvKept DEF StoreTypes
<1>4. TypeOK'
  BY <1>2, <1>3, TypesJoin, PTL
<1> QED BY <1>3, <1>4 DEF IInv

\* In every behaviour the state has its types: in particular attempts are at
\* most MAX_ACQUIRE_ATTEMPTS, times are within the clock, and the ledger and
\* the card hold nothing but tasks and phases.
THEOREM SwarmTypeCorrect == Spec => []TypeOK
<1>1. IInv => TypeOK
  BY DEF IInv
<1> QED BY <1>1, InitIInv, IInvKept, PTL DEF Spec

\* As long as no owner outlives its lifetime and nobody takes a missing or
\* half-created file for a damaged one, no two agents hold a swarm lock
\* (acquireSwarmLock and releaseSwarmLock), whatever agents are killed and
\* whatever reads and writes fail.
THEOREM SwarmExclusive == Spec => []Exclusive
<1>1. IInv => Exclusive
  BY OneInSection DEF IInv
<1> QED BY <1>1, InitIInv, IInvKept, PTL DEF Spec

\* While no fault has happened, the task ledger or the execution card is what
\* the operations that reported success make one after the other.
THEOREM SwarmSerializable == Spec => []Serializable
<1>1. IInv => Serializable
  BY DEF IInv, StoreInv, Serializable
<1> QED BY <1>1, InitIInv, IInvKept, PTL DEF Spec
=============================================================================
