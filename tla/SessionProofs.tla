----------------------------- MODULE SessionProofs -----------------------------
(***************************************************************************)
(* Proofs about what the hooks of all sessions rewrite and prune in the    *)
(* plugin's data directory, for any number of hooks, kills, turns, pruners *)
(* and recorders and any intervals and limits: the activator's state       *)
(* (Activator), the set of turn states (TurnPrune) and the adoption ledger *)
(* (Adoption).                                                             *)
(***************************************************************************)
EXTENDS FileLock, Activator, TurnPrune, Adoption, FiniteSetTheorems, SequenceTheorems, TLAPS

-----------------------------------------------------------------------------
\* The invariants of the activator.

\* The hook is between making the lock directory and removing it.
InSection(h) == aPc[h] \in {"own", "read", "write", "free"}

\* A killed hook does nothing more; a prune takes no lock; only the lock of a
\* killed hook grows old.
HookInv ==
  /\ \A h \in Hooks :
       /\ aPc[h] # "idle" => h \notin aGone
       /\ aPc[h] \in {"list", "check", "remove"} => aJob[h].kind = "prune"
       /\ aPc[h] \notin {"idle", "list", "check", "remove"} => aJob[h].kind # "prune"
  /\ aLock # Nobody /\ aLock.old => aLock.by \in aGone

\* What a hook is about to remove was the lock of a killed hook; while no
\* lock was overtaken, a hook in its section holds the lock, whatever a prune
\* removes.
LockInv ==
  /\ \A h \in Hooks : aPc[h] = "steal" => aSaw[h] \in LockDirs /\ aSaw[h].by \in aGone
  /\ aGone = {} => "overtaken" \notin aFaults
  /\ "overtaken" \notin aFaults =>
       \A h \in Hooks : InSection(h) => aLock # Nobody /\ aLock.by = h

\* While nothing has gone wrong, it replaces the state that it has read.
SectionInv ==
  aFaults = {} => \A h \in Hooks : aPc[h] = "write" => aSnap[h] = aFile

\* The answers to Stop, one after the other.
Answers == [answer : {"block", "completed", "timeout"}, cycle : Nat, at : 0..MaxClock]

\* The n-th answer after those in rs, as ReviewsInOrder has it.
Follows(r, n, rs) ==
  /\ r.cycle = (n + 1) \div 2
  /\ r.answer = "block" <=> n % 2 = 1
  /\ r.answer = "block" /\ n > 1 => r.at >= rs[n - 1].at + Interval
  /\ r.answer # "block" => (r.answer = "timeout" <=> r.at > rs[n - 1].at + Watchdog)

\* The state says what the answers have been: how many reviews, whether the
\* last is still going on, and when the next one is due or this one times out.
Tells(s, rs) ==
  /\ s.cycle = (Len(rs) + 1) \div 2
  /\ s.phase = "reviewing" <=> Len(rs) % 2 = 1
  /\ s.phase = "reviewing" => s.reviewDeadlineAt = rs[Len(rs)].at + Watchdog
  /\ s.phase = "waiting" /\ Len(rs) > 0 => s.nextDueAt = rs[Len(rs)].at + Interval

\* While nothing has gone wrong, it does.
ReviewInv ==
  aFaults = {} =>
    /\ \A i \in DOMAIN reviews : Follows(reviews[i], i, reviews)
    /\ IF aFile = Nobody THEN reviews = <<>> ELSE Tells(aFile, reviews)

AInv == ATypeOK /\ HookInv /\ LockInv /\ SectionInv /\ ReviewInv

-----------------------------------------------------------------------------
\* The invariants of pruning.

\* Times of writes are all different: each state carries one of its own.
StampInv ==
  /\ \A k \in Turns : Exists(k) => pFile[k].at \in 1..pStamp
  /\ \A j, k \in Turns : Exists(j) /\ Exists(k) /\ pFile[j].at = pFile[k].at => j = k

\* A pruner's candidates, those its second pass has been through, and those
\* that count before k.
Candidates(p) == {k \in Turns : pCand[p][k] > 0}
Done(p) == Candidates(p) \ pTodo[p]
Rank(p, k) == {j \in Turns \ pGone[p] : pCand[p][j] > pCand[p][k]}

\* The time of a candidate is no other turn's.
CandInv(p) ==
  /\ pNow[p] <= pStamp
  /\ pPc[p] = "idle" => pTodo[p] = {} /\ Candidates(p) = {}
  /\ \A k \in Turns : pCand[p][k] <= pStamp
  /\ \A j, k \in Turns :
       pCand[p][j] > 0 /\ (pCand[p][j] = pCand[p][k] \/ (Exists(k) /\ pFile[k].at = pCand[p][j])) => j = k

\* The turns that the pruner has still to come to.
Ahead(p) == pTodo[p] \cup (IF pPc[p] = "first" THEN Candidates(p) ELSE {})

\* Of those it is known which are gone, and a candidate does not expire.
LookInv(p) ==
  /\ \A k \in Ahead(p) : Exists(k) <=> k \notin pGone[p]
  /\ \A k \in Ahead(p) \cap Candidates(p) : Exists(k) => ~Expired(p, pFile[k].at)

\* A turn that nothing touched is as it was found, or has no state because it
\* had none or one that was too old.
AsFound(p, k) == pFile[k] = pStart[p][k] /\ Exists(k)
DroppedState(p, k) == pFile[k] = NoTurnFile /\ (pStart[p][k] = NoTurnFile \/ Expired(p, pStart[p][k].at))

\* In the first pass: an untouched state is as it was found until its look, and
\* becomes a candidate with the time that it has, or is dropped.
FirstInv(p) ==
  /\ pKept[p] = {}
  /\ \A k \in pTodo[p] : pCand[p][k] = 0
  /\ \A k \in Turns \ pTouched[p] :
       /\ k \in pTodo[p] \cup Candidates(p) => AsFound(p, k)
       /\ k \in Candidates(p) => pFile[k].valid /\ pCand[p][k] = pFile[k].at
       /\ k \notin pTodo[p] \cup Candidates(p) => DroppedState(p, k)

\* In the second pass: the candidates it has been through are the newest; as
\* long as it has not kept MaxFiles it has kept all that were there; of the
\* untouched ones it has kept those with fewer than MaxFiles before them.
SecondInv(p) ==
  /\ pTodo[p] \subseteq Candidates(p)
  /\ pKept[p] \subseteq Done(p) \ pGone[p]
  /\ \A j \in Done(p), k \in pTodo[p] : pCand[p][j] > pCand[p][k]
  /\ Cardinality(pKept[p]) < MaxFiles => pKept[p] = Done(p) \ pGone[p]
  /\ \A k \in Turns \ pTouched[p] :
       /\ k \notin Candidates(p) => DroppedState(p, k)
       /\ k \in Candidates(p) => /\ pStart[p][k] # NoTurnFile /\ pCand[p][k] = pStart[p][k].at
                                 /\ ~Expired(p, pCand[p][k])
       /\ k \in pTodo[p] => AsFound(p, k) /\ pFile[k].valid
       /\ k \in Done(p) => (Exists(k) <=> Cardinality(Rank(p, k)) < MaxFiles)

PrunerInv(p) ==
  /\ CandInv(p)
  /\ LookInv(p)
  /\ pPc[p] = "first" => FirstInv(p)
  /\ pPc[p] = "second" => SecondInv(p)

PInv == PTypeOK /\ StampInv /\ \A p \in Pruners : PrunerInv(p)

-----------------------------------------------------------------------------
\* The operators of the activator.

\* What a Stop answers and writes, case by case.
LEMMA StopCases ==
  ASSUME NEW s \in ActivatorState \cup {Nobody}, NEW job \in Job
  PROVE  /\ s = Nobody => StopResult(s, job) = <<"none", Initial(job.now)>>
         /\ s # Nobody /\ s.phase = "reviewing" =>
              StopResult(s, job) =
                <<IF job.now > s.reviewDeadlineAt THEN "timeout" ELSE "completed",
                  [s EXCEPT !.phase = "waiting", !.nextDueAt = job.now + Interval,
                            !.reviewDeadlineAt = 0, !.modifiedAt = aClock]>>
         /\ s # Nobody /\ s.phase = "waiting" /\ (~job.allowStart \/ job.now < s.nextDueAt) =>
              StopResult(s, job) = <<"none", s>>
         /\ s # Nobody /\ s.phase = "waiting" /\ job.allowStart /\ job.now >= s.nextDueAt =>
              StopResult(s, job) =
                <<"block", [s EXCEPT !.phase = "reviewing", !.cycle = @ + 1,
                                     !.reviewDeadlineAt = job.now + Watchdog, !.modifiedAt = aClock]>>
<1>1. CASE s = Nobody
  BY <1>1 DEF StopResult
<1>2. CASE s # Nobody /\ s.phase = "reviewing"
  BY <1>2 DEF StopResult
<1>3. CASE s # Nobody /\ s.phase = "waiting"
  <2>1. job.now \in Nat /\ s.nextDueAt \in Nat /\ job.allowStart \in BOOLEAN
    BY <1>3, TimesAssumption DEF ActivatorState, Job, Times
  <2>2. CASE ~job.allowStart \/ job.now < s.nextDueAt
    BY <1>3, <2>1, <2>2 DEF StopResult
  <2>3. CASE job.allowStart /\ ~(job.now < s.nextDueAt)
    BY <1>3, <2>1, <2>3 DEF StopResult
  <2> QED BY <1>3, <2>1, <2>2, <2>3
<1> QED BY <1>1, <1>2, <1>3 DEF ActivatorState

\* A new state is one.
LEMMA InitialType ==
  ASSUME aClock \in 0..MaxClock, NEW now \in 0..MaxClock
  PROVE  Initial(now) \in ActivatorState /\ Initial(now) # Nobody
<1>1. now + Interval \in Times /\ 0 \in Times /\ aClock \in Times
  BY TimesAssumption DEF Times
<1>2. Initial(now) \in ActivatorState
  BY <1>1 DEF Initial, ActivatorState
<1> QED BY <1>2, StateAssumption

\* A Stop and a touch write a state.
LEMMA SectionWrites ==
  ASSUME aClock \in 0..MaxClock, NEW s \in ActivatorState \cup {Nobody}, NEW job \in Job
  PROVE  /\ StopResult(s, job)[1] \in {"none", "block", "completed", "timeout"}
         /\ StopResult(s, job)[2] \in ActivatorState /\ StopResult(s, job)[2] # Nobody
         /\ TouchResult(s, job) \in ActivatorState /\ TouchResult(s, job) # Nobody
<1>1. /\ job.now \in 0..MaxClock /\ job.now + Interval \in Times /\ job.now + Watchdog \in Times
      /\ 0 \in Times /\ aClock \in Times
  BY TimesAssumption DEF Times, Job
<1>2. StopResult(s, job)[1] \in {"none", "block", "completed", "timeout"} /\ StopResult(s, job)[2] \in ActivatorState
  <2>1. CASE s = Nobody
    <3>1. StopResult(s, job) = <<"none", Initial(job.now)>>
      BY <2>1, StopCases
    <3> QED BY <3>1, <1>1, InitialType
  <2>2. CASE s # Nobody /\ s.phase = "reviewing"
    <3> DEFINE next == [s EXCEPT !.phase = "waiting", !.nextDueAt = job.now + Interval,
                                 !.reviewDeadlineAt = 0, !.modifiedAt = aClock]
    <3>1. next \in ActivatorState
      BY <2>2, <1>1 DEF ActivatorState
    <3>2. StopResult(s, job) = <<IF job.now > s.reviewDeadlineAt THEN "timeout" ELSE "completed", next>>
      BY <2>2, StopCases
    <3> HIDE DEF next
    <3> QED BY <3>1, <3>2
  <2>3. CASE s # Nobody /\ s.phase = "waiting" /\ (~job.allowStart \/ job.now < s.nextDueAt)
    <3>1. StopResult(s, job) = <<"none", s>>
      BY <2>3, StopCases
    <3> QED BY <2>3, <3>1
  <2>4. CASE s # Nobody /\ s.phase = "waiting" /\ ~(~job.allowStart \/ job.now < s.nextDueAt)
    <3> DEFINE next == [s EXCEPT !.phase = "reviewing", !.cycle = @ + 1,
                                 !.reviewDeadlineAt = job.now + Watchdog, !.modifiedAt = aClock]
    <3>1. s \in ActivatorState /\ s.cycle + 1 \in Nat
      BY <2>4 DEF ActivatorState
    <3>2. next \in ActivatorState
      BY <3>1, <1>1 DEF ActivatorState
    <3>3. job.now \in Nat /\ s.nextDueAt \in Nat /\ job.allowStart \in BOOLEAN
      BY <3>1, TimesAssumption DEF ActivatorState, Job, Times
    <3>4. job.allowStart /\ job.now >= s.nextDueAt
      BY <2>4, <3>3
    <3>5. StopResult(s, job) = <<"block", next>>
      BY <2>4, <3>4, StopCases
    <3> HIDE DEF next
    <3> QED BY <3>2, <3>5
  <2> QED BY <2>1, <2>2, <2>3, <2>4 DEF ActivatorState
<1>3. TouchResult(s, job) \in ActivatorState
  <2>1. CASE s = Nobody
    BY <2>1, <1>1, InitialType DEF TouchResult
  <2>2. CASE s # Nobody
    BY <2>2, <1>1 DEF TouchResult, ActivatorState
  <2> QED BY <2>1, <2>2
<1> QED BY <1>2, <1>3, StateAssumption

\* What the states and locks are told apart by.
LEMMA ThereIsNobody ==
  /\ \A l \in LockDirs : l # Nobody
  /\ \A s \in ActivatorState : s # Nobody
BY StateAssumption
-----------------------------------------------------------------------------
\* Type correctness of the activator, and what a hook is for.

LEMMA ActivatorInit == AInit => AInv
<1> SUFFICES ASSUME AInit PROVE AInv
  OBVIOUS
<1>1. reviews = <<>> /\ Len(reviews) = 0 /\ DOMAIN reviews = {}
  BY DEF AInit
<1>2. NoJob \in Job
  BY TimesAssumption DEF NoJob, Job, JobKinds
<1>3. ATypeOK
  BY <1>2, TimesAssumption DEF AInit, ATypeOK, ASteps
<1>4. HookInv /\ LockInv /\ SectionInv
  BY DEF AInit, HookInv, LockInv, SectionInv, InSection
<1>5. ReviewInv
  BY <1>1 DEF AInit, ReviewInv
<1> QED BY <1>3, <1>4, <1>5 DEF AInv

\* Every step keeps the types; only a section's end writes a state and an
\* answer of its own making.
LEMMA ATypesKept ==
  ASSUME ATypeOK, HookInv, [ANext]_aVars
  PROVE  ATypeOK'
<1> USE DEF ATypeOK, AGoto, ADone, ASteps
<1> USE TimesAssumption
<1> NoJob \in Job
  BY DEF NoJob, Job, JobKinds
<1>1. CASE UNCHANGED aVars
  BY <1>1 DEF aVars
<1>2. ASSUME NEW h \in Hooks, NEW kind \in JobKinds, NEW allowStart \in BOOLEAN, AStart(h, kind, allowStart)
      PROVE  ATypeOK'
  <2> DEFINE job == [kind |-> kind, allowStart |-> allowStart, now |-> IF kind = "end" THEN 0 ELSE aClock]
  <2>1. job \in Job
    BY DEF Job
  <2>2. aJob' = [aJob EXCEPT ![h] = job]
    BY <1>2 DEF AStart
  <2> HIDE DEF job
  <2>3. aJob' \in [Hooks -> Job]
    BY <2>1, <2>2
  <2> QED BY <1>2, <2>3 DEF AStart
<1>3. ASSUME NEW h \in Hooks, AMakeDir(h) PROVE ATypeOK'
  <2>1. [by |-> h, old |-> FALSE] \in LockDirs
    BY DEF LockDirs
  <2>2. CASE aLock = Nobody
    BY <1>3, <2>1, <2>2 DEF AMakeDir
  <2>3. CASE aLock # Nobody
    BY <1>3, <2>3 DEF AMakeDir
  <2> QED BY <2>2, <2>3
<1>4. ASSUME NEW h \in Hooks, AOwn(h) PROVE ATypeOK'
  <2>0. UNCHANGED <<aFile, aGone, aClock, reviews, aFaults>>
    BY <1>4 DEF AOwn
  <2>1. CASE aLock # Nobody /\ aLock.by = h
    <3>1. aPc' = [aPc EXCEPT ![h] = "read"] /\ UNCHANGED <<aLock, aJob, aSnap, aSaw>>
      BY <1>4, <2>1 DEF AOwn
    <3> QED BY <2>0, <3>1
  <2>2. CASE ~(aLock # Nobody /\ aLock.by = h)
    <3>1. aLock' = Nobody /\ aPc' = [aPc EXCEPT ![h] = "idle"]
      BY <1>4, <2>2 DEF AOwn
    <3>2. /\ aJob' = [aJob EXCEPT ![h] = NoJob]
          /\ aSnap' = [aSnap EXCEPT ![h] = Nobody]
          /\ aSaw' = [aSaw EXCEPT ![h] = Nobody]
      BY <1>4, <2>2 DEF AOwn
    <3> QED BY <2>0, <3>1, <3>2
  <2> QED BY <2>1, <2>2
<1>5. ASSUME NEW h \in Hooks, ALook(h) PROVE ATypeOK'
  BY <1>5 DEF ALook, ATryAgain
<1>6. ASSUME NEW h \in Hooks, ASteal(h) PROVE ATypeOK'
  BY <1>6 DEF ASteal, AFaults
<1>7. ASSUME NEW h \in Hooks, ARead(h) PROVE ATypeOK'
  BY <1>7 DEF ARead
<1>8. ASSUME NEW h \in Hooks, AWrite(h) PROVE ATypeOK'
  <2> DEFINE result == StopResult(aSnap[h], aJob[h])
  <2>1. aSnap[h] \in ActivatorState \cup {Nobody} /\ aJob[h] \in Job
    OBVIOUS
  <2>2. /\ result[1] \in {"none", "block", "completed", "timeout"}
        /\ result[2] \in ActivatorState
        /\ TouchResult(aSnap[h], aJob[h]) \in ActivatorState
    BY <2>1, SectionWrites
  <2>3. aJob[h].kind \in {"touch", "end", "stop"} /\ aJob[h].now \in 0..MaxClock
    BY <1>8, <2>1 DEF AWrite, HookInv, Job, JobKinds
  <2>4. aFile' \in ActivatorState \cup {Nobody}
    <3> HIDE DEF result
    <3>1. CASE aJob[h].kind = "touch"
      BY <1>8, <2>2, <3>1 DEF AWrite
    <3>2. CASE aJob[h].kind = "end"
      BY <1>8, <3>2 DEF AWrite
    <3>3. CASE aJob[h].kind = "stop"
      BY <1>8, <2>2, <3>3 DEF AWrite, result
    <3> QED BY <2>3, <3>1, <3>2, <3>3
  <2>5. reviews' \in Seq([answer : {"block", "completed", "timeout"}, cycle : Nat, at : 0..MaxClock])
    <3>1. CASE aJob[h].kind # "stop"
      <4>1. reviews' \in {reviews, <<>>}
        BY <1>8, <2>3, <3>1 DEF AWrite
      <4>2. <<>> \in Seq([answer : {"block", "completed", "timeout"}, cycle : Nat, at : 0..MaxClock])
        BY EmptySeq
      <4> QED BY <4>1, <4>2
    <3>2. CASE aJob[h].kind = "stop" /\ result[1] = "none"
      BY <1>8, <3>2 DEF AWrite
    <3>3. CASE aJob[h].kind = "stop" /\ result[1] # "none"
      <4> DEFINE answer == [answer |-> result[1], cycle |-> result[2].cycle, at |-> aJob[h].now]
      <4>1. answer \in [answer : {"block", "completed", "timeout"}, cycle : Nat, at : 0..MaxClock]
        <5> HIDE DEF result
        <5> QED BY <2>2, <2>3, <3>3 DEF ActivatorState
      <4>2. reviews' = Append(reviews, answer)
        BY <1>8, <3>3 DEF AWrite
      <4> HIDE DEF answer
      <4> QED BY <4>1, <4>2, AppendProperties
    <3> QED BY <3>1, <3>2, <3>3
  <2> QED BY <1>8, <2>4, <2>5 DEF AWrite
<1>9. ASSUME NEW h \in Hooks, AFree(h) PROVE ATypeOK'
  BY <1>9 DEF AFree
<1>10. ASSUME NEW h \in Hooks, APruneList(h) \/ APruneCheck(h) PROVE ATypeOK'
  BY <1>10 DEF APruneList, APruneCheck
<1>11. ASSUME NEW h \in Hooks, APruneRemove(h) PROVE ATypeOK'
  <2>1. reviews' \in Seq([answer : {"block", "completed", "timeout"}, cycle : Nat, at : 0..MaxClock])
    BY <1>11 DEF APruneRemove
  <2> QED BY <1>11, <2>1 DEF APruneRemove, AFaults
<1>12. ASSUME NEW h \in Hooks, AKill(h) PROVE ATypeOK'
  BY <1>12 DEF AKill
<1>13. ASSUME ATick PROVE ATypeOK'
  BY <1>13 DEF ATick
<1>14. ASSUME AAge PROVE ATypeOK'
  <2>1. aLock \in LockDirs /\ aLock' = [aLock EXCEPT !.old = TRUE]
    BY <1>14 DEF AAge
  <2>2. aLock' \in LockDirs
    BY <2>1 DEF LockDirs
  <2> QED BY <1>14, <2>2 DEF AAge
<1> QED BY <1>1, <1>2, <1>3, <1>4, <1>5, <1>6, <1>7, <1>8, <1>9, <1>10, <1>11, <1>12, <1>13, <1>14
        DEF ANext, ALock

\* So is what a hook may be doing: the steps of its own kind, while it lives.
LEMMA HooksKept ==
  ASSUME ATypeOK, HookInv, [ANext]_aVars
  PROVE  HookInv'
<1> USE DEF ATypeOK, HookInv, AGoto, ADone
<1>1. CASE UNCHANGED aVars
  BY <1>1 DEF aVars
<1>2. ASSUME NEW h \in Hooks, NEW kind \in JobKinds, NEW allowStart \in BOOLEAN, AStart(h, kind, allowStart)
      PROVE  HookInv'
  <2>1. aJob'[h].kind = kind
    BY <1>2 DEF AStart
  <2>2. \A k \in Hooks \ {h} : aJob'[k] = aJob[k]
    BY <1>2 DEF AStart
  <2> QED BY <1>2, <2>1, <2>2 DEF AStart
<1>3. ASSUME NEW h \in Hooks, AMakeDir(h) PROVE HookInv'
  <2>0. aPc[h] = "mkdir" /\ UNCHANGED <<aJob, aGone>>
    BY <1>3 DEF AMakeDir
  <2>1. CASE aLock = Nobody
    <3>1. aLock' = [by |-> h, old |-> FALSE] /\ aPc' = [aPc EXCEPT ![h] = "own"]
      BY <1>3, <2>1 DEF AMakeDir
    <3> QED BY <2>0, <3>1
  <2>2. CASE aLock # Nobody
    <3>1. UNCHANGED aLock /\ aPc' = [aPc EXCEPT ![h] = "look"]
      BY <1>3, <2>2 DEF AMakeDir
    <3> QED BY <2>0, <3>1
  <2> QED BY <2>1, <2>2
<1>4. ASSUME NEW h \in Hooks, AOwn(h) PROVE HookInv'
  <2>1. aPc[h] = "own" /\ UNCHANGED aGone
    BY <1>4 DEF AOwn
  <2>2. \/ aPc' = [aPc EXCEPT ![h] = "read"] /\ UNCHANGED <<aLock, aJob>>
        \/ aLock' = Nobody /\ aPc' = [aPc EXCEPT ![h] = "idle"] /\ aJob' = [aJob EXCEPT ![h] = NoJob]
    BY <1>4 DEF AOwn
  <2> QED BY <2>1, <2>2
<1>5. ASSUME NEW h \in Hooks, ALook(h) PROVE HookInv'
  <2>1. aPc[h] = "look" /\ UNCHANGED <<aLock, aGone>>
    BY <1>5 DEF ALook
  <2>2. \/ aPc' = [aPc EXCEPT ![h] = "steal"] /\ UNCHANGED aJob
        \/ aPc' = [aPc EXCEPT ![h] = "mkdir"] /\ UNCHANGED aJob
        \/ aPc' = [aPc EXCEPT ![h] = "idle"] /\ aJob' = [aJob EXCEPT ![h] = NoJob]
    BY <1>5 DEF ALook, ATryAgain
  <2> QED BY <2>1, <2>2
<1>6. ASSUME NEW h \in Hooks, ASteal(h) PROVE HookInv'
  <2>1. aPc[h] = "steal" /\ aLock' = Nobody /\ aPc' = [aPc EXCEPT ![h] = "mkdir"]
    BY <1>6 DEF ASteal
  <2>2. UNCHANGED <<aJob, aGone>>
    BY <1>6 DEF ASteal
  <2> QED BY <2>1, <2>2
<1>7. ASSUME NEW h \in Hooks, ARead(h) PROVE HookInv'
  <2>1. aPc[h] = "read" /\ aPc' = [aPc EXCEPT ![h] = "write"]
    BY <1>7 DEF ARead
  <2>2. UNCHANGED <<aLock, aJob, aGone>>
    BY <1>7 DEF ARead
  <2> QED BY <2>1, <2>2
<1>8. ASSUME NEW h \in Hooks, AWrite(h) PROVE HookInv'
  <2>1. aPc[h] = "write" /\ aPc' = [aPc EXCEPT ![h] = "free"]
    BY <1>8 DEF AWrite
  <2>2. UNCHANGED <<aLock, aJob, aGone>>
    BY <1>8 DEF AWrite
  <2> QED BY <2>1, <2>2
<1>9. ASSUME NEW h \in Hooks, AFree(h) PROVE HookInv'
  <2>1. aLock' = Nobody /\ UNCHANGED aGone
    BY <1>9 DEF AFree
  <2>2. aPc' = [aPc EXCEPT ![h] = "idle"] /\ aJob' = [aJob EXCEPT ![h] = NoJob]
    BY <1>9 DEF AFree
  <2> QED BY <2>1, <2>2
<1>10. ASSUME NEW h \in Hooks, APruneList(h) \/ APruneCheck(h) PROVE HookInv'
  <2>1. aPc[h] \in {"list", "check"} /\ UNCHANGED <<aLock, aGone>>
    BY <1>10 DEF APruneList, APruneCheck
  <2>2. \/ aPc' = [aPc EXCEPT ![h] = "check"] /\ UNCHANGED aJob
        \/ aPc' = [aPc EXCEPT ![h] = "remove"] /\ UNCHANGED aJob
        \/ aPc' = [aPc EXCEPT ![h] = "idle"] /\ aJob' = [aJob EXCEPT ![h] = NoJob]
    BY <1>10 DEF APruneList, APruneCheck
  <2> QED BY <2>1, <2>2
<1>11. ASSUME NEW h \in Hooks, APruneRemove(h) PROVE HookInv'
  <2>1. UNCHANGED <<aLock, aGone>>
    BY <1>11 DEF APruneRemove
  <2>2. aPc' = [aPc EXCEPT ![h] = "idle"] /\ aJob' = [aJob EXCEPT ![h] = NoJob]
    BY <1>11 DEF APruneRemove
  <2> QED BY <2>1, <2>2
<1>12. ASSUME NEW h \in Hooks, AKill(h) PROVE HookInv'
  BY <1>12 DEF AKill
<1>13. ASSUME ATick PROVE HookInv'
  BY <1>13 DEF ATick
<1>14. ASSUME AAge PROVE HookInv'
  <2>1. aLock \in LockDirs /\ aLock' = [aLock EXCEPT !.old = TRUE]
    BY <1>14 DEF AAge
  <2>2. aLock'.by = aLock.by
    BY <2>1 DEF LockDirs
  <2> QED BY <1>14, <2>2 DEF AAge
<1> QED BY <1>1, <1>2, <1>3, <1>4, <1>5, <1>6, <1>7, <1>8, <1>9, <1>10, <1>11, <1>12, <1>13, <1>14
        DEF ANext, ALock

-----------------------------------------------------------------------------
\* Sections exclude one another.

\* What was old when a hook looked is the lock of a killed hook still; so that
\* a lock removed is nobody's, a killed hook's, or overtaken.
LEMMA LocksKept ==
  ASSUME ATypeOK, HookInv, LockInv, [ANext]_aVars
  PROVE  LockInv'
<1> USE DEF ATypeOK, LockInv, InSection, AGoto, ADone
<1>1. CASE UNCHANGED aVars
  BY <1>1 DEF aVars
<1>2. ASSUME NEW h \in Hooks, NEW kind \in JobKinds, NEW allowStart \in BOOLEAN, AStart(h, kind, allowStart)
      PROVE  LockInv'
  BY <1>2 DEF AStart
<1>3. ASSUME NEW h \in Hooks, AMakeDir(h) PROVE LockInv'
  <2>0. [by |-> h, old |-> FALSE] \in LockDirs
    BY DEF LockDirs
  <2>1. [by |-> h, old |-> FALSE] # Nobody
    BY <2>0, StateAssumption
  <2>2. CASE aLock = Nobody
    BY <1>3, <2>1, <2>2 DEF AMakeDir
  <2>3. CASE aLock # Nobody
    BY <1>3, <2>3 DEF AMakeDir
  <2> QED BY <2>2, <2>3
<1>4. ASSUME NEW h \in Hooks, AOwn(h) PROVE LockInv'
  BY <1>4 DEF AOwn
<1>5. ASSUME NEW h \in Hooks, ALook(h) PROVE LockInv'
  <2>1. CASE aLock # Nobody /\ aLock.old
    <3>1. aLock \in LockDirs /\ aLock.by \in aGone
      BY <2>1 DEF HookInv
    <3> QED BY <1>5, <2>1, <3>1 DEF ALook
  <2>2. CASE ~(aLock # Nobody /\ aLock.old)
    BY <1>5, <2>2 DEF ALook, ATryAgain
  <2> QED BY <2>1, <2>2
<1>6. ASSUME NEW h \in Hooks, ASteal(h) PROVE LockInv'
  <2>1. aSaw[h] \in LockDirs /\ aSaw[h].by \in aGone
    BY <1>6 DEF ASteal
  <2>2. aGone' # {}
    BY <1>6, <2>1 DEF ASteal
  <2>3. \A k \in Hooks : aPc'[k] = "steal" => aSaw'[k] \in LockDirs /\ aSaw'[k].by \in aGone'
    BY <1>6 DEF ASteal
  <2>4. ASSUME "overtaken" \notin aFaults', NEW k \in Hooks, InSection(k)' PROVE FALSE
    <3>1. "overtaken" \notin aFaults /\ ~Overtaken(h)
      BY <1>6, <2>4 DEF ASteal
    <3>2. k # h /\ InSection(k) /\ k \notin aGone
      BY <1>6, <2>4 DEF ASteal, HookInv
    <3>3. aLock # Nobody /\ aLock.by = k
      BY <3>1, <3>2
    <3> QED BY <2>1, <3>1, <3>2, <3>3 DEF Overtaken
  <2> QED BY <2>2, <2>3, <2>4
<1>7. ASSUME NEW h \in Hooks, ARead(h) PROVE LockInv'
  BY <1>7 DEF ARead
<1>8. ASSUME NEW h \in Hooks, AWrite(h) PROVE LockInv'
  BY <1>8 DEF AWrite
<1>9. ASSUME NEW h \in Hooks, AFree(h) PROVE LockInv'
  BY <1>9 DEF AFree
<1>10. ASSUME NEW h \in Hooks, APruneList(h) \/ APruneCheck(h) PROVE LockInv'
  BY <1>10 DEF APruneList, APruneCheck
<1>11. ASSUME NEW h \in Hooks, APruneRemove(h) PROVE LockInv'
  BY <1>11 DEF APruneRemove
<1>12. ASSUME NEW h \in Hooks, AKill(h) PROVE LockInv'
  BY <1>12 DEF AKill
<1>13. ASSUME ATick PROVE LockInv'
  BY <1>13 DEF ATick
<1>14. ASSUME AAge PROVE LockInv'
  <2>1. aLock \in LockDirs /\ aLock' = [aLock EXCEPT !.old = TRUE]
    BY <1>14 DEF AAge
  <2>2. aLock'.by = aLock.by /\ aLock' # Nobody
    BY <2>1, StateAssumption DEF LockDirs
  <2> QED BY <1>14, <2>2 DEF AAge
<1> QED BY <1>1, <1>2, <1>3, <1>4, <1>5, <1>6, <1>7, <1>8, <1>9, <1>10, <1>11, <1>12, <1>13, <1>14
        DEF ANext, ALock

\* As long as only locks of killed hooks have been removed, and prune has
\* removed no state that was in use, nobody else changes the state that a hook
\* has read in its section.
LEMMA SectionsKept ==
  ASSUME ATypeOK, HookInv, LockInv, SectionInv, [ANext]_aVars
  PROVE  SectionInv'
<1> DEFINE Kept == \A h \in Hooks : aPc'[h] = "write" => aSnap'[h] = aFile'
<1> SUFFICES ASSUME aFaults' = {} PROVE Kept
  BY DEF SectionInv
<1> USE DEF ATypeOK, AGoto, ADone
<1>0. aFaults = {}
  BY DEF ANext, ALock, aVars, AStart, AMakeDir, AOwn, ALook, ASteal, ARead, AWrite, AFree, APruneList,
         APruneCheck, APruneRemove, AKill, ATick, AAge
<1>1. \A h, k \in Hooks : InSection(h) /\ InSection(k) => h = k
  BY <1>0 DEF LockInv
<1>2. \A h \in Hooks : aPc[h] = "write" => aSnap[h] = aFile /\ InSection(h)
  BY <1>0 DEF SectionInv, InSection
<1>3. ASSUME NEW h \in Hooks, AWrite(h) PROVE Kept
  BY <1>1, <1>2, <1>3 DEF AWrite, InSection
<1>4. ASSUME NEW h \in Hooks, ARead(h) PROVE Kept
  BY <1>2, <1>4 DEF ARead
<1>5. ASSUME NEW h \in Hooks, APruneRemove(h) PROVE Kept
  <2>1. aLock = Nobody
    BY <1>5 DEF APruneRemove
  <2>2. \A k \in Hooks : ~InSection(k)
    BY <1>0, <2>1 DEF LockInv
  <2> QED BY <1>2, <1>5, <2>2 DEF APruneRemove
<1>6. ASSUME aFile' = aFile, \A h \in Hooks : aPc'[h] = "write" => aPc[h] = "write" /\ aSnap'[h] = aSnap[h]
      PROVE  Kept
  BY <1>2, <1>6
<1>7. ASSUME NEW h \in Hooks,
             \/ \E kind \in JobKinds, allowStart \in BOOLEAN : AStart(h, kind, allowStart)
             \/ AMakeDir(h) \/ AOwn(h) \/ ASteal(h) \/ AFree(h) \/ APruneList(h) \/ APruneCheck(h)
             \/ AKill(h)
      PROVE  Kept
  BY <1>6, <1>7 DEF AStart, AMakeDir, AOwn, ASteal, AFree, APruneList, APruneCheck, AKill
<1>8. ASSUME NEW h \in Hooks, ALook(h) PROVE Kept
  BY <1>6, <1>8 DEF ALook, ATryAgain
<1>9. ATick \/ AAge \/ UNCHANGED aVars => Kept
  BY <1>6 DEF ATick, AAge, aVars
<1> QED BY <1>3, <1>4, <1>5, <1>7, <1>8, <1>9 DEF ANext, ALock

-----------------------------------------------------------------------------
\* The reviews.

\* What the next answer has to do with the ones before it.
LEMMA AnswerFollows ==
  ASSUME NEW rs \in Seq(Answers), NEW r \in Answers,
         \A i \in DOMAIN rs : Follows(rs[i], i, rs),
         Follows(r, Len(rs) + 1, rs)
  PROVE  \A i \in DOMAIN Append(rs, r) : Follows(Append(rs, r)[i], i, Append(rs, r))
<1>1. /\ DOMAIN rs = 1..Len(rs) /\ DOMAIN Append(rs, r) = 1..(Len(rs) + 1)
      /\ \A i \in 1..Len(rs) : Append(rs, r)[i] = rs[i]
      /\ Append(rs, r)[Len(rs) + 1] = r
      /\ Len(rs) \in Nat
  BY AppendProperties, LenProperties
<1>2. SUFFICES ASSUME NEW i \in 1..(Len(rs) + 1) PROVE Follows(Append(rs, r)[i], i, Append(rs, r))
  BY <1>1
<1>3. i = 1 \/ Append(rs, r)[i - 1] = rs[i - 1]
  <2>1. i = 1 \/ i - 1 \in 1..Len(rs)
    BY <1>1
  <2> QED BY <2>1, <1>1
<1>4. CASE i = 1
  <2>1. Follows(Append(rs, r)[1], 1, rs)
    BY <1>1, <1>4
  <2>2. Append(rs, r)[1].answer = "block" /\ Append(rs, r)[1].cycle = 1
    BY <2>1 DEF Follows
  <2> QED BY <1>4, <2>2 DEF Follows
<1>5. CASE i # 1
  <2>1. Follows(Append(rs, r)[i], i, rs)
    <3>1. CASE i = Len(rs) + 1
      BY <1>1, <3>1
    <3>2. CASE i # Len(rs) + 1
      <4>1. i \in 1..Len(rs)
        BY <1>1, <3>2
      <4> QED BY <4>1, <1>1
    <3> QED BY <3>1, <3>2
  <2> QED BY <1>3, <1>5, <2>1 DEF Follows
<1> QED BY <1>4, <1>5

\* A number of answers is one of the two kinds.
LEMMA Halves ==
  ASSUME NEW n \in Nat
  PROVE  /\ n % 2 = 1 => (n + 1) % 2 = 0 /\ (n + 2) \div 2 = (n + 1) \div 2 /\ n > 0
         /\ n % 2 = 0 => (n + 1) % 2 = 1 /\ (n + 2) \div 2 = (n + 1) \div 2 + 1
         /\ n % 2 \in {0, 1}
OBVIOUS

\* A Stop answers as its session's earlier answers ask for, and the state that
\* it writes says so.
LEMMA StopTells ==
  ASSUME NEW rs \in Seq(Answers), NEW s \in ActivatorState, NEW job \in Job,
         aClock \in 0..MaxClock, Tells(s, rs), StopResult(s, job)[1] # "none"
  PROVE  LET result == StopResult(s, job)
             r == [answer |-> result[1], cycle |-> result[2].cycle, at |-> job.now]
         IN  /\ r \in Answers /\ Follows(r, Len(rs) + 1, rs)
             /\ Tells(result[2], Append(rs, r))
<1> DEFINE result == StopResult(s, job)
           r == [answer |-> result[1], cycle |-> result[2].cycle, at |-> job.now]
           n == Len(rs)
<1>1. /\ result[1] \in {"block", "completed", "timeout"} /\ result[2] \in ActivatorState
      /\ job.now \in 0..MaxClock
  BY SectionWrites DEF Job
<1>2. r \in Answers
  <2> HIDE DEF result
  <2> QED BY <1>1 DEF Answers, ActivatorState
<1>3. Len(Append(rs, r)) = n + 1 /\ Append(rs, r)[n + 1] = r /\ n \in Nat
  <2> HIDE DEF r
  <2> QED BY <1>2, AppendProperties, LenProperties
<1>4. s # Nobody /\ s.phase \in {"waiting", "reviewing"} /\ s.cycle \in Nat /\ s.nextDueAt \in Nat
      /\ job.now \in Nat /\ job.allowStart \in BOOLEAN
  BY StateAssumption, TimesAssumption DEF ActivatorState, Job, Times
<1>5. CASE s.phase = "reviewing"
  <2>1. n % 2 = 1 /\ s.cycle = (n + 1) \div 2 /\ s.reviewDeadlineAt = rs[n].at + Watchdog
    BY <1>5 DEF Tells
  <2>2. (n + 1) % 2 = 0 /\ (n + 1 + 1) \div 2 = (n + 1) \div 2 /\ n > 0
    BY <1>3, <2>1, Halves
  <2> DEFINE next == [s EXCEPT !.phase = "waiting", !.nextDueAt = job.now + Interval,
                               !.reviewDeadlineAt = 0, !.modifiedAt = aClock]
  <2>3. result = <<IF job.now > s.reviewDeadlineAt THEN "timeout" ELSE "completed", next>>
    BY <1>4, <1>5, StopCases
  <2>4. next.phase = "waiting" /\ next.nextDueAt = job.now + Interval /\ next.cycle = s.cycle
    BY DEF ActivatorState
  <2>5. /\ r.answer = IF job.now > s.reviewDeadlineAt THEN "timeout" ELSE "completed"
        /\ r.cycle = s.cycle /\ r.at = job.now /\ result[2] = next
    <3> HIDE DEF result, next
    <3> QED BY <2>3, <2>4
  <2> HIDE DEF r, result, next
  <2>6. Follows(r, n + 1, rs)
    BY <1>3, <2>1, <2>2, <2>5 DEF Follows
  <2>7. Tells(result[2], Append(rs, r))
    BY <1>3, <2>1, <2>2, <2>4, <2>5 DEF Tells
  <2> QED BY <1>2, <2>6, <2>7 DEF r, result
<1>6. CASE s.phase = "waiting"
  <2>1. n % 2 = 0 /\ s.cycle = (n + 1) \div 2 /\ (n > 0 => s.nextDueAt = rs[n].at + Interval)
    BY <1>3, <1>6, Halves DEF Tells
  <2>2. (n + 1) % 2 = 1 /\ (n + 1 + 1) \div 2 = (n + 1) \div 2 + 1
    BY <1>3, <2>1, Halves
  <2> DEFINE next == [s EXCEPT !.phase = "reviewing", !.cycle = @ + 1,
                               !.reviewDeadlineAt = job.now + Watchdog, !.modifiedAt = aClock]
  <2>3. job.allowStart /\ job.now >= s.nextDueAt
    <3>1. ~(~job.allowStart \/ job.now < s.nextDueAt)
      <4> SUFFICES ASSUME ~job.allowStart \/ job.now < s.nextDueAt PROVE FALSE
        OBVIOUS
      <4>1. StopResult(s, job) = <<"none", s>>
        BY <1>4, <1>6, StopCases
      <4> QED BY <4>1
    <3> QED BY <3>1, <1>4
  <2>4. result = <<"block", next>>
    BY <1>4, <1>6, <2>3, StopCases
  <2>5. /\ next.phase = "reviewing" /\ next.reviewDeadlineAt = job.now + Watchdog
        /\ next.cycle = s.cycle + 1
    BY DEF ActivatorState
  <2>6. r.answer = "block" /\ r.cycle = s.cycle + 1 /\ r.at = job.now /\ result[2] = next
    <3> HIDE DEF result, next
    <3> QED BY <2>4, <2>5
  <2> HIDE DEF r, result, next
  <2>7. Follows(r, n + 1, rs)
    BY <1>3, <2>1, <2>2, <2>3, <2>6 DEF Follows
  <2>8. Tells(result[2], Append(rs, r))
    BY <1>3, <2>1, <2>2, <2>5, <2>6 DEF Tells
  <2> QED BY <1>2, <2>7, <2>8 DEF r, result
<1> QED BY <1>4, <1>5, <1>6

\* Nothing but the end of a section and a prune changes the state, and neither
\* makes it disagree with the answers.
LEMMA ReviewsKept ==
  ASSUME ATypeOK, HookInv, SectionInv, ReviewInv, [ANext]_aVars
  PROVE  ReviewInv'
<1> SUFFICES ASSUME aFaults' = {}
             PROVE  /\ \A i \in DOMAIN reviews' : Follows(reviews'[i], i, reviews')
                    /\ IF aFile' = Nobody THEN reviews' = <<>> ELSE Tells(aFile', reviews')
  BY DEF ReviewInv, Follows, Tells
<1>1. aFaults = {}
  BY DEF ANext, ALock, aVars, AStart, AMakeDir, AOwn, ALook, ASteal, ARead, AWrite, AFree, APruneList,
         APruneCheck, APruneRemove, AKill, ATick, AAge
<1>2. /\ \A i \in DOMAIN reviews : Follows(reviews[i], i, reviews)
      /\ IF aFile = Nobody THEN reviews = <<>> ELSE Tells(aFile, reviews)
      /\ reviews \in Seq(Answers)
  BY <1>1 DEF ReviewInv, ATypeOK, Answers
<1>3. CASE UNCHANGED <<aFile, reviews>>
  BY <1>2, <1>3
<1>4. ASSUME reviews' = <<>>, aFile' = Nobody
      PROVE  /\ \A i \in DOMAIN reviews' : Follows(reviews'[i], i, reviews')
             /\ IF aFile' = Nobody THEN reviews' = <<>> ELSE Tells(aFile', reviews')
  BY <1>4
<1>5. ASSUME NEW h \in Hooks, AWrite(h)
      PROVE  /\ \A i \in DOMAIN reviews' : Follows(reviews'[i], i, reviews')
             /\ IF aFile' = Nobody THEN reviews' = <<>> ELSE Tells(aFile', reviews')
  <2> DEFINE job == aJob[h]
             result == StopResult(aFile, job)
  <2>1. /\ aSnap[h] = aFile /\ job \in Job /\ aFile \in ActivatorState \cup {Nobody}
        /\ job.kind \in {"touch", "end", "stop"} /\ aClock \in 0..MaxClock /\ job.now \in 0..MaxClock
    <3>1. aPc[h] = "write"
      BY <1>5 DEF AWrite
    <3>2. aSnap[h] = aFile /\ aFile \in ActivatorState \cup {Nobody} /\ aClock \in 0..MaxClock
      BY <1>1, <3>1 DEF SectionInv, ATypeOK
    <3>3. job \in Job
      BY DEF ATypeOK
    <3>4. job.kind # "prune"
      BY <3>1 DEF HookInv
    <3> HIDE DEF job
    <3> QED BY <3>2, <3>3, <3>4 DEF Job, JobKinds
  <2>2. /\ \A now \in 0..MaxClock : Initial(now).cycle = 0 /\ Initial(now).phase = "waiting"
        /\ Len(<<>>) = 0
    BY DEF Initial
  <2>3. \A now \in 0..MaxClock : Tells(Initial(now), <<>>)
    BY <2>2 DEF Tells
  <2>4. CASE job.kind = "touch"
    <3>1. aFile' = TouchResult(aFile, job) /\ UNCHANGED reviews
      BY <1>5, <2>1, <2>4 DEF AWrite
    <3>2. aFile' # Nobody
      BY <2>1, <3>1, SectionWrites
    <3>3. Tells(aFile', reviews)
      <4>1. CASE aFile = Nobody
        BY <1>2, <2>1, <2>3, <3>1, <4>1 DEF TouchResult
      <4>2. CASE aFile # Nobody
        <5>1. aFile' = [aFile EXCEPT !.modifiedAt = aClock] /\ Tells(aFile, reviews)
          BY <1>2, <3>1, <4>2 DEF TouchResult
        <5>2. /\ aFile'.cycle = aFile.cycle /\ aFile'.phase = aFile.phase
              /\ aFile'.nextDueAt = aFile.nextDueAt /\ aFile'.reviewDeadlineAt = aFile.reviewDeadlineAt
          BY <2>1, <4>2, <5>1 DEF ActivatorState
        <5> QED BY <5>1, <5>2 DEF Tells
      <4> QED BY <4>1, <4>2
    <3> QED BY <1>2, <3>1, <3>2, <3>3
  <2>5. CASE job.kind = "end"
    BY <1>4, <1>5, <2>5 DEF AWrite
  <2>6. CASE job.kind = "stop"
    <3>1. /\ aFile' = result[2]
          /\ reviews' = IF result[1] = "none" THEN reviews
                        ELSE Append(reviews, [answer |-> result[1], cycle |-> result[2].cycle, at |-> job.now])
      BY <1>5, <2>1, <2>6 DEF AWrite
    <3>2. aFile' # Nobody
      BY <2>1, <3>1, SectionWrites
    <3>3. CASE aFile = Nobody
      <4>1. result = <<"none", Initial(job.now)>>
        BY <2>1, <3>3, StopCases
      <4>2. aFile' = Initial(job.now) /\ reviews' = <<>> /\ reviews' = reviews
        BY <1>2, <3>1, <3>3, <4>1
      <4> QED BY <1>2, <2>1, <2>3, <3>2, <4>2
    <3>4. CASE aFile # Nobody /\ result[1] # "none"
      <4> DEFINE r == [answer |-> result[1], cycle |-> result[2].cycle, at |-> job.now]
      <4>1. Tells(aFile, reviews) /\ aFile \in ActivatorState
        BY <1>2, <2>1, <3>4
      <4>2. r \in Answers /\ Follows(r, Len(reviews) + 1, reviews) /\ Tells(result[2], Append(reviews, r))
        BY <1>2, <2>1, <3>4, <4>1, StopTells
      <4>3. reviews' = Append(reviews, r)
        BY <3>1, <3>4
      <4> HIDE DEF r
      <4>4. \A i \in DOMAIN Append(reviews, r) : Follows(Append(reviews, r)[i], i, Append(reviews, r))
        BY <1>2, <4>2, AnswerFollows
      <4> QED BY <3>1, <3>2, <4>2, <4>3, <4>4
    <3>5. CASE aFile # Nobody /\ result[1] = "none"
      <4>1. aFile \in ActivatorState /\ Tells(aFile, reviews) /\ reviews' = reviews
        BY <1>2, <2>1, <3>1, <3>5
      <4>2. aFile' = aFile
        <5>1. aFile.phase \in {"waiting", "reviewing"} /\ aFile.nextDueAt \in Nat /\ job.now \in Nat
              /\ job.allowStart \in BOOLEAN
          BY <2>1, <4>1, TimesAssumption DEF ActivatorState, Job, Times
        <5>2. aFile.phase = "waiting"
          <6> SUFFICES ASSUME aFile.phase = "reviewing" PROVE FALSE
            BY <5>1
          <6>1. result[1] = IF job.now > aFile.reviewDeadlineAt THEN "timeout" ELSE "completed"
            BY <2>1, <3>5, <4>1 DEF StopResult
          <6> QED BY <6>1, <3>5
        <5>3. ~(job.allowStart /\ job.now >= aFile.nextDueAt)
          <6> SUFFICES ASSUME job.allowStart, job.now >= aFile.nextDueAt PROVE FALSE
            OBVIOUS
          <6>1. result[1] = "block"
            BY <3>5, <5>1, <5>2 DEF StopResult
          <6> QED BY <6>1, <3>5
        <5>4. result = <<"none", aFile>>
          BY <3>5, <5>1, <5>2, <5>3 DEF StopResult
        <5> QED BY <3>1, <5>4
      <4> QED BY <1>2, <3>2, <4>1, <4>2
    <3> QED BY <3>3, <3>4, <3>5
  <2> QED BY <2>1, <2>4, <2>5, <2>6
<1>6. ASSUME NEW h \in Hooks, APruneRemove(h)
      PROVE  /\ \A i \in DOMAIN reviews' : Follows(reviews'[i], i, reviews')
             /\ IF aFile' = Nobody THEN reviews' = <<>> ELSE Tells(aFile', reviews')
  BY <1>4, <1>6 DEF APruneRemove
<1>7. UNCHANGED <<aFile, reviews>> \/ \E h \in Hooks : AWrite(h) \/ APruneRemove(h)
  BY DEF ANext, ALock, aVars, AStart, AMakeDir, AOwn, ALook, ASteal, ARead, AFree, APruneList,
         APruneCheck, AKill, ATick, AAge
<1> QED BY <1>3, <1>5, <1>6, <1>7

\* All of it together.
THEOREM ActivatorInvariance == ASpec => []AInv
<1>1. AInv /\ [ANext]_aVars => AInv'
  BY ATypesKept, HooksKept, LocksKept, SectionsKept, ReviewsKept DEF AInv
<1> QED BY <1>1, ActivatorInit, PTL DEF ASpec

-----------------------------------------------------------------------------
\* What the activator promises.

\* Type correctness.
THEOREM ActivatorTypeCorrect == ASpec => []ATypeOK
<1>1. AInv => ATypeOK
  BY DEF AInv
<1> QED BY <1>1, ActivatorInvariance, PTL

\* Two hooks never are between reading and writing the state of a session at
\* the same time, although killed hooks leave their locks and the others look
\* at their age and remove them by their path in two steps: unless a lock was
\* overtaken, which takes a killed hook.
THEOREM ActivatorExclusive == ASpec => []AExclusive
<1>1. AInv => AExclusive
  BY DEF AInv, LockInv, InSection, AExclusive
<1> QED BY <1>1, ActivatorInvariance, PTL

\* The answers to Stop are reviews one after the other: each is begun once, an
\* interval after the last one ended, and ended at the next Stop, as timed out
\* exactly when the watchdog had passed, unless a lock was overtaken or prune
\* removed a state in use.
THEOREM ActivatorReviews == ASpec => []ReviewsInOrder
<1>1. AInv => ReviewsInOrder
  BY DEF AInv, ReviewInv, ReviewsInOrder, Follows
<1> QED BY <1>1, ActivatorInvariance, PTL

-----------------------------------------------------------------------------
\* Type correctness of pruning, and the times of the states.

\* Nothing is left at first.
LEMMA PruneInit == PInit => PInv
<1> SUFFICES ASSUME PInit PROVE PInv
  OBVIOUS
<1>1. NoTurnFile \in [at : 0..MaxStamp, valid : BOOLEAN]
  BY PruneAssumption DEF NoTurnFile
<1>2. NoTurnFiles \in [Turns -> [at : 0..MaxStamp, valid : BOOLEAN]]
  BY <1>1 DEF NoTurnFiles
<1>3. PTypeOK
  BY <1>2, PruneAssumption DEF PInit, PTypeOK
<1>4. StampInv
  BY DEF PInit, StampInv, Exists, NoTurnFiles
<1>5. ASSUME NEW p \in Pruners PROVE PrunerInv(p)
  <2>1. Candidates(p) = {} /\ pTodo[p] = {} /\ pPc[p] = "idle" /\ pNow[p] = 0 /\ pStamp = 1
    BY DEF PInit, Candidates
  <2>2. CandInv(p)
    BY <2>1 DEF PInit, CandInv
  <2>3. LookInv(p)
    BY <2>1 DEF LookInv, Ahead
  <2> QED BY <2>1, <2>2, <2>3 DEF PrunerInv
<1> QED BY <1>3, <1>4, <1>5 DEF PInv

\* A look of a pruner at a turn leaves its state alone, removes it or repairs it.
Looked(k) ==
  \/ UNCHANGED <<pFile, pStamp>>
  \/ Remove(k)
  \/ Broken(k) /\ Repair(k)

\* The two looks do nothing else to the states.
LEMMA LooksLook ==
  ASSUME NEW p \in Pruners, NEW k \in Turns, FirstLook(p, k) \/ SecondLook(p, k)
  PROVE  Looked(k)
<1>1. CASE FirstLook(p, k)
  <2>1. CASE Broken(k)
    BY <1>1, <2>1 DEF FirstLook, Looked
  <2>2. CASE ~Broken(k) /\ Exists(k) /\ Expired(p, pFile[k].at)
    BY <1>1, <2>2 DEF FirstLook, Looked
  <2>3. CASE ~Broken(k) /\ ~(~Broken(k) /\ Exists(k) /\ Expired(p, pFile[k].at))
    BY <1>1, <2>3 DEF FirstLook, Looked
  <2> QED BY <2>1, <2>2, <2>3
<1>2. CASE SecondLook(p, k)
  <2>1. CASE ~Exists(k)
    BY <1>2, <2>1 DEF SecondLook, Looked, Broken
  <2>2. CASE Broken(k)
    BY <1>2, <2>2 DEF SecondLook, Looked, Broken
  <2>3. CASE ~Broken(k) /\ Exists(k) /\ (Expired(p, pFile[k].at) \/ ~Survives(p, k))
    BY <1>2, <2>3 DEF SecondLook, Looked
  <2>4. CASE ~Broken(k) /\ Exists(k) /\ ~(Expired(p, pFile[k].at) \/ ~Survives(p, k))
    BY <1>2, <2>4 DEF SecondLook, Looked
  <2> QED BY <2>1, <2>2, <2>3, <2>4
<1> QED BY <1>1, <1>2

\* The types of the states and of the time.
FileTypes == pFile \in [Turns -> [at : 0..MaxStamp, valid : BOOLEAN]] /\ pStamp \in 1..MaxStamp

\* What happens to the states: a write at a new time, a removal, or nothing.
LEMMA FileSteps ==
  ASSUME FileTypes, [PNext]_pVars
  PROVE  \/ UNCHANGED <<pFile, pStamp>>
         \/ \E k \in Turns : Remove(k)
         \/ \E k \in Turns, valid \in BOOLEAN :
              /\ pStamp + 1 <= pStamp' /\ pStamp' \in 1..MaxStamp
              /\ pFile' = [pFile EXCEPT ![k] = [at |-> pStamp + 1, valid |-> valid]]
<1> DEFINE Stamped(k, valid) == /\ pStamp + 1 <= pStamp' /\ pStamp' \in 1..MaxStamp
                                /\ pFile' = [pFile EXCEPT ![k] = [at |-> pStamp + 1, valid |-> valid]]
<1> USE PruneAssumption DEF FileTypes
<1>2. ASSUME NEW k \in Turns, HookWrites(k) PROVE Stamped(k, TRUE)
  BY <1>2 DEF HookWrites, Written
<1>3. ASSUME NEW k \in Turns, HookClears(k) PROVE Remove(k)
  BY <1>3 DEF HookClears, Remove
<1>4. ASSUME NEW k \in Turns, Damaged(k) PROVE Stamped(k, FALSE)
  BY <1>4 DEF Damaged
<1>5. ASSUME NEW p \in Pruners, PruneStart(p) \/ PruneSort(p) \/ PruneEnd(p) PROVE UNCHANGED <<pFile, pStamp>>
  BY <1>5 DEF PruneStart, PruneSort, PruneEnd
<1>6. ASSUME NEW p \in Pruners, NEW k \in Turns, FirstBusy(p, k) \/ SecondBusy(p, k)
      PROVE  UNCHANGED <<pFile, pStamp>>
  BY <1>6 DEF FirstBusy, SecondBusy
<1>7. ASSUME NEW p \in Pruners, NEW k \in Turns, FirstLook(p, k) \/ SecondLook(p, k)
      PROVE  UNCHANGED <<pFile, pStamp>> \/ Remove(k) \/ Stamped(k, TRUE)
  <2>1. Repair(k) => Stamped(k, TRUE)
    BY DEF Repair, Written
  <2> QED BY <1>7, <2>1, LooksLook DEF Looked
<1>8. \A k \in Turns : HookWrites(k) \/ HookClears(k) \/ Damaged(k) => Remove(k) \/ Stamped(k, TRUE) \/ Stamped(k, FALSE)
  BY <1>2, <1>3, <1>4
<1> HIDE DEF Stamped
<1> DEFINE Outcome == \/ UNCHANGED <<pFile, pStamp>>
                       \/ \E k \in Turns : Remove(k)
                       \/ \E t \in Turns, valid \in BOOLEAN : Stamped(t, valid)
<1>9. Outcome
  <2>1. CASE UNCHANGED pVars
    BY <2>1 DEF pVars
  <2>2. ASSUME NEW k \in Turns, HookWrites(k) \/ HookClears(k) \/ Damaged(k) PROVE Outcome
    BY <1>8, <2>2
  <2>3. ASSUME NEW p \in Pruners, PruneStart(p) \/ PruneSort(p) \/ PruneEnd(p) PROVE Outcome
    BY <1>5, <2>3
  <2>4. ASSUME NEW p \in Pruners, NEW k \in Turns,
               FirstLook(p, k) \/ FirstBusy(p, k) \/ SecondLook(p, k) \/ SecondBusy(p, k)
        PROVE  Outcome
    BY <1>6, <1>7, <2>4
  <2> QED BY <2>1, <2>2, <2>3, <2>4 DEF PNext
<1> QED BY <1>9 DEF Stamped

\* Types of the pruners.
PrunerTypes ==
  /\ pPc \in [Pruners -> {"idle", "first", "second"}]
  /\ pNow \in [Pruners -> 0..MaxStamp]
  /\ pTodo \in [Pruners -> SUBSET Turns]
  /\ pCand \in [Pruners -> [Turns -> 0..MaxStamp]]
  /\ pKept \in [Pruners -> SUBSET Turns]
  /\ pStart \in [Pruners -> [Turns -> [at : 0..MaxStamp, valid : BOOLEAN]]]
  /\ pTouched \in [Pruners -> SUBSET Turns]
  /\ pGone \in [Pruners -> SUBSET Turns]

\* Every step keeps the types.
LEMMA PTypesKept ==
  ASSUME PTypeOK, [PNext]_pVars
  PROVE  PTypeOK'
<1>0. FileTypes /\ PrunerTypes
  BY DEF PTypeOK, FileTypes, PrunerTypes
<1>1. FileTypes'
  <2>1. ASSUME NEW k \in Turns, Remove(k) PROVE FileTypes'
    <3>1. NoTurnFile \in [at : 0..MaxStamp, valid : BOOLEAN]
      BY PruneAssumption DEF NoTurnFile
    <3> QED BY <1>0, <2>1, <3>1 DEF Remove, FileTypes
  <2>2. ASSUME NEW k \in Turns, NEW valid \in BOOLEAN, pStamp + 1 <= pStamp', pStamp' \in 1..MaxStamp,
               pFile' = [pFile EXCEPT ![k] = [at |-> pStamp + 1, valid |-> valid]]
        PROVE  FileTypes'
    <3>1. [at |-> pStamp + 1, valid |-> valid] \in [at : 0..MaxStamp, valid : BOOLEAN]
      BY <1>0, <2>2, PruneAssumption DEF FileTypes
    <3> QED BY <1>0, <2>2, <3>1 DEF FileTypes
  <2>3. CASE UNCHANGED <<pFile, pStamp>>
    BY <1>0, <2>3 DEF FileTypes
  <2> QED BY <1>0, <2>1, <2>2, <2>3, FileSteps
<1>2. NoTurnFiles \in [Turns -> [at : 0..MaxStamp, valid : BOOLEAN]]
  <2>1. NoTurnFile \in [at : 0..MaxStamp, valid : BOOLEAN]
    BY PruneAssumption DEF NoTurnFile
  <2> QED BY <2>1 DEF NoTurnFiles
<1>3. PrunerTypes'
  <2> USE <1>0, <1>2, PruneAssumption DEF PrunerTypes, FileTypes
  <2>0. /\ \A p \in Pruners, k \in Turns : Keep(p, k) => pKept' \in [Pruners -> SUBSET Turns]
        /\ \A p \in Pruners, k \in Turns, t \in 0..MaxStamp :
             Candidate(p, k, t) => pCand' \in [Pruners -> [Turns -> 0..MaxStamp]]
    <3>1. ASSUME NEW p \in Pruners, NEW k \in Turns, Keep(p, k) PROVE pKept' \in [Pruners -> SUBSET Turns]
      <4>1. pKept[p] \cup {k} \in SUBSET Turns
        OBVIOUS
      <4>2. pKept' = [pKept EXCEPT ![p] = pKept[p] \cup {k}]
        BY <3>1 DEF Keep
      <4> QED BY <4>1, <4>2
    <3>2. ASSUME NEW p \in Pruners, NEW k \in Turns, NEW t \in 0..MaxStamp, Candidate(p, k, t)
          PROVE  pCand' \in [Pruners -> [Turns -> 0..MaxStamp]]
      <4>1. [pCand[p] EXCEPT ![k] = t] \in [Turns -> 0..MaxStamp]
        OBVIOUS
      <4>2. pCand' = [pCand EXCEPT ![p] = [pCand[p] EXCEPT ![k] = t]]
        BY <3>2 DEF Candidate
      <4> QED BY <4>1, <4>2
    <3> QED BY <3>1, <3>2
  <2> DEFINE GhostTypes == /\ pStart \in [Pruners -> [Turns -> [at : 0..MaxStamp, valid : BOOLEAN]]]
                           /\ pTouched \in [Pruners -> SUBSET Turns] /\ pGone \in [Pruners -> SUBSET Turns]
  <2>11. ASSUME NEW k \in Turns, NEW seers \in SUBSET Pruners, NEW there \in BOOLEAN, Touched(k, seers, there)
         PROVE  GhostTypes'
    <3>1. \A S \in SUBSET Turns : S \cup {k} \in SUBSET Turns /\ S \ {k} \in SUBSET Turns
      OBVIOUS
    <3>2. pTouched' \in [Pruners -> SUBSET Turns]
      BY <2>11, <3>1 DEF Touched
    <3>3. pGone' \in [Pruners -> SUBSET Turns]
      BY <2>11, <3>1 DEF Touched
    <3> QED BY <2>11, <3>2, <3>3 DEF Touched
  <2>12. UNCHANGED ghosts => GhostTypes'
    BY DEF ghosts
  <2>1. CASE UNCHANGED pVars
    BY <2>1 DEF pVars, ghosts
  <2>2. ASSUME NEW k \in Turns, HookWrites(k) PROVE PrunerTypes'
    BY <2>2, <2>11 DEF HookWrites
  <2>3. ASSUME NEW k \in Turns, HookClears(k) \/ Damaged(k) PROVE PrunerTypes'
    <3>1. GhostTypes' /\ UNCHANGED <<pPc, pNow, pTodo, pCand, pKept>>
      BY <2>3, <2>11 DEF HookClears, Damaged
    <3> QED BY <3>1
  <2>4. ASSUME NEW p \in Pruners, PruneStart(p) PROVE PrunerTypes'
    <3>1. pNow' \in [Pruners -> 0..MaxStamp] /\ pStart' \in [Pruners -> [Turns -> [at : 0..MaxStamp, valid : BOOLEAN]]]
      BY <2>4 DEF PruneStart
    <3>2. [k \in Turns |-> 0] \in [Turns -> 0..MaxStamp]
      OBVIOUS
    <3>3. pCand' \in [Pruners -> [Turns -> 0..MaxStamp]]
      BY <2>4, <3>2 DEF PruneStart
    <3>4. pTodo' \in [Pruners -> SUBSET Turns]
      BY <2>4 DEF PruneStart
    <3> QED BY <2>4, <3>1, <3>3, <3>4 DEF PruneStart
  <2>5. ASSUME NEW p \in Pruners, PruneSort(p) PROVE PrunerTypes'
    BY <2>5 DEF PruneSort, ghosts
  <2>6. ASSUME NEW p \in Pruners, PruneEnd(p) PROVE PrunerTypes'
    <3>1. [k \in Turns |-> 0] \in [Turns -> 0..MaxStamp]
      OBVIOUS
    <3>2. pCand' \in [Pruners -> [Turns -> 0..MaxStamp]]
      BY <2>6, <3>1 DEF PruneEnd
    <3>3. pNow' \in [Pruners -> 0..MaxStamp] /\ pTodo' \in [Pruners -> SUBSET Turns]
      BY <2>6 DEF PruneEnd
    <3> QED BY <2>6, <3>2, <3>3 DEF PruneEnd
  <2>7. ASSUME NEW p \in Pruners, NEW k \in Turns, FirstBusy(p, k) \/ SecondBusy(p, k) PROVE PrunerTypes'
    <3>1. pKept' \in [Pruners -> SUBSET Turns]
      BY <2>0, <2>7 DEF FirstBusy, SecondBusy
    <3>2. UNCHANGED <<pPc, pNow, pCand, pStart>>
      BY <2>7 DEF FirstBusy, SecondBusy
    <3>3. pTouched[p] \cup {k} \in SUBSET Turns /\ pGone[p] \ {k} \in SUBSET Turns /\ pTodo[p] \ {k} \in SUBSET Turns
      OBVIOUS
    <3>4. /\ pTodo' = [pTodo EXCEPT ![p] = pTodo[p] \ {k}]
          /\ pTouched' = [pTouched EXCEPT ![p] = pTouched[p] \cup {k}]
          /\ pGone' = pGone \/ pGone' = [pGone EXCEPT ![p] = pGone[p] \ {k}]
      BY <2>7 DEF FirstBusy, SecondBusy
    <3>5. pTodo' \in [Pruners -> SUBSET Turns] /\ pTouched' \in [Pruners -> SUBSET Turns]
      BY <3>3, <3>4
    <3>6. pGone' \in [Pruners -> SUBSET Turns]
      BY <3>3, <3>4
    <3> QED BY <3>1, <3>2, <3>5, <3>6
  <2>9. ASSUME NEW p \in Pruners, NEW k \in Turns, FirstLook(p, k) PROVE PrunerTypes'
    <3>1. pStamp' \in 0..MaxStamp /\ pFile[k].at \in 0..MaxStamp
      BY <1>1
    <3>2. UNCHANGED pCand \/ Candidate(p, k, pStamp') \/ Candidate(p, k, pFile[k].at)
      BY <2>9 DEF FirstLook
    <3>3. pCand' \in [Pruners -> [Turns -> 0..MaxStamp]]
      BY <2>0, <3>1, <3>2
    <3>4. Touched(k, Pruners, TRUE) \/ Touched(k, Pruners \ {p}, FALSE) \/ UNCHANGED ghosts
      BY <2>9 DEF FirstLook
    <3>5. GhostTypes'
      BY <2>11, <2>12, <3>4
    <3> QED BY <2>9, <3>3, <3>5 DEF FirstLook
  <2>10. ASSUME NEW p \in Pruners, NEW k \in Turns, SecondLook(p, k) PROVE PrunerTypes'
    <3>1. UNCHANGED pKept \/ Keep(p, k)
      BY <2>10 DEF SecondLook
    <3>2. pKept' \in [Pruners -> SUBSET Turns]
      BY <2>0, <3>1
    <3>4. Touched(k, Pruners, TRUE) \/ Touched(k, Pruners \ {p}, FALSE) \/ UNCHANGED ghosts
      BY <2>10 DEF SecondLook
    <3>5. GhostTypes'
      BY <2>11, <2>12, <3>4
    <3> QED BY <2>10, <3>2, <3>5 DEF SecondLook
  <2> QED BY <2>1, <2>2, <2>3, <2>4, <2>5, <2>6, <2>7, <2>9, <2>10 DEF PNext
<1> QED BY <1>1, <1>3 DEF PTypeOK, FileTypes, PrunerTypes

\* The time of a write is later than all before it.
LEMMA StampsKept ==
  ASSUME PTypeOK, StampInv, [PNext]_pVars
  PROVE  StampInv'
<1> USE DEF StampInv, Exists, PTypeOK
<1>1. ASSUME NEW k \in Turns, Remove(k) PROVE StampInv'
  BY <1>1 DEF Remove
<1>2. ASSUME NEW k \in Turns, NEW valid \in BOOLEAN, pStamp + 1 <= pStamp', pStamp' \in 1..MaxStamp,
             pFile' = [pFile EXCEPT ![k] = [at |-> pStamp + 1, valid |-> valid]]
      PROVE  StampInv'
  <2>1. \A j \in Turns : Exists(j) => pFile[j].at \in 1..pStamp
    OBVIOUS
  <2>2. /\ pFile'[k].at = pStamp + 1
        /\ \A j \in Turns \ {k} : pFile'[j] = pFile[j]
    BY <1>2
  <2> QED BY <1>2, <2>1, <2>2
<1>3. CASE UNCHANGED <<pFile, pStamp>>
  BY <1>3
<1> QED BY <1>1, <1>2, <1>3, FileSteps DEF FileTypes

-----------------------------------------------------------------------------
\* The passes of a pruner.

\* A removal of the state of k, or a write at the time after pStamp.
Rewritten(k) ==
  /\ \A j \in Turns \ {k} : pFile'[j] = pFile[j]
  /\ \/ pFile'[k] = NoTurnFile /\ pStamp' = pStamp
     \/ pFile'[k] # NoTurnFile /\ pFile'[k].at = pStamp + 1 /\ pStamp + 1 <= pStamp' /\ pStamp' \in Nat

LEMMA RepairsRewrite ==
  ASSUME PTypeOK, NEW k \in Turns
  PROVE  (Repair(k) => Rewritten(k) /\ pFile'[k] # NoTurnFile) /\ (Remove(k) => Rewritten(k) /\ pFile'[k] = NoTurnFile)
<1>1. ASSUME Repair(k) PROVE Rewritten(k) /\ pFile'[k] # NoTurnFile
  <2>1. pStamp \in Nat /\ pStamp >= 1 /\ pStamp' = pStamp + 2 /\ pFile' = [pFile EXCEPT ![k] = Written(pStamp + 1)]
    BY <1>1, PruneAssumption DEF PTypeOK, Repair
  <2>2. pFile'[k] = Written(pStamp + 1) /\ \A j \in Turns \ {k} : pFile'[j] = pFile[j]
    BY <2>1 DEF PTypeOK
  <2>3. pFile'[k].at = pStamp + 1 /\ pFile'[k] # NoTurnFile
    BY <2>1, <2>2 DEF Written, NoTurnFile
  <2> QED BY <2>1, <2>2, <2>3 DEF Rewritten
<1>2. ASSUME Remove(k) PROVE Rewritten(k) /\ pFile'[k] = NoTurnFile
  BY <1>2 DEF PTypeOK, Remove, Rewritten
<1> QED BY <1>1, <1>2

\* What a pruner learns of a change: that the turn was touched and, when it
\* has still to come to it, whether its state is gone.
Sees(p, k) ==
  /\ pStart'[p] = pStart[p]
  /\ pPc[p] # "idle" => pTouched'[p] = pTouched[p] \cup {k}
  /\ IF pPc[p] = "first" \/ k \in pTodo[p]
       THEN pGone'[p] = IF pFile'[k] # NoTurnFile THEN pGone[p] \ {k} ELSE pGone[p] \cup {k}
       ELSE pGone'[p] = pGone[p]

LEMMA TouchedSeen ==
  ASSUME PTypeOK, NEW p \in Pruners, NEW k \in Turns, NEW seers, NEW there \in BOOLEAN,
         Touched(k, seers, there), there <=> pFile'[k] # NoTurnFile
  PROVE  /\ p \in seers => Sees(p, k)
         /\ p \notin seers => pStart'[p] = pStart[p] /\ pTouched'[p] = pTouched[p] /\ pGone'[p] = pGone[p]
BY DEF PTypeOK, Touched, Sees

\* What the others do, as a pruner sees it.
Foreign(p) ==
  /\ pPc'[p] = pPc[p] /\ pNow'[p] = pNow[p] /\ pTodo'[p] = pTodo[p] /\ pCand'[p] = pCand[p]
  /\ pKept'[p] = pKept[p]
  /\ \/ /\ pFile' = pFile /\ pStamp' = pStamp
        /\ pStart'[p] = pStart[p] /\ pTouched'[p] = pTouched[p] /\ pGone'[p] = pGone[p]
     \/ \E k \in Turns : Rewritten(k) /\ Sees(p, k)

LEMMA HooksForeign ==
  ASSUME PTypeOK, NEW p \in Pruners, NEW k \in Turns, HookWrites(k) \/ HookClears(k) \/ Damaged(k)
  PROVE  Foreign(p)
<1> USE DEF PTypeOK
<1>1. CASE HookWrites(k)
  <2>1. Rewritten(k) /\ pFile'[k] # NoTurnFile
    BY <1>1, PruneAssumption DEF HookWrites, Rewritten, Written, NoTurnFile
  <2> QED BY <1>1, <2>1, TouchedSeen DEF HookWrites, Foreign
<1>2. CASE HookClears(k)
  <2>1. Rewritten(k) /\ pFile'[k] = NoTurnFile
    BY <1>2 DEF HookClears, Rewritten
  <2> QED BY <1>2, <2>1, TouchedSeen DEF HookClears, Foreign
<1>3. CASE Damaged(k)
  <2>1. Rewritten(k) /\ pFile'[k] # NoTurnFile
    BY <1>3, PruneAssumption DEF Damaged, Rewritten, NoTurnFile
  <2> QED BY <1>3, <2>1, TouchedSeen DEF Damaged, Foreign
<1> QED BY <1>1, <1>2, <1>3

LEMMA OthersForeign ==
  ASSUME PTypeOK, NEW p \in Pruners, NEW q \in Pruners \ {p},
         \/ PruneStart(q) \/ PruneSort(q) \/ PruneEnd(q)
         \/ \E k \in Turns : FirstLook(q, k) \/ FirstBusy(q, k) \/ SecondLook(q, k) \/ SecondBusy(q, k)
  PROVE  Foreign(p)
<1> USE DEF PTypeOK
<1>1. CASE PruneStart(q)
  BY <1>1 DEF PruneStart, Foreign
<1>2. CASE PruneSort(q)
  BY <1>2 DEF PruneSort, Foreign, ghosts
<1>3. CASE PruneEnd(q)
  BY <1>3 DEF PruneEnd, Foreign
<1>4. ASSUME NEW k \in Turns, FirstBusy(q, k) PROVE Foreign(p)
  BY <1>4 DEF FirstBusy, Foreign
<1>5. ASSUME NEW k \in Turns, SecondBusy(q, k) PROVE Foreign(p)
  BY <1>5 DEF SecondBusy, Keep, Foreign
<1>6. ASSUME NEW k \in Turns,
             \/ Repair(k) /\ Touched(k, Pruners, TRUE)
             \/ Remove(k) /\ Touched(k, Pruners \ {q}, FALSE)
      PROVE  Rewritten(k) /\ Sees(p, k)
  <2>1. CASE Repair(k) /\ Touched(k, Pruners, TRUE)
    BY <2>1, RepairsRewrite, TouchedSeen
  <2>2. CASE Remove(k) /\ Touched(k, Pruners \ {q}, FALSE)
    <3>1. Rewritten(k) /\ pFile'[k] = NoTurnFile /\ p \in Pruners \ {q}
      BY <2>2, RepairsRewrite
    <3>2. (FALSE <=> pFile'[k] # NoTurnFile) /\ FALSE \in BOOLEAN
      BY <3>1
    <3> QED BY <2>2, <3>1, <3>2, TouchedSeen
  <2> QED BY <1>6, <2>1, <2>2
<1>7. ASSUME NEW k \in Turns, FirstLook(q, k) PROVE Foreign(p)
  <2>1. pCand'[p] = pCand[p]
    <3>1. UNCHANGED pCand \/ Candidate(q, k, pStamp') \/ Candidate(q, k, pFile[k].at)
      BY <1>7 DEF FirstLook
    <3> QED BY <3>1 DEF Candidate
  <2>2. pPc'[p] = pPc[p] /\ pNow'[p] = pNow[p] /\ pTodo'[p] = pTodo[p] /\ pKept'[p] = pKept[p]
    BY <1>7 DEF FirstLook
  <2>3. \/ Repair(k) /\ Touched(k, Pruners, TRUE)
        \/ Remove(k) /\ Touched(k, Pruners \ {q}, FALSE)
        \/ UNCHANGED <<pFile, pStamp, ghosts>>
    BY <1>7 DEF FirstLook
  <2> QED BY <1>6, <2>1, <2>2, <2>3 DEF Foreign, ghosts
<1>8. ASSUME NEW k \in Turns, SecondLook(q, k) PROVE Foreign(p)
  <2>1. pKept'[p] = pKept[p]
    <3>1. UNCHANGED pKept \/ Keep(q, k)
      BY <1>8 DEF SecondLook
    <3> QED BY <3>1 DEF Keep
  <2>2. pPc'[p] = pPc[p] /\ pNow'[p] = pNow[p] /\ pTodo'[p] = pTodo[p] /\ pCand'[p] = pCand[p]
    BY <1>8 DEF SecondLook
  <2>3. \/ Repair(k) /\ Touched(k, Pruners, TRUE)
        \/ Remove(k) /\ Touched(k, Pruners \ {q}, FALSE)
        \/ UNCHANGED <<pFile, pStamp, ghosts>>
    BY <1>8 DEF SecondLook
  <2> QED BY <1>6, <2>1, <2>2, <2>3 DEF Foreign, ghosts
<1> QED BY <1>1, <1>2, <1>3, <1>4, <1>5, <1>7, <1>8

\* The numbers that the proofs below compare.
LEMMA PruneNumbers ==
  ASSUME PTypeOK, NEW p \in Pruners
  PROVE  /\ pStamp \in Nat /\ pNow[p] \in Nat /\ MaxAge \in Nat
         /\ \A k \in Turns : pFile[k].at \in Nat /\ pCand[p][k] \in Nat /\ pStart[p][k].at \in Nat
         /\ pTodo[p] \subseteq Turns
BY PruneAssumption DEF PTypeOK

\* A change by others moves no time that the pruner has taken, and what it
\* writes is later than all of them.
LEMMA ForeignKept ==
  ASSUME PTypeOK, StampInv, NEW p \in Pruners, PrunerInv(p), Foreign(p)
  PROVE  PrunerInv(p)'
<1>1. /\ pPc'[p] = pPc[p] /\ pNow'[p] = pNow[p] /\ pTodo'[p] = pTodo[p] /\ pCand'[p] = pCand[p]
      /\ pKept'[p] = pKept[p] /\ pStart'[p] = pStart[p]
      /\ Candidates(p)' = Candidates(p) /\ Done(p)' = Done(p) /\ Ahead(p)' = Ahead(p)
  BY DEF Foreign, Sees, Candidates, Done, Ahead
<1>2. /\ pStamp \in Nat /\ pNow[p] \in Nat /\ MaxAge \in Nat
      /\ \A k \in Turns : pFile[k].at \in Nat /\ pCand[p][k] \in Nat /\ pStart[p][k].at \in Nat
      /\ pTodo[p] \subseteq Turns
  BY PruneNumbers
<1>3. CASE pFile' = pFile /\ pStamp' = pStamp /\ pTouched'[p] = pTouched[p] /\ pGone'[p] = pGone[p]
  <2>1. \A k : Rank(p, k)' = Rank(p, k)
    BY <1>1, <1>3 DEF Rank
  <2> QED BY <1>1, <1>3, <2>1 DEF PrunerInv, CandInv, LookInv, FirstInv, SecondInv, AsFound, DroppedState, Expired, Exists
<1>4. ASSUME NEW k \in Turns, Rewritten(k), Sees(p, k) PROVE PrunerInv(p)'
  <2>1. /\ pStamp <= pStamp'
        /\ \A j \in Turns \ {k} : pFile'[j] = pFile[j]
        /\ pFile'[k] # NoTurnFile => pFile'[k].at = pStamp + 1
        /\ pPc[p] # "idle" => pTouched'[p] = pTouched[p] \cup {k}
        /\ \A j \in Turns \ {k} : j \in pGone'[p] <=> j \in pGone[p]
        /\ pPc[p] = "first" \/ k \in pTodo[p] => (k \in pGone'[p] <=> pFile'[k] = NoTurnFile)
        /\ ~(pPc[p] = "first" \/ k \in pTodo[p]) => pGone'[p] = pGone[p]
    BY <1>2, <1>4 DEF Rewritten, Sees
  <2>2. CandInv(p)'
    <3>1. pNow'[p] <= pStamp' /\ \A j \in Turns : pCand'[p][j] <= pStamp'
      <4>1. pStamp' \in Nat
        BY <1>2, <1>4 DEF Rewritten
      <4> QED BY <1>1, <1>2, <2>1, <4>1 DEF PrunerInv, CandInv
    <3>2. ASSUME NEW j \in Turns, NEW i \in Turns, pCand'[p][j] > 0,
                 pCand'[p][j] = pCand'[p][i] \/ (Exists(i)' /\ pFile'[i].at = pCand'[p][j])
          PROVE  j = i
      BY <1>1, <1>2, <2>1, <3>2 DEF PrunerInv, CandInv, Exists
    <3> QED BY <1>1, <3>1, <3>2 DEF PrunerInv, CandInv
  <2>3. LookInv(p)'
    <3>1. Ahead(p) \subseteq Turns /\ (k \in Ahead(p) => pPc[p] = "first" \/ k \in pTodo[p])
      BY <1>2 DEF Ahead, Candidates
    <3>2. \A j \in Ahead(p) : Exists(j)' <=> j \notin pGone'[p]
      BY <2>1, <3>1 DEF PrunerInv, LookInv, Exists
    <3>3. pFile'[k] # NoTurnFile => ~Expired(p, pFile'[k].at)
      BY <1>2, <2>1 DEF PrunerInv, CandInv, Expired
    <3>4. \A j \in Ahead(p) \cap Candidates(p) : Exists(j)' => ~Expired(p, pFile'[j].at)
      BY <2>1, <3>1, <3>3 DEF PrunerInv, LookInv, Exists
    <3> QED BY <1>1, <3>2, <3>4 DEF LookInv, Expired
  <2>4. ASSUME pPc[p] = "first" PROVE FirstInv(p)'
    BY <1>1, <2>1, <2>4 DEF PrunerInv, FirstInv, AsFound, DroppedState, Expired, Exists
  <2>5. ASSUME pPc[p] = "second" PROVE SecondInv(p)'
    <3>1. SecondInv(p)
      BY <2>5 DEF PrunerInv
    <3>2. Done(p) \ pGone'[p] = Done(p) \ pGone[p]
      <4>1. Done(p) \subseteq Turns /\ (k \in pTodo[p] => k \notin Done(p))
        BY DEF Done, Candidates
      <4>2. k \notin pTodo[p] => pGone'[p] = pGone[p]
        BY <2>1, <2>5
      <4>3. \A j \in Done(p) : j \in pGone'[p] <=> j \in pGone[p]
        BY <2>1, <4>1, <4>2
      <4> QED BY <4>3
    <3>3. ASSUME NEW j \in Done(p), j # k PROVE Rank(p, j)' = Rank(p, j)
      <4>1. j \in Turns
        BY DEF Done, Candidates
      <4>2. CASE k \in pTodo[p]
        <5>1. ~(pCand[p][k] > pCand[p][j])
          BY <1>2, <3>1, <4>1, <4>2 DEF SecondInv
        <5> QED BY <1>1, <2>1, <5>1 DEF Rank
      <4>3. CASE k \notin pTodo[p]
        BY <1>1, <2>1, <2>5, <4>3 DEF Rank
      <4> QED BY <4>2, <4>3
    <3>4. ASSUME NEW j \in Turns \ pTouched'[p]
          PROVE  /\ j \notin Candidates(p) => DroppedState(p, j)'
                 /\ j \in Candidates(p) => /\ pStart'[p][j] # NoTurnFile /\ pCand'[p][j] = pStart'[p][j].at
                                           /\ ~Expired(p, pCand[p][j])'
                 /\ j \in pTodo[p] => AsFound(p, j)' /\ pFile'[j].valid
                 /\ j \in Done(p) => (Exists(j)' <=> Cardinality(Rank(p, j)') < MaxFiles)
      <4>1. j # k /\ j \in Turns \ pTouched[p] /\ pFile'[j] = pFile[j]
        BY <2>1, <2>5, <3>4
      <4> QED BY <1>1, <3>1, <3>3, <4>1 DEF SecondInv, DroppedState, AsFound, Exists, Expired
    <3> QED BY <1>1, <3>1, <3>2, <3>4 DEF SecondInv
  <2> QED BY <1>1, <2>2, <2>3, <2>4, <2>5 DEF PrunerInv
<1> QED BY <1>3, <1>4 DEF Foreign

\* A pruner begins with what it finds.
LEMMA BegunInv ==
  ASSUME PTypeOK, StampInv, NEW p \in Pruners, PruneStart(p)
  PROVE  PrunerInv(p)'
<1>1. /\ pPc'[p] = "first" /\ pNow'[p] = pStamp /\ pStamp' = pStamp /\ pStart'[p] = pFile /\ pFile' = pFile
      /\ pKept'[p] = {} /\ pTodo'[p] = {k \in Turns : Exists(k)} /\ \A k \in Turns : pCand'[p][k] = 0
      /\ pTouched'[p] = {} /\ pGone'[p] = {}
  BY DEF PruneStart, PTypeOK
<1>2. Candidates(p)' = {}
  BY <1>1 DEF Candidates
<1>3. CandInv(p)'
  BY <1>1, <1>2, PruneNumbers DEF CandInv
<1>4. LookInv(p)'
  BY <1>1, <1>2 DEF LookInv, Ahead, Exists
<1>5. FirstInv(p)'
  BY <1>1, <1>2 DEF FirstInv, AsFound, DroppedState, Exists
<1> QED BY <1>1, <1>3, <1>4, <1>5 DEF PrunerInv

\* The first pass removes what is too old and makes the rest candidates.
LEMMA FirstKept ==
  ASSUME PTypeOK, StampInv, NEW p \in Pruners, PrunerInv(p), NEW k \in Turns, FirstLook(p, k)
  PROVE  PrunerInv(p)'
<1>1. /\ pPc[p] = "first" /\ pPc'[p] = "first" /\ pNow'[p] = pNow[p] /\ pKept'[p] = pKept[p]
      /\ k \in pTodo[p] /\ pTodo'[p] = pTodo[p] \ {k}
  BY DEF FirstLook, PTypeOK
<1>2. CandInv(p) /\ LookInv(p) /\ FirstInv(p)
  BY <1>1 DEF PrunerInv
<1>3. /\ pStamp \in Nat /\ pNow[p] \in Nat /\ MaxAge \in Nat
      /\ \A j \in Turns : pFile[j].at \in Nat /\ pCand[p][j] \in Nat /\ pStart[p][j].at \in Nat
      /\ pTodo[p] \subseteq Turns
  BY PruneNumbers
<1>4. pCand[p][k] = 0 /\ (Exists(k) <=> k \notin pGone[p])
  BY <1>1, <1>2 DEF FirstInv, LookInv, Ahead
<1>5. CASE Broken(k)
  <2>1. Repair(k) /\ Candidate(p, k, pStamp') /\ Touched(k, Pruners, TRUE)
    BY <1>5 DEF FirstLook
  <2>2. /\ Rewritten(k) /\ pFile'[k] # NoTurnFile /\ pFile'[k].at = pStamp + 1 /\ pStamp' = pStamp + 2
    BY <2>1, RepairsRewrite DEF Repair, Written, PTypeOK
  <2>3. Sees(p, k)
    BY <2>1, <2>2, TouchedSeen
  <2>4. /\ \A j \in Turns \ {k} : pFile'[j] = pFile[j] /\ pCand'[p][j] = pCand[p][j]
        /\ pCand'[p][k] = pStamp + 2
        /\ pTouched'[p] = pTouched[p] \cup {k} /\ pGone'[p] = pGone[p] \ {k} /\ pStart'[p] = pStart[p]
    BY <1>1, <2>1, <2>2, <2>3 DEF Rewritten, Sees, Candidate, PTypeOK
  <2>5. Candidates(p)' = Candidates(p) \cup {k} /\ Ahead(p)' = Ahead(p)
    BY <1>1, <1>3, <2>4 DEF Candidates, Ahead
  <2>6. CandInv(p)'
    <3>1. \A j \in Turns : Exists(j) => pFile[j].at <= pStamp
      BY <1>3 DEF StampInv
    <3>2. ASSUME NEW j \in Turns, NEW i \in Turns, pCand'[p][j] > 0,
                 pCand'[p][j] = pCand'[p][i] \/ (Exists(i)' /\ pFile'[i].at = pCand'[p][j])
          PROVE  j = i
      BY <1>2, <1>3, <2>2, <2>4, <3>1, <3>2 DEF CandInv, Exists
    <3> QED BY <1>1, <1>2, <1>3, <2>2, <2>4, <3>2 DEF CandInv
  <2>7. LookInv(p)'
    <3>1. ~Expired(p, pFile'[k].at)
      BY <1>2, <1>3, <2>2 DEF CandInv, Expired
    <3>2. \A j \in Ahead(p) : j \in Turns
      BY <1>3 DEF Ahead, Candidates
    <3> QED BY <1>1, <1>2, <2>2, <2>4, <2>5, <3>1, <3>2 DEF LookInv, Expired, Exists
  <2>8. FirstInv(p)'
    <3>1. ASSUME NEW j \in Turns \ pTouched'[p]
          PROVE  /\ j \in pTodo'[p] \cup Candidates(p)' => AsFound(p, j)'
                 /\ j \in Candidates(p)' => pFile'[j].valid /\ pCand'[p][j] = pFile'[j].at
                 /\ j \notin pTodo'[p] \cup Candidates(p)' => DroppedState(p, j)'
      <4>1. j # k /\ j \in Turns \ pTouched[p] /\ pFile'[j] = pFile[j] /\ pCand'[p][j] = pCand[p][j]
        BY <2>4, <3>1
      <4> QED BY <1>1, <1>2, <2>4, <2>5, <4>1 DEF FirstInv, AsFound, DroppedState, Expired, Exists
    <3>2. \A j \in pTodo'[p] : pCand'[p][j] = 0
      BY <1>1, <1>2, <1>3, <2>4 DEF FirstInv
    <3> QED BY <1>1, <1>2, <3>1, <3>2 DEF FirstInv
  <2> QED BY <1>1, <2>6, <2>7, <2>8 DEF PrunerInv
<1>6. CASE ~Broken(k) /\ Exists(k) /\ Expired(p, pFile[k].at)
  <2>1. Remove(k) /\ UNCHANGED pCand /\ Touched(k, Pruners \ {p}, FALSE)
    BY <1>6 DEF FirstLook
  <2>2. /\ pFile'[k] = NoTurnFile /\ pStamp' = pStamp /\ \A j \in Turns \ {k} : pFile'[j] = pFile[j]
    BY <2>1 DEF Remove, PTypeOK
  <2>3. pTouched'[p] = pTouched[p] /\ pGone'[p] = pGone[p] /\ pStart'[p] = pStart[p] /\ pCand' = pCand
    <3>1. (FALSE <=> pFile'[k] # NoTurnFile) /\ FALSE \in BOOLEAN /\ p \notin Pruners \ {p}
      BY <2>2
    <3> QED BY <2>1, <3>1, TouchedSeen
  <2>4. Candidates(p)' = Candidates(p) /\ k \notin Candidates(p) /\ Ahead(p)' = Ahead(p) \ {k}
    BY <1>1, <1>3, <1>4, <2>3 DEF Candidates, Ahead
  <2>5. CandInv(p)'
    BY <1>1, <1>2, <2>2, <2>3, <2>4 DEF CandInv, Exists
  <2>6. LookInv(p)'
    <3>1. \A j \in Ahead(p) : j \in Turns
      BY <1>3 DEF Ahead, Candidates
    <3> QED BY <1>1, <1>2, <2>2, <2>3, <2>4, <3>1 DEF LookInv, Expired, Exists
  <2>7. FirstInv(p)'
    BY <1>1, <1>2, <1>6, <2>2, <2>3, <2>4 DEF FirstInv, AsFound, DroppedState, Expired, Exists
  <2> QED BY <1>1, <2>5, <2>6, <2>7 DEF PrunerInv
<1>7. CASE ~Broken(k) /\ ~(~Broken(k) /\ Exists(k) /\ Expired(p, pFile[k].at))
  <2>1. Candidate(p, k, pFile[k].at) /\ UNCHANGED <<pFile, pStamp, ghosts>>
    BY <1>7 DEF FirstLook
  <2>2. /\ pFile' = pFile /\ pStamp' = pStamp
        /\ pTouched'[p] = pTouched[p] /\ pGone'[p] = pGone[p] /\ pStart'[p] = pStart[p]
        /\ pCand'[p][k] = pFile[k].at /\ \A j \in Turns \ {k} : pCand'[p][j] = pCand[p][j]
    BY <2>1 DEF ghosts, Candidate, PTypeOK
  <2>3. \A j \in Turns : Exists(j) => pFile[j].at <= pStamp /\ pFile[j].at > 0
    BY <1>3 DEF StampInv
  <2>4. ~Exists(k) => pFile[k].at = 0
    BY DEF Exists, NoTurnFile
  <2>5. Candidates(p)' = IF Exists(k) THEN Candidates(p) \cup {k} ELSE Candidates(p)
    BY <1>3, <1>4, <2>2, <2>3, <2>4 DEF Candidates
  <2>6. Ahead(p)' \subseteq Ahead(p) /\ Ahead(p) \subseteq Turns
    BY <1>1, <1>3, <2>5 DEF Ahead, Candidates
  <2>7. CandInv(p)'
    <3>1. ASSUME NEW j \in Turns, NEW i \in Turns, pCand'[p][j] > 0,
                 pCand'[p][j] = pCand'[p][i] \/ (Exists(i)' /\ pFile'[i].at = pCand'[p][j])
          PROVE  j = i
      <4>1. CASE j = k /\ i # k
        BY <1>2, <1>3, <2>2, <2>3, <2>4, <3>1, <4>1 DEF CandInv, StampInv, Exists
      <4>2. CASE j # k
        BY <1>2, <1>3, <2>2, <2>3, <2>4, <3>1, <4>2 DEF CandInv, Exists
      <4> QED BY <4>1, <4>2
    <3>2. \A j \in Turns : pCand'[p][j] <= pStamp'
      BY <1>2, <1>3, <2>2, <2>3, <2>4 DEF CandInv
    <3> QED BY <1>1, <1>2, <2>2, <3>1, <3>2 DEF CandInv
  <2>8. LookInv(p)'
    BY <1>1, <1>2, <1>7, <2>2, <2>5, <2>6 DEF LookInv, Expired, Exists, Broken
  <2>9. FirstInv(p)'
    <3>1. ASSUME NEW j \in Turns \ pTouched[p]
          PROVE  /\ j \in pTodo'[p] \cup Candidates(p)' => AsFound(p, j)'
                 /\ j \in Candidates(p)' => pFile'[j].valid /\ pCand'[p][j] = pFile'[j].at
                 /\ j \notin pTodo'[p] \cup Candidates(p)' => DroppedState(p, j)'
      <4>1. CASE j = k
        <5>1. AsFound(p, k)
          BY <1>1, <1>2, <3>1, <4>1 DEF FirstInv
        <5> QED BY <1>1, <1>7, <2>2, <2>5, <4>1, <5>1 DEF AsFound, Exists, Broken
      <4>2. CASE j # k
        BY <1>1, <1>2, <2>2, <2>5, <3>1, <4>2 DEF FirstInv, AsFound, DroppedState, Expired, Exists
      <4> QED BY <4>1, <4>2
    <3>2. \A j \in pTodo'[p] : pCand'[p][j] = 0
      BY <1>1, <1>2, <1>3, <2>2 DEF FirstInv
    <3> QED BY <1>1, <1>2, <2>2, <3>1, <3>2 DEF FirstInv
  <2> QED BY <1>1, <2>7, <2>8, <2>9 DEF PrunerInv
<1> QED BY <1>5, <1>6, <1>7

\* A turn whose lock is busy is no candidate.
LEMMA BusyKept ==
  ASSUME PTypeOK, NEW p \in Pruners, PrunerInv(p), NEW k \in Turns, FirstBusy(p, k)
  PROVE  PrunerInv(p)'
<1>1. /\ pPc[p] = "first" /\ pPc'[p] = "first" /\ pNow'[p] = pNow[p] /\ pKept'[p] = pKept[p] /\ pCand' = pCand
      /\ pFile' = pFile /\ pStamp' = pStamp /\ pStart'[p] = pStart[p] /\ pGone'[p] = pGone[p]
      /\ k \in pTodo[p] /\ pTodo'[p] = pTodo[p] \ {k} /\ pTouched'[p] = pTouched[p] \cup {k}
  BY DEF FirstBusy, PTypeOK
<1>2. CandInv(p) /\ LookInv(p) /\ FirstInv(p)
  BY <1>1 DEF PrunerInv
<1>3. Candidates(p)' = Candidates(p) /\ Ahead(p)' \subseteq Ahead(p)
  BY <1>1 DEF Candidates, Ahead
<1>4. CandInv(p)' /\ LookInv(p)'
  BY <1>1, <1>2, <1>3 DEF CandInv, LookInv, Expired, Exists
<1>5. FirstInv(p)'
  BY <1>1, <1>2, <1>3 DEF FirstInv, AsFound, DroppedState, Expired, Exists
<1> QED BY <1>1, <1>4, <1>5 DEF PrunerInv

\* The second pass begins with all candidates.
LEMMA SortedInv ==
  ASSUME PTypeOK, NEW p \in Pruners, PrunerInv(p), PruneSort(p)
  PROVE  PrunerInv(p)'
<1>1. /\ pPc[p] = "first" /\ pPc'[p] = "second" /\ pNow'[p] = pNow[p] /\ pKept'[p] = pKept[p]
      /\ pStart'[p] = pStart[p] /\ pCand'[p] = pCand[p] /\ pFile' = pFile /\ pStamp' = pStamp /\ pTodo[p] = {}
      /\ pTodo'[p] = Candidates(p) /\ pTouched'[p] = pTouched[p] /\ pGone'[p] = pGone[p]
  BY DEF PruneSort, PTypeOK, ghosts, Candidates
<1>2. CandInv(p) /\ LookInv(p) /\ FirstInv(p)
  BY <1>1 DEF PrunerInv
<1>3. Candidates(p)' = Candidates(p) /\ Ahead(p)' = Ahead(p) /\ Done(p)' = {} /\ Ahead(p) = Candidates(p)
  BY <1>1 DEF Candidates, Ahead, Done
<1>4. CandInv(p)' /\ LookInv(p)'
  BY <1>1, <1>2, <1>3 DEF CandInv, LookInv, Expired, Exists
<1>5. SecondInv(p)'
  <2>1. ASSUME NEW k \in Turns \ pTouched[p]
        PROVE  /\ k \notin Candidates(p) => DroppedState(p, k)
               /\ k \in Candidates(p) => /\ pStart[p][k] # NoTurnFile /\ pCand[p][k] = pStart[p][k].at
                                         /\ ~Expired(p, pCand[p][k]) /\ AsFound(p, k) /\ pFile[k].valid
    BY <1>1, <1>2, <1>3, <2>1 DEF FirstInv, LookInv, AsFound, Exists
  <2>2. pKept'[p] = {}
    BY <1>1, <1>2 DEF FirstInv
  <2> QED BY <1>1, <1>3, <2>1, <2>2 DEF SecondInv, AsFound, DroppedState, Expired, Exists
<1> QED BY <1>1, <1>4, <1>5 DEF PrunerInv

\* How the second pass goes on from a candidate: it is gone; it is removed,
\* being beyond the limit; or it is kept, as it was, repaired or locked.
Passed(p, k) == pFile' = pFile /\ pStamp' = pStamp /\ ~Exists(k) /\ UNCHANGED <<pKept, ghosts>>
Cut(p, k) ==
  /\ Remove(k) /\ UNCHANGED pKept
  /\ pStart'[p] = pStart[p] /\ pTouched'[p] = pTouched[p] /\ pGone'[p] = pGone[p]
  /\ Exists(k) /\ pFile[k].at = pCand[p][k] /\ ~(Cardinality(pKept[p]) < MaxFiles)
Kept(p, k) ==
  /\ Keep(p, k)
  /\ pStart'[p] = pStart[p] /\ pGone'[p] = pGone[p] \ {k}
  /\ \/ pTouched'[p] = pTouched[p] \cup {k} /\ (Rewritten(k) \/ (pFile' = pFile /\ pStamp' = pStamp))
     \/ /\ pTouched'[p] = pTouched[p] /\ pFile' = pFile /\ pStamp' = pStamp
        /\ Exists(k) /\ Survives(p, k)

LEMMA SecondOutcomes ==
  ASSUME PTypeOK, StampInv, NEW p \in Pruners, PrunerInv(p), NEW k \in Turns,
         SecondLook(p, k) \/ SecondBusy(p, k)
  PROVE  Passed(p, k) \/ Cut(p, k) \/ Kept(p, k)
<1>1. CASE SecondBusy(p, k)
  BY <1>1 DEF SecondBusy, Kept, PTypeOK
<1>2. CASE SecondLook(p, k)
  <2>0. k \in pTodo[p] /\ pPc[p] = "second" /\ k \in Ahead(p) \cap Candidates(p)
    BY <1>2 DEF SecondLook, IsNext, PrunerInv, SecondInv, Ahead
  <2>1. CASE ~Exists(k)
    BY <1>2, <2>1 DEF SecondLook, Passed, Broken
  <2>2. CASE Broken(k)
    <3>1. Repair(k) /\ Keep(p, k) /\ Touched(k, Pruners, TRUE)
      BY <1>2, <2>2 DEF SecondLook, Broken
    <3>2. Rewritten(k) /\ pFile'[k] # NoTurnFile
      BY <3>1, RepairsRewrite
    <3>3. Sees(p, k)
      BY <3>1, <3>2, TouchedSeen
    <3> QED BY <2>0, <3>1, <3>2, <3>3 DEF Kept, Sees
  <2>3. CASE ~Broken(k) /\ Exists(k) /\ (Expired(p, pFile[k].at) \/ ~Survives(p, k))
    <3>1. Remove(k) /\ UNCHANGED pKept /\ Touched(k, Pruners \ {p}, FALSE)
      BY <1>2, <2>3 DEF SecondLook
    <3>2. pFile'[k] = NoTurnFile
      BY <3>1 DEF Remove, PTypeOK
    <3>3. pStart'[p] = pStart[p] /\ pTouched'[p] = pTouched[p] /\ pGone'[p] = pGone[p]
      <4>1. (FALSE <=> pFile'[k] # NoTurnFile) /\ FALSE \in BOOLEAN /\ p \notin Pruners \ {p}
        BY <3>2
      <4> QED BY <3>1, <4>1, TouchedSeen
    <3>4. ~Expired(p, pFile[k].at)
      BY <2>0, <2>3 DEF PrunerInv, LookInv
    <3> QED BY <2>3, <3>1, <3>3, <3>4 DEF Cut, Survives
  <2>4. CASE ~Broken(k) /\ Exists(k) /\ ~(Expired(p, pFile[k].at) \/ ~Survives(p, k))
    <3>1. Keep(p, k) /\ UNCHANGED <<pFile, pStamp, ghosts>>
      BY <1>2, <2>4 DEF SecondLook
    <3>2. k \notin pGone[p]
      BY <2>0, <2>4 DEF PrunerInv, LookInv
    <3>3. pGone[p] \ {k} = pGone[p]
      BY <3>2
    <3> QED BY <2>4, <3>1, <3>3 DEF Kept, ghosts
  <2> QED BY <2>1, <2>2, <2>3, <2>4
<1> QED BY <1>1, <1>2

\* The second pass keeps an untouched candidate exactly when fewer than
\* MaxFiles of those that count before it were there: all of those are behind
\* it, and as long as it has kept fewer than MaxFiles it has kept all of them.
LEMMA SecondKept ==
  ASSUME PTypeOK, StampInv, NEW p \in Pruners, PrunerInv(p), NEW k \in Turns,
         SecondLook(p, k) \/ SecondBusy(p, k)
  PROVE  PrunerInv(p)'
<1>1. /\ pPc[p] = "second" /\ pPc'[p] = "second" /\ pNow'[p] = pNow[p] /\ pCand'[p] = pCand[p]
      /\ k \in pTodo[p] /\ pTodo'[p] = pTodo[p] \ {k} /\ \A j \in pTodo[p] : pCand[p][j] <= pCand[p][k]
  BY DEF SecondLook, SecondBusy, PTypeOK, IsNext
<1>2. CandInv(p) /\ LookInv(p) /\ SecondInv(p)
  BY <1>1 DEF PrunerInv
<1>3. /\ pStamp \in Nat /\ pNow[p] \in Nat /\ MaxAge \in Nat
      /\ \A j \in Turns : pFile[j].at \in Nat /\ pCand[p][j] \in Nat /\ pStart[p][j].at \in Nat
      /\ pTodo[p] \subseteq Turns
  BY PruneNumbers
<1>4. /\ Candidates(p)' = Candidates(p) /\ Ahead(p) = pTodo[p] /\ Ahead(p)' = pTodo[p] \ {k}
      /\ Done(p)' = Done(p) \cup {k} /\ k \notin Done(p) /\ k \in Candidates(p)
      /\ Done(p) \subseteq Turns
  BY <1>1, <1>2 DEF Candidates, Ahead, Done, SecondInv
<1>5. Passed(p, k) \/ Cut(p, k) \/ Kept(p, k)
  BY SecondOutcomes
<1>6. /\ pStart'[p] = pStart[p] /\ pGone'[p] \subseteq pGone[p] /\ pTouched[p] \subseteq pTouched'[p]
      /\ \A j \in Turns \ {k} : (j \in pGone'[p] <=> j \in pGone[p]) /\ pFile'[j] = pFile[j]
      /\ Exists(k)' => pFile'[k] = pFile[k] \/ pFile'[k].at = pStamp + 1
      /\ pStamp <= pStamp' /\ pStamp' \in Nat
  <2>1. CASE Passed(p, k)
    BY <1>3, <2>1 DEF Passed, ghosts, Exists
  <2>2. CASE Cut(p, k)
    BY <1>3, <2>2 DEF Cut, Remove, PTypeOK, Exists
  <2>3. CASE Kept(p, k)
    BY <1>3, <2>3 DEF Kept, Rewritten, Exists
  <2> QED BY <1>5, <2>1, <2>2, <2>3
<1>7. CandInv(p)'
  <2>1. ASSUME NEW j \in Turns, NEW i \in Turns, pCand'[p][j] > 0,
               pCand'[p][j] = pCand'[p][i] \/ (Exists(i)' /\ pFile'[i].at = pCand'[p][j])
        PROVE  j = i
    BY <1>1, <1>2, <1>3, <1>6, <2>1 DEF CandInv, Exists
  <2>2. pNow'[p] <= pStamp' /\ \A j \in Turns : pCand'[p][j] <= pStamp'
    BY <1>1, <1>2, <1>3, <1>6 DEF CandInv
  <2> QED BY <1>1, <2>1, <2>2 DEF CandInv
<1>8. LookInv(p)'
  BY <1>1, <1>2, <1>3, <1>4, <1>6 DEF LookInv, Expired, Exists
<1>9. \A j \in Done(p) \cup {k}, i \in pTodo[p] \ {k} : pCand[p][j] > pCand[p][i]
  <2>1. ASSUME NEW i \in pTodo[p] \ {k} PROVE pCand[p][k] > pCand[p][i]
    <3>1. pCand[p][i] <= pCand[p][k] /\ pCand[p][k] > 0
      BY <1>1, <1>4 DEF Candidates
    <3>2. pCand[p][i] # pCand[p][k]
      BY <1>1, <1>2, <1>3, <3>1 DEF CandInv
    <3> QED BY <1>1, <1>3, <3>1, <3>2
  <2> QED BY <1>2, <2>1 DEF SecondInv
<1>10. Rank(p, k) = Done(p) \ pGone[p]
  <2>1. \A j \in Turns : pCand[p][j] > pCand[p][k] => j \in Done(p)
    BY <1>1, <1>3 DEF Done, Candidates
  <2>2. \A j \in Done(p) : pCand[p][j] > pCand[p][k]
    BY <1>1, <1>2 DEF SecondInv
  <2> QED BY <1>4, <2>1, <2>2 DEF Rank
<1>11. \A j \in Done(p) \cup {k} : Rank(p, j)' = Rank(p, j)
  <2>1. \A j \in Done(p) \cup {k} : ~(pCand[p][k] > pCand[p][j])
    BY <1>1, <1>2, <1>3, <1>4 DEF SecondInv
  <2> QED BY <1>1, <1>6, <2>1 DEF Rank
<1>12. /\ Done(p) \ pGone'[p] = Done(p) \ pGone[p]
       /\ pKept[p] \subseteq Done(p) \ pGone[p]
       /\ Cardinality(pKept[p]) < MaxFiles => pKept[p] = Done(p) \ pGone[p]
  BY <1>2, <1>4, <1>6 DEF SecondInv
<1>13. /\ Cardinality(Rank(p, k)) \in Nat /\ Cardinality(pKept[p]) \in Nat
       /\ Cardinality(pKept[p]) <= Cardinality(Rank(p, k))
  <2>1. IsFiniteSet(Rank(p, k))
    BY PruneAssumption, FS_Subset DEF Rank
  <2> QED BY <1>10, <1>12, <2>1, FS_Subset, FS_CardinalityType
<1>14. ASSUME NEW j \in Turns \ pTouched'[p]
       PROVE  /\ j \notin Candidates(p) => DroppedState(p, j)'
              /\ j \in Candidates(p) => /\ pStart'[p][j] # NoTurnFile /\ pCand'[p][j] = pStart'[p][j].at
                                        /\ ~Expired(p, pCand[p][j])'
              /\ j \in pTodo[p] \ {k} => AsFound(p, j)' /\ pFile'[j].valid
              /\ j \in Done(p) => (Exists(j)' <=> Cardinality(Rank(p, j)') < MaxFiles)
  <2>1. j \in Turns \ pTouched[p]
    BY <1>6
  <2>2. CASE j # k
    <3>1. pFile'[j] = pFile[j]
      BY <1>6, <2>2
    <3> QED BY <1>1, <1>2, <1>6, <1>11, <2>1, <3>1 DEF SecondInv, DroppedState, AsFound, Exists, Expired
  <2>3. CASE j = k
    BY <1>1, <1>2, <1>4, <1>6, <2>1, <2>3 DEF SecondInv, Expired
  <2> QED BY <2>2, <2>3
<1>15. k \notin pTouched'[p] => (Exists(k)' <=> Cardinality(Rank(p, k)) < MaxFiles)
  <2>1. k \notin pTouched[p] => AsFound(p, k) /\ pCand[p][k] = pFile[k].at
    BY <1>1, <1>2, <1>4 DEF SecondInv, AsFound
  <2>2. CASE Passed(p, k)
    BY <1>6, <2>1, <2>2 DEF Passed, AsFound
  <2>3. CASE Cut(p, k)
    <3>1. pFile'[k] = NoTurnFile
      BY <2>3 DEF Cut, Remove, PTypeOK
    <3> QED BY <1>13, <2>3, <3>1, PruneAssumption DEF Cut, Exists
  <2>4. CASE Kept(p, k)
    BY <1>10, <1>12, <2>1, <2>4 DEF Kept, Survives, AsFound, Exists
  <2> QED BY <1>5, <2>2, <2>3, <2>4
<1>16. /\ pKept'[p] \subseteq (Done(p) \cup {k}) \ pGone'[p]
       /\ Cardinality(pKept'[p]) < MaxFiles => pKept'[p] = (Done(p) \cup {k}) \ pGone'[p]
  <2>1. CASE Passed(p, k)
    <3>1. k \in pGone[p] /\ pGone'[p] = pGone[p] /\ pKept'[p] = pKept[p]
      BY <1>1, <1>2, <1>4, <2>1 DEF Passed, LookInv, ghosts
    <3> QED BY <1>12, <3>1
  <2>2. CASE Cut(p, k)
    <3>1. pKept'[p] = pKept[p] /\ ~(Cardinality(pKept[p]) < MaxFiles)
      BY <2>2 DEF Cut
    <3> QED BY <1>12, <3>1
  <2>3. CASE Kept(p, k)
    <3>1. pKept'[p] = pKept[p] \cup {k} /\ k \notin pGone'[p]
      BY <2>3 DEF Kept, Keep, PTypeOK
    <3>2. IsFiniteSet(pKept'[p])
      BY <1>3, <1>4, <1>1, <1>12, <3>1, PruneAssumption, FS_Subset
    <3>3. Cardinality(pKept[p]) <= Cardinality(pKept'[p]) /\ Cardinality(pKept'[p]) \in Nat
      BY <3>1, <3>2, FS_Subset, FS_CardinalityType
    <3> QED BY <1>12, <1>13, <3>1, <3>3, PruneAssumption
  <2> QED BY <1>5, <2>1, <2>2, <2>3
<1>17. SecondInv(p)'
  <2>1. \A j \in Done(p) \cup {k} : j # k => j \in Done(p)
    OBVIOUS
  <2>2. pTodo'[p] \subseteq Candidates(p)
    BY <1>1, <1>2 DEF SecondInv
  <2>3. \A j \in Done(p)' : j \in Turns \ pTouched'[p] => (Exists(j)' <=> Cardinality(Rank(p, j)') < MaxFiles)
    BY <1>4, <1>11, <1>14, <1>15
  <2> QED BY <1>1, <1>4, <1>9, <1>14, <1>16, <2>2, <2>3 DEF SecondInv
<1> QED BY <1>1, <1>7, <1>8, <1>17 DEF PrunerInv

\* A pruner that has ended relies on nothing.
LEMMA EndedInv ==
  ASSUME PTypeOK, NEW p \in Pruners, PruneEnd(p)
  PROVE  PrunerInv(p)'
<1>1. pPc'[p] = "idle" /\ pTodo'[p] = {} /\ pNow'[p] = 0 /\ pStamp' = pStamp /\ \A k \in Turns : pCand'[p][k] = 0
  BY DEF PruneEnd, PTypeOK
<1>2. Candidates(p)' = {} /\ Ahead(p)' = {}
  BY <1>1 DEF Candidates, Ahead
<1> QED BY <1>1, <1>2, PruneNumbers DEF PrunerInv, CandInv, LookInv

\* Every step keeps what a pruner relies on.
LEMMA PrunersKept ==
  ASSUME PTypeOK, StampInv, NEW p \in Pruners, PrunerInv(p), [PNext]_pVars
  PROVE  PrunerInv(p)'
<1>1. CASE UNCHANGED pVars
  <2>1. Foreign(p)
    BY <1>1 DEF pVars, ghosts, Foreign
  <2> QED BY <2>1, ForeignKept
<1>2. ASSUME NEW k \in Turns, HookWrites(k) \/ HookClears(k) \/ Damaged(k) PROVE PrunerInv(p)'
  BY <1>2, HooksForeign, ForeignKept
<1>3. ASSUME NEW q \in Pruners \ {p},
             \/ PruneStart(q) \/ PruneSort(q) \/ PruneEnd(q)
             \/ \E k \in Turns : FirstLook(q, k) \/ FirstBusy(q, k) \/ SecondLook(q, k) \/ SecondBusy(q, k)
      PROVE  PrunerInv(p)'
  BY <1>3, OthersForeign, ForeignKept
<1>4. CASE PruneStart(p)
  BY <1>4, BegunInv
<1>5. CASE PruneSort(p)
  BY <1>5, SortedInv
<1>6. CASE PruneEnd(p)
  BY <1>6, EndedInv
<1>7. ASSUME NEW k \in Turns, FirstLook(p, k) \/ FirstBusy(p, k) \/ SecondLook(p, k) \/ SecondBusy(p, k)
      PROVE  PrunerInv(p)'
  BY <1>7, FirstKept, BusyKept, SecondKept
<1> QED BY <1>1, <1>2, <1>3, <1>4, <1>5, <1>6, <1>7 DEF PNext

\* All of it together.
THEOREM PruneInvariance == PSpec => []PInv
<1>1. PInv /\ [PNext]_pVars => PInv'
  BY PTypesKept, StampsKept, PrunersKept DEF PInv
<1> QED BY <1>1, PruneInit, PTL DEF PSpec

-----------------------------------------------------------------------------
\* What pruning promises.

\* Type correctness.
THEOREM PruneTypeCorrect == PSpec => []PTypeOK
<1>1. PInv => PTypeOK
  BY DEF PInv
<1> QED BY <1>1, PruneInvariance, PTL

\* A prune leaves of the states that nothing else touched exactly those within
\* the age limit and, among what it came upon, within the limit of their
\* number, although hooks and other prunes write, clear and lock others
\* between its looks and move their ranks.
THEOREM PruneKeepsNewest == PSpec => []NewestKept
<1>1. PInv => NewestKept
  <2> SUFFICES ASSUME PInv, NEW p \in Pruners, pPc[p] = "second", pTodo[p] = {}, NEW k \in Turns \ pTouched[p]
               PROVE  Exists(k) <=>
                        /\ pStart[p][k] # NoTurnFile
                        /\ ~Expired(p, pStart[p][k].at)
                        /\ Cardinality({j \in Turns \ pGone[p] : pCand[p][j] > pStart[p][k].at}) < MaxFiles
    BY DEF NewestKept
  <2>1. SecondInv(p)
    BY DEF PInv, PrunerInv
  <2>2. CASE k \in Candidates(p)
    <3>1. k \in Done(p)
      BY <2>2 DEF Done
    <3>2. Rank(p, k) = {j \in Turns \ pGone[p] : pCand[p][j] > pStart[p][k].at}
      BY <2>1, <2>2 DEF SecondInv, Rank
    <3> QED BY <2>1, <2>2, <3>1, <3>2 DEF SecondInv
  <2>3. CASE k \notin Candidates(p)
    BY <2>1, <2>3 DEF SecondInv, DroppedState, Exists
  <2> QED BY <2>2, <2>3
<1> QED BY <1>1, PruneInvariance, PTL

-----------------------------------------------------------------------------
(***************************************************************************)
(* The adoption ledger.  As long as nothing overlaps there is one recorder *)
(* at a time, its snapshot is the ledger, and its day is not before the    *)
(* last one counted, so that a day is new exactly when it is another one.  *)
(***************************************************************************)
LedgerInv ==
  mixed = {} =>
    /\ ledger.counts = happened /\ ledger.activeDays = Cardinality(days)
    /\ days = {} => ledger = Absent
    /\ days # {} => ledger.lastDay \in days /\ \E k \in Kinds : happened[k] > 0
    /\ \A d \in days : d <= ledger.lastDay
    /\ ledger.lastDay <= day

RecorderInv ==
  mixed = {} =>
    /\ \A r, s \in Recorders : rPc[r] # "idle" /\ rPc[s] # "idle" => r = s
    /\ \A r \in Recorders : rPc[r] # "idle" => ledger.lastDay <= rEvent[r].day /\ rEvent[r].day <= day
    /\ \A r \in Recorders : rPc[r] = "read" => rSnap[r] = ledger

AdoptionInv == LTypeOK /\ LedgerInv /\ RecorderInv

Ledgers == [id : Nat, counts : [Kinds -> Nat], activeDays : Nat, lastDay : 0..MaxDay]

\* The ledger that is not there has the type of one.
LEMMA AbsentLedger == Absent \in Ledgers
BY AdoptionAssumption DEF Absent, Ledgers

\* The ledger an event makes has its type.
LEMMA NextLedgerType ==
  ASSUME NEW current \in Ledgers, NEW event \in [kind : Kinds, day : 1..MaxDay], ids \in Nat
  PROVE  /\ NextLedger(current, event) \in Ledgers
         /\ NextLedger(current, event).counts = [current.counts EXCEPT ![event.kind] = @ + 1]
         /\ NextLedger(current, event).lastDay = event.day
         /\ NextLedger(current, event).activeDays = current.activeDays + (IF current.lastDay = event.day THEN 0 ELSE 1)
BY AdoptionAssumption DEF NextLedger, Ledgers

\* Before the first event.
LEMMA AdoptionInitInv == LInit => AdoptionInv
<1> SUFFICES ASSUME LInit PROVE AdoptionInv
  OBVIOUS
<1> USE AdoptionAssumption DEF LInit
<1>1. LTypeOK
  <2>1. ledger \in Ledgers /\ rSnap \in [Recorders -> Ledgers]
    BY AbsentLedger
  <2>2. rEvent \in [Recorders -> [kind : Kinds, day : 1..MaxDay]]
    <3>1. (CHOOSE k \in Kinds : TRUE) \in Kinds
      OBVIOUS
    <3>2. [kind |-> CHOOSE k \in Kinds : TRUE, day |-> 1] \in [kind : Kinds, day : 1..MaxDay]
      BY <3>1
    <3> QED BY <3>2
  <2> QED BY <2>1, <2>2 DEF LTypeOK, Ledgers
<1>2. LedgerInv
  BY FS_EmptySet DEF LedgerInv, Absent
<1>3. RecorderInv
  BY DEF RecorderInv
<1> QED BY <1>1, <1>2, <1>3 DEF AdoptionInv

\* The types are kept.
LEMMA AdoptionTypesKept == ASSUME LTypeOK, [LNext]_lVars PROVE LTypeOK'
<1> USE AdoptionAssumption DEF LTypeOK, Mixes
<1>1. ASSUME NEW r \in Recorders, NEW kind \in Kinds, Called(r, kind) PROVE LTypeOK'
  BY <1>1 DEF Called
<1>2. ASSUME NEW r \in Recorders, ReadLedger(r) PROVE LTypeOK'
  BY <1>2 DEF ReadLedger
<1>3. ASSUME NEW r \in Recorders, Replace(r) PROVE LTypeOK'
  <2>1. ledger' \in Ledgers
    BY <1>3, NextLedgerType DEF Replace, Ledgers
  <2>2. rSnap' \in [Recorders -> Ledgers]
    BY <1>3, AbsentLedger DEF Replace, Ledgers
  <2>3. happened' \in [Kinds -> Nat] /\ days' \subseteq 1..MaxDay /\ ids' \in Nat
    <3>1. rEvent[r].kind \in Kinds /\ rEvent[r].day \in 1..MaxDay
      OBVIOUS
    <3>2. happened' = [happened EXCEPT ![rEvent[r].kind] = @ + 1] /\ days' = days \cup {rEvent[r].day}
      BY <1>3 DEF Replace
    <3>3. ids' = ids \/ ids' = ids + 1
      BY <1>3 DEF Replace
    <3>4. happened' \in [Kinds -> Nat]
      BY <3>1, <3>2
    <3>5. days' \subseteq 1..MaxDay
      BY <3>1, <3>2
    <3>6. ids' \in Nat
      BY <3>3
    <3> QED BY <3>4, <3>5, <3>6
  <2> QED BY <1>3, <2>1, <2>2, <2>3 DEF Replace, Ledgers
<1>4. ASSUME NEW r \in Recorders, Dropped(r) PROVE LTypeOK'
  <2>1. rSnap' \in [Recorders -> Ledgers]
    BY <1>4, AbsentLedger DEF Dropped, Ledgers
  <2> QED BY <1>4, <2>1 DEF Dropped, Ledgers
<1>5. CASE Reset
  BY <1>5, AbsentLedger DEF Reset, Ledgers
<1>6. CASE NextDay
  BY <1>6 DEF NextDay
<1>7. CASE UNCHANGED lVars
  BY <1>7 DEF lVars
<1> QED BY <1>1, <1>2, <1>3, <1>4, <1>5, <1>6, <1>7 DEF LNext

\* An event that is written by the only recorder is counted once, and its day when
\* it is the first of the day.
LEMMA ReplaceCounts ==
  ASSUME LTypeOK, LTypeOK', LedgerInv, RecorderInv, mixed = {}, NEW r \in Recorders, Replace(r)
  PROVE  LedgerInv' /\ RecorderInv'
<1> USE AdoptionAssumption
<1> DEFINE e == rEvent[r]
<1>1. /\ rSnap[r] = ledger /\ e \in [kind : Kinds, day : 1..MaxDay] /\ ledger \in Ledgers
      /\ ledger.lastDay <= e.day /\ e.day <= day
  BY DEF Replace, RecorderInv, LTypeOK, Ledgers
<1>2. /\ ledger'.counts = [ledger.counts EXCEPT ![e.kind] = @ + 1]
      /\ ledger'.lastDay = e.day
      /\ ledger'.activeDays = ledger.activeDays + (IF ledger.lastDay = e.day THEN 0 ELSE 1)
  <2>1. ledger' = NextLedger(ledger, e)
    BY <1>1 DEF Replace
  <2>2. ids \in Nat /\ ledger \in Ledgers /\ e \in [kind : Kinds, day : 1..MaxDay]
    BY <1>1 DEF LTypeOK
  <2> HIDE DEF e
  <2> QED BY <2>1, <2>2, NextLedgerType
<1>3. /\ happened' = [happened EXCEPT ![e.kind] = @ + 1]
      /\ days' = days \cup {e.day} /\ day' = day /\ mixed' = {} /\ rEvent' = rEvent
      /\ rPc' = [rPc EXCEPT ![r] = "idle"]
  BY DEF Replace
<1>4. \A d \in days : d \in Nat /\ d <= ledger.lastDay
  BY DEF LedgerInv, LTypeOK
<1>5. e.day \in Nat \ {0} /\ e.kind \in Kinds /\ ledger.lastDay \in Nat /\ day \in Nat
  BY <1>1 DEF Ledgers, LTypeOK
<1> HIDE DEF e
<1>6. ledger'.activeDays = Cardinality(days')
  <2>1. IsFiniteSet(days)
    <3>1. IsFiniteSet(1..MaxDay) /\ days \subseteq 1..MaxDay
      BY FS_Interval DEF LTypeOK
    <3> QED BY <3>1, FS_Subset
  <2>2. Cardinality(days') = IF e.day \in days THEN Cardinality(days) ELSE Cardinality(days) + 1
    BY <1>3, <2>1, FS_AddElement
  <2>3. e.day \in days <=> ledger.lastDay = e.day
    <3>1. CASE days = {}
      BY <1>5, <3>1 DEF LedgerInv, Absent
    <3>2. CASE days # {}
      BY <1>1, <1>4, <1>5, <3>2 DEF LedgerInv
    <3> QED BY <3>1, <3>2
  <2>4. ledger.activeDays = Cardinality(days) /\ Cardinality(days) \in Nat
    BY <2>1, FS_CardinalityType DEF LedgerInv
  <2> QED BY <1>2, <2>2, <2>3, <2>4
<1>7. ledger'.counts = happened' /\ \E k \in Kinds : happened'[k] > 0
  <2>1. ledger.counts = happened
    BY DEF LedgerInv
  <2>2. happened'[e.kind] > 0
    BY <1>3, <1>5 DEF LTypeOK
  <2> QED BY <1>2, <1>3, <1>5, <2>1, <2>2
<1>8. \A d \in days' : d <= e.day
  BY <1>1, <1>3, <1>4, <1>5
<1>9. LedgerInv'
  BY <1>1, <1>2, <1>3, <1>6, <1>7, <1>8 DEF LedgerInv
<1>10. \A s \in Recorders : rPc'[s] = "idle"
  BY <1>3 DEF RecorderInv, Replace, LTypeOK
<1> QED BY <1>9, <1>10 DEF RecorderInv

\* Every step keeps the invariant.
LEMMA AdoptionStep == ASSUME AdoptionInv, [LNext]_lVars PROVE AdoptionInv'
<1> USE AdoptionAssumption DEF AdoptionInv
<1>t. LTypeOK'
  BY AdoptionTypesKept
<1>1. ASSUME NEW r \in Recorders, NEW kind \in Kinds, Called(r, kind) PROVE LedgerInv' /\ RecorderInv'
  <2>1. LedgerInv'
    BY <1>1 DEF Called, LedgerInv, Absent
  <2>2. ASSUME mixed' = {} PROVE RecorderInv'
    <3>1. mixed = {} /\ \A s \in Recorders : rPc[s] = "idle"
      BY <1>1, <2>2 DEF Called, Busy
    <3>2. rEvent'[r].day = day /\ UNCHANGED <<ledger, day>> /\ \A s \in Recorders : s # r => rPc'[s] = "idle"
      BY <1>1, <3>1 DEF Called, LTypeOK
    <3>3. rPc'[r] = "called" /\ ledger.lastDay <= day /\ day \in Nat
      BY <1>1, <3>1 DEF Called, LTypeOK, LedgerInv
    <3> QED BY <3>2, <3>3 DEF RecorderInv
  <2> QED BY <2>1, <2>2 DEF RecorderInv
<1>2. ASSUME NEW r \in Recorders, ReadLedger(r) PROVE LedgerInv' /\ RecorderInv'
  <2>1. LedgerInv'
    BY <1>2 DEF ReadLedger, LedgerInv, Absent
  <2>2. RecorderInv'
    BY <1>2 DEF ReadLedger, RecorderInv, LTypeOK
  <2> QED BY <2>1, <2>2
<1>3. ASSUME NEW r \in Recorders, Replace(r) PROVE LedgerInv' /\ RecorderInv'
  <2>1. CASE mixed = {}
    BY <1>3, <1>t, <2>1, ReplaceCounts
  <2>2. CASE mixed # {}
    BY <1>3, <2>2 DEF Replace, LedgerInv, RecorderInv
  <2> QED BY <2>1, <2>2
<1>4. ASSUME NEW r \in Recorders, Dropped(r) PROVE LedgerInv' /\ RecorderInv'
  <2>1. LedgerInv'
    BY <1>4 DEF Dropped, LedgerInv, Absent
  <2>2. RecorderInv'
    BY <1>4 DEF Dropped, RecorderInv, LTypeOK
  <2> QED BY <2>1, <2>2
<1>5. ASSUME Reset PROVE LedgerInv' /\ RecorderInv'
  <2> SUFFICES ASSUME mixed' = {} PROVE LedgerInv' /\ RecorderInv'
    BY DEF LedgerInv, RecorderInv
  <2>1. \A r \in Recorders : rPc'[r] = "idle"
    BY <1>5 DEF Reset, Busy
  <2>2. /\ ledger' = Absent /\ days' = {} /\ day' = day
        /\ ledger'.counts = happened' /\ ledger'.activeDays = 0 /\ ledger'.lastDay = 0
    BY <1>5 DEF Reset, Absent
  <2>3. LedgerInv'
    BY <2>2, FS_EmptySet DEF LedgerInv, Absent, LTypeOK
  <2> QED BY <2>1, <2>3 DEF RecorderInv
<1>6. CASE NextDay
  <2>1. LedgerInv'
    BY <1>6 DEF NextDay, LedgerInv, Absent, LTypeOK
  <2>2. RecorderInv'
    BY <1>6 DEF NextDay, RecorderInv, LTypeOK
  <2> QED BY <1>t, <2>1, <2>2
<1>7. CASE UNCHANGED lVars
  BY <1>t, <1>7 DEF lVars, LedgerInv, RecorderInv, Absent
<1> QED BY <1>t, <1>1, <1>2, <1>3, <1>4, <1>5, <1>6, <1>7 DEF LNext

\* All of it together.
THEOREM AdoptionInvariance == LSpec => []AdoptionInv
BY AdoptionInitInv, AdoptionStep, PTL DEF LSpec

\* For any number of recorders, kinds and days: while no two recorders overlap, the
\* report counts every recorded event and every active day exactly once, from the
\* first event after a reset on, with recorders that are dropped at any step.
THEOREM AdoptionCounts == LSpec => []AdoptionExact
<1>1. AdoptionInv => AdoptionExact
  <2> SUFFICES ASSUME AdoptionInv, mixed = {} PROVE Report(ledger) =
                 [observed |-> \E k \in Kinds : happened[k] > 0, activeDays |-> Cardinality(days),
                  counts |-> [k \in Kinds \ Skills |-> happened[k]], skillInvocations |-> SumOver(happened, Skills)]
    BY DEF AdoptionExact
  <2>1. ledger.counts = happened /\ ledger.activeDays = Cardinality(days)
    BY DEF AdoptionInv, LedgerInv
  <2>2. ledger # Absent <=> \E k \in Kinds : happened[k] > 0
    <3>1. CASE days = {}
      BY <2>1, <3>1 DEF AdoptionInv, LedgerInv, Absent
    <3>2. CASE days # {}
      BY <3>2 DEF AdoptionInv, LedgerInv, LTypeOK, Absent
    <3> QED BY <3>1, <3>2
  <2>3. SumOver(ledger.counts, Skills) = SumOver(happened, Skills)
    BY <2>1
  <2>4. [k \in Kinds \ Skills |-> ledger.counts[k]] = [k \in Kinds \ Skills |-> happened[k]]
    BY <2>1
  <2> QED BY <2>1, <2>2, <2>3, <2>4, Zenon DEF Report
<1> QED BY <1>1, AdoptionInvariance, PTL

-----------------------------------------------------------------------------
\* The lock file of a session and of a run.

\* A new project has no lock file.
LEMMA FileInit == Init => IInv
BY DEF Init, IInv, TypeOK, Steps

\* Every step keeps the type of the state.
LEMMA FileTypeKept == ASSUME TypeOK, [Next]_vars PROVE TypeOK'
<1> USE DEF TypeOK, Goto, Steps, LockFile
<1>1. CASE UNCHANGED vars
  BY <1>1 DEF vars
<1>2. ASSUME NEW p \in Procs, Begin(p) PROVE TypeOK'
  BY <1>2 DEF Begin
<1>3. ASSUME NEW p \in Procs, Open(p) PROVE TypeOK'
  <2>1. CASE file = NoFile
    <3>1. file' = [creator |-> p, named |-> FALSE, old |-> FALSE] /\ Goto(p, "created")
          /\ UNCHANGED <<entry, owner, gone>>
      BY <1>3, <2>1 DEF Open
    <3>2. file' \in LockFile
      BY <3>1
    <3> QED BY <3>1, <3>2
  <2>2. CASE file # NoFile
    BY <1>3, <2>2 DEF Open
  <2> QED BY <2>1, <2>2
<1>4. ASSUME NEW p \in Procs, Lstat(p) PROVE TypeOK'
  <2>1. CASE file = NoFile
    BY <1>4, <2>1 DEF Lstat
  <2>2. CASE file # NoFile
    BY <1>4, <2>2 DEF Lstat
  <2> QED BY <2>1, <2>2
<1>5. ASSUME NEW p \in Procs, ReadOwner(p) PROVE TypeOK'
  BY <1>5 DEF ReadOwner
<1>6. ASSUME NEW p \in Procs, Probe(p) PROVE TypeOK'
  BY <1>6 DEF Probe
<1>7. ASSUME NEW p \in Procs, RemoveStale(p) PROVE TypeOK'
  BY <1>7 DEF RemoveStale
<1>8. ASSUME NEW p \in Procs, WriteOwner(p) PROVE TypeOK'
  BY <1>8 DEF WriteOwner
<1>9. ASSUME NEW p \in Procs, Release(p) PROVE TypeOK'
  BY <1>9 DEF Release
<1>10. ASSUME NEW p \in Procs, End(p) PROVE TypeOK'
  BY <1>10 DEF End
<1>11. CASE Age
  BY <1>11 DEF Age
<1> QED BY <1>1, <1>2, <1>3, <1>4, <1>5, <1>6, <1>7, <1>8, <1>9, <1>10, <1>11
        DEF Next, Acquire

\* What IInv says while every process lives.
Owned ==
  /\ file # NoFile => ~file.old
  /\ \A p \in Procs :
       /\ pc[p] \in {"created", "critical"} => file # NoFile /\ file.creator = p
       /\ pc[p] # "remove"
       /\ ~entry[p]

\* While every process lives, a step keeps the file with its creator.
LEMMA OwnedKept ==
  ASSUME TypeOK, Owned, gone = {}, gone' = {}, Next
  PROVE  Owned'
<1> USE DEF TypeOK, Owned, Goto
<1>1. ASSUME NEW p \in Procs, Begin(p) PROVE Owned'
  BY <1>1 DEF Begin
<1>2. ASSUME NEW p \in Procs, Open(p) PROVE Owned'
  <2>1. CASE file = NoFile
    <3>1. file' = [creator |-> p, named |-> FALSE, old |-> FALSE]
          /\ pc' = [pc EXCEPT ![p] = "created"] /\ UNCHANGED entry
      BY <1>2, <2>1 DEF Open
    <3>2. file'.creator = p /\ ~file'.old /\ file' \in LockFile
      BY <3>1 DEF LockFile
    <3>3. file' # NoFile
      BY <3>2, NoFileAssumption DEF LockFile
    <3> QED BY <2>1, <3>1, <3>2, <3>3
  <2>2. CASE file # NoFile
    BY <1>2, <2>2 DEF Open
  <2> QED BY <2>1, <2>2
<1>3. ASSUME NEW p \in Procs, Lstat(p) PROVE Owned'
  BY <1>3 DEF Lstat
<1>4. ASSUME NEW p \in Procs, ReadOwner(p) PROVE Owned'
  BY <1>4 DEF ReadOwner
<1>5. ASSUME NEW p \in Procs, Probe(p) PROVE Owned'
  BY <1>5 DEF Probe, Stale
<1>6. ASSUME NEW p \in Procs, RemoveStale(p) PROVE FALSE
  BY <1>6 DEF RemoveStale
<1>7. ASSUME NEW p \in Procs, WriteOwner(p) PROVE Owned'
  <2>1. file # NoFile /\ file.creator = p /\ file \in LockFile
    BY <1>7 DEF WriteOwner
  <2>2. file' = [file EXCEPT !.named = TRUE] /\ UNCHANGED entry
        /\ pc' = [pc EXCEPT ![p] = "critical"]
    BY <1>7, <2>1 DEF WriteOwner
  <2>3. file' \in LockFile /\ file'.creator = p /\ file'.old = file.old
    BY <2>1, <2>2 DEF LockFile
  <2>4. file' # NoFile
    BY <2>3, NoFileAssumption DEF LockFile
  <2> QED BY <2>1, <2>2, <2>3, <2>4
<1>8. ASSUME NEW p \in Procs, Release(p) PROVE Owned'
  BY <1>8 DEF Release
<1>9. ASSUME NEW p \in Procs, End(p) PROVE FALSE
  BY <1>9 DEF End
<1>10. CASE Age
  BY <1>10 DEF Age
<1> QED BY <1>1, <1>2, <1>3, <1>4, <1>5, <1>6, <1>7, <1>8, <1>9, <1>10
        DEF Next, Acquire

\* No ended process comes back.
LEMMA GoneStay == ASSUME [Next]_vars, gone' = {} PROVE gone = {}
BY DEF Next, vars, Acquire, Begin, Open, Lstat, ReadOwner, Probe, RemoveStale,
       WriteOwner, Release, End, Age

\* The invariant is inductive.
LEMMA FileKept == ASSUME IInv, [Next]_vars PROVE IInv'
<1>1. TypeOK'
  BY FileTypeKept DEF IInv
<1>2. ASSUME gone' = {} PROVE Owned'
  <2>1. gone = {} /\ Owned
    BY <1>2, GoneStay DEF IInv, Owned
  <2>2. CASE Next
    BY <1>2, <2>1, <2>2, OwnedKept DEF IInv
  <2>3. CASE UNCHANGED vars
    BY <2>1, <2>3 DEF vars, Owned
  <2> QED BY <2>2, <2>3
<1> QED BY <1>1, <1>2 DEF IInv, Owned

\* The state always has its type.
THEOREM FileLockTypeCorrect == Spec => []TypeOK
<1>1. IInv => TypeOK
  BY DEF IInv
<1> QED BY <1>1, FileInit, FileKept, PTL DEF Spec

\* As long as no process ends, at most one process is inside a section.
THEOREM FileLockExclusive == Spec => []Exclusive
<1>1. IInv => Exclusive
  BY DEF IInv, Exclusive
<1> QED BY <1>1, FileInit, FileKept, PTL DEF Spec
=============================================================================
