--------------------------- MODULE RunTraceProofs ---------------------------
(***************************************************************************)
(* Proofs about RunTrace, for every set of processes, commands and         *)
(* repository identities and for traces of every length.                   *)
(***************************************************************************)
EXTENDS RunTrace, SequenceTheorems, TLAPS

-----------------------------------------------------------------------------
(* Lemmas about the operators of RunTrace.                                 *)

\* A batch is one to three well-formed event inputs, and it leaves a status
\* of the store behind.
LEMMA BatchType ==
  ASSUME NEW j \in Jobs, NEW s \in Statuses
  PROVE  /\ Batch(j, s) \in Seq(EventInput)
         /\ Len(Batch(j, s)) \in 1..3
         /\ NextStatus(j, s) \in Statuses
<1>1. /\ Completed(j) \in EventInput /\ Mutated(j) \in EventInput
      /\ Required(j) \in EventInput /\ Verified(j) \in EventInput
      /\ Finished \in EventInput
  BY DEF Completed, Mutated, Required, Verified, Finished, Input, EventInput,
         EventTypes, Jobs, Kinds
<1>2. Batch(j, s) \in Seq(EventInput) /\ Len(Batch(j, s)) \in 1..3
  BY <1>1 DEF Batch, RanMutation, Clears
<1>3. NextStatus(j, s) \in Statuses
  BY DEF NextStatus, Statuses
<1> QED BY <1>2, <1>3

\* Stamping a batch numbers its events from run.next on.
LEMMA StampedType ==
  ASSUME NEW b \in Seq(EventInput), NEW run \in RunRecord
  PROVE  /\ Stamped(b, run) \in Seq(Event)
         /\ Len(Stamped(b, run)) = Len(b)
         /\ \A i \in 1..Len(b) : Stamped(b, run)[i] = [seq |-> run.next + i - 1, input |-> b[i]]
<1>1. DOMAIN b = 1..Len(b) /\ Len(b) \in Nat /\ \A i \in 1..Len(b) : b[i] \in EventInput
  BY LenProperties, ElementOfSeq
<1>2. run.next \in Nat
  BY DEF RunRecord
<1>3. \A i \in 1..Len(b) : [seq |-> run.next + i - 1, input |-> b[i]] \in Event
  BY <1>1, <1>2 DEF Event
<1>4. Stamped(b, run) \in [1..Len(b) -> Event]
  BY <1>1, <1>3 DEF Stamped
<1>5. Stamped(b, run) \in Seq(Event)
  BY <1>1, <1>4, SeqDef
<1>6. Len(Stamped(b, run)) = Len(b)
  BY <1>1, <1>4, <1>5, LenProperties
<1> QED BY <1>1, <1>5, <1>6 DEF Stamped

\* What a reader finds in a trace after a prefix of a stamped batch reached it.
LEMMA Extension ==
  ASSUME NEW t \in Seq(Event), NEW es \in Seq(Event), NEW k \in 0..Len(es)
  PROVE  /\ t \o SubSeq(es, 1, k) \in Seq(Event)
         /\ Len(t \o SubSeq(es, 1, k)) = Len(t) + k
         /\ DOMAIN (t \o SubSeq(es, 1, k)) = 1..(Len(t) + k)
         /\ \A i \in 1..Len(t) : (t \o SubSeq(es, 1, k))[i] = t[i]
         /\ \A i \in 1..k : (t \o SubSeq(es, 1, k))[Len(t) + i] = es[i]
<1> DEFINE pre == SubSeq(es, 1, k)
<1>1. Len(t) \in Nat /\ Len(es) \in Nat /\ k \in Nat
  BY LenProperties
<1>2. \A i \in 1..k : es[i] \in Event
  BY <1>1, ElementOfSeq
<1>3. /\ pre \in Seq(Event)
      /\ Len(pre) = k
      /\ \A i \in 1..k : pre[i] = es[i]
  <2>1. \A i \in 1..k-1+1 : pre[i] = es[1+i-1]
    BY <1>1, <1>2, SubSeqProperties
  <2>2. pre \in Seq(Event) /\ Len(pre) = IF 1 <= k THEN k-1+1 ELSE 0
    BY <1>1, <1>2, SubSeqProperties
  <2> QED BY <1>1, <2>1, <2>2
<1>4. /\ t \o pre \in Seq(Event)
      /\ Len(t \o pre) = Len(t) + Len(pre)
      /\ \A i \in 1..Len(t) + Len(pre) :
           (t \o pre)[i] = IF i <= Len(t) THEN t[i] ELSE pre[i - Len(t)]
  BY <1>3, ConcatProperties
<1>5. DOMAIN (t \o pre) = 1..(Len(t) + k)
  BY <1>3, <1>4, LenProperties
<1>6. \A i \in 1..k : (t \o pre)[Len(t) + i] = es[i]
  <2> SUFFICES ASSUME NEW i \in 1..k PROVE (t \o pre)[Len(t) + i] = es[i]
    OBVIOUS
  <2>1. Len(t) + i \in 1..Len(t) + Len(pre) /\ ~(Len(t) + i <= Len(t))
         /\ Len(t) + i - Len(t) = i
    BY <1>1, <1>3
  <2> QED BY <1>3, <1>4, <2>1
<1> QED BY <1>1, <1>3, <1>4, <1>5, <1>6

\* A batch that closes the run is run_completed alone.
LEMMA BatchFinish ==
  ASSUME NEW j \in Jobs, NEW s \in Statuses, NEW i \in 1..Len(Batch(j, s)),
         Batch(j, s)[i].type = "run_completed"
  PROVE  j.op = "complete" /\ Len(Batch(j, s)) = 1
BY DEF Batch, Completed, Mutated, Required, Verified, Finished, Input, RanMutation, Clears

\* How the last event of a batch relates to the status the batch leaves.
LEMMA BatchDecides ==
  ASSUME NEW j \in Jobs, NEW s \in Statuses, j.op # "mark"
  PROVE  LET n == Len(Batch(j, s))
         IN  \/ /\ Decides(Batch(j, s)[n])
                /\ Batch(j, s)[n].type = "verification_required"
                   => NextStatus(j, s) = "verification-pending"
             \/ n = 1 /\ ~Decides(Batch(j, s)[1]) /\ NextStatus(j, s) = s
<1>1. CASE j.op = "intent"
  BY <1>1 DEF Batch, NextStatus, Required, Input, Decides, IsMutationBoundary,
              RanMutation, Clears
<1>2. CASE j.op = "complete"
  BY <1>2 DEF Batch, NextStatus, Finished, Input, Decides, IsMutationBoundary,
              RanMutation, Clears
<1>3. CASE RanMutation(j) /\ j.matched
  BY <1>3 DEF Batch, NextStatus, Completed, Mutated, Input, Decides, IsMutationBoundary,
              RanMutation, Clears
<1>4. CASE RanMutation(j) /\ ~j.matched
  BY <1>4 DEF Batch, NextStatus, Completed, Mutated, Required, Input, Decides,
              IsMutationBoundary, RanMutation, Clears
<1>5. CASE Clears(j, s)
  BY <1>5 DEF Batch, NextStatus, Clears, RanMutation, Completed, Verified, Input,
              Decides, IsMutationBoundary
<1>6. CASE j.op = "transition" /\ ~RanMutation(j) /\ ~Clears(j, s)
  <2>1. Batch(j, s) = <<Completed(j)>> /\ NextStatus(j, s) = s
    BY <1>6 DEF Batch, NextStatus
  <2>2. ~Decides(Completed(j))
    BY <1>6 DEF Completed, Input, Decides, IsMutationBoundary, RanMutation
  <2> QED BY <2>1, <2>2
<1> QED BY <1>1, <1>2, <1>3, <1>4, <1>5, <1>6 DEF Jobs

\* At most one event is the last to decide the status.
LEMMA LastDecisionUnique ==
  ASSUME NEW t \in Seq(Event), NEW i, NEW k, LastDecision(t, i), LastDecision(t, k)
  PROVE  i = k
<1>1. DOMAIN t = 1..Len(t) /\ Len(t) \in Nat
  BY LenProperties
<1>2. i \in Nat /\ k \in Nat /\ i <= k /\ k <= i
  BY <1>1 DEF LastDecision
<1> QED BY <1>2

-----------------------------------------------------------------------------
(* Steps of the inductive invariant.                                       *)

\* Reconciliation yields a record that is up to date and agrees with the
\* trace, whatever prefix of an append a crash left behind.
LEMMA ReconciledSound ==
  ASSUME NEW run \in RunRecord, NEW t \in Seq(Event), Sound(run, t),
         \A i \in DOMAIN t : t[i].input.type = "run_completed" => i = Len(t)
  PROVE  /\ Reconciled(run, t) \in RunRecord
         /\ Reconciled(run, t).next = Len(t) + 1
         /\ Sound(Reconciled(run, t), t)
<1>1. DOMAIN t = 1..Len(t) /\ Len(t) \in Nat
  BY LenProperties
<1>2. CASE run.next = Len(t) + 1
  BY <1>2 DEF Reconciled
<1>3. CASE run.next # Len(t) + 1 /\ ~\E i \in DOMAIN t : LastDecision(t, i)
  <2>1. Reconciled(run, t) = [status |-> run.status, next |-> Len(t) + 1,
                             finished |-> run.finished]
    BY <1>3 DEF Reconciled, Derived
  <2>2. ~Ends(t)
    <3> SUFFICES ASSUME NEW i \in DOMAIN t, t[i].input.type = "run_completed"
                 PROVE  FALSE
      BY DEF Ends
    <3>1. LastDecision(t, i)
      BY <1>1 DEF LastDecision, Decides
    <3> QED BY <3>1, <1>3
  <2> QED BY <1>1, <1>3, <2>1, <2>2 DEF Sound, RunRecord
<1>4. CASE run.next # Len(t) + 1 /\ \E i \in DOMAIN t : LastDecision(t, i)
  <2> DEFINE k == CHOOSE i \in DOMAIN t : LastDecision(t, i)
  <2>1. k \in DOMAIN t /\ LastDecision(t, k)
    BY <1>4
  <2>2. Reconciled(run, t) = [status |-> StatusAfter(t[k].input), next |-> Len(t) + 1,
                             finished |-> t[k].input.type = "run_completed"]
    BY <1>4 DEF Reconciled, Derived
  <2> HIDE DEF k
  <2>3. StatusAfter(t[k].input) \in {"completed", "active", "verification-pending"}
    BY DEF StatusAfter
  <2>4. Reconciled(run, t) \in RunRecord /\ Reconciled(run, t).next = Len(t) + 1
    BY <1>1, <2>2, <2>3 DEF RunRecord, Statuses
  <2>5. Ends(t) => t[k].input.type = "run_completed"
    <3> SUFFICES ASSUME NEW i \in DOMAIN t, t[i].input.type = "run_completed"
                 PROVE  t[k].input.type = "run_completed"
      BY DEF Ends
    <3>1. LastDecision(t, i)
      BY <1>1 DEF LastDecision, Decides
    <3> QED BY <2>1, <3>1, LastDecisionUnique
  <2>6. StatusAfter(t[k].input) = "completed" => Ends(t)
    BY <2>1 DEF StatusAfter, Ends
  <2>7. ASSUME NEW i \in DOMAIN t, LastDecision(t, i),
               t[i].input.type = "verification_required"
        PROVE  StatusAfter(t[k].input) = "verification-pending"
    BY <2>1, <2>7, LastDecisionUnique DEF StatusAfter
  <2>8. t[k].input.type = "run_completed" => StatusAfter(t[k].input) = "completed"
    BY DEF StatusAfter
  <2> QED BY <2>2, <2>4, <2>5, <2>6, <2>7, <2>8 DEF Sound, Closed
<1> QED BY <1>2, <1>3, <1>4

\* What has to be shown of the next trace for its completion to be fresh.
LEMMA FreshNext ==
  ASSUME ASSUME NEW i \in DOMAIN trace', trace'[i].input.type = "run_completed",
                NEW m \in DOMAIN trace', m < i, IsMutationBoundary(trace'[m].input)
         PROVE  \E v \in DOMAIN trace' : /\ m < v /\ v < i
                                         /\ IsPassing(trace'[v].input)
                                         /\ trace'[v].input.repo \in Repos
  PROVE  CompletionIsFresh'
BY DEF CompletionIsFresh, IsMutationBoundary, IsPassing

\* What the first k lines of a batch do to the trace: the numbers go on
\* without a gap, and if the run is closed by them, it is closed last and on
\* fresh evidence.
LEMMA AppendKeeps ==
  ASSUME IInv, NEW p \in Procs, pc[p] = "entered", job[p].op # "mark",
         Admitted(job[p], snap[p], trace),
         NEW es, es = Stamped(Batch(job[p], snap[p].status), snap[p]),
         NEW k \in 0..Len(es),
         trace' = trace \o SubSeq(es, 1, k)
  PROVE  /\ es \in Seq(Event)
         /\ Len(es) = Len(Batch(job[p], snap[p].status))
         /\ trace' \in Seq(Event)
         /\ Len(trace') = Len(trace) + k
         /\ SequenceContiguous'
         /\ CompletionIsFresh'
         /\ CompletedIsFinal'
         /\ ~Ends(trace)
         /\ Ends(trace') => job[p].op = "complete" /\ k = 1
<1> DEFINE j == job[p]
           s == snap[p].status
           b == Batch(j, s)
<1>1. /\ j \in Jobs /\ s \in Statuses /\ snap[p] \in RunRecord
      /\ trace \in Seq(Event) /\ Len(trace) \in Nat /\ DOMAIN trace = 1..Len(trace)
  BY LenProperties DEF IInv, TypeOK, RunRecord
<1>2. b \in Seq(EventInput) /\ Len(b) \in 1..3
  BY <1>1, BatchType
<1>3. /\ es \in Seq(Event) /\ Len(es) = Len(b)
      /\ \A i \in 1..Len(b) : es[i] = [seq |-> snap[p].next + i - 1, input |-> b[i]]
  BY <1>1, <1>2, StampedType
<1>4. /\ trace' \in Seq(Event) /\ Len(trace') = Len(trace) + k
      /\ DOMAIN trace' = 1..(Len(trace) + k)
      /\ \A i \in 1..Len(trace) : trace'[i] = trace[i]
      /\ \A i \in 1..k : trace'[Len(trace) + i] = es[i]
  BY <1>1, <1>3, Extension
<1>5. snap[p].next = Len(trace) + 1 /\ Sound(snap[p], trace)
  BY DEF IInv, SectionInv
<1>6. s \notin Closed
  BY <1>1 DEF Admitted, Closed, Jobs
<1>7. ~Ends(trace)
  BY <1>5, <1>6 DEF Sound
<1> HIDE DEF b
<1>8. k \in Nat /\ k <= Len(b) /\ Len(b) \in 1..3
  BY <1>2, <1>3
<1>9. ASSUME NEW i \in DOMAIN trace', i > Len(trace)
      PROVE  /\ i - Len(trace) \in 1..k
             /\ trace'[i] = es[i - Len(trace)]
             /\ trace'[i].seq = i
             /\ trace'[i].input = b[i - Len(trace)]
  <2>1. i - Len(trace) \in 1..k /\ Len(trace) + (i - Len(trace)) = i
    BY <1>1, <1>4, <1>8, <1>9
  <2>2. i - Len(trace) \in 1..Len(b)
    BY <2>1, <1>8
  <2>3. trace'[i] = es[i - Len(trace)]
    BY <2>1, <1>4
  <2>4. es[i - Len(trace)] = [seq |-> snap[p].next + (i - Len(trace)) - 1,
                             input |-> b[i - Len(trace)]]
    BY <1>3, <2>2
  <2>5. snap[p].next + (i - Len(trace)) - 1 = i
    BY <1>1, <1>5, <2>1
  <2> QED BY SMTT(20), <2>1, <2>3, <2>4, <2>5
<1>10. SequenceContiguous'
  <2> SUFFICES ASSUME NEW i \in DOMAIN trace' PROVE trace'[i].seq = i
    BY DEF SequenceContiguous
  <2>1. CASE i > Len(trace)
    BY <1>9, <2>1
  <2>2. CASE i \in 1..Len(trace)
    BY <1>1, <1>4, <2>2 DEF IInv, SequenceContiguous
  <2> QED BY <1>1, <1>4, <1>8, <2>1, <2>2
<1>11. ASSUME NEW i \in DOMAIN trace', trace'[i].input.type = "run_completed"
       PROVE  i = Len(trace) + 1 /\ j.op = "complete" /\ k = 1
  <2>1. i > Len(trace)
    <3>1. CASE i \in 1..Len(trace)
      BY <1>1, <1>4, <1>7, <1>11, <3>1 DEF Ends
    <3> QED BY <1>1, <1>4, <1>8, <3>1
  <2>2. i - Len(trace) \in 1..k /\ b[i - Len(trace)].type = "run_completed"
    BY <1>9, <1>11, <2>1
  <2>3. j.op = "complete" /\ Len(b) = 1
    BY <1>1, <1>8, <2>2, BatchFinish DEF b
  <2> QED BY <1>1, <1>4, <1>8, <2>1, <2>2, <2>3
<1>12. CompletedIsFinal'
  BY <1>4, <1>11 DEF CompletedIsFinal
<1>13. ASSUME NEW i \in DOMAIN trace', trace'[i].input.type = "run_completed",
              NEW m \in DOMAIN trace', m < i, IsMutationBoundary(trace'[m].input)
       PROVE  \E v \in DOMAIN trace' : /\ m < v /\ v < i
                                       /\ IsPassing(trace'[v].input)
                                       /\ trace'[v].input.repo \in Repos
  <2>1. i = Len(trace) + 1 /\ j.op = "complete"
    BY <1>11, <1>13
  <2>2. m \in DOMAIN trace /\ m \in Nat /\ trace'[m] = trace[m]
    BY <1>1, <1>4, <1>8, <1>13, <2>1
  <2>3. FreshEvidence(trace, j.repo) /\ j.repo \in Repos \cup {NoRepo}
    BY <1>1, <2>1 DEF Admitted, Jobs
  <2>4. PICK v \in DOMAIN trace :
          /\ IsPassing(trace[v].input) /\ trace[v].input.repo = j.repo /\ j.repo # NoRepo
          /\ \A l \in DOMAIN trace : l > v => ~IsMutationBoundary(trace[l].input)
    BY <1>13, <2>2, <2>3 DEF FreshEvidence
  <2>5. m # v
    BY <1>13, <2>2, <2>4 DEF IsMutationBoundary, IsPassing
  <2>6. ~(m > v)
    BY <1>13, <2>2, <2>4
  <2>7. m < v /\ v < i
    BY <1>1, <2>1, <2>2, <2>5, <2>6
  <2>8. v \in DOMAIN trace' /\ trace'[v] = trace[v]
    BY <1>1, <1>4, <1>8
  <2> QED BY <2>3, <2>4, <2>7, <2>8
<1>14. CompletionIsFresh'
  BY <1>13, FreshNext
<1> QED BY <1>3, <1>4, <1>7, <1>10, <1>11, <1>12, <1>14 DEF b, Ends

\* After the whole batch is appended, the record in memory agrees with the trace.
LEMMA AppendSound ==
  ASSUME IInv, NEW p \in Procs, AppendLine(p)
  PROVE  /\ snap'[p] \in RunRecord
         /\ snap'[p].next = Len(trace') + 1
         /\ Sound(snap'[p], trace')
<1> DEFINE j == job[p]
           s == snap[p].status
           b == Batch(j, s)
           es == Stamped(b, snap[p])
           n == Len(b)
           r == snap'[p]
<1>1. /\ j \in Jobs /\ s \in Statuses /\ snap[p] \in RunRecord /\ snap[p].next \in Nat
      /\ trace \in Seq(Event) /\ Len(trace) \in Nat /\ DOMAIN trace = 1..Len(trace)
  BY LenProperties DEF IInv, TypeOK, RunRecord
<1>2. /\ b \in Seq(EventInput) /\ n \in 1..3 /\ n \in Nat
      /\ NextStatus(j, s) \in Statuses
  BY <1>1, BatchType
<1>3. /\ es \in Seq(Event) /\ Len(es) = n
      /\ \A i \in 1..n : es[i] = [seq |-> snap[p].next + i - 1, input |-> b[i]]
  <2> HIDE DEF b
  <2> QED BY <1>1, <1>2, StampedType
<1>4. /\ pc[p] = "entered" /\ j.op # "mark" /\ Admitted(j, snap[p], trace)
      /\ trace' = trace \o es
      /\ snap' = [snap EXCEPT ![p].status = NextStatus(j, s),
                              ![p].next = snap[p].next + Len(es)]
  BY DEF AppendLine
<1>5. r = [snap[p] EXCEPT !.status = NextStatus(j, s), !.next = snap[p].next + n]
  BY <1>1, <1>3, <1>4 DEF IInv, TypeOK
<1>6. r \in RunRecord /\ r.status = NextStatus(j, s) /\ r.next = snap[p].next + n
  <2> HIDE DEF n, r, s
  <2>1. snap[p].next + n \in Nat
    BY <1>1, <1>2
  <2> QED BY <1>1, <1>2, <1>5, <2>1 DEF RunRecord
<1>7. trace' = trace \o SubSeq(es, 1, n) /\ n \in 0..Len(es)
  <2> HIDE DEF es, n
  <2>1. SubSeq(es, 1, n) = es
    BY <1>3, SubSeqFull
  <2>2. n \in 0..Len(es)
    BY <1>2, <1>3
  <2> QED BY <1>4, <2>1, <2>2
<1>8. /\ trace' \in Seq(Event) /\ Len(trace') = Len(trace) + n
      /\ ~Ends(trace) /\ (Ends(trace') => j.op = "complete")
  BY <1>4, <1>7, AppendKeeps
<1>9. snap[p].next = Len(trace) + 1 /\ Sound(snap[p], trace)
  BY <1>4 DEF IInv, SectionInv
<1>10. s \notin Closed /\ j.op \in {"intent", "transition", "complete"}
  BY <1>1, <1>4 DEF Admitted, Closed, Jobs
<1>11. j.op = "complete" => b = <<Finished>> /\ NextStatus(j, s) = "completed"
  BY DEF Batch, NextStatus, RanMutation, Clears
<1>12. NextStatus(j, s) = "completed" => j.op = "complete"
  BY <1>10 DEF NextStatus, Closed
<1>13. \/ /\ Decides(b[n])
          /\ b[n].type = "verification_required" => NextStatus(j, s) = "verification-pending"
       \/ n = 1 /\ ~Decides(b[1]) /\ NextStatus(j, s) = s
  BY <1>1, <1>4, BatchDecides
<1>14. /\ DOMAIN trace' = 1..(Len(trace) + n)
       /\ \A i \in 1..Len(trace) : trace'[i] = trace[i]
       /\ trace'[Len(trace) + n].input = b[n]
  <2> HIDE DEF es, n
  <2>1. /\ DOMAIN (trace \o SubSeq(es, 1, n)) = 1..(Len(trace) + n)
        /\ \A i \in 1..Len(trace) : (trace \o SubSeq(es, 1, n))[i] = trace[i]
        /\ \A i \in 1..n : (trace \o SubSeq(es, 1, n))[Len(trace) + i] = es[i]
    BY <1>1, <1>3, <1>7, Extension
  <2>2. n \in 1..n
    BY <1>2
  <2> QED BY <1>3, <1>7, <2>1, <2>2
<1> HIDE DEF j, s, b, es, n, r
<1>15. r.next = Len(trace') + 1
  BY <1>1, <1>2, <1>6, <1>8, <1>9
<1>16. Ends(trace') => r.status \in Closed
  BY <1>6, <1>8, <1>11 DEF Closed
<1>17. r.status = "completed" => Ends(trace')
  <2>1. j.op = "complete" => n = 1 /\ b[1].type = "run_completed"
    BY <1>11 DEF Finished, Input, n
  <2>2. Len(trace) + n \in DOMAIN trace'
    BY <1>1, <1>2, <1>14
  <2> QED BY <1>6, <1>12, <1>14, <2>1, <2>2 DEF Ends
<1>18. ASSUME NEW i \in DOMAIN trace', LastDecision(trace', i),
              trace'[i].input.type = "verification_required"
       PROVE  r.status # "active"
  <2>1. CASE Decides(b[n]) /\ (b[n].type = "verification_required"
                                => NextStatus(j, s) = "verification-pending")
    <3>1. Len(trace) + n \in DOMAIN trace'
          /\ \A m \in DOMAIN trace' : m <= Len(trace) + n
      BY <1>1, <1>2, <1>14
    <3>2. LastDecision(trace', Len(trace) + n)
      BY <1>14, <2>1, <3>1 DEF LastDecision
    <3>3. i = Len(trace) + n
      BY <1>8, <1>18, <3>2, LastDecisionUnique
    <3> QED BY <1>6, <1>14, <1>18, <2>1, <3>3
  <2>2. CASE n = 1 /\ ~Decides(b[1]) /\ NextStatus(j, s) = s
    <3>1. i # Len(trace) + 1
      BY <1>14, <1>18, <2>2 DEF LastDecision
    <3>2. i \in DOMAIN trace /\ trace'[i] = trace[i]
      BY <1>1, <1>14, <2>2, <3>1
    <3>3. \A m \in DOMAIN trace : m \in DOMAIN trace' /\ trace'[m] = trace[m]
      BY <1>1, <1>14, <2>2
    <3>4. LastDecision(trace, i)
      BY <1>18, <3>2, <3>3 DEF LastDecision
    <3> QED BY <1>6, <1>9, <1>18, <2>2, <3>2, <3>4 DEF Sound, s
  <2> QED BY <1>13, <2>1, <2>2
<1> QED BY <1>6, <1>15, <1>16, <1>17, <1>18 DEF Sound, r

\* The trace and the run record, as the next state leaves them.
StoreOK ==
  /\ trace \in Seq(Event)
  /\ tail \in {"clean", "unterminated", "broken"}
  /\ SequenceContiguous
  /\ CompletionIsFresh
  /\ CompletedIsFinal
  /\ runFile \in RunRecord
  /\ FileNotAhead
  /\ Sound(runFile, trace)

\* The default job and record have the type of the fields they are kept in.
LEMMA Defaults == NoJob \in Jobs /\ NoSnap \in RunRecord
BY DEF NoJob, Jobs, NoSnap, RunRecord, Kinds, Statuses

\* The holder of the lock is the only process inside a section.
LEMMA Alone ==
  ASSUME IInv, NEW p \in Procs, pc[p] # "idle" \/ lock = NoProc,
         NEW q \in Procs, q # p
  PROVE  pc[q] = "idle"
BY NoProcAssumption DEF IInv, SectionInv

\* A process that ends its section and leaves a good store behind.
LEMMA LeaveKeeps ==
  ASSUME IInv, NEW p \in Procs, pc[p] # "idle", Leave(p), StoreOK'
  PROVE  IInv'
<1>1. TypeOK'
  <2>1. lock' \in Procs \cup {NoProc} /\ pc' \in [Procs -> {"idle", "entered", "appended", "completing"}]
    BY DEF Leave, IInv, TypeOK
  <2>2. job' \in [Procs -> Jobs] /\ snap' \in [Procs -> RunRecord]
    BY Defaults DEF Leave, IInv, TypeOK
  <2> QED BY <2>1, <2>2 DEF TypeOK, StoreOK
<1>2. \A q \in Procs : pc'[q] = "idle"
  BY Alone DEF Leave, IInv, TypeOK
<1>3. SectionInv'
  BY <1>2 DEF SectionInv
<1> QED BY <1>1, <1>3 DEF IInv, StoreOK

\* A process that goes on in its section and leaves a good store behind.
LEMMA StayKeeps ==
  ASSUME IInv, NEW p \in Procs, pc[p] # "idle" \/ lock = NoProc, lock' = p,
         NEW x \in {"entered", "appended", "completing"},
         pc' = [pc EXCEPT ![p] = x],
         job' \in [Procs -> Jobs],
         snap' \in [Procs -> RunRecord],
         snap'[p].next = Len(trace') + 1,
         Sound(snap'[p], trace'),
         x = "entered" => snap'[p] = runFile',
         StoreOK'
  PROVE  IInv'
<1>1. TypeOK'
  <2>1. pc' \in [Procs -> {"idle", "entered", "appended", "completing"}]
    BY DEF IInv, TypeOK
  <2> QED BY <2>1 DEF TypeOK, StoreOK
<1>2. pc'[p] = x /\ \A q \in Procs : q # p => pc'[q] = "idle"
  BY Alone DEF IInv, TypeOK
<1>3. SectionInv'
  <2> SUFFICES ASSUME NEW q \in Procs
               PROVE  /\ pc'[q] # "idle" => lock' = q
                      /\ pc'[q] = "entered" => snap'[q] = runFile'
                      /\ pc'[q] # "idle" => snap'[q].next = Len(trace') + 1
                                            /\ Sound(snap'[q], trace')
    BY DEF SectionInv, Sound, Ends, LastDecision, Decides, IsMutationBoundary
  <2>1. CASE q = p
    BY <1>2, <2>1
  <2>2. CASE q # p
    BY <1>2, <2>2
  <2> QED BY <2>1, <2>2
<1> QED BY <1>1, <1>3 DEF IInv, StoreOK

\* A step that leaves the store alone leaves it good.
LEMMA StoreKept ==
  ASSUME IInv, UNCHANGED <<trace, tail, runFile>>
  PROVE  StoreOK'
<1>1. StoreOK
  BY DEF IInv, TypeOK, StoreOK
<1> QED BY <1>1 DEF StoreOK, SequenceContiguous, CompletionIsFresh, CompletedIsFinal,
                   FileNotAhead, Sound, Ends, LastDecision, Decides, IsMutationBoundary,
                   IsPassing

\* A step that replaces run.json by a sound record leaves the store good.
LEMMA FileKept ==
  ASSUME IInv, UNCHANGED <<trace, tail>>, NEW r \in RunRecord, runFile' = r,
         r.next = Len(trace) + 1, Sound(r, trace)
  PROVE  StoreOK'
<1>1. trace \in Seq(Event) /\ Len(trace) \in Nat
  BY LenProperties DEF IInv, TypeOK
<1>2. SequenceContiguous' /\ CompletionIsFresh' /\ CompletedIsFinal'
  BY DEF IInv, SequenceContiguous, CompletionIsFresh, CompletedIsFinal,
         IsMutationBoundary, IsPassing
<1>3. Sound(runFile, trace)'
  BY DEF Sound, Ends, LastDecision, Decides, IsMutationBoundary
<1>4. FileNotAhead'
  BY <1>1 DEF FileNotAhead
<1> QED BY <1>1, <1>2, <1>3, <1>4 DEF IInv, TypeOK, StoreOK

\* A new run satisfies the invariant.
LEMMA InitIInv == ASSUME Init PROVE IInv
<1> DEFINE start == Input("run_started", TRUE, "none", NoCmd, NoRepo)
<1>1. start \in EventInput /\ start.type = "run_started"
  BY DEF Input, EventInput, EventTypes, Kinds
<1>2. trace = <<[seq |-> 1, input |-> start]>>
  BY DEF Init
<1> HIDE DEF start
<1>3. trace \in Seq(Event) /\ Len(trace) = 1 /\ DOMAIN trace = {1}
      /\ trace[1].seq = 1 /\ trace[1].input = start
  BY <1>1, <1>2 DEF Event
<1>4. runFile = [status |-> "active", next |-> 2, finished |-> FALSE]
      /\ runFile \in RunRecord
  BY DEF Init, RunRecord, Statuses
<1>5. TypeOK
  BY <1>3, <1>4, Defaults DEF Init, TypeOK
<1>6. SequenceContiguous /\ CompletionIsFresh /\ CompletedIsFinal /\ FileNotAhead
  BY <1>1, <1>3, <1>4 DEF SequenceContiguous, CompletionIsFresh, CompletedIsFinal, FileNotAhead
<1>7. Sound(runFile, trace)
  BY <1>1, <1>3, <1>4 DEF Sound, Ends
<1>8. SectionInv
  BY DEF Init, SectionInv
<1> QED BY <1>5, <1>6, <1>7, <1>8 DEF IInv

\* The jobs that callers submit are well formed.
LEMMA JobType ==
  /\ \A c \in Commands : IntentJob(c) \in Jobs
  /\ \A r \in Repos : CompleteJob(r) \in Jobs
  /\ \A s \in TransitionTargets : MarkJob(s) \in Jobs
  /\ \A kind \in Kinds, c \in Commands, ok, matched \in BOOLEAN, r \in Repos \cup {NoRepo} :
       TransitionJob(kind, c, ok, matched, r) \in Jobs
BY TransitionAssumption
   DEF IntentJob, CompleteJob, MarkJob, TransitionJob, NoJob, Jobs, Kinds

\* Opening a section.
LEMMA EnterKeeps ==
  ASSUME IInv, NEW p \in Procs, NEW j \in Jobs, Enter(p, j)
  PROVE  IInv'
<1> DEFINE r == Reconciled(runFile, trace)
<1>1. r \in RunRecord /\ r.next = Len(trace) + 1 /\ Sound(r, trace)
  BY ReconciledSound DEF IInv, TypeOK, CompletedIsFinal
<1> HIDE DEF r
<1>2. /\ lock = NoProc /\ lock' = p /\ UNCHANGED <<trace, tail>>
      /\ runFile' = r /\ snap' = [snap EXCEPT ![p] = r]
      /\ job' = [job EXCEPT ![p] = j] /\ pc' = [pc EXCEPT ![p] = "entered"]
  BY DEF Enter, r
<1>3. StoreOK'
  BY <1>1, <1>2, FileKept
<1>4. /\ job' \in [Procs -> Jobs] /\ snap' \in [Procs -> RunRecord] /\ snap'[p] = r
  BY <1>1, <1>2 DEF IInv, TypeOK
<1> QED BY <1>1, <1>2, <1>3, <1>4, StayKeeps

\* Reading the run.
LEMMA ReadRunKeeps ==
  ASSUME IInv, NEW p \in Procs, ReadRun(p)
  PROVE  IInv'
<1> DEFINE r == Reconciled(runFile, trace)
<1>1. r \in RunRecord /\ r.next = Len(trace) + 1 /\ Sound(r, trace)
  BY ReconciledSound DEF IInv, TypeOK, CompletedIsFinal
<1> HIDE DEF r
<1>2. /\ lock = NoProc /\ UNCHANGED <<trace, tail, lock, pc, job, snap>> /\ runFile' = r
  BY DEF ReadRun, r
<1>3. StoreOK'
  BY <1>1, <1>2, FileKept
<1>4. \A q \in Procs : pc'[q] = "idle"
  BY <1>2, NoProcAssumption DEF IInv, SectionInv
<1>5. SectionInv'
  BY <1>4 DEF SectionInv
<1>6. TypeOK'
  BY <1>2, <1>3 DEF IInv, TypeOK, StoreOK
<1> QED BY <1>3, <1>5, <1>6 DEF IInv, StoreOK

\* Appending a whole batch: run.json lags behind until it is replaced.
LEMMA AppendLineKeeps ==
  ASSUME IInv, NEW p \in Procs, AppendLine(p)
  PROVE  IInv'
<1> DEFINE es == Stamped(Batch(job[p], snap[p].status), snap[p])
<1>1. /\ pc[p] = "entered" /\ job[p].op # "mark" /\ Admitted(job[p], snap[p], trace)
      /\ trace' = trace \o es
      /\ snap' = [snap EXCEPT ![p].status = NextStatus(job[p], snap[p].status),
                              ![p].next = snap[p].next + Len(es)]
      /\ tail' = IF tail = "clean" THEN "clean" ELSE "broken"
      /\ pc' = [pc EXCEPT ![p] = "appended"]
      /\ UNCHANGED <<runFile, lock, job>>
  BY DEF AppendLine
<1>2. /\ job[p] \in Jobs /\ snap[p] \in RunRecord /\ snap[p].status \in Statuses
      /\ trace \in Seq(Event) /\ Len(trace) \in Nat
  BY LenProperties DEF IInv, TypeOK, RunRecord
<1>3. es \in Seq(Event) /\ Len(es) \in 1..3
  BY <1>2, BatchType, StampedType
<1> HIDE DEF es
<1>4. Len(es) \in 0..Len(es) /\ trace' = trace \o SubSeq(es, 1, Len(es))
  BY <1>1, <1>3, SubSeqFull
<1>5. /\ trace' \in Seq(Event) /\ Len(trace') = Len(trace) + Len(es)
      /\ SequenceContiguous' /\ CompletionIsFresh' /\ CompletedIsFinal'
  BY <1>1, <1>4, AppendKeeps DEF es
<1>6. /\ snap'[p] \in RunRecord /\ snap'[p].next = Len(trace') + 1 /\ Sound(snap'[p], trace')
  BY AppendSound
<1>7. /\ runFile = snap[p] /\ snap[p].next = Len(trace) + 1 /\ lock = p
  BY <1>1 DEF IInv, SectionInv
<1>8. Sound(runFile, trace)'
  <2>1. runFile'.next # Len(trace') + 1
    <3>1. runFile'.next = Len(trace) + 1
      BY <1>1, <1>7
    <3>2. \A x, y \in Nat : y # 0 => x + 1 # (x + y) + 1
      OBVIOUS
    <3>3. Len(es) \in Nat /\ Len(es) # 0
      BY <1>3
    <3> QED BY <1>2, <1>5, <3>1, <3>2, <3>3
  <2>2. runFile'.status # "completed"
    BY <1>1, <1>2, <1>7 DEF Admitted, Closed, Jobs
  <2> QED BY <2>1, <2>2 DEF Sound
<1>9. FileNotAhead'
  BY <1>1, <1>2, <1>3, <1>5, <1>7 DEF FileNotAhead
<1>10. StoreOK'
  BY <1>1, <1>5, <1>8, <1>9 DEF IInv, TypeOK, StoreOK
<1>11. snap' \in [Procs -> RunRecord]
  <2>1. snap' = [snap EXCEPT ![p] = snap'[p]]
    BY <1>1 DEF IInv, TypeOK
  <2> QED BY <1>6, <2>1 DEF IInv, TypeOK
<1>12. job' \in [Procs -> Jobs]
  BY <1>1 DEF IInv, TypeOK
<1> QED BY <1>1, <1>6, <1>7, <1>10, <1>11, <1>12, StayKeeps

\* A torn append: whatever prefix of the batch reached the disk, run.json
\* stays behind the trace and says nothing about it.
LEMMA TornAppendKeeps ==
  ASSUME IInv, NEW p \in Procs, NEW k \in 0..3, TornAppend(p, k)
  PROVE  IInv'
<1> DEFINE es == Stamped(Batch(job[p], snap[p].status), snap[p])
<1>1. /\ pc[p] = "entered" /\ job[p].op # "mark" /\ Admitted(job[p], snap[p], trace)
      /\ k \in 0..Len(es) /\ trace' = trace \o SubSeq(es, 1, k)
      /\ Leave(p) /\ UNCHANGED runFile
  BY DEF TornAppend
<1>2. tail' \in {"clean", "unterminated", "broken"}
  BY DEF TornAppend
<1>3. /\ job[p] \in Jobs /\ snap[p] \in RunRecord /\ snap[p].status \in Statuses
      /\ trace \in Seq(Event) /\ Len(trace) \in Nat
  BY LenProperties DEF IInv, TypeOK, RunRecord
<1>4. es \in Seq(Event)
  BY <1>3, BatchType, StampedType
<1>5. runFile = snap[p] /\ snap[p].next = Len(trace) + 1
  BY <1>1 DEF IInv, SectionInv
<1> HIDE DEF es
<1>6. /\ trace' \in Seq(Event) /\ Len(trace') = Len(trace) + k
      /\ SequenceContiguous' /\ CompletionIsFresh' /\ CompletedIsFinal'
  BY <1>1, AppendKeeps DEF es
<1>7. k = 0 => trace' = trace
  BY <1>1, <1>3, <1>4
<1>8. Sound(runFile, trace)'
  <2>1. CASE k = 0
    BY <1>1, <1>7, <2>1 DEF IInv, Sound, Ends, LastDecision, Decides, IsMutationBoundary
  <2>2. CASE k # 0
    <3>1. runFile'.next # Len(trace') + 1
      BY <1>1, <1>3, <1>5, <1>6, <2>2
    <3>2. runFile'.status # "completed"
      BY <1>1, <1>3, <1>5 DEF Admitted, Closed, Jobs
    <3> QED BY <3>1, <3>2 DEF Sound
  <2> QED BY <2>1, <2>2
<1>9. FileNotAhead'
  BY <1>1, <1>3, <1>5, <1>6 DEF FileNotAhead
<1>10. StoreOK'
  BY <1>1, <1>2, <1>6, <1>8, <1>9 DEF IInv, TypeOK, StoreOK
<1> QED BY <1>1, <1>10, LeaveKeeps

\* Replacing run.json, the first time and the second.
LEMMA WriteKeeps ==
  ASSUME IInv, NEW p \in Procs, WriteRun(p) \/ WriteCompletedAt(p) \/ MarkStatus(p)
  PROVE  IInv'
<1>1. /\ pc[p] # "idle" /\ snap[p] \in RunRecord /\ snap[p].next = Len(trace) + 1
      /\ Sound(snap[p], trace) /\ lock = p /\ UNCHANGED <<trace, tail>>
  BY DEF IInv, TypeOK, SectionInv, WriteRun, WriteCompletedAt, MarkStatus
<1>2. CASE WriteRun(p)
  <2>1. StoreOK'
    BY <1>1, <1>2, FileKept DEF WriteRun
  <2>2. CASE job[p].op = "complete"
    <3>1. pc' = [pc EXCEPT ![p] = "completing"] /\ UNCHANGED <<lock, job, snap>>
      BY <1>2, <2>2 DEF WriteRun
    <3>2. /\ job' \in [Procs -> Jobs] /\ snap' \in [Procs -> RunRecord]
          /\ snap'[p].next = Len(trace') + 1 /\ Sound(snap'[p], trace')
      BY <1>1, <3>1 DEF IInv, TypeOK
    <3> QED BY <1>1, <2>1, <3>1, <3>2, StayKeeps
  <2>3. CASE job[p].op # "complete"
    BY <1>1, <1>2, <2>1, <2>3, LeaveKeeps DEF WriteRun
  <2> QED BY <2>2, <2>3
<1>3. CASE WriteCompletedAt(p)
  <2> DEFINE r == [snap[p] EXCEPT !.finished = TRUE]
  <2>1. r \in RunRecord /\ r.next = Len(trace) + 1 /\ r.status = snap[p].status
    BY <1>1 DEF RunRecord
  <2>2. runFile' = r /\ Leave(p)
    BY <1>3 DEF WriteCompletedAt
  <2> HIDE DEF r
  <2>3. Sound(r, trace)
    BY <1>1, <2>1 DEF Sound
  <2> QED BY <1>1, <2>1, <2>2, <2>3, FileKept, LeaveKeeps
<1>4. CASE MarkStatus(p)
  <2> DEFINE r == [snap[p] EXCEPT !.status = job[p].target]
  <2>1. job[p].target \in {"failed", "abandoned"}
    BY DEF IInv, TypeOK, Jobs
  <2>2. r \in RunRecord /\ r.next = Len(trace) + 1 /\ r.status = job[p].target
    BY <1>1, <2>1 DEF RunRecord, Statuses
  <2>3. runFile' = r /\ Leave(p)
    BY <1>4 DEF MarkStatus
  <2> HIDE DEF r
  <2>4. Sound(r, trace)
    BY <2>1, <2>2 DEF Sound, Closed
  <2> QED BY <1>1, <2>2, <2>3, <2>4, FileKept, LeaveKeeps
<1> QED BY <1>2, <1>3, <1>4

\* Refusing, and dying between two writes.
LEMMA QuitKeeps ==
  ASSUME IInv, NEW p \in Procs, Refuse(p) \/ Crash(p)
  PROVE  IInv'
<1>1. pc[p] # "idle" /\ Leave(p) /\ UNCHANGED <<trace, tail, runFile>>
  BY DEF Refuse, Crash
<1> QED BY <1>1, StoreKept, LeaveKeeps

\* The invariant is inductive.
LEMMA NextIInv == ASSUME IInv, [Next]_vars PROVE IInv'
<1>1. CASE UNCHANGED vars
  <2>1. StoreOK'
    BY <1>1, StoreKept DEF vars
  <2>2. SectionInv'
    BY <1>1 DEF vars, IInv, SectionInv, Sound, Ends, LastDecision, Decides, IsMutationBoundary
  <2>3. TypeOK'
    BY <1>1 DEF vars, IInv, TypeOK
  <2> QED BY <2>1, <2>2, <2>3 DEF IInv, StoreOK
<1>2. ASSUME NEW p \in Procs, Submit(p)
      PROVE  IInv'
  <2>1. ASSUME NEW c \in Commands, Enter(p, IntentJob(c)) PROVE IInv'
    BY <2>1, JobType, EnterKeeps
  <2>2. ASSUME NEW kind \in Kinds, NEW c \in Commands, NEW ok \in BOOLEAN,
               NEW found \in BOOLEAN, NEW r \in Repos \cup {NoRepo},
               Enter(p, TransitionJob(kind, c, ok, found, r))
        PROVE IInv'
    BY <2>2, JobType, EnterKeeps
  <2>3. ASSUME NEW r \in Repos, Enter(p, CompleteJob(r)) PROVE IInv'
    BY <2>3, JobType, EnterKeeps
  <2>4. ASSUME NEW s \in TransitionTargets, Enter(p, MarkJob(s)) PROVE IInv'
    BY <2>4, JobType, EnterKeeps
  <2> QED BY <1>2, <2>1, <2>2, <2>3, <2>4 DEF Submit
<1>3. ASSUME NEW p \in Procs, ReadRun(p) PROVE IInv'
  BY <1>3, ReadRunKeeps
<1>4. ASSUME NEW p \in Procs, Section(p) PROVE IInv'
  <2>1. ASSUME NEW k \in 0..3, TornAppend(p, k) PROVE IInv'
    BY <2>1, TornAppendKeeps
  <2> QED BY <1>4, <2>1, AppendLineKeeps, WriteKeeps, QuitKeeps DEF Section
<1> QED BY <1>1, <1>2, <1>3, <1>4 DEF Next

-----------------------------------------------------------------------------
(* The theorems.                                                           *)

\* Every reachable state satisfies the inductive invariant: run.json is never
\* ahead of the trace, and up to date it agrees with it on the two facts the
\* gates rely on.
THEOREM Invariance == Spec => []IInv
BY InitIInv, NextIInv, PTL DEF Spec

\* The state always has its type.
THEOREM TypeCorrect == Spec => []TypeOK
<1>1. IInv => TypeOK
  BY DEF IInv
<1> QED BY <1>1, Invariance, PTL

\* Sequence numbers have no gap and no duplicate, whatever crashes.
THEOREM Contiguous == Spec => []SequenceContiguous
<1>1. IInv => SequenceContiguous
  BY DEF IInv
<1> QED BY <1>1, Invariance, PTL

\* run.json is never ahead of the trace, so reconciliation never refuses it.
THEOREM NeverAhead == Spec => []FileNotAhead
<1>1. IInv => FileNotAhead
  BY DEF IInv
<1> QED BY <1>1, Invariance, PTL

\* No run_completed without a passing verification after every mutation.
THEOREM FreshCompletion == Spec => []CompletionIsFresh
<1>1. IInv => CompletionIsFresh
  BY DEF IInv
<1> QED BY <1>1, Invariance, PTL

\* run_completed is the last event of a trace.
THEOREM FinalCompletion == Spec => []CompletedIsFinal
<1>1. IInv => CompletedIsFinal
  BY DEF IInv
<1> QED BY <1>1, Invariance, PTL

\* A recorded intent keeps every reader from seeing an active run.
THEOREM IntentHolds == Spec => []IntentHoldsGate
<1>1. IInv => IntentHoldsGate
  <2> SUFFICES ASSUME IInv,
                      NEW i \in DOMAIN trace, LastDecision(trace, i),
                      trace[i].input.type = "verification_required"
               PROVE  Reconciled(runFile, trace).status # "active"
    BY DEF IntentHoldsGate
  <2>1. /\ Reconciled(runFile, trace).next = Len(trace) + 1
        /\ Sound(Reconciled(runFile, trace), trace)
    BY ReconciledSound DEF IInv, TypeOK, CompletedIsFinal
  <2> QED BY <2>1 DEF Sound
<1> QED BY <1>1, Invariance, PTL

\* A run.json that says completed is backed by the trace.
THEOREM RecordedCompletion == Spec => []CompletedIsRecorded
<1>1. IInv => CompletedIsRecorded
  BY DEF IInv, Sound, CompletedIsRecorded
<1> QED BY <1>1, Invariance, PTL

\* Where the next trace is closed, it leaves no mutation uncovered.
LEMMA ClosedIsCovered ==
  ASSUME IInv', Ends(trace')
  PROVE  ~Uncovered(trace')
<1> SUFFICES ASSUME NEW b \in DOMAIN trace', IsMutationBoundary(trace'[b].input)
             PROVE  \E v \in DOMAIN trace' : v > b /\ IsPassing(trace'[v].input)
  BY DEF Uncovered
<1>1. PICK i \in DOMAIN trace' : trace'[i].input.type = "run_completed"
  BY DEF Ends
<1>2. trace' \in Seq(Event) /\ CompletedIsFinal' /\ CompletionIsFresh'
  BY DEF IInv, TypeOK
<1>3. i = Len(trace')
  BY <1>1, <1>2 DEF CompletedIsFinal
<1>4. b \in Nat /\ i \in Nat /\ b <= i
  BY <1>2, <1>3, LenProperties
<1>5. b # i
  BY <1>1 DEF IsMutationBoundary
<1>6. b < i
  BY <1>4, <1>5
<1>7. PICK v \in DOMAIN trace' : b < v /\ IsPassing(trace'[v].input)
  BY <1>1, <1>2, <1>6 DEF CompletionIsFresh, IsMutationBoundary, IsPassing
<1>8. v > b
  BY <1>2, <1>4, <1>7, LenProperties
<1> QED BY <1>7, <1>8

\* An append, whole or torn, is a step of the abstract gate.
LEMMA AppendRefines ==
  ASSUME IInv, IInv', NEW p \in Procs, pc[p] = "entered", job[p].op # "mark",
         Admitted(job[p], snap[p], trace),
         NEW es, es = Stamped(Batch(job[p], snap[p].status), snap[p]),
         NEW k \in 0..Len(es),
         trace' = trace \o SubSeq(es, 1, k)
  PROVE  [Gate!Next]_(Gate!gate)
<1>1. ~Ends(trace) /\ (Ends(trace') => job[p].op = "complete" /\ k = 1)
  BY AppendKeeps
<1>2. (Ends(trace))' = Ends(trace') /\ (Uncovered(trace))' = Uncovered(trace')
  BY DEF Ends, Uncovered, IsMutationBoundary, IsPassing
<1>3. /\ trace' \in Seq(Event) /\ Len(trace') \in Nat /\ DOMAIN trace' = 1..Len(trace')
      /\ trace \in Seq(Event) /\ Len(trace) \in Nat /\ DOMAIN trace = 1..Len(trace)
  BY LenProperties DEF IInv, TypeOK
<1>4. CASE ~Ends(trace')
  <2>1. Ends(trace') = FALSE /\ Ends(trace) = FALSE
    BY <1>1, <1>4 DEF Ends
  <2>2. Uncovered(trace') = TRUE \/ Uncovered(trace') = FALSE
    BY DEF Uncovered
  <2> QED BY <1>2, <2>1, <2>2 DEF Gate!Next, Gate!Mutate, Gate!Verify, Gate!gate
<1>5. CASE Ends(trace')
  <2>1. FreshEvidence(trace, job[p].repo)
    BY <1>1, <1>5 DEF Admitted
  <2>2. ~Uncovered(trace)
    <3> SUFFICES ASSUME NEW b \in DOMAIN trace, IsMutationBoundary(trace[b].input)
                 PROVE  \E v \in DOMAIN trace : v > b /\ IsPassing(trace[v].input)
      BY DEF Uncovered
    <3>1. PICK v \in DOMAIN trace :
            /\ IsPassing(trace[v].input)
            /\ \A l \in DOMAIN trace : l > v => ~IsMutationBoundary(trace[l].input)
      BY <2>1 DEF FreshEvidence
    <3>2. b # v
      BY <3>1 DEF IsMutationBoundary, IsPassing
    <3> QED BY <1>3, <3>1, <3>2
  <2>3. ~Uncovered(trace')
    BY <1>5, ClosedIsCovered
  <2>4. /\ Ends(trace) = FALSE /\ Ends(trace') = TRUE
        /\ Uncovered(trace) = FALSE /\ Uncovered(trace') = FALSE
    BY <1>1, <1>5, <2>2, <2>3 DEF Ends, Uncovered
  <2> QED BY <1>2, <2>4 DEF Gate!Next, Gate!Complete
<1> QED BY <1>4, <1>5

\* Every step of the run store is a step of the abstract gate or leaves the
\* gate alone.
LEMMA StepRefines == ASSUME IInv, IInv', [Next]_vars PROVE [Gate!Next]_(Gate!gate)
<1>1. CASE trace' = trace
  BY <1>1 DEF Gate!gate, Uncovered, Ends, IsMutationBoundary, IsPassing
<1>2. ASSUME NEW p \in Procs, AppendLine(p) PROVE [Gate!Next]_(Gate!gate)
  <2> DEFINE es == Stamped(Batch(job[p], snap[p].status), snap[p])
  <2>1. /\ pc[p] = "entered" /\ job[p].op # "mark" /\ Admitted(job[p], snap[p], trace)
        /\ trace' = trace \o es
    BY <1>2 DEF AppendLine
  <2>2. job[p] \in Jobs /\ snap[p] \in RunRecord /\ snap[p].status \in Statuses
    BY DEF IInv, TypeOK, RunRecord
  <2>3. es \in Seq(Event) /\ Len(es) \in 1..3
    BY <2>2, BatchType, StampedType
  <2> HIDE DEF es
  <2>4. Len(es) \in 0..Len(es) /\ trace' = trace \o SubSeq(es, 1, Len(es))
    BY <2>1, <2>3, SubSeqFull
  <2> QED BY <2>1, <2>4, AppendRefines DEF es
<1>3. ASSUME NEW p \in Procs, NEW k \in 0..3, TornAppend(p, k)
      PROVE  [Gate!Next]_(Gate!gate)
  BY <1>3, AppendRefines DEF TornAppend
<1>4. ASSUME Next, trace' # trace
      PROVE  \E p \in Procs : AppendLine(p) \/ \E k \in 0..3 : TornAppend(p, k)
  BY <1>4 DEF Next, Submit, Enter, ReadRun, Section, Refuse, WriteRun, WriteCompletedAt,
              MarkStatus, Crash
<1> QED BY <1>1, <1>2, <1>3, <1>4 DEF vars

\* The run store implements the abstract evidence gate.
THEOREM GateRefinement == Spec => ImplementsGate
<1>1. Init => Gate!Init
  <2> SUFFICES ASSUME Init PROVE Gate!Init
    OBVIOUS
  <2>1. trace = <<[seq |-> 1, input |-> Input("run_started", TRUE, "none", NoCmd, NoRepo)]>>
    BY DEF Init
  <2>2. DOMAIN trace = {1} /\ trace[1].input.type = "run_started"
    BY <2>1 DEF Input
  <2> QED BY <2>2 DEF Gate!Init, Uncovered, Ends, IsMutationBoundary
<1> QED BY <1>1, StepRefines, Invariance, PTL DEF Spec, ImplementsGate, Gate!Spec
=============================================================================
