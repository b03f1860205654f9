------------------------------ MODULE TurnProofs ------------------------------
(***************************************************************************)
(* Proofs about a turn's state, for any number of hooks, kills and events  *)
(* and any clock.  Where tools run one after the other, a Stop is allowed  *)
(* only after a sufficient check and blocked only without one (TurnGate).  *)
(* And two hooks never hold the lock of the state at the same time, as     *)
(* long as no lock without a token is recovered and no recoverer loses its *)
(* marker to another one (TurnLock).                                       *)
(***************************************************************************)
EXTENDS TurnGate, TurnLock, TLAPS, SequenceTheorems

\* The constants keep apart the three things a state file can be.
LEMMA States ==
  /\ NoState # Corrupt
  /\ \A s \in TurnState : s # NoState /\ s # Corrupt
BY FileAssumption

\* What readState returns is a turn state, or nothing.
LEMMA ReadType ==
  ASSUME NEW s \in TurnState \cup {NoState, Corrupt}, s # NoState
  PROVE  ReadState(s) \in TurnState /\ ReadState(s) # NoState
<1>1. Unknown \in TurnState
  BY BoundsAssumption DEF Unknown, TurnState, MutationKinds, Never
<1>2. CASE s = Corrupt
  BY <1>1, <1>2, States DEF ReadState
<1>3. CASE s \in TurnState
  BY <1>3, States DEF ReadState
<1> QED BY <1>2, <1>3

\* Domains and lengths of the log.
LEMMA LogDomain ==
  ASSUME log \in Seq(ToolEvent)
  PROVE  /\ Len(log) \in Nat /\ DOMAIN log = 1..Len(log)
         /\ \A i \in DOMAIN log : log[i] \in ToolEvent
BY LenProperties, ElementOfSeq

\* A turn starts without state and events.
LEMMA InitIInv == Init => IInv
<1> SUFFICES ASSUME Init PROVE IInv
  OBVIOUS
<1>1. log = <<>> /\ DOMAIN log = {} /\ log \in Seq(ToolEvent)
  BY DEF Init
<1> QED
  BY <1>1, BoundsAssumption
  DEF Init, IInv, TypeOK, LogInv, GateInv, StopNeedsCheck, BlockedForAReason, Waiting,
      LastMutation, IsMutation

-----------------------------------------------------------------------------
\* Every step keeps the type of the state.
LEMMA TypeKept == ASSUME TypeOK, [Next]_vars PROVE TypeOK'
<1> USE BoundsAssumption DEF TypeOK
<1>1. CASE UNCHANGED vars
  BY <1>1 DEF vars
<1>2. ASSUME NEW type \in {"mutation", "check"}, NEW what \in MutationKinds, Fire(type, what)
      PROVE  TypeOK'
  <2>1. PICK now \in 0..MaxClock :
          /\ clock' = now
          /\ log' = Append(log, [type |-> type, what |-> what, at |-> now, hook |-> "waiting"])
    BY <1>2 DEF Fire
  <2>2. [type |-> type, what |-> what, at |-> now, hook |-> "waiting"] \in ToolEvent
    BY DEF ToolEvent
  <2>3. log' \in Seq(ToolEvent)
    BY <2>1, <2>2, AppendProperties
  <2> QED BY <1>2, <2>1, <2>3 DEF Fire
<1>3. ASSUME NEW i \in DOMAIN log, Apply(i) PROVE TypeOK'
  <2>1. log[i] \in ToolEvent
    BY LogDomain
  <2>2. AfterMutation(state, log[i]) \in TurnState
    BY <2>1 DEF AfterMutation, TurnState, ToolEvent, Never
  <2>3. AfterCheck(state, log[i]) \in TurnState \cup {NoState, Corrupt}
    <3>1. CASE state = NoState
      BY <3>1, States DEF AfterCheck, ReadState
    <3>2. CASE state # NoState
      <4>1. ReadState(state) \in TurnState /\ ReadState(state) # NoState
        BY <3>2, ReadType
      <4>2. [ReadState(state) EXCEPT !.verifiedAt = log[i].at, !.blockedOnce = FALSE]
              \in TurnState
        BY <2>1, <4>1 DEF TurnState, ToolEvent
      <4> QED BY <4>1, <4>2 DEF AfterCheck
    <3> QED BY <3>1, <3>2
  <2>4. [log[i] EXCEPT !.hook = "applied"] \in ToolEvent
    BY <2>1 DEF ToolEvent
  <2>5. log' \in Seq(ToolEvent)
    BY <1>3, <2>4, ExceptSeq DEF Apply
  <2> QED BY <1>3, <2>2, <2>3, <2>5 DEF Apply
<1>4. ASSUME NEW i \in DOMAIN log, Lose(i) PROVE TypeOK'
  <2>1. log[i] \in ToolEvent
    BY LogDomain
  <2>2. [log[i] EXCEPT !.hook = "lost"] \in ToolEvent
    BY <2>1 DEF ToolEvent
  <2>3. log' \in Seq(ToolEvent)
    BY <1>4, <2>2, ExceptSeq DEF Lose
  <2> QED BY <1>4, <2>3 DEF Lose
<1>5. CASE Stop
  <2>1. CASE state = NoState
    BY <1>5, <2>1, States DEF Stop, ReadState
  <2>2. CASE state # NoState
    <3>1. ReadState(state) \in TurnState /\ ReadState(state) # NoState
      BY <2>2, ReadType
    <3>2. [ReadState(state) EXCEPT !.blockedOnce = TRUE] \in TurnState
      BY <3>1 DEF TurnState
    <3> QED BY <1>5, <3>1, <3>2 DEF Stop
  <2> QED BY <2>1, <2>2
<1>6. CASE StopUnavailable
  BY <1>6 DEF StopUnavailable
<1>7. CASE SessionEnd
  BY <1>7 DEF SessionEnd
<1>8. CASE Damage
  <2>1. [type |-> "mutation", what |-> "unknown", at |-> 0, hook |-> "applied"] \in ToolEvent
    BY DEF ToolEvent, MutationKinds
  <2>2. log' \in Seq(ToolEvent)
    BY <1>8, <2>1, AppendProperties DEF Damage
  <2> QED BY <1>8, <2>2 DEF Damage
<1> QED
  BY <1>1, <1>2, <1>3, <1>4, <1>5, <1>6, <1>7, <1>8 DEF Next, Scopes, MutationKinds

\* The state file, the log and the answer keep their types, whether or not
\* hooks overlap (TurnState of state.ts).
THEOREM TypeCorrect == Spec => []TypeOK
<1>1. Init => TypeOK
  BY InitIInv DEF IInv
<1>2. TypeOK /\ [Next]_vars => TypeOK'
  BY TypeKept
<1> QED BY <1>1, <1>2, PTL DEF Spec

-----------------------------------------------------------------------------
\* Appending an event leaves the others as they are.
LEMMA AppendLog ==
  ASSUME log \in Seq(ToolEvent), NEW e \in ToolEvent, log' = Append(log, e)
  PROVE  /\ Len(log) \in Nat /\ DOMAIN log = 1..Len(log)
         /\ Len(log') = Len(log) + 1 /\ DOMAIN log' = 1..(Len(log) + 1)
         /\ \A i \in DOMAIN log : log'[i] = log[i]
         /\ log'[Len(log) + 1] = e
BY LogDomain, AppendProperties

\* What becomes of the hook of one event changes nothing else in the log.
LEMMA MarkLog ==
  ASSUME log \in Seq(ToolEvent), NEW k \in DOMAIN log, NEW h,
         log' = [log EXCEPT ![k].hook = h]
  PROVE  /\ DOMAIN log' = DOMAIN log
         /\ \A i \in DOMAIN log : i # k => log'[i] = log[i]
         /\ log'[k] = [log[k] EXCEPT !.hook = h]
         /\ log'[k].type = log[k].type /\ log'[k].what = log[k].what
         /\ log'[k].at = log[k].at /\ log'[k].hook = h
<1>1. log[k] \in ToolEvent
  BY LogDomain
<1>2. log'[k] = [log[k] EXCEPT !.hook = h]
  OBVIOUS
<1> QED BY <1>1, <1>2 DEF ToolEvent

\* Two events are not both the last reported mutation.
LEMMA OneLastReported ==
  ASSUME log \in Seq(ToolEvent), NEW i, NEW j, LastReported(i), LastReported(j)
  PROVE  i = j
BY LogDomain DEF LastReported, IsMutation

\* A state that stands for a mutation is verified when the mutation has had
\* its check: the comparison of the two times never decides.
LEMMA VerifiedWhenChecked ==
  ASSUME NEW s \in TurnState, NEW i, StandsFor(s, i)
  PROVE  Verified(s) <=> CheckedAfter(i)
BY BoundsAssumption DEF StandsFor, Verified, TurnState, Never

\* When no hook is waiting, the last mutation is the last reported one.
LEMMA AllReported ==
  ASSUME log \in Seq(ToolEvent), LogInv, Waiting = {}, NEW i
  PROVE  LastMutation(i) <=> LastReported(i)
<1>1. \A j \in DOMAIN log : IsMutation(j) => log[j].hook = "applied"
  BY LogDomain DEF LogInv, Waiting, ToolEvent
<1> QED BY <1>1 DEF LastMutation, LastReported, IsMutation

\* The part of the invariant that a step keeps besides the types.
Rest == LogInv /\ GateInv /\ StopNeedsCheck /\ BlockedForAReason

-----------------------------------------------------------------------------
\* A tool has run: its event is waiting, and the reported ones are the same.
LEMMA FireKept ==
  ASSUME ~Overlap, IInv, NEW type \in {"mutation", "check"}, NEW what \in MutationKinds,
         Fire(type, what)
  PROVE  Rest'
<1> DEFINE n == Len(log) + 1
<1>1. PICK now \in 0..MaxClock :
        /\ clock <= now /\ clock' = now
        /\ log' = Append(log, [type |-> type, what |-> what, at |-> now, hook |-> "waiting"])
  BY BoundsAssumption DEF Fire, IInv, TypeOK
<1> DEFINE e == [type |-> type, what |-> what, at |-> now, hook |-> "waiting"]
<1>2. e \in ToolEvent
  BY DEF ToolEvent
<1>3. /\ Len(log) \in Nat /\ DOMAIN log = 1..Len(log)
      /\ Len(log') = n /\ DOMAIN log' = 1..n
      /\ \A i \in DOMAIN log : log'[i] = log[i]
      /\ log'[n] = e
  BY <1>1, <1>2, AppendLog DEF IInv, TypeOK
<1>4. n \notin DOMAIN log /\ DOMAIN log' = DOMAIN log \cup {n}
  BY <1>3
<1>5. Waiting = {} /\ Waiting' = {n} /\ state' = state /\ answer' = "none"
  BY <1>3, <1>4 DEF Fire, Waiting
<1>6. \A i : LastReported(i)' <=> LastReported(i)
  BY <1>3, <1>4 DEF LastReported, IsMutation
<1>7. \A i \in DOMAIN log : CheckedAfter(i)' <=> CheckedAfter(i)
  BY <1>3, <1>4 DEF CheckedAfter
<1>8. LogInv'
  <2>1. \A i \in DOMAIN log : log[i].at <= now
    BY <1>1, LogDomain, BoundsAssumption DEF IInv, TypeOK, LogInv, ToolEvent
  <2> QED BY <1>1, <1>3, <1>4, <1>5, <2>1 DEF IInv, LogInv, IsMutation
<1>9. GateInv'
  <2>1. CASE state = NoState
    BY <1>5, <1>6, <1>7, <2>1 DEF IInv, GateInv, LastReported, IsMutation
  <2>2. CASE state # NoState
    <3>1. PICK i \in DOMAIN log : LastReported(i) /\ StandsFor(ReadState(state), i)
      BY <2>2 DEF IInv, GateInv
    <3>2. ReadState(state) \in TurnState /\ ReadState(state)' = ReadState(state)
      BY <1>5, <2>2, ReadType DEF IInv, TypeOK, ReadState
    <3>3. ReadState(state).mutatedAt <= now
      BY <1>1, <3>1, <3>2, BoundsAssumption DEF StandsFor, TurnState, IInv, TypeOK
    <3>4. StandsFor(ReadState(state), i)'
      BY <1>1, <1>3, <1>5, <1>7, <3>1, <3>2, <3>3 DEF StandsFor
    <3> QED BY <1>4, <1>5, <1>6, <2>2, <3>1, <3>4 DEF GateInv
  <2> QED BY <2>1, <2>2
<1> QED BY <1>5, <1>8, <1>9 DEF Rest, StopNeedsCheck, BlockedForAReason

\* A hook reports a mutation: the state stands for it, unverified.
LEMMA ApplyMutationKept ==
  ASSUME IInv, NEW k \in DOMAIN log, Apply(k), log[k].type = "mutation"
  PROVE  Rest'
<1>1. /\ DOMAIN log' = DOMAIN log
      /\ \A i \in DOMAIN log : i # k => log'[i] = log[i]
      /\ log'[k].type = log[k].type /\ log'[k].what = log[k].what
      /\ log'[k].at = log[k].at /\ log'[k].hook = "applied"
  BY MarkLog DEF Apply, IInv, TypeOK
<1>2. Len(log) \in Nat /\ DOMAIN log = 1..Len(log) /\ log[k] \in ToolEvent
  BY LogDomain DEF IInv, TypeOK
<1>3. k = Len(log) /\ Waiting = {k} /\ Waiting' = {} /\ answer = "none"
  BY <1>1 DEF Apply, IInv, LogInv, Waiting
<1>4. state' = AfterMutation(state, log[k]) /\ answer' = "none" /\ clock' = clock
  BY <1>3 DEF Apply
<1>5. state' \in TurnState /\ state'.mutationKind = log[k].what
      /\ state'.mutatedAt = log[k].at /\ state'.verifiedAt = Never
  BY <1>2, <1>4 DEF AfterMutation, TurnState, ToolEvent, Never
<1>6. state' # NoState /\ ReadState(state)' = state'
  BY <1>5, States DEF ReadState
<1>7. LastReported(k)' /\ ~CheckedAfter(k)'
  BY <1>1, <1>2, <1>3 DEF LastReported, IsMutation, CheckedAfter
<1>8. StandsFor(ReadState(state), k)'
  BY <1>1, <1>3, <1>4, <1>5, <1>6, <1>7 DEF StandsFor, IInv, LogInv
<1>9. LogInv'
  BY <1>1, <1>3, <1>4 DEF IInv, LogInv, IsMutation
<1> QED
  BY <1>1, <1>4, <1>6, <1>7, <1>8, <1>9
  DEF Rest, GateInv, StopNeedsCheck, BlockedForAReason

\* A hook reports a check: the state is verified when the scope is enough.
LEMMA ApplyCheckKept ==
  ASSUME IInv, NEW k \in DOMAIN log, Apply(k), log[k].type = "check"
  PROVE  Rest'
<1>1. /\ DOMAIN log' = DOMAIN log
      /\ \A i \in DOMAIN log : i # k => log'[i] = log[i]
      /\ log'[k].type = log[k].type /\ log'[k].what = log[k].what
      /\ log'[k].at = log[k].at /\ log'[k].hook = "applied"
  BY MarkLog DEF Apply, IInv, TypeOK
<1>2. Len(log) \in Nat /\ DOMAIN log = 1..Len(log) /\ log[k] \in ToolEvent
  BY LogDomain DEF IInv, TypeOK
<1>3. k = Len(log) /\ Waiting = {k} /\ Waiting' = {} /\ answer = "none"
      /\ log[k].hook = "waiting"
  BY <1>1 DEF Apply, IInv, LogInv, Waiting
<1>4. state' = AfterCheck(state, log[k]) /\ answer' = "none" /\ clock' = clock
  BY <1>3 DEF Apply
<1>5. \A i : LastReported(i)' <=> LastReported(i)
  BY <1>1 DEF LastReported, IsMutation
<1>6. \A i \in DOMAIN log : LastReported(i) =>
        (CheckedAfter(i)' <=> CheckedAfter(i) \/ ScopeCovers(log[i].what, log[k].what))
  <2> SUFFICES ASSUME NEW i \in DOMAIN log, LastReported(i)
               PROVE  CheckedAfter(i)' <=>
                        CheckedAfter(i) \/ ScopeCovers(log[i].what, log[k].what)
    OBVIOUS
  <2>1. i < k /\ log'[i] = log[i]
    BY <1>1, <1>2, <1>3 DEF LastReported
  <2> QED BY <1>1, <1>3, <2>1 DEF CheckedAfter
<1>7. LogInv'
  BY <1>1, <1>3, <1>4 DEF IInv, LogInv, IsMutation
<1>8. GateInv'
  <2>1. CASE state = NoState
    <3>1. state' = NoState
      BY <1>4, <2>1, States DEF AfterCheck, ReadState
    <3> QED BY <1>5, <1>6, <2>1, <3>1 DEF IInv, GateInv, LastReported, IsMutation
  <2>2. CASE state # NoState
    <3>1. PICK i \in DOMAIN log : LastReported(i) /\ StandsFor(ReadState(state), i)
      BY <2>2 DEF IInv, GateInv
    <3> DEFINE s == ReadState(state)
    <3>2. s \in TurnState /\ s # NoState
      BY <2>2, ReadType DEF IInv, TypeOK
    <3>3. log'[i] = log[i] /\ s.mutationKind = log[i].what /\ s.mutatedAt <= log[k].at
      BY <1>1, <1>3, <3>1 DEF StandsFor, LastReported
    <3>4. CASE ScopeCovers(s.mutationKind, log[k].what)
      <4>1. state' = [s EXCEPT !.verifiedAt = log[k].at, !.blockedOnce = FALSE]
        BY <1>4, <3>2, <3>4 DEF AfterCheck
      <4>2. state' \in TurnState /\ state'.mutationKind = s.mutationKind
            /\ state'.mutatedAt = s.mutatedAt /\ state'.verifiedAt = log[k].at
        BY <1>2, <3>2, <4>1 DEF TurnState, ToolEvent
      <4>3. state' # NoState /\ ReadState(state)' = state'
        BY <4>2, States DEF ReadState
      <4>4. CheckedAfter(i)' /\ log[k].at # Never
        BY <1>2, <1>6, <3>1, <3>3, <3>4 DEF ToolEvent, Never
      <4>5. StandsFor(ReadState(state), i)'
        BY <1>3, <1>4, <3>1, <3>3, <4>2, <4>3, <4>4 DEF StandsFor
      <4> QED BY <1>1, <1>5, <3>1, <4>3, <4>5 DEF GateInv
    <3>5. CASE ~ScopeCovers(s.mutationKind, log[k].what)
      <4>1. state' = state /\ ReadState(state)' = s
        BY <1>4, <3>2, <3>5 DEF AfterCheck, ReadState
      <4>2. CheckedAfter(i)' <=> CheckedAfter(i)
        BY <1>6, <3>1, <3>3, <3>5
      <4>3. StandsFor(ReadState(state), i)'
        BY <1>3, <1>4, <3>1, <3>3, <4>1, <4>2 DEF StandsFor
      <4> QED BY <1>1, <1>5, <2>2, <3>1, <4>1, <4>3 DEF GateInv
    <3> QED BY <3>4, <3>5
  <2> QED BY <2>1, <2>2
<1> QED BY <1>4, <1>7, <1>8 DEF Rest, StopNeedsCheck, BlockedForAReason

\* The hook of a check is lost: nothing has been reported.
LEMMA LoseKept == ASSUME IInv, NEW k \in DOMAIN log, Lose(k) PROVE Rest'
<1>1. /\ DOMAIN log' = DOMAIN log
      /\ \A i \in DOMAIN log : i # k => log'[i] = log[i]
      /\ log'[k].type = log[k].type /\ log'[k].what = log[k].what
      /\ log'[k].at = log[k].at /\ log'[k].hook = "lost"
  BY MarkLog DEF Lose, IInv, TypeOK
<1>2. Len(log) \in Nat /\ DOMAIN log = 1..Len(log)
  BY LogDomain DEF IInv, TypeOK
<1>3. k = Len(log) /\ Waiting' = {} /\ answer = "none" /\ log[k].hook = "waiting"
      /\ log[k].type = "check" /\ state' = state /\ clock' = clock /\ answer' = "none"
  BY <1>1 DEF Lose, IInv, LogInv, Waiting
<1>4. \A i : LastReported(i)' <=> LastReported(i)
  BY <1>1, <1>3 DEF LastReported, IsMutation
<1>5. \A i \in DOMAIN log : LastReported(i) => (CheckedAfter(i)' <=> CheckedAfter(i))
  <2> SUFFICES ASSUME NEW i \in DOMAIN log, LastReported(i)
               PROVE  CheckedAfter(i)' <=> CheckedAfter(i)
    OBVIOUS
  <2>1. log'[i] = log[i]
    BY <1>1, <1>3 DEF LastReported
  <2> QED BY <1>1, <1>3, <2>1 DEF CheckedAfter
<1>6. LogInv'
  BY <1>1, <1>3 DEF IInv, LogInv, IsMutation
<1>7. GateInv'
  <2>1. CASE state = NoState
    BY <1>3, <1>4, <1>5, <2>1 DEF IInv, GateInv, LastReported, IsMutation
  <2>2. CASE state # NoState
    <3>1. PICK i \in DOMAIN log : LastReported(i) /\ StandsFor(ReadState(state), i)
      BY <2>2 DEF IInv, GateInv
    <3>2. log'[i] = log[i] /\ ReadState(state)' = ReadState(state)
      BY <1>1, <1>3, <3>1 DEF LastReported, ReadState
    <3>3. StandsFor(ReadState(state), i)'
      BY <1>3, <1>5, <3>1, <3>2 DEF StandsFor
    <3> QED BY <1>1, <1>3, <1>4, <2>2, <3>1, <3>3 DEF GateInv
  <2> QED BY <2>1, <2>2
<1> QED BY <1>3, <1>6, <1>7 DEF Rest, StopNeedsCheck, BlockedForAReason

\* A Stop allows or blocks by whether the last mutation has had its check.
LEMMA StopKept == ASSUME IInv, Stop PROVE Rest'
<1>1. Waiting = {} /\ log' = log /\ clock' = clock
  BY DEF Stop
<1>2. \A i : LastMutation(i) <=> LastReported(i)
  BY <1>1, AllReported DEF IInv, TypeOK
<1>3. LogInv'
  BY <1>1 DEF IInv, LogInv, Waiting, IsMutation
<1>4. \A i : /\ (LastReported(i)' <=> LastReported(i))
             /\ (LastMutation(i)' <=> LastMutation(i))
             /\ (CheckedAfter(i)' <=> CheckedAfter(i))
  BY <1>1 DEF LastReported, LastMutation, CheckedAfter, IsMutation
<1>5. CASE state = NoState
  <2>1. state' = NoState /\ answer' = "allow"
    BY <1>5, States DEF Stop, ReadState
  <2> QED
    BY <1>1, <1>2, <1>3, <1>4, <1>5, <2>1
    DEF IInv, Rest, GateInv, StopNeedsCheck, BlockedForAReason
<1>6. CASE state # NoState
  <2>1. PICK i \in DOMAIN log : LastReported(i) /\ StandsFor(ReadState(state), i)
    BY <1>6 DEF IInv, GateInv
  <2> DEFINE s == ReadState(state)
  <2>2. s \in TurnState /\ s # NoState
    BY <1>6, ReadType DEF IInv, TypeOK
  <2>3. Verified(s) <=> CheckedAfter(i)
    BY <2>1, <2>2, VerifiedWhenChecked
  <2>4. \A j : LastReported(j) => j = i
    BY <2>1, OneLastReported DEF IInv, TypeOK
  <2>5. CASE Verified(s)
    <3>1. state' = NoState /\ answer' = "allow"
      BY <2>2, <2>5 DEF Stop
    <3> QED
      BY <1>1, <1>2, <1>3, <1>4, <2>3, <2>4, <2>5, <3>1
      DEF Rest, GateInv, StopNeedsCheck, BlockedForAReason
  <2>6. CASE ~Verified(s)
    <3>1. /\ answer' = "pending"
          /\ state' = state \/ state' = [s EXCEPT !.blockedOnce = TRUE]
      BY <2>2, <2>6 DEF Stop
    <3>2. /\ state' # NoState /\ ReadState(state)' \in {s, [s EXCEPT !.blockedOnce = TRUE]}
      <4>1. [s EXCEPT !.blockedOnce = TRUE] \in TurnState
        BY <2>2 DEF TurnState
      <4> QED BY <1>6, <3>1, <4>1, States DEF ReadState
    <3>3. /\ ReadState(state)'.mutationKind = s.mutationKind
          /\ ReadState(state)'.mutatedAt = s.mutatedAt
          /\ ReadState(state)'.verifiedAt = s.verifiedAt
      BY <2>2, <3>2 DEF TurnState
    <3>4. StandsFor(ReadState(state), i)'
      BY <1>1, <1>4, <2>1, <3>3 DEF StandsFor, Waiting
    <3> QED
      BY <1>1, <1>2, <1>3, <1>4, <2>1, <2>3, <2>6, <3>1, <3>2, <3>4
      DEF Rest, GateInv, StopNeedsCheck, BlockedForAReason
  <2> QED BY <2>5, <2>6
<1> QED BY <1>5, <1>6

\* Something damages the file: it stands for an unknown mutation.
LEMMA DamageKept == ASSUME IInv, Damage PROVE Rest'
<1> DEFINE e == [type |-> "mutation", what |-> "unknown", at |-> 0, hook |-> "applied"]
<1>1. e \in ToolEvent
  BY BoundsAssumption DEF ToolEvent, MutationKinds
<1>0. PICK n : n = Len(log) + 1
  OBVIOUS
<1>2. /\ Len(log) \in Nat /\ DOMAIN log = 1..Len(log)
      /\ Len(log') = n /\ DOMAIN log' = 1..n
      /\ \A i \in DOMAIN log : log'[i] = log[i]
      /\ log'[n] = e
  BY <1>0, <1>1, AppendLog DEF Damage, IInv, TypeOK
<1>3. n \notin DOMAIN log /\ DOMAIN log' = DOMAIN log \cup {n} /\ n \in DOMAIN log'
  BY <1>0, <1>2
<1>4. /\ Waiting = {} /\ Waiting' = {} /\ state' = Corrupt /\ answer' = "none"
      /\ clock' = clock /\ 0 <= clock
  BY <1>2, <1>3, BoundsAssumption DEF Damage, Waiting, IInv, TypeOK
<1>5. LastReported(n)' /\ ~CheckedAfter(n)'
  BY <1>0, <1>2, <1>3 DEF LastReported, IsMutation, CheckedAfter
<1>6. StandsFor(ReadState(state), n)'
  BY <1>2, <1>4, <1>5 DEF StandsFor, ReadState, Unknown
<1>7. LogInv'
  <2>1. \A i \in DOMAIN log : log'[i].at <= clock /\ (IsMutation(i)' => log'[i].hook # "lost")
    BY <1>2 DEF IInv, LogInv, IsMutation
  <2>2. log'[n].at <= clock /\ log'[n].hook # "lost"
    BY <1>2, <1>4
  <2> QED BY <1>3, <1>4, <2>1, <2>2 DEF LogInv, IsMutation
<1> QED
  BY <1>3, <1>4, <1>5, <1>6, <1>7, States
  DEF Rest, GateInv, StopNeedsCheck, BlockedForAReason

-----------------------------------------------------------------------------
\* Every step keeps the invariant where tools run one after the other.
LEMMA NextIInv == ASSUME ~Overlap, IInv, [Next]_vars PROVE IInv'
<1>1. TypeOK'
  BY TypeKept DEF IInv
<1>2. Rest'
  <2>1. CASE UNCHANGED vars
    BY <2>1
    DEF vars, IInv, Rest, LogInv, GateInv, StopNeedsCheck, BlockedForAReason, LastReported,
        StandsFor, LastMutation, CheckedAfter, IsMutation, Waiting
  <2>2. ASSUME NEW type \in {"mutation", "check"}, NEW what \in MutationKinds,
               Fire(type, what)
        PROVE  Rest'
    BY <2>2, FireKept
  <2>3. ASSUME NEW k \in DOMAIN log, Apply(k) PROVE Rest'
    <3>1. log[k].type = "mutation" \/ log[k].type = "check"
      BY LogDomain DEF IInv, TypeOK, ToolEvent
    <3> QED BY <2>3, <3>1, ApplyMutationKept, ApplyCheckKept
  <2>4. ASSUME NEW k \in DOMAIN log, Lose(k) PROVE Rest'
    BY <2>4, LoseKept
  <2>5. CASE Stop
    BY <2>5, StopKept
  <2>6. CASE StopUnavailable
    BY <2>6
    DEF StopUnavailable, IInv, Rest, LogInv, GateInv, StopNeedsCheck, BlockedForAReason,
        LastReported, StandsFor, CheckedAfter, IsMutation, Waiting
  <2>7. CASE SessionEnd
    <3>1. state' = NoState /\ DOMAIN log' = {} /\ answer' = "none"
      BY <2>7 DEF SessionEnd
    <3> QED
      BY <3>1
      DEF Rest, LogInv, GateInv, StopNeedsCheck, BlockedForAReason, LastReported,
          IsMutation, Waiting
  <2>8. CASE Damage
    BY <2>8, DamageKept
  <2> QED
    BY <2>1, <2>2, <2>3, <2>4, <2>5, <2>6, <2>7, <2>8 DEF Next, Scopes, MutationKinds
<1> QED BY <1>1, <1>2 DEF IInv, Rest

\* The state file agrees with what the hooks have reported, in every turn.
THEOREM Invariance == ASSUME ~Overlap PROVE Spec => []IInv
<1>1. Init => IInv
  BY InitIInv
<1>2. IInv /\ [Next]_vars => IInv'
  BY NextIInv
<1> QED BY <1>1, <1>2, PTL DEF Spec

\* A Stop that allows follows a check of sufficient scope after the last
\* mutation of the turn (consumeEvidenceGate).
THEOREM StopIsEarned == ASSUME ~Overlap PROVE Spec => []StopNeedsCheck
<1>1. IInv => StopNeedsCheck
  BY DEF IInv
<1> QED BY <1>1, Invariance, PTL

\* A Stop that blocks for pending evidence has a mutation without a check.
THEOREM BlockIsEarned == ASSUME ~Overlap PROVE Spec => []BlockedForAReason
<1>1. IInv => BlockedForAReason
  BY DEF IInv
<1> QED BY <1>1, Invariance, PTL

-----------------------------------------------------------------------------
\* The invariant of the lock.

\* A killed hook does nothing more.
KilledInv == \A h \in Hooks : pc[h] # "idle" => h \notin gone

\* A recoverer that was not given away by a missing token knows the killed owner
\* whose lock it is to remove.
SeenInv ==
  risks = {} => \A h \in Hooks :
    pc[h] \in {"readMarker", "confirm", "rmMarker", "mark", "fillMark", "recheck"} => seen[h] \in gone

\* The marker is there, and its own, from its creation to its removal.
MarkerInv ==
  risks = {} => \A h \in Hooks :
    pc[h] \in {"fillMark", "recheck", "rmOwner", "unmark", "unmarkDone"} =>
      dir # NoDir /\ dir.marker # None /\ dir.marker.by = h

\* The hook has made the directory, or has found it to be a killed hook's, and
\* has not removed it yet.
Between(h) == pc[h] \in {"open", "rmOwnDir", "unmarkDone", "rmdir"}
Owning(h) == pc[h] \in {"fill", "critical", "rmOwn"}
Disposes(h) == Between(h) \/ Owning(h) \/ pc[h] = "rmOwner"

\* One hook at a time disposes of the directory; an owner's file is there while
\* it owns it, or while it is about to remove a killed hook's; and nobody has to
\* undo what it has not made.
DisposeInv ==
  risks = {} =>
    /\ \A h, k \in Hooks : Disposes(h) /\ Disposes(k) => h = k
    /\ \A h \in Hooks :
         /\ pc[h] \notin {"undo", "undoDir"}
         /\ Disposes(h) => dir # NoDir
         /\ Between(h) => dir.owner = None
         /\ Owning(h) => dir.owner # None /\ dir.owner.by = h
         /\ pc[h] = "rmOwner" => dir.owner # None /\ dir.owner.by \in gone

TurnLockInv == TurnLockTypeOK /\ KilledInv /\ SeenInv /\ MarkerInv /\ DisposeInv

-----------------------------------------------------------------------------
\* The types of the lock.

\* The files and directories that hooks make are of their types.
LEMMA MadeTypes ==
  ASSUME NEW h \in Hooks
  PROVE  /\ [by |-> h, whole |-> FALSE, old |-> FALSE] \in LockFile
         /\ \A owner, marker \in LockFile \cup {None} :
              Touched(h, owner, marker) \in LockDir /\ Touched(h, owner, marker) # NoDir
<1>1. [by |-> h, whole |-> FALSE, old |-> FALSE] \in LockFile
  BY DEF LockFile
<1>2. ASSUME NEW owner \in LockFile \cup {None}, NEW marker \in LockFile \cup {None}
      PROVE  Touched(h, owner, marker) \in LockDir
  BY <1>2 DEF Touched, LockDir
<1> QED BY <1>1, <1>2, LockFileAssumption

\* A directory holds two files, or lacks them.
LEMMA DirParts ==
  ASSUME NEW d \in LockDir
  PROVE  /\ d.owner \in LockFile \cup {None} /\ d.marker \in LockFile \cup {None} /\ d # NoDir
         /\ d.owner # None => d.owner.by \in Hooks
         /\ d.marker # None => d.marker.by \in Hooks
BY LockFileAssumption DEF LockDir, LockFile

\* The tokens that are read are those of hooks.
LEMMA TokenTypes ==
  ASSUME dir \in LockDir \cup {NoDir}
  PROVE  OwnerToken \in Hooks \cup {None} /\ MarkerToken \in Hooks \cup {None}
<1>1. CASE dir = NoDir
  BY <1>1 DEF OwnerToken, MarkerToken
<1>2. CASE dir # NoDir
  BY <1>2, DirParts DEF OwnerToken, MarkerToken
<1> QED BY <1>1, <1>2

\* Time leaves the files where they are.
LEMMA AgeKeepsFiles ==
  ASSUME dir \in LockDir \cup {NoDir}, Age
  PROVE  /\ dir \in LockDir /\ dir' \in LockDir
         /\ dir'.owner = None <=> dir.owner = None
         /\ dir'.marker = None <=> dir.marker = None
         /\ dir.owner # None => dir'.owner.by = dir.owner.by
         /\ dir.marker # None => dir'.marker.by = dir.marker.by
<1>1. dir \in LockDir
  BY DEF Age
<1>2. \A f \in LockFile : OldFile(f) \in LockFile /\ OldFile(f).by = f.by
  BY DEF OldFile, LockFile
<1>3. OldFile(None) = None
  BY DEF OldFile
<1>4. \A f \in LockFile \cup {None} : OldFile(f) \in LockFile \cup {None} /\ (OldFile(f) = None <=> f = None)
  BY <1>2, <1>3, LockFileAssumption
<1> DEFINE aged == [dir EXCEPT !.owner = OldFile(dir.owner), !.marker = OldFile(dir.marker),
                               !.old = dir.old \/ pc[dir.last] \in {"idle", "mkdir", "lstat", "readOwner"}]
<1>5. dir' = aged
  BY DEF Age
<1>6. aged.owner = OldFile(dir.owner) /\ aged.marker = OldFile(dir.marker)
  BY <1>1 DEF LockDir
<1>7. aged \in LockDir
  BY <1>1, <1>4, DirParts DEF LockDir
<1> HIDE DEF aged
<1> QED BY <1>1, <1>2, <1>4, <1>5, <1>6, <1>7, DirParts

\* Every step keeps the types.
LEMMA TurnLockTypesKept ==
  ASSUME TurnLockTypeOK, [TurnLockNext]_turnLockVars
  PROVE  TurnLockTypeOK'
<1> USE DEF TurnLockTypeOK, Goto, Retry, Steps
<1>1. CASE UNCHANGED turnLockVars
  BY <1>1 DEF turnLockVars
<1>2. ASSUME NEW h \in Hooks, Begin(h) PROVE TurnLockTypeOK'
  BY <1>2 DEF Begin
<1>3. ASSUME NEW h \in Hooks, MakeDir(h) PROVE TurnLockTypeOK'
  <2>1. CASE dir = NoDir
    <3>1. Touched(h, None, None) \in LockDir
      BY MadeTypes
    <3> QED BY <1>3, <2>1, <3>1 DEF MakeDir
  <2>2. CASE dir # NoDir
    BY <1>3, <2>2 DEF MakeDir
  <2> QED BY <2>1, <2>2
<1>4. ASSUME NEW h \in Hooks, OpenOwner(h) PROVE TurnLockTypeOK'
  <2>1. CASE dir # NoDir /\ dir.owner = None
    BY <1>4, <2>1, MadeTypes, DirParts DEF OpenOwner
  <2>2. CASE ~(dir # NoDir /\ dir.owner = None)
    BY <1>4, <2>2 DEF OpenOwner
  <2> QED BY <2>1, <2>2
<1>5. ASSUME NEW h \in Hooks, FillOwner(h) PROVE TurnLockTypeOK'
  <2>1. CASE dir # NoDir /\ IsMine(dir.owner, h)
    <3>1. dir \in LockDir /\ dir.owner \in LockFile
      BY <2>1, DirParts DEF IsMine
    <3>2. [dir.owner EXCEPT !.whole = TRUE] \in LockFile
      BY <3>1 DEF LockFile
    <3>3. dir' = [dir EXCEPT !.owner = [dir.owner EXCEPT !.whole = TRUE]]
      BY <1>5, <2>1 DEF FillOwner
    <3>4. dir' \in LockDir
      BY <3>1, <3>2, <3>3 DEF LockDir
    <3> QED BY <1>5, <3>4 DEF FillOwner
  <2>2. CASE ~(dir # NoDir /\ IsMine(dir.owner, h))
    BY <1>5, <2>2 DEF FillOwner
  <2> QED BY <2>1, <2>2
<1>6. ASSUME NEW h \in Hooks, Undo(h) PROVE TurnLockTypeOK'
  BY <1>6, MadeTypes, DirParts DEF Undo
<1>7. ASSUME NEW h \in Hooks, UndoDir(h) PROVE TurnLockTypeOK'
  BY <1>7 DEF UndoDir
<1>8. ASSUME NEW h \in Hooks, Lstat(h) PROVE TurnLockTypeOK'
  <2>1. dir # NoDir => dir.old \in BOOLEAN
    BY DEF LockDir
  <2> QED BY <1>8, <2>1 DEF Lstat
<1>9. ASSUME NEW h \in Hooks, ReadOwner(h) PROVE TurnLockTypeOK'
  BY ZenonT(30), <1>9, TokenTypes DEF ReadOwner, Risks
<1>10. ASSUME NEW h \in Hooks, ReadMarker(h) PROVE TurnLockTypeOK'
  BY <1>10, TokenTypes DEF ReadMarker
<1>11. ASSUME NEW h \in Hooks, RemoveMarker(h) PROVE TurnLockTypeOK'
  BY <1>11, MadeTypes, DirParts DEF RemoveMarker, Risks
<1>12. ASSUME NEW h \in Hooks, Mark(h) PROVE TurnLockTypeOK'
  <2>1. CASE dir # NoDir /\ dir.marker = None
    BY <1>12, <2>1, MadeTypes, DirParts DEF Mark
  <2>2. CASE ~(dir # NoDir /\ dir.marker = None)
    BY <1>12, <2>2 DEF Mark
  <2> QED BY <2>1, <2>2
<1>13. ASSUME NEW h \in Hooks, FillMark(h) PROVE TurnLockTypeOK'
  <2>1. CASE dir # NoDir /\ IsMine(dir.marker, h)
    <3>1. dir \in LockDir /\ dir.marker \in LockFile
      BY <2>1, DirParts DEF IsMine
    <3>2. [dir.marker EXCEPT !.whole = TRUE] \in LockFile
      BY <3>1 DEF LockFile
    <3>3. dir' = [dir EXCEPT !.marker = [dir.marker EXCEPT !.whole = TRUE]]
      BY <1>13, <2>1 DEF FillMark
    <3>4. dir' \in LockDir
      BY <3>1, <3>2, <3>3 DEF LockDir
    <3> QED BY <1>13, <3>4 DEF FillMark
  <2>2. CASE ~(dir # NoDir /\ IsMine(dir.marker, h))
    BY <1>13, <2>2 DEF FillMark
  <2> QED BY <2>1, <2>2
<1>14. ASSUME NEW h \in Hooks, Recheck(h) PROVE TurnLockTypeOK'
  BY <1>14 DEF Recheck
<1>15. ASSUME NEW h \in Hooks, RemoveOwner(h) PROVE TurnLockTypeOK'
  BY <1>15, MadeTypes, DirParts DEF RemoveOwner
<1>16. ASSUME NEW h \in Hooks, Unmark(h) PROVE TurnLockTypeOK'
  <2>1. MarkerToken = h => dir # NoDir
    BY NoneAssumption DEF MarkerToken
  <2>2. dir' \in LockDir \cup {NoDir}
    BY <1>16, <2>1, MadeTypes, DirParts DEF Unmark
  <2> QED BY <1>16, <2>2 DEF Unmark
<1>17. ASSUME NEW h \in Hooks, RemoveDir(h) PROVE TurnLockTypeOK'
  BY <1>17 DEF RemoveDir
<1>18. ASSUME NEW h \in Hooks, Release(h) PROVE TurnLockTypeOK'
  <2>1. CASE pc[h] = "critical"
    BY <1>18, <2>1 DEF Release
  <2>2. CASE pc[h] = "rmOwn"
    <3>1. dir # NoDir => Touched(h, None, dir.marker) \in LockDir
      BY MadeTypes, DirParts
    <3>2. dir' \in LockDir \cup {NoDir}
      BY <1>18, <2>2, <3>1 DEF Release
    <3> QED BY <1>18, <2>2, <3>2 DEF Release
  <2>3. CASE pc[h] = "rmOwnDir"
    BY <1>18, <2>3 DEF Release
  <2> QED BY <1>18, <2>1, <2>2, <2>3 DEF Release
<1>19. ASSUME NEW h \in Hooks, Kill(h) PROVE TurnLockTypeOK'
  BY <1>19 DEF Kill
<1>20. ASSUME Age PROVE TurnLockTypeOK'
  BY <1>20, AgeKeepsFiles DEF Age
<1> QED BY <1>1, <1>2, <1>3, <1>4, <1>5, <1>6, <1>7, <1>8, <1>9, <1>10, <1>11, <1>12, <1>13, <1>14, <1>15,
           <1>16, <1>17, <1>18, <1>19, <1>20 DEF TurnLockNext, Acquire, Recover

-----------------------------------------------------------------------------
\* The parts of the invariant of the lock.

\* No risk is forgotten, and a hook that moves is alive.
LEMMA KilledKept ==
  ASSUME TurnLockTypeOK, KilledInv, [TurnLockNext]_turnLockVars
  PROVE  KilledInv' /\ risks \subseteq risks' /\ gone \subseteq gone'
<1> USE DEF TurnLockTypeOK, KilledInv, Goto, Retry
<1>1. CASE UNCHANGED turnLockVars
  BY <1>1 DEF turnLockVars
<1>2. ASSUME NEW h \in Hooks, Begin(h) PROVE KilledInv' /\ risks \subseteq risks' /\ gone \subseteq gone'
  BY <1>2 DEF Begin
<1>3. ASSUME NEW h \in Hooks, Acquire(h) PROVE KilledInv' /\ risks \subseteq risks' /\ gone \subseteq gone'
  BY <1>3 DEF Acquire, MakeDir, OpenOwner, FillOwner, Undo, UndoDir
<1>4. ASSUME NEW h \in Hooks, Lstat(h) \/ ReadOwner(h) \/ ReadMarker(h)
      PROVE  KilledInv' /\ risks \subseteq risks' /\ gone \subseteq gone'
  BY <1>4 DEF Lstat, ReadOwner, ReadMarker
<1>5. ASSUME NEW h \in Hooks, RemoveMarker(h) \/ Mark(h) \/ FillMark(h)
      PROVE  KilledInv' /\ risks \subseteq risks' /\ gone \subseteq gone'
  BY <1>5 DEF RemoveMarker, Mark, FillMark
<1>6. ASSUME NEW h \in Hooks, Recheck(h) \/ RemoveOwner(h) \/ Unmark(h) \/ RemoveDir(h)
      PROVE  KilledInv' /\ risks \subseteq risks' /\ gone \subseteq gone'
  BY <1>6 DEF Recheck, RemoveOwner, Unmark, RemoveDir
<1>7. ASSUME NEW h \in Hooks, Release(h) PROVE KilledInv' /\ risks \subseteq risks' /\ gone \subseteq gone'
  <2>1. CASE pc[h] = "critical"
    BY <1>7, <2>1 DEF Release
  <2>2. CASE pc[h] = "rmOwn"
    BY <1>7, <2>2 DEF Release
  <2>3. CASE pc[h] = "rmOwnDir"
    BY <1>7, <2>3 DEF Release
  <2> QED BY <1>7, <2>1, <2>2, <2>3 DEF Release
<1>8. ASSUME NEW h \in Hooks, Kill(h) PROVE KilledInv' /\ risks \subseteq risks' /\ gone \subseteq gone'
  BY <1>8 DEF Kill
<1>9. ASSUME Age PROVE KilledInv' /\ risks \subseteq risks' /\ gone \subseteq gone'
  BY <1>9 DEF Age
<1> QED BY <1>1, <1>2, <1>3, <1>4, <1>5, <1>6, <1>7, <1>8, <1>9 DEF TurnLockNext, Recover

\* A recovery is begun for a killed owner, and ends when it is not.
LEMMA SeenKept ==
  ASSUME TurnLockTypeOK, KilledInv, SeenInv, [TurnLockNext]_turnLockVars
  PROVE  SeenInv'
<1> DEFINE Knows(h) == pc[h] \in {"readMarker", "confirm", "rmMarker", "mark", "fillMark", "recheck"} => seen[h] \in gone
<1> SUFFICES ASSUME risks' = {} PROVE \A h \in Hooks : Knows(h)'
  BY DEF SeenInv
<1>1. gone \subseteq gone' /\ \A h \in Hooks : Knows(h)
  BY KilledKept DEF SeenInv
<1> USE DEF TurnLockTypeOK, Goto, Retry
<1>2. CASE UNCHANGED turnLockVars
  BY <1>1, <1>2 DEF turnLockVars
<1>3. ASSUME NEW h \in Hooks, Begin(h) \/ Release(h) PROVE \A k \in Hooks : Knows(k)'
  BY <1>1, <1>3 DEF Begin, Release
<1>4. ASSUME NEW h \in Hooks, Acquire(h) PROVE \A k \in Hooks : Knows(k)'
  BY <1>1, <1>4 DEF Acquire, MakeDir, OpenOwner, FillOwner, Undo, UndoDir
<1>5. ASSUME NEW h \in Hooks, ReadOwner(h) PROVE \A k \in Hooks : Knows(k)'
  <2>1. CASE pc'[h] = "readMarker"
    <3>1. OwnerToken # None /\ Stale(dir.owner) /\ seen'[h] = OwnerToken
      BY <1>5, <2>1 DEF ReadOwner
    <3>2. OwnerToken = dir.owner.by
      BY <3>1 DEF OwnerToken
    <3> QED BY <1>1, <1>5, <3>1, <3>2 DEF ReadOwner, Stale
  <2>2. CASE pc'[h] # "readMarker"
    BY <1>1, <1>5, <2>2 DEF ReadOwner
  <2> QED BY <2>1, <2>2
<1>6. ASSUME NEW h \in Hooks, Lstat(h) \/ ReadMarker(h) \/ RemoveMarker(h) PROVE \A k \in Hooks : Knows(k)'
  BY <1>1, <1>6 DEF Lstat, ReadMarker, RemoveMarker
<1>7. ASSUME NEW h \in Hooks, Mark(h) \/ FillMark(h) \/ Recheck(h) PROVE \A k \in Hooks : Knows(k)'
  BY <1>1, <1>7 DEF Mark, FillMark, Recheck
<1>8. ASSUME NEW h \in Hooks, RemoveOwner(h) \/ Unmark(h) \/ RemoveDir(h) PROVE \A k \in Hooks : Knows(k)'
  BY <1>1, <1>8 DEF RemoveOwner, Unmark, RemoveDir
<1>9. ASSUME NEW h \in Hooks, Kill(h) PROVE \A k \in Hooks : Knows(k)'
  BY <1>1, <1>9 DEF Kill
<1>10. ASSUME Age PROVE \A k \in Hooks : Knows(k)'
  BY <1>1, <1>10 DEF Age
<1> QED BY <1>2, <1>3, <1>4, <1>5, <1>6, <1>7, <1>8, <1>9, <1>10 DEF TurnLockNext, Recover

\* Where a hook relies on its marker.
Marking(h) == pc[h] \in {"fillMark", "recheck", "rmOwner", "unmark", "unmarkDone"}
MarkerOf(h) == dir # NoDir /\ dir.marker # None /\ dir.marker.by = h

\* A directory as a hook has touched it.
LEMMA TouchedParts ==
  ASSUME NEW h \in Hooks, NEW owner \in LockFile \cup {None}, NEW marker \in LockFile \cup {None}
  PROVE  /\ Touched(h, owner, marker) # NoDir
         /\ Touched(h, owner, marker).owner = owner /\ Touched(h, owner, marker).marker = marker
<1>1. Touched(h, owner, marker) # NoDir
  BY MadeTypes
<1> QED BY <1>1 DEF Touched

\* The marker stays when the owner's file comes or goes.
LEMMA OwnerTouched ==
  ASSUME dir \in LockDir \cup {NoDir}, dir # NoDir, NEW h \in Hooks, NEW owner \in LockFile \cup {None}
  PROVE  /\ Touched(h, owner, dir.marker) # NoDir
         /\ Touched(h, owner, dir.marker).owner = owner /\ Touched(h, owner, dir.marker).marker = dir.marker
<1>1. dir \in LockDir /\ dir.marker \in LockFile \cup {None}
  BY DirParts
<1> QED BY <1>1, TouchedParts

\* A file is still its maker's when it has been written: the owner's ...
LEMMA FilledOwner ==
  ASSUME NEW d \in LockDir, d.owner # None
  PROVE  /\ [d EXCEPT !.owner.whole = TRUE] # NoDir
         /\ [d EXCEPT !.owner.whole = TRUE].marker = d.marker
         /\ [d EXCEPT !.owner.whole = TRUE].owner # None
         /\ [d EXCEPT !.owner.whole = TRUE].owner.by = d.owner.by
<1> DEFINE f == [d.owner EXCEPT !.whole = TRUE]
<1>1. d.owner \in LockFile
  BY DirParts
<1>2. f \in LockFile /\ f.by = d.owner.by
  BY <1>1 DEF LockFile
<1>3. f # None
  BY <1>2, LockFileAssumption
<1>4. [d EXCEPT !.owner.whole = TRUE] = [d EXCEPT !.owner = f]
  OBVIOUS
<1> HIDE DEF f
<1>5. /\ [d EXCEPT !.owner = f] \in LockDir
      /\ [d EXCEPT !.owner = f].owner = f /\ [d EXCEPT !.owner = f].marker = d.marker
  BY <1>2 DEF LockDir
<1>6. [d EXCEPT !.owner = f] # NoDir
  BY <1>5, LockFileAssumption
<1> QED BY <1>2, <1>3, <1>4, <1>5, <1>6

\* ... and the marker.
LEMMA FilledMarker ==
  ASSUME NEW d \in LockDir, d.marker # None
  PROVE  /\ [d EXCEPT !.marker.whole = TRUE] # NoDir
         /\ [d EXCEPT !.marker.whole = TRUE].owner = d.owner
         /\ [d EXCEPT !.marker.whole = TRUE].marker # None
         /\ [d EXCEPT !.marker.whole = TRUE].marker.by = d.marker.by
<1> DEFINE f == [d.marker EXCEPT !.whole = TRUE]
<1>1. d.marker \in LockFile
  BY DirParts
<1>2. f \in LockFile /\ f.by = d.marker.by
  BY <1>1 DEF LockFile
<1>3. f # None
  BY <1>2, LockFileAssumption
<1>4. [d EXCEPT !.marker.whole = TRUE] = [d EXCEPT !.marker = f]
  OBVIOUS
<1> HIDE DEF f
<1>5. /\ [d EXCEPT !.marker = f] \in LockDir
      /\ [d EXCEPT !.marker = f].marker = f /\ [d EXCEPT !.marker = f].owner = d.owner
  BY <1>2 DEF LockDir
<1>6. [d EXCEPT !.marker = f] # NoDir
  BY <1>5, LockFileAssumption
<1> QED BY <1>2, <1>3, <1>4, <1>5, <1>6

\* A marker is removed by the hook that made it, or it is that of a killed one.
LEMMA MarkersKept ==
  ASSUME TurnLockTypeOK, KilledInv, MarkerInv, [TurnLockNext]_turnLockVars
  PROVE  MarkerInv'
<1> SUFFICES ASSUME risks' = {} PROVE \A h \in Hooks : Marking(h)' => MarkerOf(h)'
  BY DEF MarkerInv, Marking, MarkerOf
<1>1. risks = {} /\ \A h \in Hooks : Marking(h) => MarkerOf(h)
  BY KilledKept DEF MarkerInv, Marking, MarkerOf
<1> USE DEF TurnLockTypeOK, Goto, Retry, Marking
<1>2. ASSUME NEW h \in Hooks, \A k \in Hooks \ {h} : pc'[k] = pc[k],
             pc'[h] \in {"unmark", "rmOwner", "unmarkDone"} => Marking(h), pc'[h] \notin {"fillMark", "recheck"} \/ Marking(h),
             \/ dir' = dir
             \/ dir # NoDir /\ dir' # NoDir /\ dir'.marker = dir.marker
             \/ dir = NoDir \/ dir.marker = None
      PROVE  \A k \in Hooks : Marking(k)' => MarkerOf(k)'
  BY <1>1, <1>2 DEF MarkerOf
<1>3. CASE UNCHANGED turnLockVars
  BY <1>1, <1>3 DEF turnLockVars, MarkerOf
<1>4. ASSUME NEW h \in Hooks, Begin(h) \/ MakeDir(h) \/ UndoDir(h) PROVE \A k \in Hooks : Marking(k)' => MarkerOf(k)'
  BY <1>2, <1>4 DEF Begin, MakeDir, UndoDir, Empty
<1>5. ASSUME NEW h \in Hooks, OpenOwner(h) \/ Undo(h) PROVE \A k \in Hooks : Marking(k)' => MarkerOf(k)'
  <2>1. dir' = dir \/ (dir # NoDir /\ dir' # NoDir /\ dir'.marker = dir.marker)
    <3>1. dir # NoDir => \A owner \in LockFile \cup {None} :
            Touched(h, owner, dir.marker) # NoDir /\ Touched(h, owner, dir.marker).marker = dir.marker
      BY OwnerTouched
    <3>2. CASE OpenOwner(h)
      BY <3>1, <3>2, MadeTypes DEF OpenOwner
    <3>3. CASE Undo(h)
      BY <3>1, <3>3 DEF Undo
    <3> QED BY <1>5, <3>2, <3>3
  <2> QED BY <1>2, <1>5, <2>1 DEF OpenOwner, Undo
<1>6. ASSUME NEW h \in Hooks, FillOwner(h) PROVE \A k \in Hooks : Marking(k)' => MarkerOf(k)'
  <2>1. dir' = dir \/ (dir # NoDir /\ dir.owner # None /\ dir' = [dir EXCEPT !.owner.whole = TRUE])
    BY <1>6 DEF FillOwner, IsMine
  <2>2. dir' = dir \/ (dir # NoDir /\ dir' # NoDir /\ dir'.marker = dir.marker)
    BY <2>1, FilledOwner
  <2> QED BY <1>2, <1>6, <2>2 DEF FillOwner
<1>7. ASSUME NEW h \in Hooks, Lstat(h) \/ ReadOwner(h) \/ ReadMarker(h) PROVE \A k \in Hooks : Marking(k)' => MarkerOf(k)'
  BY <1>2, <1>7 DEF Lstat, ReadOwner, ReadMarker
<1>8. ASSUME NEW h \in Hooks, RemoveMarker(h) PROVE \A k \in Hooks : Marking(k)' => MarkerOf(k)'
  <2>1. CASE dir = NoDir \/ dir.marker = None
    BY <1>2, <1>8, <2>1 DEF RemoveMarker
  <2>2. CASE dir # NoDir /\ dir.marker # None
    <3>1. dir.marker.by \in gone
      BY <1>8, <2>2 DEF RemoveMarker
    <3>2. \A k \in Hooks : ~Marking(k)
      BY <1>1, <3>1 DEF KilledInv, MarkerOf
    <3> QED BY <1>8, <3>2 DEF RemoveMarker
  <2> QED BY <2>1, <2>2
<1>9. ASSUME NEW h \in Hooks, Mark(h) PROVE \A k \in Hooks : Marking(k)' => MarkerOf(k)'
  <2>1. CASE dir # NoDir /\ dir.marker = None
    <3> DEFINE file == [by |-> h, whole |-> FALSE, old |-> FALSE]
    <3>1. file \in LockFile /\ file # None /\ file.by = h
      BY MadeTypes, LockFileAssumption
    <3> HIDE DEF file
    <3>2. dir' = Touched(h, dir.owner, file)
      BY <1>9, <2>1 DEF Mark, file
    <3>3. dir' # NoDir /\ dir'.marker = file
      <4>1. dir.owner \in LockFile \cup {None}
        BY <2>1, DirParts
      <4> QED BY <3>1, <3>2, <4>1, TouchedParts
    <3>4. \A k \in Hooks : ~Marking(k)
      BY <1>1, <2>1 DEF MarkerOf
    <3> QED BY <1>9, <3>1, <3>3, <3>4 DEF Mark, MarkerOf
  <2>2. CASE ~(dir # NoDir /\ dir.marker = None)
    BY <1>2, <1>9, <2>2 DEF Mark
  <2> QED BY <2>1, <2>2
<1>10. ASSUME NEW h \in Hooks, FillMark(h) PROVE \A k \in Hooks : Marking(k)' => MarkerOf(k)'
  <2>1. MarkerOf(h) /\ dir' = [dir EXCEPT !.marker.whole = TRUE]
    BY <1>1, <1>10 DEF FillMark, MarkerOf, IsMine
  <2>2. MarkerOf(h)'
    BY <2>1, FilledMarker DEF MarkerOf
  <2> QED BY <1>1, <1>10, <2>1, <2>2 DEF FillMark, MarkerOf
<1>11. ASSUME NEW h \in Hooks, Recheck(h) PROVE \A k \in Hooks : Marking(k)' => MarkerOf(k)'
  BY <1>2, <1>11 DEF Recheck
<1>12. ASSUME NEW h \in Hooks, RemoveOwner(h) PROVE \A k \in Hooks : Marking(k)' => MarkerOf(k)'
  <2>1. dir' = dir \/ (dir # NoDir /\ dir' # NoDir /\ dir'.marker = dir.marker)
    <3>1. dir # NoDir => Touched(h, None, dir.marker) # NoDir /\ Touched(h, None, dir.marker).marker = dir.marker
      BY OwnerTouched
    <3> QED BY <1>12, <3>1 DEF RemoveOwner
  <2> QED BY <1>2, <1>12, <2>1 DEF RemoveOwner
<1>13. ASSUME NEW h \in Hooks, Unmark(h) PROVE \A k \in Hooks : Marking(k)' => MarkerOf(k)'
  <2>1. MarkerOf(h) /\ \A k \in Hooks : Marking(k) => k = h
    BY <1>1, <1>13 DEF Unmark, MarkerOf
  <2> QED BY <1>13, <2>1 DEF Unmark
<1>14. ASSUME NEW h \in Hooks, RemoveDir(h) PROVE \A k \in Hooks : Marking(k)' => MarkerOf(k)'
  BY <1>2, <1>14 DEF RemoveDir, Empty
<1>15. ASSUME NEW h \in Hooks, Release(h) PROVE \A k \in Hooks : Marking(k)' => MarkerOf(k)'
  <2>1. CASE pc[h] = "critical"
    BY <1>2, <1>15, <2>1 DEF Release
  <2>2. CASE pc[h] = "rmOwn"
    <3>1. dir' = dir \/ (dir # NoDir /\ dir' # NoDir /\ dir'.marker = dir.marker)
      <4>1. dir # NoDir => Touched(h, None, dir.marker) # NoDir /\ Touched(h, None, dir.marker).marker = dir.marker
        BY OwnerTouched
      <4> QED BY <1>15, <2>2, <4>1 DEF Release
    <3> QED BY <1>2, <1>15, <2>2, <3>1 DEF Release
  <2>3. CASE pc[h] = "rmOwnDir"
    BY <1>2, <1>15, <2>3 DEF Release, Empty
  <2> QED BY <1>15, <2>1, <2>2, <2>3 DEF Release
<1>16. ASSUME NEW h \in Hooks, Kill(h) PROVE \A k \in Hooks : Marking(k)' => MarkerOf(k)'
  BY <1>2, <1>16 DEF Kill
<1>17. ASSUME Age PROVE \A k \in Hooks : Marking(k)' => MarkerOf(k)'
  <2>1. pc' = pc /\ dir # NoDir /\ dir' # NoDir
    BY <1>17, AgeKeepsFiles, DirParts DEF Age
  <2> QED BY <1>1, <1>17, <2>1, AgeKeepsFiles DEF MarkerOf
<1> QED BY <1>3, <1>4, <1>5, <1>6, <1>7, <1>8, <1>9, <1>10, <1>11, <1>12, <1>13, <1>14, <1>15, <1>16, <1>17
        DEF TurnLockNext, Acquire, Recover

\* What DisposeInv says of one hook.
Disposal(h) ==
  /\ pc[h] \notin {"undo", "undoDir"}
  /\ Disposes(h) => dir # NoDir
  /\ Between(h) => dir.owner = None
  /\ Owning(h) => dir.owner # None /\ dir.owner.by = h
  /\ pc[h] = "rmOwner" => dir.owner # None /\ dir.owner.by \in gone

\* A hook begins to dispose of the directory when nobody else does: it has made
\* it, or it is alone with its marker and the file of the killed owner that it
\* has seen.  From then on nobody else changes the owner's file.
LEMMA DisposalsKept ==
  ASSUME TurnLockTypeOK, KilledInv, SeenInv, MarkerInv, DisposeInv, [TurnLockNext]_turnLockVars
  PROVE  DisposeInv'
<1> DEFINE Kept == /\ \A h, k \in Hooks : Disposes(h)' /\ Disposes(k)' => h = k
                   /\ \A h \in Hooks : Disposal(h)'
<1> SUFFICES ASSUME risks' = {} PROVE Kept
  BY DEF DisposeInv, Disposal
<1>1. /\ risks = {} /\ gone \subseteq gone'
      /\ \A h, k \in Hooks : Disposes(h) /\ Disposes(k) => h = k
      /\ \A h \in Hooks : Disposal(h)
  BY KilledKept DEF DisposeInv, Disposal
<1> USE DEF TurnLockTypeOK, Goto, Retry, Disposal, Disposes, Between, Owning
\* Most steps leave the owner's file alone and begin nothing.
<1>2. ASSUME NEW h \in Hooks, \A k \in Hooks \ {h} : pc'[k] = pc[k], pc'[h] \notin {"undo", "undoDir"}, ~Disposes(h)',
             \/ dir' = dir
             \/ dir # NoDir /\ dir' # NoDir /\ dir'.owner = dir.owner
      PROVE  Kept
  BY <1>1, <1>2
<1>3. CASE UNCHANGED turnLockVars
  BY <1>1, <1>3 DEF turnLockVars
<1>4. ASSUME NEW h \in Hooks, Begin(h) \/ Lstat(h) \/ ReadOwner(h) \/ ReadMarker(h) PROVE Kept
  BY <1>2, <1>4 DEF Begin, Lstat, ReadOwner, ReadMarker
<1>5. ASSUME NEW h \in Hooks, MakeDir(h) PROVE Kept
  <2>1. CASE dir = NoDir
    <3>1. dir' # NoDir /\ dir'.owner = None
      <4>1. Touched(h, None, None) # NoDir /\ Touched(h, None, None).owner = None
        <5>1. None \in LockFile \cup {None}
          OBVIOUS
        <5> QED BY ZenonT(30), <5>1, TouchedParts
      <4> QED BY <1>5, <2>1, <4>1 DEF MakeDir
    <3>2. \A k \in Hooks : ~Disposes(k)
      BY <1>1, <2>1
    <3> QED BY <1>1, <1>5, <2>1, <3>1, <3>2 DEF MakeDir
  <2>2. CASE dir # NoDir
    BY <1>2, <1>5, <2>2 DEF MakeDir
  <2> QED BY <2>1, <2>2
<1>6. ASSUME NEW h \in Hooks, OpenOwner(h) PROVE Kept
  <2> DEFINE file == [by |-> h, whole |-> FALSE, old |-> FALSE]
  <2>1. file \in LockFile /\ file # None /\ file.by = h
    BY MadeTypes, LockFileAssumption
  <2> HIDE DEF file
  <2>2. Disposes(h) /\ dir # NoDir /\ dir.owner = None /\ \A k \in Hooks : Disposes(k) => k = h
    BY <1>1, <1>6 DEF OpenOwner
  <2>3. dir' = Touched(h, file, dir.marker)
    BY <1>6, <2>2 DEF OpenOwner, file
  <2>4. dir' # NoDir /\ dir'.owner = file
    BY <2>1, <2>2, <2>3, OwnerTouched
  <2> QED BY <1>1, <1>6, <2>1, <2>2, <2>4 DEF OpenOwner
<1>7. ASSUME NEW h \in Hooks, FillOwner(h) PROVE Kept
  <2>1. Disposes(h) /\ dir # NoDir /\ dir.owner # None /\ dir.owner.by = h /\ \A k \in Hooks : Disposes(k) => k = h
    BY <1>1, <1>7 DEF FillOwner
  <2>2. dir' = [dir EXCEPT !.owner.whole = TRUE]
    BY <1>7, <2>1 DEF FillOwner, IsMine
  <2>3. dir' # NoDir /\ dir'.owner # None /\ dir'.owner.by = h
    BY <2>1, <2>2, FilledOwner
  <2> QED BY <1>1, <1>7, <2>1, <2>3 DEF FillOwner
<1>8. ASSUME NEW h \in Hooks, Undo(h) \/ UndoDir(h) PROVE FALSE
  BY <1>1, <1>8 DEF Undo, UndoDir
<1>9. ASSUME NEW h \in Hooks, RemoveMarker(h) PROVE Kept
  <2>1. dir # NoDir => Touched(h, dir.owner, None) # NoDir /\ Touched(h, dir.owner, None).owner = dir.owner
    <3>1. ASSUME dir # NoDir
          PROVE  Touched(h, dir.owner, None) # NoDir /\ Touched(h, dir.owner, None).owner = dir.owner
      <4>1. dir.owner \in LockFile \cup {None} /\ None \in LockFile \cup {None}
        BY <3>1, DirParts
      <4> QED BY ZenonT(30), <4>1, TouchedParts
    <3> QED BY <3>1
  <2> QED BY <1>2, <1>9, <2>1 DEF RemoveMarker
<1>10. ASSUME NEW h \in Hooks, Mark(h) PROVE Kept
  <2>1. CASE dir # NoDir /\ dir.marker = None
    <3> DEFINE file == [by |-> h, whole |-> FALSE, old |-> FALSE]
    <3>1. file \in LockFile /\ dir.owner \in LockFile \cup {None} /\ dir' = Touched(h, dir.owner, file)
      BY <1>10, <2>1, MadeTypes, DirParts DEF Mark
    <3> HIDE DEF file
    <3>2. dir' # NoDir /\ dir'.owner = dir.owner
      BY <3>1, TouchedParts
    <3> QED BY <1>2, <1>10, <2>1, <3>2 DEF Mark
  <2>2. CASE ~(dir # NoDir /\ dir.marker = None)
    BY <1>2, <1>10, <2>2 DEF Mark
  <2> QED BY <2>1, <2>2
<1>11. ASSUME NEW h \in Hooks, FillMark(h) PROVE Kept
  <2>1. dir # NoDir /\ dir.marker # None /\ dir' = [dir EXCEPT !.marker.whole = TRUE]
    BY <1>1, <1>11 DEF FillMark, MarkerInv, IsMine
  <2>2. dir' # NoDir /\ dir'.owner = dir.owner
    BY <2>1, FilledMarker
  <2> QED BY <1>2, <1>11, <2>1, <2>2 DEF FillMark
<1>12. ASSUME NEW h \in Hooks, Recheck(h) PROVE Kept
  <2>1. CASE pc'[h] = "unmark"
    BY <1>2, <1>12, <2>1 DEF Recheck
  <2>2. CASE pc'[h] = "rmOwner"
    <3>1. seen[h] \in gone /\ seen[h] # None
      BY <1>1, <1>12, NoneAssumption DEF Recheck, SeenInv
    <3>2. OwnerToken = seen[h]
      BY <1>12, <2>2, <3>1 DEF Recheck
    <3>3. dir # NoDir /\ dir.owner # None /\ dir.owner.by \in gone
      BY <3>1, <3>2 DEF OwnerToken
    <3>4. ASSUME NEW k \in Hooks, Disposes(k) PROVE FALSE
      <4>1. pc[k] = "rmOwner"
        BY <1>1, <3>3, <3>4 DEF KilledInv
      <4>2. dir.marker.by = k /\ dir.marker.by = h
        BY <1>1, <1>12, <4>1 DEF MarkerInv, Recheck
      <4> QED BY <1>12, <4>1, <4>2 DEF Recheck
    <3> QED BY <1>1, <1>12, <2>2, <3>3, <3>4 DEF Recheck
  <2> QED BY <1>12, <2>1, <2>2 DEF Recheck
<1>13. ASSUME NEW h \in Hooks, RemoveOwner(h) PROVE Kept
  <2>1. Disposes(h) /\ dir # NoDir /\ dir.owner # None /\ \A k \in Hooks : Disposes(k) => k = h
    BY <1>1, <1>13 DEF RemoveOwner
  <2>2. dir' # NoDir /\ dir'.owner = None
    BY <1>13, <2>1, OwnerTouched DEF RemoveOwner
  <2> QED BY <1>1, <1>13, <2>1, <2>2 DEF RemoveOwner
<1>14. ASSUME NEW h \in Hooks, Unmark(h) PROVE Kept
  <2>1. dir # NoDir
    BY <1>1, <1>14 DEF Unmark, MarkerInv
  <2>2. dir' # NoDir /\ dir'.owner = dir.owner
    <3>1. dir.owner \in LockFile \cup {None}
      BY <2>1, DirParts
    <3>2. dir' = dir \/ dir' = Touched(h, dir.owner, None)
      BY <1>14 DEF Unmark
    <3> QED BY <2>1, <3>1, <3>2, TouchedParts
  <2>3. CASE pc[h] = "unmark"
    BY <1>2, <1>14, <2>1, <2>2, <2>3 DEF Unmark
  <2>4. CASE pc[h] = "unmarkDone"
    BY <1>1, <1>14, <2>1, <2>2, <2>4 DEF Unmark
  <2> QED BY <1>14, <2>3, <2>4 DEF Unmark
<1>15. ASSUME NEW h \in Hooks, RemoveDir(h) PROVE Kept
  <2>1. \A k \in Hooks : Disposes(k) => k = h
    BY <1>1, <1>15 DEF RemoveDir
  <2> QED BY <1>1, <1>15, <2>1 DEF RemoveDir
<1>16. ASSUME NEW h \in Hooks, Release(h) PROVE Kept
  <2>1. Disposes(h) /\ dir # NoDir /\ \A k \in Hooks : Disposes(k) => k = h
    BY <1>1, <1>16 DEF Release
  <2>2. CASE pc[h] = "critical"
    BY <1>1, <1>16, <2>1, <2>2 DEF Release
  <2>3. CASE pc[h] = "rmOwn"
    <3>1. dir' # NoDir /\ dir'.owner = None
      BY <1>1, <1>16, <2>1, <2>3, OwnerTouched DEF Release
    <3> QED BY <1>1, <1>16, <2>1, <2>3, <3>1 DEF Release
  <2>4. CASE pc[h] = "rmOwnDir"
    BY <1>1, <1>16, <2>1, <2>4 DEF Release
  <2> QED BY <1>16, <2>2, <2>3, <2>4 DEF Release
<1>17. ASSUME NEW h \in Hooks, Kill(h) PROVE Kept
  BY <1>2, <1>17 DEF Kill
<1>18. ASSUME Age PROVE Kept
  <2>1. pc' = pc /\ gone' = gone /\ dir # NoDir /\ dir' # NoDir
    BY <1>18, AgeKeepsFiles, DirParts DEF Age
  <2> QED BY <1>1, <1>18, <2>1, AgeKeepsFiles
<1> QED BY <1>3, <1>4, <1>5, <1>6, <1>7, <1>8, <1>9, <1>10, <1>11, <1>12, <1>13, <1>14, <1>15, <1>16, <1>17, <1>18
        DEF TurnLockNext, Acquire, Recover

\* All of it together.
THEOREM TurnLockInvariance == TurnLockSpec => []TurnLockInv
<1>1. TurnLockInit => TurnLockInv
  BY DEF TurnLockInit, TurnLockInv, TurnLockTypeOK, KilledInv, SeenInv, MarkerInv, DisposeInv, Disposes, Between,
         Owning, Steps
<1>2. TurnLockInv /\ [TurnLockNext]_turnLockVars => TurnLockInv'
  BY TurnLockTypesKept, KilledKept, SeenKept, MarkersKept, DisposalsKept DEF TurnLockInv
<1> QED BY <1>1, <1>2, PTL DEF TurnLockSpec

-----------------------------------------------------------------------------
\* What the lock promises.

\* Type correctness.
THEOREM TurnLockTypeCorrect == TurnLockSpec => []TurnLockTypeOK
<1>1. TurnLockInv => TurnLockTypeOK
  BY DEF TurnLockInv
<1> QED BY <1>1, TurnLockInvariance, PTL

\* Two hooks never change the state of a turn at the same time, although hooks
\* are killed at any step and a lock is removed in seven steps by its path,
\* unless a lock without an owner's token was recovered, or a recoverer's marker
\* was removed by another one that had confirmed the marker before it.
THEOREM TurnLockExclusive == TurnLockSpec => []Exclusive
<1>1. TurnLockInv => Exclusive
  BY DEF TurnLockInv, DisposeInv, Disposes, Owning, Exclusive
<1> QED BY <1>1, TurnLockInvariance, PTL
=============================================================================
