------------------------------- MODULE TurnGate -------------------------------
(***************************************************************************)
(* The evidence gate of one turn of a coding session: the state file of    *)
(* plugins/riqor/hooks/state.ts and the PostToolUse, Stop and SessionEnd   *)
(* hooks of plugins/riqor/hooks/main.ts that read and write it.            *)
(*                                                                         *)
(* Each hook is a process of its own.  It takes the time when it starts    *)
(* (Fire) and reads and writes the state in one step later, under the turn *)
(* lock (Apply).  The session starts a Stop hook only when the hooks of    *)
(* its tools have ended.                                                   *)
(*                                                                         *)
(* Left out: pruneState, which may remove the state of a turn that 256     *)
(* others are younger than, and the loss of a hook that reports a          *)
(* mutation, which nothing in the program can notice.                      *)
(***************************************************************************)
EXTENDS Integers, Sequences

CONSTANTS
  NoState,    \* there is no state file
  Corrupt,    \* the state file cannot be trusted
  Overlap,    \* do tools run in parallel, so that their hooks overlap?
  MaxEvents,  \* bound: tool events in a session
  MaxClock    \* bound: milliseconds

ASSUME OverlapAssumption == Overlap \in BOOLEAN
ASSUME BoundsAssumption == MaxEvents \in Nat /\ MaxClock \in Nat

MutationKinds == {"code", "docs", "config", "unknown"}
Scopes == {"code", "docs"}

\* What a tool did, and what became of the hook that reports it.
ToolEvent == [type : {"mutation", "check"}, what : MutationKinds, at : 0..MaxClock,
              hook : {"waiting", "applied", "lost"}]

\* verifiedAt is undefined.
Never == -1

TurnState == [mutationKind : MutationKinds, mutatedAt : 0..MaxClock,
              verifiedAt : {Never} \cup 0..MaxClock, blockedOnce : BOOLEAN]

ASSUME FileAssumption == NoState # Corrupt /\ {NoState, Corrupt} \cap TurnState = {}

VARIABLES
  state,   \* the state file of the turn
  clock,   \* Date.now()
  log,     \* the tool events of the session, in the order they happened
  answer   \* the answer to the last Stop, "none" since a later event

vars == <<state, clock, log, answer>>

Init ==
  /\ state = NoState
  /\ clock = 0
  /\ log = <<>>
  /\ answer = "none"

-----------------------------------------------------------------------------
\* conservativeState.
Unknown == [mutationKind |-> "unknown", mutatedAt |-> 0, verifiedAt |-> Never,
            blockedOnce |-> FALSE]

\* readState: what cannot be trusted is an unknown mutation, pending.
ReadState(s) == IF s = Corrupt THEN Unknown ELSE s

\* scopeCovers.
ScopeCovers(kind, scope) == scope = "code" \/ kind = "docs"

\* recordMutation replaces whatever the turn had.
AfterMutation(s, e) ==
  [mutationKind |-> e.what, mutatedAt |-> e.at, verifiedAt |-> Never,
   blockedOnce |-> FALSE]

\* recordVerification ignores a turn without a mutation and a scope that is
\* too narrow for it.
AfterCheck(s, e) ==
  IF ReadState(s) = NoState THEN s
  ELSE IF ScopeCovers(ReadState(s).mutationKind, e.what)
         THEN [ReadState(s) EXCEPT !.verifiedAt = e.at, !.blockedOnce = FALSE]
         ELSE s

\* Mutant: verifiedAt has to be later than mutatedAt.
MutVerified(s) == s.verifiedAt > s.mutatedAt

Verified(s) == s.verifiedAt # Never /\ s.verifiedAt >= s.mutatedAt

-----------------------------------------------------------------------------
Waiting == {i \in DOMAIN log : log[i].hook = "waiting"}

\* A tool has run; the hook that reports it starts and takes the time.
Fire(type, what) ==
  /\ Len(log) < MaxEvents
  /\ Overlap \/ Waiting = {}
  /\ \E now \in {clock, clock + 1} \cap 0..MaxClock :
       /\ clock' = now
       /\ log' = Append(log, [type |-> type, what |-> what, at |-> now, hook |-> "waiting"])
  /\ answer' = "none"
  /\ UNCHANGED state

\* The hook of event i has the lock, reads the state and writes it.
Apply(i) ==
  /\ i \in Waiting
  /\ state' = IF log[i].type = "mutation" THEN AfterMutation(state, log[i])
                                          ELSE AfterCheck(state, log[i])
  /\ log' = [log EXCEPT ![i].hook = "applied"]
  /\ UNCHANGED <<clock, answer>>

\* The hook of a check does not get the lock, or is killed at its time limit.
Lose(i) ==
  /\ i \in Waiting
  /\ log[i].type = "check"
  /\ log' = [log EXCEPT ![i].hook = "lost"]
  /\ UNCHANGED <<state, clock, answer>>

\* Mutant: the second Stop in a row gives up and clears the turn.
MutStop ==
  /\ Waiting = {}
  /\ LET s == ReadState(state)
     IN  IF s = NoState \/ Verified(s) \/ s.blockedOnce
           THEN state' = NoState /\ answer' = "allow"
           ELSE state' = [s EXCEPT !.blockedOnce = TRUE] /\ answer' = "pending"
  /\ UNCHANGED <<clock, log>>

\* Stop: consumeEvidenceGate lets the turn end when nothing is pending.
Stop ==
  /\ Waiting = {}
  /\ LET s == ReadState(state)
     IN  IF s = NoState
           THEN UNCHANGED state /\ answer' = "allow"
           ELSE IF Verified(s)
             THEN state' = NoState /\ answer' = "allow"
             ELSE /\ state' = IF s.blockedOnce THEN state ELSE [s EXCEPT !.blockedOnce = TRUE]
                  /\ answer' = "pending"
  /\ UNCHANGED <<clock, log>>

\* Stop without the lock, or without access to the state, blocks.
StopUnavailable ==
  /\ Waiting = {}
  /\ answer' = "unavailable"
  /\ UNCHANGED <<state, clock, log>>

\* SessionEnd clears the turn; a session that goes on starts anew.
SessionEnd ==
  /\ Waiting = {}
  /\ state' = NoState
  /\ log' = <<>>
  /\ answer' = "none"
  /\ UNCHANGED clock

\* Something else damages the file: for the gate, an unknown mutation.
Damage ==
  /\ Len(log) < MaxEvents
  /\ Waiting = {}
  /\ state' = Corrupt
  /\ log' = Append(log, [type |-> "mutation", what |-> "unknown", at |-> 0, hook |-> "applied"])
  /\ answer' = "none"
  /\ UNCHANGED clock

Next ==
  \/ \E kind \in MutationKinds : Fire("mutation", kind)
  \/ \E scope \in Scopes : Fire("check", scope)
  \/ \E i \in DOMAIN log : Apply(i) \/ Lose(i)
  \/ Stop
  \/ StopUnavailable
  \/ SessionEnd
  \/ Damage

Spec == Init /\ [][Next]_vars

-----------------------------------------------------------------------------
\* Type invariant.
TypeOK ==
  /\ state \in TurnState \cup {NoState, Corrupt}
  /\ clock \in 0..MaxClock
  /\ log \in Seq(ToolEvent)
  /\ answer \in {"none", "allow", "pending", "unavailable"}

IsMutation(i) == i \in DOMAIN log /\ log[i].type = "mutation"

LastMutation(i) == IsMutation(i) /\ \A j \in DOMAIN log : IsMutation(j) => j <= i

\* A check that ran after event i, was reported, and has the scope for it.
CheckedAfter(i) ==
  \E j \in DOMAIN log : /\ j > i
                        /\ log[j].type = "check"
                        /\ log[j].hook = "applied"
                        /\ ScopeCovers(log[i].what, log[j].what)

\* No Stop lets the turn end while its last mutation has no check of a
\* sufficient scope after it, however often Stop is tried, and whatever
\* becomes of the state file (autonomous baseline: "Every ordinary Stop
\* remains blocked while relevant verification is pending").  Holds where
\* the hooks of one tool end before the next tool runs.
StopNeedsCheck ==
  answer = "allow" => \A i \in DOMAIN log : LastMutation(i) => CheckedAfter(i)

\* The gate is not stuck either: a Stop is blocked for pending evidence only
\* while no sufficient check has followed the last mutation, also when check
\* and mutation fall into the same millisecond.
BlockedForAReason ==
  answer = "pending" => \E i \in DOMAIN log : LastMutation(i) /\ ~CheckedAfter(i)

\* The last mutation whose hook has reported it.
LastReported(i) ==
  /\ IsMutation(i)
  /\ log[i].hook = "applied"
  /\ \A j \in DOMAIN log : (IsMutation(j) /\ log[j].hook = "applied") => j <= i

\* State s stands for the mutation i: its kind, a time before all that is
\* waiting, and whether a check has followed.
StandsFor(s, i) ==
  /\ s.mutationKind = log[i].what
  /\ s.mutatedAt <= clock
  /\ \A j \in Waiting : s.mutatedAt <= log[j].at
  /\ s.verifiedAt = Never \/ s.mutatedAt <= s.verifiedAt
  /\ s.verifiedAt # Never <=> CheckedAfter(i)

\* What the state file says of the events that have been reported.
GateInv ==
  IF state = NoState
    THEN \A i \in DOMAIN log : LastReported(i) => CheckedAfter(i)
    ELSE \E i \in DOMAIN log : LastReported(i) /\ StandsFor(ReadState(state), i)

\* One tool at a time: only the last event can be waiting, no mutation is
\* lost, and an answer is about a log that is reported.
LogInv ==
  /\ \A i \in Waiting : i = Len(log)
  /\ \A i \in DOMAIN log : log[i].at <= clock /\ (IsMutation(i) => log[i].hook # "lost")
  /\ answer # "none" => Waiting = {}

\* The inductive invariant behind StopNeedsCheck and BlockedForAReason,
\* where tools run one after the other.
IInv == TypeOK /\ LogInv /\ GateInv /\ StopNeedsCheck /\ BlockedForAReason
=============================================================================
