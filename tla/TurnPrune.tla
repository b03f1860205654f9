------------------------------- MODULE TurnPrune -------------------------------
(***************************************************************************)
(* pruneState (plugins/riqor/hooks/state.ts): each SessionStart removes    *)
(* the turn states that are too old, and the oldest ones beyond a limit,   *)
(* while the hooks of other sessions write and clear theirs.               *)
(*                                                                         *)
(* A turn's section under its lock is one step (TurnLock has the lock);    *)
(* that the lock stays busy for all attempts is a step of its own.  Every  *)
(* write has a time stamp of its own, so that the order of two states with *)
(* equal stamps (by key) is left out.  Bound: MaxStamp.                    *)
(***************************************************************************)
EXTENDS Naturals, FiniteSets

CONSTANTS
  Turns,     \* turn keys
  Pruners,   \* SessionStart hooks
  MaxFiles,  \* limits.maxFiles
  MaxAge,    \* limits.maxAgeMs
  MaxStamp   \* bound: writes, each with its own time

ASSUME PruneAssumption == MaxFiles \in Nat /\ MaxAge \in Nat /\ MaxStamp \in Nat \ {0} /\ IsFiniteSet(Turns)

NoTurnFile == [at |-> 0, valid |-> FALSE]
NoTurnFiles == [k \in Turns |-> NoTurnFile]

VARIABLES
  pFile,   \* the state of each turn: when it was written, can it be parsed
  pStamp,  \* the time
  pPc,     \* where each pruner is
  pNow,    \* the time it started
  pTodo,   \* turns it has still to look at in its present pass
  pCand,   \* candidates and the time of their state, 0 when it has none
  pKept,   \* candidates it has counted as survivors (survivorRank)
  pStart,  \* history: the files when it started
  pTouched,\* history: turns that something else has changed or locked since
  pGone    \* history: turns that were gone when it came to them again

ghosts == <<pStart, pTouched, pGone>>
pVars == <<pFile, pStamp, pPc, pNow, pTodo, pCand, pKept, ghosts>>

Exists(k) == pFile[k] # NoTurnFile
Written(t) == [at |-> t, valid |-> TRUE]

PInit ==
  /\ pFile = NoTurnFiles
  /\ pStamp = 1
  /\ pPc = [p \in Pruners |-> "idle"]
  /\ pNow = [p \in Pruners |-> 0]
  /\ pTodo = [p \in Pruners |-> {}]
  /\ pCand = [p \in Pruners |-> [k \in Turns |-> 0]]
  /\ pKept = [p \in Pruners |-> {}]
  /\ pStart = [p \in Pruners |-> NoTurnFiles]
  /\ pTouched = [p \in Pruners |-> {}]
  /\ pGone = [p \in Pruners |-> {}]

\* The state of k changes under the pruners in seers; it is there afterwards
\* or not, which matters to those that have still to come to it.
Touched(k, seers, there) ==
  /\ pTouched' = [p \in Pruners |-> IF p \in seers /\ pPc[p] # "idle"
                                      THEN pTouched[p] \cup {k} ELSE pTouched[p]]
  /\ pGone' = [p \in Pruners |-> IF p \in seers /\ (pPc[p] = "first" \/ k \in pTodo[p])
                                   THEN IF there THEN pGone[p] \ {k} ELSE pGone[p] \cup {k}
                                   ELSE pGone[p]]
  /\ UNCHANGED pStart

-----------------------------------------------------------------------------
\* Hooks of the turns.

\* A mutation, a check or a first block replaces the state of a turn.
HookWrites(k) ==
  /\ pStamp < MaxStamp
  /\ pStamp' = pStamp + 1
  /\ pFile' = [pFile EXCEPT ![k] = Written(pStamp')]
  /\ Touched(k, Pruners, TRUE)
  /\ UNCHANGED <<pPc, pNow, pTodo, pCand, pKept>>

\* A Stop that is allowed, or the end of the session.
HookClears(k) ==
  /\ Exists(k)
  /\ pFile' = [pFile EXCEPT ![k] = NoTurnFile]
  /\ Touched(k, Pruners, FALSE)
  /\ UNCHANGED <<pStamp, pPc, pNow, pTodo, pCand, pKept>>

\* Another program leaves a file that cannot be parsed.
Damaged(k) ==
  /\ pStamp < MaxStamp
  /\ pStamp' = pStamp + 1
  /\ pFile' = [pFile EXCEPT ![k] = [at |-> pStamp', valid |-> FALSE]]
  /\ Touched(k, Pruners, TRUE)
  /\ UNCHANGED <<pPc, pNow, pTodo, pCand, pKept>>

-----------------------------------------------------------------------------
\* The pruner.

\* readdir.
PruneStart(p) ==
  /\ pPc[p] = "idle"
  /\ pPc' = [pPc EXCEPT ![p] = "first"]
  /\ pNow' = [pNow EXCEPT ![p] = pStamp]
  /\ pTodo' = [pTodo EXCEPT ![p] = {k \in Turns : Exists(k)}]
  /\ pCand' = [pCand EXCEPT ![p] = [k \in Turns |-> 0]]
  /\ pKept' = [pKept EXCEPT ![p] = {}]
  /\ pStart' = [pStart EXCEPT ![p] = pFile]
  /\ pTouched' = [pTouched EXCEPT ![p] = {}]
  /\ pGone' = [pGone EXCEPT ![p] = {}]
  /\ UNCHANGED <<pFile, pStamp>>

Expired(p, t) == pNow[p] > t + MaxAge

\* inspectPruneCandidateUnlocked: a file that cannot be parsed is replaced by
\* the conservative state; the candidate gets the time after that write.
Broken(k) == Exists(k) /\ ~pFile[k].valid
Repair(k) ==
  /\ pStamp + 2 <= MaxStamp
  /\ pStamp' = pStamp + 2
  /\ pFile' = [pFile EXCEPT ![k] = Written(pStamp + 1)]

Remove(k) == pFile' = [pFile EXCEPT ![k] = NoTurnFile] /\ UNCHANGED pStamp

Candidate(p, k, t) == pCand' = [pCand EXCEPT ![p][k] = t]

\* The first pass looks at a turn.
FirstLook(p, k) ==
  /\ pPc[p] = "first"
  /\ k \in pTodo[p]
  /\ pTodo' = [pTodo EXCEPT ![p] = @ \ {k}]
  /\ CASE Broken(k) ->
            Repair(k) /\ Candidate(p, k, pStamp') /\ Touched(k, Pruners, TRUE)
       [] ~Broken(k) /\ Exists(k) /\ Expired(p, pFile[k].at) ->
            Remove(k) /\ UNCHANGED pCand /\ Touched(k, Pruners \ {p}, FALSE)
       [] OTHER ->
            Candidate(p, k, pFile[k].at) /\ UNCHANGED <<pFile, pStamp, ghosts>>
  /\ UNCHANGED <<pPc, pNow, pKept>>

\* The turn's lock was busy for all attempts: it is no candidate.
FirstBusy(p, k) ==
  /\ pPc[p] = "first"
  /\ k \in pTodo[p]
  /\ pTodo' = [pTodo EXCEPT ![p] = @ \ {k}]
  /\ pTouched' = [pTouched EXCEPT ![p] = @ \cup {k}]
  /\ UNCHANGED <<pFile, pStamp, pPc, pNow, pCand, pKept, pStart, pGone>>

\* The candidates are sorted, the newest first.
PruneSort(p) ==
  /\ pPc[p] = "first"
  /\ pTodo[p] = {}
  /\ pPc' = [pPc EXCEPT ![p] = "second"]
  /\ pTodo' = [pTodo EXCEPT ![p] = {k \in Turns : pCand[p][k] > 0}]
  /\ UNCHANGED <<pFile, pStamp, pNow, pCand, pKept, ghosts>>

\* The candidate that is next in the second pass.
IsNext(p, k) == k \in pTodo[p] /\ \A j \in pTodo[p] : pCand[p][j] <= pCand[p][k]

Keep(p, k) == pKept' = [pKept EXCEPT ![p] = @ \cup {k}]

\* Within the limit, or written again since the first look.
Survives(p, k) == pFile[k].at # pCand[p][k] \/ Cardinality(pKept[p]) < MaxFiles

\* The second pass looks at the candidate that is next: a state that is gone
\* does not count; one that was written again, or is within the limit, stays
\* and counts; the rest is removed.
SecondLook(p, k) ==
  /\ pPc[p] = "second"
  /\ IsNext(p, k)
  /\ pTodo' = [pTodo EXCEPT ![p] = @ \ {k}]
  /\ CASE ~Exists(k) ->
            UNCHANGED <<pFile, pStamp, pKept, ghosts>>
       [] Broken(k) ->
            Repair(k) /\ Keep(p, k) /\ Touched(k, Pruners, TRUE)
       [] ~Broken(k) /\ Exists(k) /\ (Expired(p, pFile[k].at) \/ ~Survives(p, k)) ->
            Remove(k) /\ UNCHANGED pKept /\ Touched(k, Pruners \ {p}, FALSE)
       [] OTHER ->
            Keep(p, k) /\ UNCHANGED <<pFile, pStamp, ghosts>>
  /\ UNCHANGED <<pPc, pNow, pCand>>

\* Mutant: a busy candidate is passed over.
MutSecondBusy(p, k) ==
  /\ pPc[p] = "second"
  /\ IsNext(p, k)
  /\ pTodo' = [pTodo EXCEPT ![p] = @ \ {k}]
  /\ pTouched' = [pTouched EXCEPT ![p] = @ \cup {k}]
  /\ pGone' = [pGone EXCEPT ![p] = @ \ {k}]
  /\ UNCHANGED <<pFile, pStamp, pPc, pNow, pCand, pKept, pStart>>

\* A busy candidate counts as a survivor.
SecondBusy(p, k) ==
  /\ pPc[p] = "second"
  /\ IsNext(p, k)
  /\ pTodo' = [pTodo EXCEPT ![p] = @ \ {k}]
  /\ Keep(p, k)
  /\ pTouched' = [pTouched EXCEPT ![p] = @ \cup {k}]
  /\ pGone' = [pGone EXCEPT ![p] = @ \ {k}]
  /\ UNCHANGED <<pFile, pStamp, pPc, pNow, pCand, pStart>>

\* The pruner is through; or the host ends the hook at its time limit.
PruneEnd(p) ==
  /\ pPc[p] # "idle"
  /\ pPc' = [pPc EXCEPT ![p] = "idle"]
  /\ pTodo' = [pTodo EXCEPT ![p] = {}]
  /\ pCand' = [pCand EXCEPT ![p] = [k \in Turns |-> 0]]
  /\ pKept' = [pKept EXCEPT ![p] = {}]
  /\ pNow' = [pNow EXCEPT ![p] = 0]
  /\ pStart' = [pStart EXCEPT ![p] = NoTurnFiles]
  /\ pTouched' = [pTouched EXCEPT ![p] = {}]
  /\ pGone' = [pGone EXCEPT ![p] = {}]
  /\ UNCHANGED <<pFile, pStamp>>

PNext ==
  \/ \E k \in Turns : HookWrites(k) \/ HookClears(k) \/ Damaged(k)
  \/ \E p \in Pruners :
       \/ PruneStart(p)
       \/ PruneSort(p)
       \/ PruneEnd(p)
       \/ \E k \in Turns : FirstLook(p, k) \/ FirstBusy(p, k) \/ SecondLook(p, k) \/ SecondBusy(p, k)

PSpec == PInit /\ [][PNext]_pVars

-----------------------------------------------------------------------------
\* Type invariant.
PTypeOK ==
  /\ pFile \in [Turns -> [at : 0..MaxStamp, valid : BOOLEAN]]
  /\ pStamp \in 1..MaxStamp
  /\ pPc \in [Pruners -> {"idle", "first", "second"}]
  /\ pNow \in [Pruners -> 0..MaxStamp]
  /\ pTodo \in [Pruners -> SUBSET Turns]
  /\ pCand \in [Pruners -> [Turns -> 0..MaxStamp]]
  /\ pKept \in [Pruners -> SUBSET Turns]
  /\ pStart \in [Pruners -> [Turns -> [at : 0..MaxStamp, valid : BOOLEAN]]]
  /\ pTouched \in [Pruners -> SUBSET Turns]
  /\ pGone \in [Pruners -> SUBSET Turns]

\* When a prune is through, a state that nothing else touched since it began
\* is still there exactly when it is not too old and fewer than MaxFiles of
\* the candidates with a newer state were there, or locked, when the prune
\* came to them: hooks and other prunes that write or clear states in between
\* move the rank of the others and mislead it neither way.
NewestKept ==
  \A p \in Pruners : pPc[p] = "second" /\ pTodo[p] = {} =>
    \A k \in Turns \ pTouched[p] :
      LET start == pStart[p][k]
          newer == {j \in Turns \ pGone[p] : pCand[p][j] > start.at}
      IN  Exists(k) <=> /\ start # NoTurnFile
                        /\ ~Expired(p, start.at)
                        /\ Cardinality(newer) < MaxFiles
=============================================================================
