------------------------------- MODULE SwarmLock -------------------------------
(***************************************************************************)
(* The lock with a lifetime that agents of a swarm take                    *)
(* (src/assurance/swarm-lock.ts): a file created with "wx" and filled with *)
(* a payload afterwards, and a recovery directory that lets one agent at a *)
(* time remove a file that is expired or holds no payload.                 *)
(*                                                                         *)
(* One lock name.  The random token of an acquisition is the agent that    *)
(* made it: an agent that was killed does not return.                      *)
(* Bounds: MaxClock.  The code has five attempts, MAX_ACQUIRE_ATTEMPTS is  *)
(* a constant here.                                                        *)
(***************************************************************************)
EXTENDS Naturals, FiniteSets

CONSTANTS
  Agents,                \* processes that take the lock
  Nobody,                \* no owner
  NoFile,                \* there is no lock file
  Ttl,                   \* ttlMs
  MAX_ACQUIRE_ATTEMPTS,
  MaxKills,              \* bound: agents that are killed
  MayFail,               \* may a write or a read of a file fail?
  MaxClock               \* bound: milliseconds

ASSUME NobodyAssumption == Nobody \notin Agents
ASSUME LimitsAssumption ==
  Ttl \in Nat \ {0} /\ MAX_ACQUIRE_ATTEMPTS \in Nat \ {0} /\ MaxClock \in Nat
ASSUME FlagsAssumption == MaxKills \in Nat /\ MayFail \in BOOLEAN

VARIABLES
  file,      \* the lock file: who created it, the acquiredAt, is the payload written
  recovery,  \* the agent that made the recovery directory
  pc,        \* where each agent is
  now,       \* the time at which each agent began its attempt
  attempt,   \* the number of the attempt
  gone,      \* agents that were killed
  clock,     \* Date.now()
  faults     \* history: what has happened that the lock does not survive

lockVars == <<file, recovery, pc, now, attempt, gone, clock, faults>>

LockPayload == [owner : Agents, at : 0..MaxClock, filled : BOOLEAN]
ASSUME NoFileAssumption == NoFile \notin LockPayload

Steps == {"idle", "create", "fill", "read", "recover", "recheck", "remove",
          "retry", "refused", "work", "write", "release", "unlink", "card"}

\* An owner outlived its lock; a recoverer took a missing or half-created
\* file for a damaged one; a read failed.
Faults == {"late", "blind", "unread"}

LockInit ==
  /\ file = NoFile
  /\ recovery = Nobody
  /\ pc = [a \in Agents |-> "idle"]
  /\ now = [a \in Agents |-> 0]
  /\ attempt = [a \in Agents |-> 0]
  /\ gone = {}
  /\ clock = 0
  /\ faults = {}

Goto(a, step) == pc' = [pc EXCEPT ![a] = step]

IsExpired(f, t) == t > f.at + Ttl

\* readLockPayload returns null: no file, or nothing in it that parses.
Unreadable(f) == f = NoFile \/ ~f.filled

\* acquireSwarmLock: an attempt takes the time before anything else.
BeginAttempt(a) ==
  /\ now' = [now EXCEPT ![a] = clock]
  /\ attempt' = [attempt EXCEPT ![a] = @ + 1]
  /\ Goto(a, "create")

\* The acquisition, or the section, has ended.
Done(a) ==
  /\ Goto(a, "idle")
  /\ now' = [now EXCEPT ![a] = 0]
  /\ attempt' = [attempt EXCEPT ![a] = 0]

\* tryCreateLock: open(lockPath, "wx").
Create(a) ==
  /\ pc[a] = "create"
  /\ IF file = NoFile
       THEN file' = [owner |-> a, at |-> now[a], filled |-> FALSE] /\ Goto(a, "fill")
       ELSE Goto(a, "read") /\ UNCHANGED file
  /\ UNCHANGED <<recovery, now, attempt, gone, clock, faults>>

\* The payload is written to the file that was opened, unlinked or not.  When
\* the write fails acquireSwarmLock throws and leaves the file.
Fill(a) ==
  /\ pc[a] = "fill"
  /\ \/ /\ file' = IF file # NoFile /\ file.owner = a THEN [file EXCEPT !.filled = TRUE] ELSE file
        /\ Goto(a, "work")
        /\ UNCHANGED <<now, attempt>>
     \/ /\ MayFail
        /\ Done(a)
        /\ UNCHANGED file
  /\ UNCHANGED <<recovery, gone, clock, faults>>

\* Somebody has the file: a lock that had not expired when the attempt began
\* is respected.
Read(a) ==
  /\ pc[a] = "read"
  /\ IF ~Unreadable(file) /\ ~IsExpired(file, now[a])
       THEN Done(a)
       ELSE Goto(a, "recover") /\ UNCHANGED <<now, attempt>>
  /\ UNCHANGED <<file, recovery, gone, clock, faults>>

\* mkdir(recoveryPath) is exclusive.
TakeRecovery(a) ==
  /\ pc[a] = "recover"
  /\ IF recovery = Nobody
       THEN recovery' = a /\ Goto(a, "recheck")
       ELSE Goto(a, "retry") /\ UNCHANGED recovery
  /\ UNCHANGED <<file, now, attempt, gone, clock, faults>>

\* Mutant: the payload is not read again under the recovery directory.
MutRecheck(a) ==
  /\ pc[a] = "recheck"
  /\ Goto(a, "remove")
  /\ UNCHANGED <<file, recovery, now, attempt, gone, clock, faults>>

\* The payload is read again.  A file that is missing, or that its creator is
\* about to fill, counts as damaged: "blind".
Recheck(a) ==
  /\ pc[a] = "recheck"
  /\ Goto(a, IF Unreadable(file) \/ IsExpired(file, clock) THEN "remove" ELSE "refused")
  /\ faults' = IF file = NoFile \/ (~file.filled /\ pc[file.owner] = "fill")
                 THEN faults \cup {"blind"} ELSE faults
  /\ UNCHANGED <<file, recovery, now, attempt, gone, clock>>

\* rm(lockPath): the path, whoever's file it leads to.
RemoveLock(a) ==
  /\ pc[a] = "remove"
  /\ file' = NoFile
  /\ Goto(a, "retry")
  /\ UNCHANGED <<recovery, now, attempt, gone, clock, faults>>

\* finally, the recovery directory is removed by the agent that made it; the
\* next attempt, or the end of the acquisition.
DropRecovery(a) ==
  /\ pc[a] \in {"retry", "refused"}
  /\ recovery' = IF recovery = a THEN Nobody ELSE recovery
  /\ IF pc[a] = "retry" /\ attempt[a] < MAX_ACQUIRE_ATTEMPTS
       THEN BeginAttempt(a)
       ELSE Done(a)
  /\ UNCHANGED <<file, gone, clock, faults>>

\* releaseSwarmLock compares owner and token ...
Compare(a) ==
  /\ pc[a] = "release"
  /\ IF file # NoFile /\ file.filled /\ file.owner = a
       THEN Goto(a, "unlink") /\ UNCHANGED <<now, attempt>>
       ELSE Done(a)
  /\ UNCHANGED <<file, recovery, gone, clock, faults>>

\* ... and removes the path.
Unlink(a) ==
  /\ pc[a] = "unlink"
  /\ file' = NoFile
  /\ Done(a)
  /\ UNCHANGED <<recovery, gone, clock, faults>>

Killed(a) ==
  /\ a \notin gone
  /\ Cardinality(gone) < MaxKills
  /\ gone' = gone \cup {a}
  /\ Done(a)
  /\ UNCHANGED <<file, recovery, clock, faults>>

\* Agents that have, or are about to have, the lock.
Owning == {"create", "fill", "work", "write", "release", "unlink"}

Tick ==
  /\ clock < MaxClock
  /\ clock' = clock + 1
  /\ faults' = IF \E a \in Agents : pc[a] \in Owning /\ clock + 1 > now[a] + Ttl
                 THEN faults \cup {"late"} ELSE faults
  /\ UNCHANGED <<file, recovery, pc, now, attempt, gone>>

LockStep(a) ==
  \/ Create(a)
  \/ Fill(a)
  \/ Read(a)
  \/ TakeRecovery(a)
  \/ Recheck(a)
  \/ RemoveLock(a)
  \/ DropRecovery(a)
  \/ Compare(a)
  \/ Unlink(a)

-----------------------------------------------------------------------------
\* Type invariant.
LockTypeOK ==
  /\ file \in LockPayload \cup {NoFile}
  /\ recovery \in Agents \cup {Nobody}
  /\ pc \in [Agents -> Steps]
  /\ now \in [Agents -> 0..MaxClock]
  /\ attempt \in [Agents -> 0..MAX_ACQUIRE_ATTEMPTS]
  /\ gone \subseteq Agents
  /\ clock \in 0..MaxClock
  /\ faults \subseteq Faults

InSection(a) == pc[a] \in {"work", "write", "release", "unlink"}

\* Locks of killed agents expire and are removed by others, several at a time
\* and each with a look at the file that may be out of date; as long as no
\* owner outlives its lifetime and nobody takes a missing or half-created file
\* for a damaged one, no two agents hold the lock.
Exclusive ==
  faults \cap {"late", "blind"} = {}
    => \A a, b \in Agents : InSection(a) /\ InSection(b) => a = b
=============================================================================
