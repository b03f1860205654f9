------------------------------- MODULE Activator -------------------------------
(***************************************************************************)
(* The activator of a session (plugins/riqor/hooks/activator.ts): after    *)
(* each interval one Stop is blocked for a review, and the next Stop ends  *)
(* the review.  The state is a file that the hooks of the session rewrite  *)
(* under a lock directory, and that the SessionStart of any session may    *)
(* prune without the lock.                                                 *)
(*                                                                         *)
(* Left out: lastActivityAt, lastActivatedAt and startedAt, which no       *)
(* decision reads, and state files that do not parse, which count as none. *)
(* The host kills a hook far below staleLockMs, so that a lock directory   *)
(* grows old only when its hook was killed.  Bounds: MaxClock, MaxKills,   *)
(* one prune at a time; no hook starts after a fault, which is where the   *)
(* properties end.                                                         *)
(***************************************************************************)
EXTENDS Naturals, Sequences, FiniteSets

CONSTANTS
  Hooks,      \* processes: hooks of the session, and of others that prune
  Nobody,     \* no lock directory, or a state that is not there
  Interval,   \* intervalMs
  Watchdog,   \* watchdogMs
  StaleAfter, \* staleStateMs
  Crowded,    \* are there more than maxStateFiles other states, all newer?
  MaxClock,   \* bound: milliseconds
  MaxKills    \* bound: hooks that are killed

ASSUME TimesAssumption ==
  /\ Interval \in Nat \ {0} /\ Watchdog \in Nat \ {0} /\ StaleAfter \in Nat \ {0}
  /\ MaxClock \in Nat /\ MaxKills \in Nat /\ Crowded \in BOOLEAN
ASSUME NobodyAssumption == Nobody \notin Hooks

VARIABLES
  aLock,   \* the lock directory: who made it, is it older than staleLockMs
  aFile,   \* the state file
  aPc,     \* where each hook is
  aJob,    \* what each hook is for, and the time it took when it started
  aSnap,   \* what each hook has read
  aSaw,    \* the old lock directory that each hook is about to remove
  aGone,   \* hooks that were killed
  aClock,  \* Date.now()
  reviews, \* history: the answers to Stop, since the state was last begun
  aFaults  \* history: what has happened that the state does not survive

aVars == <<aLock, aFile, aPc, aJob, aSnap, aSaw, aGone, aClock, reviews, aFaults>>

Times == 0..(MaxClock + Interval) \cup 0..(MaxClock + Watchdog)

ActivatorState == [phase : {"waiting", "reviewing"}, cycle : Nat, nextDueAt : Times,
                   reviewDeadlineAt : Times, modifiedAt : Times]

\* start and touch are initializeActivator and touchActivator, stop is
\* observeActivatorStop with allowStart, end is clearActivator.
JobKinds == {"touch", "stop", "end", "prune"}
Job == [kind : JobKinds, allowStart : BOOLEAN, now : 0..MaxClock]
NoJob == [kind |-> "touch", allowStart |-> FALSE, now |-> 0]

LockDirs == [by : Hooks, old : BOOLEAN]
ASSUME StateAssumption == Nobody \notin LockDirs /\ Nobody \notin ActivatorState

\* overtaken: a hook removed the lock of a live one, made after it had looked
\* at an older one; pruned: prune removed a state that was not stale, or that
\* a hook had locked.
AFaults == {"overtaken", "pruned"}

ASteps == {"idle", "mkdir", "own", "look", "steal", "read", "write", "free", "list", "check",
           "remove"}

AInit ==
  /\ aLock = Nobody
  /\ aFile = Nobody
  /\ aPc = [h \in Hooks |-> "idle"]
  /\ aJob = [h \in Hooks |-> NoJob]
  /\ aSnap = [h \in Hooks |-> Nobody]
  /\ aSaw = [h \in Hooks |-> Nobody]
  /\ aGone = {}
  /\ aClock = 0
  /\ reviews = <<>>
  /\ aFaults = {}

AGoto(h, step) == aPc' = [aPc EXCEPT ![h] = step]

ADone(h) ==
  /\ AGoto(h, "idle")
  /\ aJob' = [aJob EXCEPT ![h] = NoJob]
  /\ aSnap' = [aSnap EXCEPT ![h] = Nobody]
  /\ aSaw' = [aSaw EXCEPT ![h] = Nobody]

-----------------------------------------------------------------------------
\* A hook starts.  The session waits for a Stop to be answered before it
\* starts another one; other hooks overlap.
AStart(h, kind, allowStart) ==
  /\ aPc[h] = "idle"
  /\ h \notin aGone
  /\ aFaults = {}
  /\ allowStart => kind = "stop"
  /\ kind \in {"stop", "prune"} => \A k \in Hooks : aPc[k] = "idle" \/ aJob[k].kind # kind
  /\ aJob' = [aJob EXCEPT ![h] = [kind |-> kind, allowStart |-> allowStart,
                                  now |-> IF kind = "end" THEN 0 ELSE aClock]]
  /\ AGoto(h, IF kind = "prune" THEN "list" ELSE "mkdir")
  /\ UNCHANGED <<aLock, aFile, aSnap, aSaw, aGone, aClock, reviews, aFaults>>

\* acquireLock: mkdir(path).
AMakeDir(h) ==
  /\ aPc[h] = "mkdir"
  /\ IF aLock = Nobody
       THEN aLock' = [by |-> h, old |-> FALSE] /\ AGoto(h, "own")
       ELSE AGoto(h, "look") /\ UNCHANGED aLock
  /\ UNCHANGED <<aFile, aJob, aSnap, aSaw, aGone, aClock, reviews, aFaults>>

\* owner.json is written into whatever directory has the path by now; without
\* one, or with another's owner.json in it, the path is removed and the hook
\* fails.
AOwn(h) ==
  /\ aPc[h] = "own"
  /\ IF aLock # Nobody /\ aLock.by = h
       THEN AGoto(h, "read") /\ UNCHANGED <<aLock, aJob, aSnap, aSaw>>
       ELSE aLock' = Nobody /\ ADone(h)
  /\ UNCHANGED <<aFile, aGone, aClock, reviews, aFaults>>

\* Try again, up to lockAttempts.
ATryAgain(h) == (AGoto(h, "mkdir") /\ UNCHANGED <<aJob, aSnap, aSaw>>) \/ ADone(h)

\* Mutant: the age of the directory is not looked at.
MutALook(h) ==
  /\ aPc[h] = "look"
  /\ IF aLock # Nobody
       THEN AGoto(h, "steal") /\ aSaw' = [aSaw EXCEPT ![h] = aLock] /\ UNCHANGED <<aJob, aSnap>>
       ELSE ATryAgain(h)
  /\ UNCHANGED <<aLock, aFile, aGone, aClock, reviews, aFaults>>

\* lstat: a directory that is gone or fresh is waited for.
ALook(h) ==
  /\ aPc[h] = "look"
  /\ IF aLock # Nobody /\ aLock.old
       THEN AGoto(h, "steal") /\ aSaw' = [aSaw EXCEPT ![h] = aLock] /\ UNCHANGED <<aJob, aSnap>>
       ELSE ATryAgain(h)
  /\ UNCHANGED <<aLock, aFile, aGone, aClock, reviews, aFaults>>

\* The directory is not the one that h has looked at, and its hook lives.
Overtaken(h) == aLock # Nobody /\ aLock # aSaw[h] /\ aLock.by \notin aGone

\* rm(path, recursive): whoever's directory it is.
ASteal(h) ==
  /\ aPc[h] = "steal"
  /\ aLock' = Nobody
  /\ aSaw' = [aSaw EXCEPT ![h] = Nobody]
  /\ aFaults' = IF Overtaken(h) THEN aFaults \cup {"overtaken"} ELSE aFaults
  /\ AGoto(h, "mkdir")
  /\ UNCHANGED <<aFile, aJob, aSnap, aGone, aClock, reviews>>

ARead(h) ==
  /\ aPc[h] = "read"
  /\ aSnap' = [aSnap EXCEPT ![h] = aFile]
  /\ AGoto(h, "write")
  /\ UNCHANGED <<aLock, aFile, aJob, aSaw, aGone, aClock, reviews, aFaults>>

\* initialState.
Initial(now) == [phase |-> "waiting", cycle |-> 0, nextDueAt |-> now + Interval,
                 reviewDeadlineAt |-> 0, modifiedAt |-> aClock]

\* Mutant: the end of a review does not schedule the next one.
MutStopResult(s, job) ==
  CASE s = Nobody -> <<"none", Initial(job.now)>>
    [] s # Nobody /\ s.phase = "reviewing" ->
         <<IF job.now > s.reviewDeadlineAt THEN "timeout" ELSE "completed",
           [s EXCEPT !.phase = "waiting", !.reviewDeadlineAt = 0, !.modifiedAt = aClock]>>
    [] s # Nobody /\ s.phase = "waiting" /\ (~job.allowStart \/ job.now < s.nextDueAt) ->
         <<"none", s>>
    [] OTHER ->
         <<"block", [s EXCEPT !.phase = "reviewing", !.cycle = @ + 1,
                              !.reviewDeadlineAt = job.now + Watchdog, !.modifiedAt = aClock]>>

\* observeActivatorStop: the answer and the state that is written.
StopResult(s, job) ==
  CASE s = Nobody -> <<"none", Initial(job.now)>>
    [] s # Nobody /\ s.phase = "reviewing" ->
         <<IF job.now > s.reviewDeadlineAt THEN "timeout" ELSE "completed",
           [s EXCEPT !.phase = "waiting", !.nextDueAt = job.now + Interval,
                     !.reviewDeadlineAt = 0, !.modifiedAt = aClock]>>
    [] s # Nobody /\ s.phase = "waiting" /\ (~job.allowStart \/ job.now < s.nextDueAt) ->
         <<"none", s>>
    [] OTHER ->
         <<"block", [s EXCEPT !.phase = "reviewing", !.cycle = @ + 1,
                              !.reviewDeadlineAt = job.now + Watchdog, !.modifiedAt = aClock]>>

\* What a touch writes: the state as it was read, or a new one.
TouchResult(s, job) == IF s = Nobody THEN Initial(job.now) ELSE [s EXCEPT !.modifiedAt = aClock]

\* A section ends: the state is replaced, or removed at the end of a session.
AWrite(h) ==
  /\ aPc[h] = "write"
  /\ LET job == aJob[h]
         result == StopResult(aSnap[h], job)
     IN  CASE job.kind = "touch" ->
                aFile' = TouchResult(aSnap[h], job) /\ UNCHANGED reviews
           [] job.kind = "end" ->
                aFile' = Nobody /\ reviews' = <<>>
           [] job.kind = "stop" ->
                /\ aFile' = IF result[2] = aSnap[h] THEN aFile ELSE result[2]
                /\ reviews' = IF result[1] = "none" THEN reviews
                              ELSE Append(reviews, [answer |-> result[1],
                                                    cycle |-> result[2].cycle, at |-> job.now])
  /\ AGoto(h, "free")
  /\ UNCHANGED <<aLock, aJob, aSnap, aSaw, aGone, aClock, aFaults>>

\* finally: rm(path, recursive) removes the lock, whoever's it is.
AFree(h) ==
  /\ aPc[h] = "free"
  /\ aLock' = Nobody
  /\ ADone(h)
  /\ UNCHANGED <<aFile, aGone, aClock, reviews, aFaults>>

StaleState(job) == aFile # Nobody /\ (Crowded \/ job.now > aFile.modifiedAt + StaleAfter)

\* pruneActivatorState finds a state that is stale or in excess ...
APruneList(h) ==
  /\ aPc[h] = "list"
  /\ IF StaleState(aJob[h])
       THEN AGoto(h, "check") /\ UNCHANGED <<aJob, aSnap, aSaw>>
       ELSE ADone(h)
  /\ UNCHANGED <<aLock, aFile, aGone, aClock, reviews, aFaults>>

\* ... and, when it has seen all of them, no lock.
APruneCheck(h) ==
  /\ aPc[h] = "check"
  /\ IF aLock = Nobody
       THEN AGoto(h, "remove") /\ UNCHANGED <<aJob, aSnap, aSaw>>
       ELSE ADone(h)
  /\ UNCHANGED <<aLock, aFile, aGone, aClock, reviews, aFaults>>

\* It removes the path later, without the lock.
APruneRemove(h) ==
  /\ aPc[h] = "remove"
  /\ aFile' = Nobody
  /\ reviews' = <<>>
  /\ aFaults' = IF aLock # Nobody \/ (aFile # Nobody /\ ~StaleState(aJob[h]))
                  THEN aFaults \cup {"pruned"} ELSE aFaults
  /\ ADone(h)
  /\ UNCHANGED <<aLock, aGone, aClock>>

\* The host kills a hook.
AKill(h) ==
  /\ h \notin aGone
  /\ Cardinality(aGone) < MaxKills
  /\ aGone' = aGone \cup {h}
  /\ ADone(h)
  /\ UNCHANGED <<aLock, aFile, aClock, reviews, aFaults>>

ATick ==
  /\ aClock < MaxClock
  /\ aClock' = aClock + 1
  /\ UNCHANGED <<aLock, aFile, aPc, aJob, aSnap, aSaw, aGone, reviews, aFaults>>

\* staleLockMs pass.
AAge ==
  /\ aLock # Nobody
  /\ aLock.by \in aGone
  /\ ~aLock.old
  /\ aLock' = [aLock EXCEPT !.old = TRUE]
  /\ UNCHANGED <<aFile, aPc, aJob, aSnap, aSaw, aGone, aClock, reviews, aFaults>>

ALock(h) == AMakeDir(h) \/ AOwn(h) \/ ALook(h) \/ ASteal(h) \/ ARead(h) \/ AWrite(h) \/ AFree(h)

ANext ==
  \/ \E h \in Hooks :
       \/ \E kind \in JobKinds, allowStart \in BOOLEAN : AStart(h, kind, allowStart)
       \/ ALock(h)
       \/ APruneList(h)
       \/ APruneCheck(h)
       \/ APruneRemove(h)
       \/ AKill(h)
  \/ ATick
  \/ AAge

ASpec == AInit /\ [][ANext]_aVars

-----------------------------------------------------------------------------
\* Type invariant.
ATypeOK ==
  /\ aLock \in LockDirs \cup {Nobody}
  /\ aFile \in ActivatorState \cup {Nobody}
  /\ aPc \in [Hooks -> ASteps]
  /\ aJob \in [Hooks -> Job]
  /\ aSnap \in [Hooks -> ActivatorState \cup {Nobody}]
  /\ aSaw \in [Hooks -> LockDirs \cup {Nobody}]
  /\ aGone \subseteq Hooks
  /\ aClock \in 0..MaxClock
  /\ reviews \in Seq([answer : {"block", "completed", "timeout"}, cycle : Nat, at : 0..MaxClock])
  /\ aFaults \subseteq AFaults

\* Two hooks never are between reading and writing the state at the same
\* time, although hooks are killed with the lock and the others look at its
\* age and remove it by its path in separate steps: unless two hooks had
\* found the same old lock and one of them removed what the other had made
\* of the path since, which takes a killed hook.
AExclusive ==
  /\ aGone = {} => "overtaken" \notin aFaults
  /\ "overtaken" \notin aFaults =>
       \A h, k \in Hooks : aPc[h] \in {"read", "write"} /\ aPc[k] \in {"read", "write"} => h = k

\* The answers to Stop are a sequence of reviews: review n+1 begins with a
\* block, at least an interval after review n ended, and ends at the next Stop,
\* as timed out exactly when the watchdog had passed.  So a session is never
\* blocked twice in a row, whatever hooks overlap, are killed or give up,
\* unless one of the named faults has happened.
ReviewsInOrder ==
  aFaults = {} =>
    \A i \in DOMAIN reviews :
      LET r == reviews[i]
      IN  /\ r.cycle = (i + 1) \div 2
          /\ r.answer = "block" <=> i % 2 = 1
          /\ r.answer = "block" /\ i > 1 => r.at >= reviews[i - 1].at + Interval
          /\ r.answer # "block" =>
               (r.answer = "timeout" <=> r.at > reviews[i - 1].at + Watchdog)
=============================================================================
