------------------------------- MODULE TurnLock -------------------------------
(***************************************************************************)
(* The lock of a turn's state (plugins/riqor/hooks/state.ts): a directory  *)
(* made with mkdir, owner.json inside it, and .recovery.json, the marker   *)
(* under which one hook at a time removes the lock of a killed hook.       *)
(*                                                                         *)
(* A hook is a process; the host kills it at its time limit.  Time is the  *)
(* age of a file relative to lockLeaseMs: it grows old once the hook that  *)
(* wrote it is gone (the directory: once the hook that touched it last has *)
(* no change in progress), because the time limit is far below the lease.  *)
(* lockHardExpiryMs is left out: pids are not reused.  A file that is      *)
(* opened with "wx" is empty until it is written.  Bound: MaxKills.        *)
(***************************************************************************)
EXTENDS Naturals, FiniteSets

CONSTANTS
  Hooks,    \* processes
  None,     \* no file, or nothing that could be read
  NoDir,    \* there is no lock directory
  MaxKills  \* bound: hooks that are killed

ASSUME KillsAssumption == MaxKills \in Nat
ASSUME NoneAssumption == None \notin Hooks

VARIABLES
  dir,     \* the lock directory: its files, the hook that touched it last, is it old
  pc,      \* where each hook is
  oldDir,  \* was the directory old that a hook saw with lstat?
  seen,    \* the token of the owner that a hook has read, None when it could not
  marked,  \* the token of the stale marker that it has read
  gone,    \* hooks that were killed
  risks    \* history: what has happened that the lock may not survive

turnLockVars == <<dir, pc, oldDir, seen, marked, gone, risks>>

LockFile == [by : Hooks, whole : BOOLEAN, old : BOOLEAN]
LockDir == [owner : LockFile \cup {None}, marker : LockFile \cup {None},
            last : Hooks, old : BOOLEAN]
ASSUME LockFileAssumption == None \notin LockFile /\ NoDir \notin LockDir

Steps == {"idle", "mkdir", "open", "fill", "undo", "undoDir", "critical", "compare",
          "rmOwn", "rmOwnDir", "lstat", "readOwner", "readMarker", "confirm", "rmMarker",
          "mark", "fillMark", "recheck", "rmOwner", "unmark", "unmarkDone", "rmdir"}

\* A recovery was begun without an owner's token; the marker of a live
\* recoverer was removed.
Risks == {"tokenless", "marker"}

TurnLockInit ==
  /\ dir = NoDir
  /\ pc = [h \in Hooks |-> "idle"]
  /\ oldDir = [h \in Hooks |-> FALSE]
  /\ seen = [h \in Hooks |-> None]
  /\ marked = [h \in Hooks |-> None]
  /\ gone = {}
  /\ risks = {}

Goto(h, step) == pc' = [pc EXCEPT ![h] = step]

\* After a failed attempt: delay and try again, or give up after lockAttempts.
Retry(h) == Goto(h, "mkdir") \/ Goto(h, "idle")

\* The directory after hook h has created or removed an entry.
Touched(h, owner, marker) ==
  [owner |-> owner, marker |-> marker, last |-> h, old |-> FALSE]

Empty == dir # NoDir /\ dir.owner = None /\ dir.marker = None

\* readLockOwner: a file that is missing, or not yet written, has no token.
OwnerToken == IF dir = NoDir \/ dir.owner = None \/ ~dir.owner.whole THEN None ELSE dir.owner.by
MarkerToken == IF dir = NoDir \/ dir.marker = None \/ ~dir.marker.whole THEN None ELSE dir.marker.by

\* A file with a token that is older than the lease, of a process that is dead.
Stale(f) == f.old /\ f.by \in gone

Begin(h) ==
  /\ pc[h] = "idle"
  /\ h \notin gone
  /\ Goto(h, "mkdir")
  /\ UNCHANGED <<dir, oldDir, seen, gone, risks, marked>>

\* acquireTurnLock: mkdir(path).
MakeDir(h) ==
  /\ pc[h] = "mkdir"
  /\ IF dir = NoDir
       THEN dir' = Touched(h, None, None) /\ Goto(h, "open")
       ELSE Goto(h, "lstat") /\ UNCHANGED dir
  /\ UNCHANGED <<oldDir, seen, gone, risks, marked>>

\* writeFile(ownerPath, "wx") opens the file; the directory may be gone, or
\* another hook's by now.
OpenOwner(h) ==
  /\ pc[h] = "open"
  /\ IF dir # NoDir /\ dir.owner = None
       THEN /\ dir' = Touched(h, [by |-> h, whole |-> FALSE, old |-> FALSE], dir.marker)
            /\ Goto(h, "fill")
       ELSE Goto(h, "undo") /\ UNCHANGED dir
  /\ UNCHANGED <<oldDir, seen, gone, risks, marked>>

IsMine(f, h) == f # None /\ f.by = h

FillOwner(h) ==
  /\ pc[h] = "fill"
  /\ dir' = IF dir # NoDir /\ IsMine(dir.owner, h) THEN [dir EXCEPT !.owner.whole = TRUE] ELSE dir
  /\ Goto(h, "critical")
  /\ UNCHANGED <<oldDir, seen, gone, risks, marked>>

\* The owner could not be written: whatever has the path is removed, ...
Undo(h) ==
  /\ pc[h] = "undo"
  /\ dir' = IF dir = NoDir \/ dir.owner = None THEN dir ELSE Touched(h, None, dir.marker)
  /\ Goto(h, "undoDir")
  /\ UNCHANGED <<oldDir, seen, gone, risks, marked>>

\* ... then the directory; EEXIST counts as a lock that is taken.
UndoDir(h) ==
  /\ pc[h] = "undoDir"
  /\ dir' = IF Empty THEN NoDir ELSE dir
  /\ Goto(h, "lstat") \/ Goto(h, "idle")
  /\ UNCHANGED <<oldDir, seen, gone, risks, marked>>

\* recoverAbandonedLock: lstat(path).
Lstat(h) ==
  /\ pc[h] = "lstat"
  /\ IF dir = NoDir
       THEN Retry(h) /\ UNCHANGED oldDir
       ELSE Goto(h, "readOwner") /\ oldDir' = [oldDir EXCEPT ![h] = dir.old]
  /\ UNCHANGED <<dir, seen, gone, risks, marked>>

\* Without an owner the time of the directory counts, as it was at lstat.
ReadOwner(h) ==
  /\ pc[h] = "readOwner"
  /\ oldDir' = [oldDir EXCEPT ![h] = FALSE]
  /\ IF IF OwnerToken = None THEN oldDir[h] ELSE Stale(dir.owner)
       THEN /\ Goto(h, "readMarker")
            /\ seen' = [seen EXCEPT ![h] = OwnerToken]
            /\ risks' = IF OwnerToken = None THEN risks \cup {"tokenless"} ELSE risks
       ELSE Retry(h) /\ UNCHANGED <<seen, risks>>
  /\ UNCHANGED <<dir, gone, marked>>

\* Mutant: the marker of a dead hook is not looked for.
MutReadMarker(h) ==
  /\ pc[h] \in {"readMarker", "confirm"}
  /\ Goto(h, "mark")
  /\ UNCHANGED <<dir, oldDir, seen, gone, risks, marked>>

\* A marker of a dead hook is read twice: both times it must have the token of
\* the same hook.
ReadMarker(h) ==
  /\ pc[h] \in {"readMarker", "confirm"}
  /\ LET stale == MarkerToken # None /\ Stale(dir.marker)
     IN  IF pc[h] = "readMarker" /\ stale
           THEN Goto(h, "confirm") /\ marked' = [marked EXCEPT ![h] = MarkerToken]
           ELSE /\ Goto(h, IF pc[h] = "confirm" /\ MarkerToken = marked[h] THEN "rmMarker" ELSE "mark")
                /\ marked' = [marked EXCEPT ![h] = None]
  /\ UNCHANGED <<dir, oldDir, seen, gone, risks>>

\* ... and removed by its path: two hooks may both have confirmed it, and the
\* second then removes the marker of the first.
RemoveMarker(h) ==
  /\ pc[h] = "rmMarker"
  /\ dir' = IF dir = NoDir \/ dir.marker = None THEN dir ELSE Touched(h, dir.owner, None)
  /\ Goto(h, "mark")
  /\ risks' = IF dir # NoDir /\ dir.marker # None /\ dir.marker.by \notin gone
                THEN risks \cup {"marker"} ELSE risks
  /\ UNCHANGED <<oldDir, seen, gone, marked>>

\* writeFile(recoveryPath, "wx"): no directory, or a marker that is there, ends
\* the recovery.
Mark(h) ==
  /\ pc[h] = "mark"
  /\ IF dir # NoDir /\ dir.marker = None
       THEN /\ dir' = Touched(h, dir.owner, [by |-> h, whole |-> FALSE, old |-> FALSE])
            /\ Goto(h, "fillMark")
            /\ UNCHANGED seen
       ELSE /\ Retry(h)
            /\ seen' = [seen EXCEPT ![h] = None]
            /\ UNCHANGED dir
  /\ UNCHANGED <<oldDir, gone, risks, marked>>

FillMark(h) ==
  /\ pc[h] = "fillMark"
  /\ dir' = IF dir # NoDir /\ IsMine(dir.marker, h) THEN [dir EXCEPT !.marker.whole = TRUE] ELSE dir
  /\ Goto(h, "recheck")
  /\ UNCHANGED <<oldDir, seen, gone, risks, marked>>

\* Mutant: the owner is not read again under the marker.
MutRecheck(h) ==
  /\ pc[h] = "recheck"
  /\ Goto(h, "rmOwner")
  /\ seen' = [seen EXCEPT ![h] = None]
  /\ UNCHANGED <<dir, oldDir, gone, risks, marked>>

\* The owner is read again: it must be the one that was seen, and stale.
Recheck(h) ==
  /\ pc[h] = "recheck"
  /\ Goto(h, IF \/ seen[h] # None /\ OwnerToken # seen[h]
                \/ OwnerToken # None /\ ~Stale(dir.owner)
               THEN "unmark" ELSE "rmOwner")
  /\ seen' = [seen EXCEPT ![h] = None]
  /\ UNCHANGED <<dir, oldDir, gone, risks, marked>>

RemoveOwner(h) ==
  /\ pc[h] = "rmOwner"
  /\ dir' = IF dir = NoDir \/ dir.owner = None THEN dir ELSE Touched(h, None, dir.marker)
  /\ Goto(h, "unmarkDone")
  /\ UNCHANGED <<oldDir, seen, gone, risks, marked>>

\* finally: the marker is removed when it is this hook's own.
Unmark(h) ==
  /\ pc[h] \in {"unmark", "unmarkDone"}
  /\ dir' = IF MarkerToken = h THEN Touched(h, dir.owner, None) ELSE dir
  /\ IF pc[h] = "unmark" THEN Retry(h) ELSE Goto(h, "rmdir")
  /\ UNCHANGED <<oldDir, seen, gone, risks, marked>>

\* rmdir(path) fails when the directory is not empty.
RemoveDir(h) ==
  /\ pc[h] = "rmdir"
  /\ dir' = IF Empty THEN NoDir ELSE dir
  /\ Retry(h)
  /\ UNCHANGED <<oldDir, seen, gone, risks, marked>>

\* releaseTurnLock compares the token, removes the owner and then the
\* directory.
Release(h) ==
  /\ pc[h] \in {"critical", "rmOwn", "rmOwnDir"}
  /\ CASE pc[h] = "critical" ->
            /\ Goto(h, IF OwnerToken = h THEN "rmOwn" ELSE "idle")
            /\ UNCHANGED dir
       [] pc[h] = "rmOwn" ->
            /\ dir' = IF dir = NoDir \/ dir.owner = None THEN dir ELSE Touched(h, None, dir.marker)
            /\ Goto(h, "rmOwnDir")
       [] pc[h] = "rmOwnDir" ->
            /\ dir' = IF Empty THEN NoDir ELSE dir
            /\ Goto(h, "idle")
  /\ UNCHANGED <<oldDir, seen, gone, risks, marked>>

\* The host kills a hook.
Kill(h) ==
  /\ h \notin gone
  /\ Cardinality(gone) < MaxKills
  /\ gone' = gone \cup {h}
  /\ Goto(h, "idle")
  /\ oldDir' = [oldDir EXCEPT ![h] = FALSE]
  /\ seen' = [seen EXCEPT ![h] = None]
  /\ marked' = [marked EXCEPT ![h] = None]
  /\ UNCHANGED <<dir, risks>>

OldFile(f) == IF f # None /\ f.by \in gone THEN [f EXCEPT !.old = TRUE] ELSE f

\* The lease of everything that hooks left behind passes.
Age ==
  /\ dir # NoDir
  /\ dir' = [dir EXCEPT !.owner = OldFile(@), !.marker = OldFile(@),
                        !.old = @ \/ pc[dir.last] \in {"idle", "mkdir", "lstat", "readOwner"}]
  /\ dir' # dir
  /\ UNCHANGED <<pc, oldDir, seen, gone, risks, marked>>

Acquire(h) ==
  \/ MakeDir(h)
  \/ OpenOwner(h)
  \/ FillOwner(h)
  \/ Undo(h)
  \/ UndoDir(h)

Recover(h) ==
  \/ Lstat(h)
  \/ ReadOwner(h)
  \/ ReadMarker(h)
  \/ RemoveMarker(h)
  \/ Mark(h)
  \/ FillMark(h)
  \/ Recheck(h)
  \/ RemoveOwner(h)
  \/ Unmark(h)
  \/ RemoveDir(h)

TurnLockNext ==
  \/ \E h \in Hooks : Begin(h) \/ Acquire(h) \/ Recover(h) \/ Release(h) \/ Kill(h)
  \/ Age

TurnLockSpec == TurnLockInit /\ [][TurnLockNext]_turnLockVars

\* A hook that is not killed runs on, the session goes on starting hooks, and
\* time passes.  Nothing has to be killed.
FairSpec ==
  /\ TurnLockSpec
  /\ \A h \in Hooks : WF_turnLockVars(Begin(h) \/ Acquire(h) \/ Recover(h) \/ Release(h))
  /\ WF_turnLockVars(Age)

-----------------------------------------------------------------------------
\* Type invariant.
TurnLockTypeOK ==
  /\ dir \in LockDir \cup {NoDir}
  /\ pc \in [Hooks -> Steps]
  /\ oldDir \in [Hooks -> BOOLEAN]
  /\ seen \in [Hooks -> Hooks \cup {None}]
  /\ marked \in [Hooks -> Hooks \cup {None}]
  /\ gone \subseteq Hooks
  /\ risks \subseteq Risks

\* Two hooks never change the state of a turn at the same time, although the
\* lock of a killed hook is removed in seven steps beside hooks that acquire
\* it.  There are two exceptions.  A directory that was left without an owner,
\* or whose owner another recoverer has just removed, is judged by the time it
\* had at lstat, and there is no token to compare later.  And two recoverers
\* that confirm the marker of a killed one may remove each other's.
Exclusive ==
  risks = {} => \A h, k \in Hooks : pc[h] = "critical" /\ pc[k] = "critical" => h = k

\* A marker that was opened and never written: its hook was killed in between.
TornMarker == dir # NoDir /\ dir.marker # None /\ ~dir.marker.whole /\ dir.marker.by \in gone

Alone == Cardinality({h \in Hooks : pc[h] # "idle"}) <= 1

\* From the time on that hooks run one after the other, as they do in a session
\* without parallel tools, they get the lock again and again, whatever the
\* killed ones left behind; only a torn marker, which nobody may remove, keeps
\* them out for ever.
LockComesBack ==
  <>[]Alone => ([]<>(\E h \in Hooks : pc[h] = "critical") \/ <>[]TornMarker)
=============================================================================
