------------------------------- MODULE FileLock -------------------------------
(***************************************************************************)
(* The lock file of withFileLock (src/assurance/run-store.ts), which       *)
(* guards a run and the active pointer, and of withSessionLock             *)
(* (src/terminal-runtime.ts), the same protocol without a time limit.      *)
(*                                                                         *)
(* The file is created with "wx" and then filled with the creator's pid;   *)
(* an acquirer that finds a file looks at it in three steps (lstat, read,  *)
(* probe the pid) and removes it by path when it takes it for stale.       *)
(*                                                                         *)
(* Bounds: pids are not reused, and a live process has its lock file for   *)
(* less than staleMs, so that only files of ended processes grow old.      *)
(***************************************************************************)
EXTENDS Naturals

CONSTANTS
  Procs,     \* processes, by pid
  NoOwner,    \* no owner, or an owner that cannot be read
  NoFile,    \* there is no lock file
  MayCrash,  \* may a process be killed inside the protocol?
  MayExit    \* may a process end between two sections?

ASSUME NoOwnerAssumption == NoOwner \notin Procs
ASSUME NoFileAssumption == NoFile \notin [creator : Procs, named : BOOLEAN, old : BOOLEAN]
ASSUME FlagsAssumption == MayCrash \in BOOLEAN /\ MayExit \in BOOLEAN

VARIABLES
  file,   \* the lock file: its creator, does it hold the pid, is it older than staleMs
  pc,     \* where each process is
  entry,  \* was the file old that a waiter saw with lstat?
  owner,  \* the pid the waiter read from the file
  gone    \* processes that have ended

vars == <<file, pc, entry, owner, gone>>

LockFile == [creator : Procs, named : BOOLEAN, old : BOOLEAN]

Steps == {"idle", "open", "lstat", "read", "probe", "remove", "created", "critical"}

Init ==
  /\ file = NoFile
  /\ pc = [p \in Procs |-> "idle"]
  /\ entry = [p \in Procs |-> FALSE]
  /\ owner = [p \in Procs |-> NoOwner]
  /\ gone = {}

Goto(p, step) == pc' = [pc EXCEPT ![p] = step]

Begin(p) ==
  /\ pc[p] = "idle"
  /\ p \notin gone
  /\ Goto(p, "open")
  /\ UNCHANGED <<file, entry, owner, gone>>

\* open(lockPath, "wx") creates the file, empty, or reports EEXIST.
Open(p) ==
  /\ pc[p] = "open"
  /\ IF file = NoFile
       THEN file' = [creator |-> p, named |-> FALSE, old |-> FALSE] /\ Goto(p, "created")
       ELSE Goto(p, "lstat") /\ UNCHANGED file
  /\ UNCHANGED <<entry, owner, gone>>

\* existingFileKind: the file may be gone again, then open is tried again.
Lstat(p) ==
  /\ pc[p] = "lstat"
  /\ IF file = NoFile
       THEN Goto(p, "open") /\ UNCHANGED entry
       ELSE Goto(p, "read") /\ entry' = [entry EXCEPT ![p] = file.old]
  /\ UNCHANGED <<file, owner, gone>>

\* lockOwnerAlive reads the pid, from whatever file has the path by now.
ReadOwner(p) ==
  /\ pc[p] = "read"
  /\ owner' = [owner EXCEPT ![p] =
       IF file # NoFile /\ file.named THEN file.creator ELSE NoOwner]
  /\ Goto(p, "probe")
  /\ UNCHANGED <<file, entry, gone>>

\* Mutant: a file without a pid is taken for stale at once.
MutStale(p) == owner[p] \in gone \cup {NoOwner}

\* Mutant: a file without a pid is never stale.
MutStaleNever(p) == owner[p] \in gone

\* process.kill(pid, 0) finds no such process, or the file that names none
\* was old.
Stale(p) == owner[p] \in gone \/ (owner[p] = NoOwner /\ entry[p])

\* lockOwnerAlive probes the pid it has read; a waiter sleeps and tries again
\* or gives up.
Probe(p) ==
  /\ pc[p] = "probe"
  /\ \/ Stale(p) /\ Goto(p, "remove")
     \/ ~Stale(p) /\ Goto(p, "open")
     \/ ~Stale(p) /\ Goto(p, "idle")
  /\ owner' = [owner EXCEPT ![p] = NoOwner]
  /\ entry' = [entry EXCEPT ![p] = FALSE]
  /\ UNCHANGED <<file, gone>>

\* rm(lockPath): the path, whoever's file it leads to now.
RemoveStale(p) ==
  /\ pc[p] = "remove"
  /\ file' = NoFile
  /\ Goto(p, "open")
  /\ UNCHANGED <<entry, owner, gone>>

\* The pid is written to the file that was opened, also when it is unlinked.
WriteOwner(p) ==
  /\ pc[p] = "created"
  /\ file' = IF file # NoFile /\ file.creator = p THEN [file EXCEPT !.named = TRUE] ELSE file
  /\ Goto(p, "critical")
  /\ UNCHANGED <<entry, owner, gone>>

\* finally: close and rm, after the action or a pid that could not be written.
Release(p) ==
  /\ pc[p] \in {"created", "critical"}
  /\ file' = NoFile
  /\ Goto(p, "idle")
  /\ UNCHANGED <<entry, owner, gone>>

End(p) ==
  /\ p \notin gone
  /\ IF pc[p] = "idle" THEN MayExit ELSE MayCrash
  /\ gone' = gone \cup {p}
  /\ Goto(p, "idle")
  /\ entry' = [entry EXCEPT ![p] = FALSE]
  /\ owner' = [owner EXCEPT ![p] = NoOwner]
  /\ UNCHANGED file

\* staleMs pass.
Age ==
  /\ file # NoFile
  /\ file.creator \in gone
  /\ file' = [file EXCEPT !.old = TRUE]
  /\ UNCHANGED <<pc, entry, owner, gone>>

Acquire(p) ==
  \/ Open(p)
  \/ Lstat(p)
  \/ ReadOwner(p)
  \/ Probe(p)
  \/ RemoveStale(p)
  \/ WriteOwner(p)

Next ==
  \/ \E p \in Procs : Begin(p) \/ Acquire(p) \/ Release(p) \/ End(p)
  \/ Age

Spec == Init /\ [][Next]_vars

\* A process that is not killed runs on, sections end, and time passes.
\* Nobody has to begin a section, to end, or to be killed.
FairSpec ==
  /\ Spec
  /\ \A p \in Procs : WF_vars(Acquire(p)) /\ WF_vars(pc[p] = "critical" /\ Release(p))
  /\ WF_vars(Age)

-----------------------------------------------------------------------------
\* As long as no process has ended, at most one is inside a section: waiters
\* look at the file in three steps and remove it in a fourth, yet no live
\* process is taken for a dead one.  RunTrace relies on it.
Exclusive ==
  gone = {} => \A p, q \in Procs : (pc[p] = "critical" /\ pc[q] = "critical") => p = q

Waiting == {"open", "lstat", "read", "probe", "remove"}

\* Whoever is killed, and wherever, a process that waits for the lock is not
\* left behind a file that nobody owns: some process gets the lock, or none
\* waits any more (autonomous baseline: "a lock whose owner process is gone is
\* recoverable").
LockRecovered ==
  (\E p \in Procs : pc[p] \in Waiting)
    ~> (\/ \E p \in Procs : pc[p] \in {"created", "critical"}
        \/ \A p \in Procs : pc[p] \notin Waiting)

-----------------------------------------------------------------------------
\* Type invariant.
TypeOK ==
  /\ file \in LockFile \cup {NoFile}
  /\ pc \in [Procs -> Steps]
  /\ entry \in [Procs -> BOOLEAN]
  /\ owner \in [Procs -> Procs \cup {NoOwner}]
  /\ gone \subseteq Procs

\* The inductive invariant behind Exclusive: while all processes live, the
\* file belongs to the process that created it, none is old, and no waiter
\* is about to remove it.
IInv ==
  /\ TypeOK
  /\ gone = {} =>
       \A p \in Procs :
         /\ pc[p] \in {"created", "critical"} => file # NoFile /\ file.creator = p
         /\ pc[p] # "remove"
         /\ ~entry[p]
  /\ gone = {} => (file # NoFile => ~file.old)
=============================================================================
