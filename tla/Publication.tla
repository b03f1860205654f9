------------------------------ MODULE Publication ------------------------------
(***************************************************************************)
(* Publishing the evidence of a benchmark (publishEvidence and             *)
(* acquirePublicationLock in src/cli.ts): several files are replaced one   *)
(* after the other under a lock directory, and put back from backups when  *)
(* that fails, or by the next publisher when the process was killed.       *)
(*                                                                         *)
(* A publisher is a process that publishes once; its stamp is its          *)
(* generation of the files.  The encoder and the texts are left out.       *)
(* Bun.file(p).exists() may or may not say yes for a directory: sees is    *)
(* either, for a whole behaviour.  A lock without an owner is older than 5 *)
(* seconds only when its maker is gone.  The owner and the marker of a     *)
(* stale lock are read at once: between them only another recovery could   *)
(* come, which the next step takes for the first fault.  Copies under way  *)
(* when another one fails are taken to have ended as they are.  Bounds:    *)
(* MaxFaults, and nothing is followed past the first of the three named    *)
(* faults (Robbing, RollBack, KillPublisher).                                 *)
(***************************************************************************)
EXTENDS Naturals, FiniteSets

CONSTANTS
  Publishers, \* processes, and the generations they publish
  Files,      \* finalPaths, 1..n in their order
  Absent,    \* no file, no owner
  Cut,       \* a copy that is not complete
  Older,      \* the generation that was there before
  MaxFaults   \* bound: processes that are killed and file operations that fail

ASSUME PublicationAssumption ==
  /\ IsFiniteSet(Files) /\ Files = 1..Cardinality(Files) /\ Files # {}
  /\ MaxFaults \in Nat
  /\ Absent \notin Publishers /\ Older \notin Publishers \cup {Absent}
  /\ Cut \notin Publishers \cup {Older, Absent}

VARIABLES
  final,    \* the generation of each published file, or a copy that was cut
  pending,  \* temporaryPaths: which files each publisher has written
  backups,  \* backupPaths: the generation each backup holds, or a copy that is not complete
  pubLock,  \* the lock directory: its maker, owner.json and committed
  recDir,   \* the recovery directory and its owner.json
  pub,      \* where each publisher is, and at which file; the files that were there before it
            \* (existed); the owner it is recovering from
  dead,     \* processes that were killed
  fails,    \* file operations that have failed
  sees,     \* does exists() see directories?
  fault     \* history: a fault that ends the behaviour, see Robbing, RollBack and KillPublisher

pubVars == <<final, pending, backups, pubLock, recDir, pub, dead, fails, sees, fault>>
disk == <<final, pending, backups>>
dirs == <<pubLock, recDir>>

Generations == Publishers \cup {Older, Absent}
Copies == Generations \cup {Cut}
Owners == Publishers \cup {Absent}
NoFiles == [i \in Files |-> Absent]
NoLock == [by |-> Absent, owner |-> Absent, existed |-> {}, committed |-> FALSE]
NewLock(p) == [NoLock EXCEPT !.by = p]
NoRecovery == [made |-> FALSE, owner |-> Absent]
Made == pubLock.by # Absent

PubInit ==
  /\ final \in {NoFiles, [i \in Files |-> Older]}
  /\ pending = [p \in Publishers |-> {}]
  /\ backups = [p \in Publishers |-> NoFiles]
  /\ pubLock = NoLock /\ recDir = NoRecovery
  /\ pub = [p \in Publishers |-> [step |-> "start", at |-> 1, existed |-> {}, stale |-> Absent]]
  /\ dead = {} /\ fails = 0 /\ sees \in BOOLEAN /\ fault = FALSE

At(p, s) == pub[p].step = s /\ p \notin dead
Go(p, s) == pub' = [pub EXCEPT ![p].step = s]
Alive(p) == p \in Publishers /\ p \notin dead /\ pub[p].step \notin {"done", "failed"}

MoreFaults == fails + Cardinality(dead) < MaxFaults

\* A file operation fails.
Fail == MoreFaults /\ fails' = fails + 1

\* The step s for every file in turn, and then the step after.
NextFile(p, after) ==
  IF pub[p].at + 1 \in Files THEN pub' = [pub EXCEPT ![p].at = @ + 1]
  ELSE pub' = [pub EXCEPT ![p].at = 1, ![p].step = after]

\* A recovery that is at the lock of a process that lives is the first fault:
\* the owner is probed before the recovery begins and never again.
Robbing(p) == (Made /\ Alive(pubLock.by)) \/ pubLock.owner # pub[p].stale
Robs(p) == fault' = Robbing(p)

-----------------------------------------------------------------------------
\* acquirePublicationLock

LookForRecovery(p) ==
  /\ At(p, "start")
  /\ Go(p, IF sees /\ recDir.made THEN "probe" ELSE "mkdir")
  /\ UNCHANGED <<disk, dirs, dead, fails, sees, fault>>

\* A recovery that is under way is left alone.
ProbeRecovery(p) ==
  /\ At(p, "probe")
  /\ Go(p, IF Alive(recDir.owner) THEN "failed" ELSE "rmrec")
  /\ UNCHANGED <<disk, dirs, dead, fails, sees, fault>>

\* One whose owner was gone, or not written yet, is removed: whoever has it now.
RemoveRecovery(p) ==
  /\ At(p, "rmrec")
  /\ recDir' = NoRecovery
  /\ Go(p, "mkdir")
  /\ UNCHANGED <<disk, pubLock, dead, fails, sees, fault>>

MakeLock(p) ==
  /\ At(p, "mkdir")
  /\ IF Made THEN Go(p, "owner") /\ UNCHANGED pubLock ELSE pubLock' = NewLock(p) /\ Go(p, "existed")
  /\ UNCHANGED <<disk, recDir, dead, fails, sees, fault>>

\* A live owner, a lock that is being made, and one that has gone by now (stat
\* fails) end the attempt.
ReadOwner(p) ==
  /\ At(p, "owner")
  /\ Go(p, IF ~Made \/ Alive(IF pubLock.owner = Absent THEN pubLock.by ELSE pubLock.owner)
           THEN "failed" ELSE "mkrec")
  /\ UNCHANGED <<disk, dirs, dead, fails, sees, fault>>

MakeRecovery(p) ==
  /\ At(p, "mkrec")
  /\ IF recDir.made THEN Go(p, "failed") /\ UNCHANGED recDir
     ELSE recDir' = [NoRecovery EXCEPT !.made = TRUE] /\ Go(p, "ownrec")
  /\ UNCHANGED <<disk, pubLock, dead, fails, sees, fault>>

\* Another publisher may have removed the directory while it had no owner.
OwnRecovery(p) ==
  /\ At(p, "ownrec")
  /\ IF recDir.made THEN recDir' = [recDir EXCEPT !.owner = p] /\ Go(p, "stale")
     ELSE Go(p, "failed") /\ UNCHANGED recDir
  /\ UNCHANGED <<disk, pubLock, dead, fails, sees, fault>>

Recovering(p, next) ==
  pub' = [pub EXCEPT ![p] = [step |-> next, at |-> 1, existed |-> pubLock.existed, stale |-> pubLock.owner]]

\* The owner is read again, but not probed again.
ReadStale(p) ==
  /\ At(p, "stale")
  /\ Recovering(p, IF pubLock.owner = Absent THEN "unlock"
                   ELSE IF pubLock.committed THEN "sweep" ELSE "rollback")
  /\ fault' = (Made /\ Alive(pubLock.by))
  /\ UNCHANGED <<disk, dirs, dead, fails, sees>>

\* The files are put back one after the other: from the backup if it is there,
\* and removed if there was none before.  A backup that was cut is put back as
\* well, over the file it was copied from: the second fault.
RollBack(p) ==
  /\ At(p, "rollback")
  /\ LET i == pub[p].at
         s == pub[p].stale
     IN  CASE i \notin pub[p].existed -> final' = [final EXCEPT ![i] = Absent] /\ UNCHANGED backups
           [] backups[s][i] # Absent /\ i \in pub[p].existed ->
                /\ final' = [final EXCEPT ![i] = backups[s][i]]
                /\ backups' = [backups EXCEPT ![s][i] = Absent]
           [] OTHER -> UNCHANGED <<final, backups>>
  /\ NextFile(p, "sweep")
  /\ fault' = (Robbing(p) \/ (pub[p].at \in pub[p].existed /\ backups[pub[p].stale][pub[p].at] = Cut))
  /\ UNCHANGED <<pending, dirs, dead, fails, sees>>

\* What the killed process left is removed.
Sweep(p) ==
  /\ At(p, "sweep")
  /\ pending' = [pending EXCEPT ![pub[p].stale] = {}]
  /\ backups' = [backups EXCEPT ![pub[p].stale] = NoFiles]
  /\ Go(p, "unlock") /\ Robs(p)
  /\ UNCHANGED <<final, dirs, dead, fails, sees>>

Unlock(p) ==
  /\ At(p, "unlock")
  /\ pubLock' = NoLock
  /\ Go(p, "relock") /\ Robs(p)
  /\ UNCHANGED <<disk, recDir, dead, fails, sees>>

\* mkdir(lock) again: another publisher may have been faster.  stale is the
\* publisher itself when it has got the lock.
Relock(p) ==
  /\ At(p, "relock")
  /\ pubLock' = IF Made THEN pubLock ELSE NewLock(p)
  /\ pub' = [pub EXCEPT ![p] = [step |-> "unrec", at |-> 1, existed |-> {}, stale |-> IF Made THEN Absent ELSE p]]
  /\ UNCHANGED <<disk, recDir, dead, fails, sees, fault>>

\* finally: the recovery directory is removed.
EndRecovery(p) ==
  /\ At(p, "unrec")
  /\ recDir' = NoRecovery
  /\ Go(p, IF pub[p].stale = p THEN "existed" ELSE "failed")
  /\ UNCHANGED <<disk, pubLock, dead, fails, sees, fault>>

LookForFiles(p) ==
  /\ At(p, "existed")
  /\ pub' = [pub EXCEPT ![p].existed = {i \in Files : final[i] # Absent}, ![p].step = "own"]
  /\ UNCHANGED <<disk, dirs, dead, fails, sees, fault>>

\* owner.json is written into the directory that has the path by now.
OwnLock(p) ==
  /\ At(p, "own")
  /\ IF Made THEN pubLock' = [pubLock EXCEPT !.owner = p, !.existed = pub[p].existed] /\ Go(p, "write")
     ELSE Go(p, "failed") /\ UNCHANGED pubLock
  /\ UNCHANGED <<disk, recDir, dead, fails, sees, fault>>
-----------------------------------------------------------------------------
\* publishEvidence

\* The pending files are written; an encoder or a disk that fails leads to the
\* cleanup.
WritePending(p) ==
  /\ At(p, "write")
  /\ \/ pending' = [pending EXCEPT ![p] = Files] /\ Go(p, "backup") /\ UNCHANGED fails
     \/ Fail /\ Go(p, "clean") /\ UNCHANGED pending
  /\ UNCHANGED <<final, backups, dirs, dead, sees, fault>>

\* Mutant: the published files get no backup.
MutBackUp(p) ==
  /\ At(p, "backup")
  /\ Go(p, "rename")
  /\ UNCHANGED <<disk, dirs, dead, fails, sees, fault>>

\* The files that were there are copied beside each other, each in two steps at
\* least.
BackUp(p) ==
  /\ At(p, "backup")
  /\ \/ /\ \E i \in pub[p].existed :
             /\ backups[p][i] \in {Absent, Cut}
             /\ backups' = [backups EXCEPT ![p][i] = IF @ = Absent THEN Cut ELSE final[i]]
        /\ UNCHANGED <<pub, fails>>
     \/ /\ \A i \in pub[p].existed : backups[p][i] \notin {Absent, Cut}
        /\ Go(p, "rename") /\ UNCHANGED <<backups, fails>>
     \/ Fail /\ Go(p, "clean") /\ UNCHANGED backups
  /\ UNCHANGED <<final, pending, dirs, dead, sees, fault>>

\* One rename after the other; one that fails leads to the restoration.
RenameNext(p) ==
  /\ At(p, "rename")
  /\ \/ /\ final' = [final EXCEPT ![pub[p].at] = p]
        /\ pending' = [pending EXCEPT ![p] = @ \ {pub[p].at}]
        /\ NextFile(p, "commit") /\ UNCHANGED fails
     \/ /\ Fail
        /\ pub' = [pub EXCEPT ![p].step = "restore", ![p].at = 1]
        /\ UNCHANGED <<final, pending>>
  /\ UNCHANGED <<backups, dirs, dead, sees, fault>>

\* The marker "committed"; without it the files are restored.
Commit(p) ==
  /\ At(p, "commit")
  /\ \/ pubLock' = [pubLock EXCEPT !.committed = TRUE] /\ Go(p, "clean") /\ UNCHANGED fails
     \/ Fail /\ Go(p, "restore") /\ UNCHANGED pubLock
  /\ UNCHANGED <<disk, recDir, dead, sees, fault>>

\* Each file is restored on its own; those that fail keep their backups, and
\* the lock stays.
Restore(p) ==
  /\ At(p, "restore")
  /\ \E lost \in SUBSET Files :
       /\ IF lost = {} THEN UNCHANGED fails ELSE Fail
       /\ final' = [i \in Files |-> IF i \in lost THEN final[i]
                                    ELSE IF i \in pub[p].existed THEN backups[p][i] ELSE Absent]
       /\ backups' = [backups EXCEPT ![p] = [i \in Files |-> IF i \in lost THEN @[i] ELSE Absent]]
       /\ IF lost = {} THEN Go(p, "clean") /\ UNCHANGED pending
          ELSE pending' = [pending EXCEPT ![p] = {}] /\ Go(p, "failed")
  /\ UNCHANGED <<dirs, dead, sees, fault>>

\* finally: pending files, backups and lock are removed beside each other; the
\* lock's entries go before it does, in any order.
Clean(p) ==
  /\ At(p, "clean")
  /\ \/ /\ \E i \in Files : /\ i \in pending[p] \/ backups[p][i] # Absent
                            /\ pending' = [pending EXCEPT ![p] = @ \ {i}]
                            /\ backups' = [backups EXCEPT ![p][i] = Absent]
        /\ UNCHANGED <<pubLock, pub>>
     \/ /\ pubLock.by = p
        /\ pubLock' \in {[pubLock EXCEPT !.owner = Absent, !.existed = {}],
                         [pubLock EXCEPT !.committed = FALSE],
                         IF pubLock = NewLock(p) THEN NoLock ELSE pubLock} \ {pubLock}
        /\ UNCHANGED <<pending, backups, pub>>
     \/ /\ pending[p] = {} /\ backups[p] = NoFiles /\ pubLock.by # p
        /\ Go(p, "done")
        /\ UNCHANGED <<pending, backups, pubLock>>
  /\ UNCHANGED <<final, recDir, dead, fails, sees, fault>>

\* The process is killed.  The third fault: after the commit, while the cleanup
\* has removed the marker and not yet the owner; the next publisher takes it for
\* one that never committed.
KillPublisher(p) ==
  /\ Alive(p) /\ MoreFaults
  /\ dead' = dead \cup {p}
  /\ fault' = (At(p, "clean") /\ final = [i \in Files |-> p] /\ pubLock.owner = p /\ ~pubLock.committed)
  /\ UNCHANGED <<disk, dirs, pub, fails, sees>>

PubNext ==
  /\ ~fault
  /\ \E p \in Publishers :
       \/ LookForRecovery(p) \/ ProbeRecovery(p) \/ RemoveRecovery(p)
       \/ MakeLock(p) \/ ReadOwner(p) \/ MakeRecovery(p) \/ OwnRecovery(p)
       \/ ReadStale(p) \/ RollBack(p) \/ Sweep(p) \/ Unlock(p) \/ Relock(p) \/ EndRecovery(p)
       \/ LookForFiles(p) \/ OwnLock(p) \/ WritePending(p) \/ BackUp(p) \/ RenameNext(p)
       \/ Commit(p) \/ Restore(p) \/ Clean(p) \/ KillPublisher(p)

PubSpec == PubInit /\ [][PubNext]_pubVars
-----------------------------------------------------------------------------
PubSteps == {"start", "probe", "rmrec", "mkdir", "owner", "mkrec", "ownrec", "stale", "rollback", "sweep", "unlock",
             "relock", "unrec", "existed", "own", "write", "backup", "rename", "commit", "restore",
             "clean", "done", "failed"}

PubTypeOK ==
  /\ final \in [Files -> Copies]
  /\ pending \in [Publishers -> SUBSET Files]
  /\ backups \in [Publishers -> [Files -> Copies]]
  /\ pubLock \in [by : Owners, owner : Owners, existed : SUBSET Files, committed : BOOLEAN]
  /\ recDir \in [made : BOOLEAN, owner : Owners]
  /\ pub \in [Publishers -> [step : PubSteps, at : Files, existed : SUBSET Files, stale : Owners]]
  /\ dead \subseteq Publishers /\ IsFiniteSet(dead) /\ fails \in 0..MaxFaults
  /\ sees \in BOOLEAN /\ fault \in BOOLEAN

\* While nobody holds the lock, and outside the three faults, the published files
\* are complete and all of one generation: no kill, failed copy, failed rename,
\* failed restoration or recovery leaves a mixture or a part of a file.
OneGeneration == fault \/ Made \/ \A i, j \in Files : final[i] = final[j] /\ final[i] # Cut
=============================================================================
