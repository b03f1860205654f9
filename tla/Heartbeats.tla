------------------------------- MODULE Heartbeats -------------------------------
(***************************************************************************)
(* The heartbeat file of one session (scratchpad-isolation.ts): the        *)
(* session writes it over again and again, and whoever lists the active    *)
(* sessions removes it when it is too old or cannot be read.  Nobody       *)
(* holds a lock.  Sessions do not share files, so that one is enough.      *)
(* Bound: MaxBeatClock.                                                    *)
(***************************************************************************)
EXTENDS Naturals

CONSTANTS
  Listers,      \* processes that call listActiveSessions
  NoBeat,       \* there is no file
  Torn,         \* it is open for writing and empty
  ttlMs,
  MaxBeatClock  \* bound

ASSUME BeatAssumption ==
  /\ ttlMs \in Nat /\ MaxBeatClock \in Nat
  /\ NoBeat \notin Nat /\ Torn \notin Nat /\ NoBeat # Torn

VARIABLES
  beatClock,  \* Date.now()
  beatFile,   \* the heartbeat in the file: its time
  beater,     \* recordHeartbeat: its step, its time, and whether the path is still its file's
  lister,     \* listActiveSessions: its step, now, and what it has read
  beatAt,     \* history: the last heartbeat that was recorded
  hit         \* history: what has come between listers and the session since

beatVars == <<beatClock, beatFile, beater, lister, beatAt, hit>>

Resting == [step |-> "idle", at |-> 0, linked |-> TRUE]
Away == [step |-> "idle", now |-> 0, read |-> NoBeat]

BeatInit ==
  /\ beatClock = 1 /\ beatFile = NoBeat /\ beater = Resting
  /\ lister = [l \in Listers |-> Away]
  /\ beatAt = NoBeat /\ hit = {}

\* recordHeartbeat: the file is opened, which empties it, and filled then.
OpenBeat ==
  /\ beater.step = "idle" /\ beater' = [step |-> "fill", at |-> beatClock, linked |-> TRUE]
  /\ beatFile' = Torn
  /\ hit' = IF \E l \in Listers : lister[l].step = "remove" THEN hit \cup {"late"} ELSE hit
  /\ UNCHANGED <<beatClock, lister, beatAt>>

FillBeat ==
  /\ beater.step = "fill" /\ beater' = Resting
  /\ beatFile' = IF beater.linked THEN beater.at ELSE beatFile
  /\ beatAt' = beater.at
  /\ hit' = IF beater.linked /\ \A l \in Listers : lister[l].step # "remove" THEN {} ELSE hit
  /\ UNCHANGED <<beatClock, lister>>

KillBeat ==
  /\ beater.step = "fill" /\ beater' = Resting
  /\ hit' = hit \cup {"killed"}
  /\ UNCHANGED <<beatClock, beatFile, lister, beatAt>>

\* listActiveSessions: the time, then the names of the files.
BeginList(l) ==
  /\ lister[l].step = "idle" /\ beatFile # NoBeat
  /\ lister' = [lister EXCEPT ![l] = [step |-> "read", now |-> beatClock, read |-> NoBeat]]
  /\ UNCHANGED <<beatClock, beatFile, beater, beatAt, hit>>

\* Mutant: a heartbeat expires with its lifetime, not after it.
MutExpired(now, content) == content \notin {NoBeat, Torn} => now >= content + ttlMs

\* Too old, or an error to read or to parse.
Expired(now, content) == content \notin {NoBeat, Torn} => now > content + ttlMs

ReadBeat(l) ==
  /\ lister[l].step = "read"
  /\ lister' = [lister EXCEPT ![l] = IF Expired(@.now, beatFile) THEN [@ EXCEPT !.step = "remove", !.read = beatFile]
                                     ELSE Away]
  /\ hit' = IF beater.step = "fill" /\ beater.linked THEN hit \cup {"torn"} ELSE hit
  /\ UNCHANGED <<beatClock, beatFile, beater, beatAt>>

RemoveBeat(l) ==
  /\ lister[l].step = "remove" /\ lister' = [lister EXCEPT ![l] = Away]
  /\ beatFile' = NoBeat
  /\ beater' = [beater EXCEPT !.linked = beater.step = "idle"]
  /\ UNCHANGED <<beatClock, beatAt, hit>>

BeatTick ==
  /\ beatClock < MaxBeatClock /\ beatClock' = beatClock + 1
  /\ UNCHANGED <<beatFile, beater, lister, beatAt, hit>>

BeatNext ==
  \/ OpenBeat \/ FillBeat \/ KillBeat \/ BeatTick
  \/ \E l \in Listers : BeginList(l) \/ ReadBeat(l) \/ RemoveBeat(l)

BeatSpec == BeatInit /\ [][BeatNext]_beatVars
-----------------------------------------------------------------------------
\* Between its heartbeats a session that has sent one within the lifetime is on file,
\* with its last one, however many processes list the sessions and clear away what has
\* expired.  Three things break it, none of which the code guards against: a lister
\* that reads the file while it is empty, one that has found an old heartbeat and
\* removes the path when a new one is being written or has been, and a session that
\* is killed as it writes.  The next heartbeat repairs what they did.
FreshIsListed ==
  hit = {} /\ beater.step = "idle" /\ beatAt # NoBeat /\ beatClock <= beatAt + ttlMs => beatFile = beatAt
=============================================================================
