-------------------------------- MODULE Adoption -------------------------------
(***************************************************************************)
(* The local adoption ledger (plugins/riqor/hooks/adoption.ts and          *)
(* packages/riqor/src/adoption.ts): each event reads the file, adds to it  *)
(* and replaces it, without a lock, with a time that was taken before.     *)
(*                                                                         *)
(* One model stands for both ledgers, the skills and events of the package *)
(* being the kinds.  Left out: versions and times of day, which nothing    *)
(* decides on, the text of the report and the receipt with its buckets.    *)
(* Bounds: MaxDay, MaxEvents; nothing begins after a reset was undone by a *)
(* recorder under way, which is where the properties end.                  *)
(***************************************************************************)
EXTENDS Naturals, FiniteSets, FiniteSetsExt

CONSTANTS
  Recorders,  \* hooks and commands that record an event
  Kinds,      \* what they count: session, agentStart, each skill
  Skills,     \* the skills of these
  MaxDay,     \* bound: days
  MaxEvents   \* bound: events

ASSUME AdoptionAssumption ==
  /\ Kinds # {} /\ Skills \subseteq Kinds
  /\ MaxDay \in Nat \ {0} /\ MaxEvents \in Nat

VARIABLES
  ledger,    \* adoption.json
  day,       \* utcDay(Date.now())
  ids,       \* randomUUID: how many have been made
  rPc,       \* where each recorder is: idle, called, read
  rEvent,    \* its kind and the day it was called
  rSnap,     \* the ledger it has read
  happened,  \* history: events of each kind that were recorded since the last reset
  days,      \* history: the days of these events
  mixed      \* history: what overlapped since the last reset

lVars == <<ledger, day, ids, rPc, rEvent, rSnap, happened, days, mixed>>

Absent == [id |-> 0, counts |-> [k \in Kinds |-> 0], activeDays |-> 0, lastDay |-> 0]

\* Two recorders at once; a day that changed between the call and the read; a
\* reset while a recorder held the old ledger.
Mixes == {"overlap", "midnight", "revived"}

LInit ==
  /\ ledger = Absent
  /\ day = 1
  /\ ids = 0
  /\ rPc = [r \in Recorders |-> "idle"]
  /\ rEvent = [r \in Recorders |-> [kind |-> CHOOSE k \in Kinds : TRUE, day |-> 1]]
  /\ rSnap = [r \in Recorders |-> Absent]
  /\ happened = [k \in Kinds |-> 0]
  /\ days = {}
  /\ mixed = {}

SumOver(counts, kinds) == MapThenSumSet(LAMBDA k : counts[k], kinds)
Events == SumOver(happened, Kinds)
Busy == {r \in Recorders : rPc[r] # "idle"}

\* An event: the hook takes the time and calls.
Called(r, kind) ==
  /\ rPc[r] = "idle"
  /\ "revived" \notin mixed
  /\ Events + Cardinality(Busy) < MaxEvents
  /\ rPc' = [rPc EXCEPT ![r] = "called"]
  /\ rEvent' = [rEvent EXCEPT ![r] = [kind |-> kind, day |-> day]]
  /\ mixed' = IF Busy = {} THEN mixed ELSE mixed \cup {"overlap"}
  /\ UNCHANGED <<ledger, day, ids, rSnap, happened, days>>

ReadLedger(r) ==
  /\ rPc[r] = "called"
  /\ rPc' = [rPc EXCEPT ![r] = "read"]
  /\ rSnap' = [rSnap EXCEPT ![r] = ledger]
  /\ mixed' = IF day = rEvent[r].day THEN mixed ELSE mixed \cup {"midnight"}
  /\ UNCHANGED <<ledger, day, ids, rEvent, happened, days>>

\* Mutant: the first day is not counted.
MutNextLedgerDay(current, event) ==
  [id |-> IF current.id = 0 THEN ids + 1 ELSE current.id,
   counts |-> [current.counts EXCEPT ![event.kind] = @ + 1],
   activeDays |-> current.activeDays + (IF current.lastDay \in {0, event.day} THEN 0 ELSE 1),
   lastDay |-> event.day]

NextLedger(current, event) ==
  [id |-> IF current.id = 0 THEN ids + 1 ELSE current.id,
   counts |-> [current.counts EXCEPT ![event.kind] = @ + 1],
   activeDays |-> current.activeDays + (IF current.lastDay = event.day THEN 0 ELSE 1),
   lastDay |-> event.day]

\* rename of the new file over the ledger.
Replace(r) ==
  /\ rPc[r] = "read"
  /\ ledger' = NextLedger(rSnap[r], rEvent[r])
  /\ ids' = IF rSnap[r].id = 0 THEN ids + 1 ELSE ids
  /\ rPc' = [rPc EXCEPT ![r] = "idle"]
  /\ rSnap' = [rSnap EXCEPT ![r] = Absent]
  /\ happened' = [happened EXCEPT ![rEvent[r].kind] = @ + 1]
  /\ days' = days \cup {rEvent[r].day}
  /\ UNCHANGED <<day, rEvent, mixed>>

\* The hook is ended, or its write fails (boundedActivatorOperation drops the
\* error): the event is not counted.
Dropped(r) ==
  /\ rPc[r] # "idle"
  /\ rPc' = [rPc EXCEPT ![r] = "idle"]
  /\ rSnap' = [rSnap EXCEPT ![r] = Absent]
  /\ UNCHANGED <<ledger, day, ids, rEvent, happened, days, mixed>>

\* adoptionReport.
Report(current) ==
  [observed |-> current # Absent, activeDays |-> current.activeDays,
   counts |-> [k \in Kinds \ Skills |-> current.counts[k]],
   skillInvocations |-> SumOver(current.counts, Skills)]

\* resetAdoption, with recorders under way.
Reset ==
  /\ ledger # Absent
  /\ "revived" \notin mixed
  /\ ids < MaxEvents
  /\ ledger' = Absent
  /\ happened' = [k \in Kinds |-> 0]
  /\ days' = {}
  /\ mixed' = IF Busy = {} THEN {} ELSE mixed \cup {"revived"}
  /\ UNCHANGED <<day, ids, rPc, rEvent, rSnap>>

NextDay ==
  /\ day < MaxDay
  /\ day' = day + 1
  /\ UNCHANGED <<ledger, ids, rPc, rEvent, rSnap, happened, days, mixed>>

LNext ==
  \/ \E r \in Recorders : (\E kind \in Kinds : Called(r, kind)) \/ ReadLedger(r) \/ Replace(r) \/ Dropped(r)
  \/ Reset
  \/ NextDay

LSpec == LInit /\ [][LNext]_lVars

-----------------------------------------------------------------------------
\* Type invariant.
LTypeOK ==
  /\ ledger \in [id : Nat, counts : [Kinds -> Nat], activeDays : Nat, lastDay : 0..MaxDay]
  /\ rSnap \in [Recorders -> [id : Nat, counts : [Kinds -> Nat], activeDays : Nat, lastDay : 0..MaxDay]]
  /\ day \in 1..MaxDay
  /\ ids \in Nat
  /\ rPc \in [Recorders -> {"idle", "called", "read"}]
  /\ rEvent \in [Recorders -> [kind : Kinds, day : 1..MaxDay]]
  /\ happened \in [Kinds -> Nat]
  /\ days \subseteq 1..MaxDay
  /\ mixed \subseteq Mixes

\* One recorder at a time, with hooks that end before they have written: the report
\* counts every recorded event and every active day exactly once, from the first
\* event after a reset on.
AdoptionExact ==
  mixed = {} => Report(ledger) = [observed |-> \E k \in Kinds : happened[k] > 0, activeDays |-> Cardinality(days),
                                  counts |-> [k \in Kinds \ Skills |-> happened[k]],
                                  skillInvocations |-> SumOver(happened, Skills)]
=============================================================================
