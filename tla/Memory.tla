--------------------------------- MODULE Memory ---------------------------------
(***************************************************************************)
(* The files in which agents keep what they learn, without a lock:         *)
(* CognitiveMemoryLedger (cognitive-memory.ts), the scratchpad of a        *)
(* session (scratchpad-isolation.ts), the crystallized rules and the       *)
(* evidence ledger.  A behaviour is about one of them; which says of which.*)
(*                                                                         *)
(* The first three are read as a whole, changed and written over: opened   *)
(* empty and filled then, so that a process killed in between leaves an    *)
(* empty file, which is read as no entries.  The evidence is appended to.  *)
(* An entry is its project, key or category, and a number.  The content of *)
(* the entries is left out; Heartbeats has the heartbeats.                 *)
(* Bound: MaxEntries.                                                      *)
(***************************************************************************)
EXTENDS Subsequence, FiniteSets

CONSTANTS
  Writers, Projects, NoProject,
  Missing,      \* there is no file
  maxCapacity,  \* entries of a project that cognitive-memory.json keeps
  MaxEntries    \* bound: entries that are added

Entry(p, n) == [project |-> p, n |-> n]
Entries == [project : Projects \cup {NoProject}, n : Nat]

ASSUME MemoryAssumption ==
  /\ NoProject \notin Projects /\ Missing \notin Seq(Entries)
  /\ maxCapacity \in Nat /\ MaxEntries \in Nat

VARIABLES
  which,
  file,
  writer,    \* of each process: its step, its entry and what it writes
  entries,   \* calls so far
  added,     \* history: the entries of the calls that ended, in that order
  disturbed  \* history: calls have overlapped, or one was killed while it wrote

memVars == <<which, file, writer, entries, added, disturbed>>

Idle == [step |-> "idle", entry |-> Entry(NoProject, 0), content |-> <<>>]

MemInit ==
  /\ which \in {"memory", "scratchpad", "rules", "evidence"}
  /\ file = Missing /\ writer = [w \in Writers |-> Idle]
  /\ entries = 0 /\ added = <<>> /\ disturbed = FALSE

Of(list, p) == Selected(list, {k \in DOMAIN list : list[k].project = p})

\* list without the first n entries of p.
WithoutOldest(list, p, n) ==
  LET sofar(k) == Cardinality({j \in 1..k : list[j].project = p})
  IN  Selected(list, {k \in DOMAIN list : ~(list[k].project = p /\ sofar(k) <= n)})

Excess(list) == IF Len(list) > maxCapacity THEN Len(list) - maxCapacity ELSE 0

\* Mutant: what is over the capacity is counted over all projects.
MutPruned(list, p) == WithoutOldest(list, p, Excess(list))

\* The oldest entries of the project go, as many as there are too many.
Pruned(list, p) == WithoutOldest(list, p, Excess(Of(list, p)))

\* The rules to begin with: the global ones, or the defaults.
FirstRules == <<Entry(NoProject, 0)>>

Loaded == IF file = Missing THEN (IF which = "rules" THEN FirstRules ELSE <<>>) ELSE file

\* A key of the scratchpad has one value.
Put(list, e) == Append(Selected(list, {k \in DOMAIN list : list[k].project # e.project}), e)

\* The header of the evidence, when there is no file yet.
Header == Entry(NoProject, 0)
Formatted(e) == IF file = Missing THEN <<Header, e>> ELSE <<e>>

\* addCrystallizedRule.
Push(list, e) == Append(list, e)

\* loadEntries and what addEntry makes of it; the same for the others.
Load(w, p) ==
  /\ writer[w].step = "idle" /\ entries < MaxEntries
  /\ entries' = entries + 1
  /\ LET e == Entry(p, entries + 1)
         content == CASE which = "memory" -> Pruned(Append(Loaded, e), p)
                      [] which = "scratchpad" -> Put(Loaded, e)
                      [] which = "rules" -> Push(Loaded, e)
                      [] which = "evidence" -> Formatted(e)
     IN  writer' = [writer EXCEPT ![w] = [step |-> "open", entry |-> e, content |-> content]]
  /\ disturbed' = (disturbed \/ \E v \in Writers : writer[v].step # "idle")
  /\ UNCHANGED <<which, file, added>>

Ended(w) == writer' = [writer EXCEPT ![w] = Idle] /\ added' = Append(added, writer[w].entry)

\* saveEntries.
OpenFile(w) ==
  /\ which # "evidence"
  /\ writer[w].step = "open" /\ writer' = [writer EXCEPT ![w].step = "fill"]
  /\ file' = <<>>
  /\ UNCHANGED <<which, entries, added, disturbed>>

FillFile(w) ==
  /\ writer[w].step = "fill" /\ Ended(w)
  /\ file' = writer[w].content
  /\ UNCHANGED <<which, entries, disturbed>>

\* appendFile: at the end of what the file is by then.
AppendFile(w) ==
  /\ which = "evidence" /\ writer[w].step = "open" /\ Ended(w)
  /\ file' = (IF file = Missing THEN <<>> ELSE file) \o writer[w].content
  /\ UNCHANGED <<which, entries, disturbed>>

KillWriter(w) ==
  /\ writer[w].step # "idle" /\ writer' = [writer EXCEPT ![w] = Idle]
  /\ disturbed' = (disturbed \/ writer[w].step = "fill")
  /\ UNCHANGED <<which, file, entries, added>>

MemNext == \E w \in Writers : \/ \E p \in Projects : Load(w, p)
                              \/ OpenFile(w) \/ FillFile(w) \/ AppendFile(w) \/ KillWriter(w)

MemSpec == MemInit /\ [][MemNext]_memVars
-----------------------------------------------------------------------------
Latest(all, n) == LET m == IF Len(all) > n THEN n ELSE Len(all) IN SubSeq(all, Len(all) - m + 1, Len(all))

\* Calls that do not overlap lose nothing to one another and to crashes outside a
\* write: the memory holds of each project the newest entries up to the capacity,
\* whatever the other projects add, the scratchpad the last value of each key, and
\* the rules all that were added after those there were.  The evidence holds every
\* entry in order below a header even when calls overlap.
NewestRemembered ==
  LET text == IF file = Missing THEN <<>> ELSE file
      quiet == ~disturbed /\ \A w \in Writers : writer[w].step = "idle"
  IN  IF which = "evidence"
        THEN Selected(text, {k \in DOMAIN text : text[k] # Header}) = added /\ (text # <<>> => Head(text) = Header)
        ELSE quiet =>
          /\ which = "rules" /\ added # <<>> => Of(text, NoProject) = FirstRules
          /\ \A p \in Projects :
               LET all == Of(added, p)
               IN  Of(text, p) = Latest(all, CASE which = "memory" -> maxCapacity
                                               [] which = "scratchpad" -> 1 [] OTHER -> Len(all))
=============================================================================
