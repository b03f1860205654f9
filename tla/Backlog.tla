-------------------------------- MODULE Backlog --------------------------------
(***************************************************************************)
(* The backlog policy (scripts/backlog-lib.ts, backlog-policy.ts) as the   *)
(* gate of the records under backlog/: which boards it accepts, and how a  *)
(* board changes item by item through a gate like that.                    *)
(*                                                                         *)
(* A board is the items, the item lists and the dependencies of items and  *)
(* initiatives.  Of an item's fields those that depend on its status are   *)
(* modelled; of all the others what may be wrong with them.  Texts of      *)
(* errors, the rendered views and the checks on paths are left out.        *)
(***************************************************************************)
EXTENDS Naturals, Sequences, FiniteSets, Functions

CONSTANTS
  IdOrder,     \* the identifiers of items, those in use and others, in localeCompare's order
  Initiatives,
  NoPr,        \* github.pr is null
  Shared,      \* a pull request of several items; an item's own one is its id
  FirstBoards, \* the boards to begin with
  Used         \* bound: the statuses that changes give

VARIABLES
  board,       \* the records as they were accepted last
  answer       \* to the last change: "valid", "refused", or "none"

blVars == <<board, answer>>

ItemIds == Range(IdOrder)
ITEM_STATUSES == {"proposed", "accepted", "ready", "in-progress", "blocked", "review", "done", "deferred", "rejected"}

\* What may be wrong with the other fields of an item.
Faults == {"none", "forgotten", "malformed", "unknown", "twice"}

Items == [type : STRING, initiative : STRING, status : ITEM_STATUSES \cup Used, pr : ItemIds \cup {NoPr, Shared},
          blocked : BOOLEAN, completion : BOOLEAN, fault : Faults]
IsBoard(b) ==
  LET known == DOMAIN b.item
  IN  /\ DOMAIN b = {"item", "deps", "after", "lists"} /\ known \subseteq ItemIds
      /\ b.item \in [known -> Items] /\ b.deps \in [known -> SUBSET ItemIds]
      /\ b.after \in [Initiatives -> SUBSET STRING] /\ b.lists \in [Initiatives -> SUBSET STRING]

ASSUME BacklogAssumption ==
  /\ IdOrder \in Seq(STRING) /\ IsFiniteSet(Initiatives) /\ NoPr \notin ItemIds
  /\ (\A b \in FirstBoards : IsBoard(b))

WIP_LIMITS == [runtime |-> 2, governance |-> 1, release |-> 1]

\* An item: its type, initiative, status and pull request; whether blocked and
\* completion are filled in; whether another field is malformed, unknown or holds
\* a value twice.
NewItem(type, initiative) ==
  [type |-> type, initiative |-> initiative, status |-> "proposed", pr |-> NoPr,
   blocked |-> FALSE, completion |-> FALSE, fault |-> "none"]

BlInit == board \in FirstBoards /\ answer = "none"

-----------------------------------------------------------------------------
ItemOk(item) ==
  /\ item.fault # "malformed" /\ item.status \in ITEM_STATUSES
  /\ item.blocked <=> item.status = "blocked"
  /\ item.status \in {"in-progress", "review"} => item.pr # NoPr
  /\ item.completion <=> item.status = "done"

\* itemFieldErrors.
FieldsOk(item) == item.fault \notin {"unknown", "twice"}

\* validateBacklog: references and the lists of the initiatives agree.
ReferencesOk(b) ==
  LET items == DOMAIN b.item
  IN  /\ \A n \in Initiatives : n \notin b.after[n] /\ b.after[n] \subseteq Initiatives
      /\ \A n \in Initiatives : \A i \in b.lists[n] : i \in items /\ b.item[i].initiative = n
      /\ \A i \in items : /\ b.item[i].initiative \in Initiatives /\ i \in b.lists[b.item[i].initiative]
                          /\ b.deps[i] \subseteq items /\ i \notin b.deps[i]

Searches == [active : SUBSET ItemIds, done : SUBSET ItemIds, found : BOOLEAN]

\* What is known when those in set have been visited, one after the other.  The order
\* in which a file names dependencies is left out: they too come in IdOrder's.
InTurn(set, visit, start) ==
  LET known[i \in 0..Len(IdOrder)] ==
        IF i = 0 THEN start
        ELSE IF IdOrder[i] \in set THEN visit[IdOrder[i]][known[i - 1]] ELSE known[i - 1]
  IN  known[Len(IdOrder)]

\* visit of dependencyCycles: depth first, with the items on the trail active.  n is
\* how many items may still not be on it, which bounds the recursion.
Visits(b) ==
  LET visit[n \in 0..Cardinality(DOMAIN b.item)] ==
        [id \in ItemIds |-> [st \in Searches |->
           IF id \in st.active THEN [st EXCEPT !.found = TRUE]
           ELSE IF id \in st.done \/ id \notin DOMAIN b.item \/ n = 0 THEN st
           ELSE LET end == InTurn(b.deps[id], visit[n - 1], [st EXCEPT !.active = @ \cup {id}])
                IN  [end EXCEPT !.active = @ \ {id}, !.done = @ \cup {id}]]]
  IN  visit[Cardinality(DOMAIN b.item)]

DependencyCycles(b) == InTurn(DOMAIN b.item, Visits(b), [active |-> {}, done |-> {}, found |-> FALSE]).found

\* initiativeCycleErrors: pass after pass, initiatives that wait for none that
\* remains are taken away, as long as there are any.
Remaining(b) ==
  LET left[n \in 0..Cardinality(Initiatives)] ==
        IF n = 0 THEN Initiatives ELSE {i \in left[n - 1] : b.after[i] \cap left[n - 1] # {}}
  IN  left[Cardinality(Initiatives)]

\* Mutant: an item that is done may have dependencies that are not.
MutReadinessErrors(b) ==
  {i \in DOMAIN b.item : /\ b.item[i].status \in {"ready", "in-progress", "review"}
                         /\ \E d \in b.deps[i] \cap DOMAIN b.item : b.item[d].status # "done"}

\* The items that have begun, or could, before those that they depend on are done.
ReadinessErrors(b) ==
  {i \in DOMAIN b.item : /\ b.item[i].status \in {"ready", "in-progress", "review", "done"}
                         /\ \E d \in b.deps[i] \cap DOMAIN b.item : b.item[d].status # "done"}

workClass(item) ==
  CASE item.type = "release" -> "release"
    [] item.type \in {"documentation", "maintenance"} -> "governance"
    [] OTHER -> "runtime"

InProgress(b) == {i \in DOMAIN b.item : b.item[i].status = "in-progress"}

\* Of each class so many pull requests; of each initiative one item.
WithinWip(b) ==
  /\ \A class \in DOMAIN WIP_LIMITS :
       Cardinality({IF b.item[i].pr = NoPr THEN i ELSE b.item[i].pr :
                      i \in {j \in InProgress(b) : workClass(b.item[j]) = class}}) <= WIP_LIMITS[class]
  /\ \A n \in Initiatives : Cardinality({i \in InProgress(b) : b.item[i].initiative = n}) <= 1

\* validateBacklogPolicy finds no error.
Valid(b) ==
  /\ \A i \in DOMAIN b.item : ItemOk(b.item[i]) /\ FieldsOk(b.item[i])
  /\ ReferencesOk(b)
  /\ ~DependencyCycles(b) /\ Remaining(b) = {}
  /\ ReadinessErrors(b) = {}
  /\ WithinWip(b)

-----------------------------------------------------------------------------
\* The fields go with the status, unless the author forgets them or gets another
\* field wrong.
Moved(b, i, status, pr, fault) ==
  LET forgets == fault = "forgotten"
  IN  [b EXCEPT !.item[i] = [@ EXCEPT !.status = status, !.pr = pr, !.blocked = (status = "blocked") # forgets,
                                      !.completion = (status = "done") # forgets, !.fault = fault]]

\* A change of one item goes in when the gate accepts the board it makes.  Work
\* that begins gets a pull request; mistakes are explored where work ends.
Change(i) ==
  \E status \in Used :
  \E pr \in IF status = "in-progress" THEN {NoPr, i, Shared} ELSE {board.item[i].pr},
     fault \in IF status = "done" THEN Faults ELSE {"none"} :
    LET b == Moved(board, i, status, pr, fault)
    IN  IF Valid(b) THEN board' = b /\ answer' = "valid"
        ELSE answer' = "refused" /\ UNCHANGED board

BlNext == \E i \in DOMAIN board.item : Change(i)

BlSpec == BlInit /\ [][BlNext]_blVars
-----------------------------------------------------------------------------
ClosedUnder(edges, set) == \A x \in set \cap DOMAIN edges : edges[x] \subseteq set

\* The items, or initiatives, that some one is after, directly or not.
Before(edges, set) ==
  LET all == set \cup UNION Range(edges)
  IN  {x \in all : \A c \in SUBSET all : set \subseteq c /\ ClosedUnder(edges, c) => x \in c}

OnCycle(edges) == {x \in DOMAIN edges : x \in Before(edges, edges[x])}

\* Both searches, written differently, find what the transitive closure finds.
CyclesFound ==
  LET known == [i \in DOMAIN board.item |-> board.deps[i] \cap DOMAIN board.item]
  IN  /\ DependencyCycles(board) <=> OnCycle(known) # {}
      /\ Remaining(board) =
           {n \in Initiatives : Before(board.after, {n}) \cap OnCycle(board.after) # {}}

Open(b) == {i \in DOMAIN b.item : b.item[i].status # "done"}
Ahead(status) ==
  CASE status \in {"proposed", "blocked"} -> "accepted"
    [] status = "accepted" -> "ready"
    [] status = "ready" -> "in-progress"
    [] status = "in-progress" -> "review"
    [] OTHER -> "done"

\* The rules together never stop the work.  An error is found exactly when some
\* item, or initiative, waits for itself; whatever was accepted before, what is
\* done rests on what is done, however indirectly; and as long as nothing is given
\* up some open item can take its next step with a pull request of its own.
AcceptedCanProceed ==
  /\ CyclesFound
  /\ Valid(board) =>
       /\ \A i \in DOMAIN board.item :
            board.item[i].status = "done" => Before(board.deps, {i}) \cap Open(board) = {}
       /\ Open(board) # {} /\ (\A i \in Open(board) : board.item[i].status \notin {"deferred", "rejected"}) =>
            \E i \in Open(board) : Valid(Moved(board, i, Ahead(board.item[i].status), i, "none"))
=============================================================================
