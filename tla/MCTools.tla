-------------------------------- MODULE MCTools --------------------------------
(***************************************************************************)
(* The tools beside the harness: the installer, the shell integration, the *)
(* backlog policy, the loops and watchers of an agent and its files, and   *)
(* the release scripts, each explored by itself.                           *)
(***************************************************************************)
EXTENDS Installer, ShellBlock, Backlog, Loops, Watchers, Memory, Heartbeats, Release

VARIABLE explored

mcVars == <<explored, instVars, shVars, blVars, loopVars, watchVars, researchVars, lifeVars, memVars, beatVars, relVars>>

\* .zshenv before: plain, with an unclosed marker, with a block in the middle, with the
\* healer's markers in disorder.
MCFiles ==
  {<<"user1">>, <<"start", "user1">>, <<"user1", "start", "managed", "end", "blank", "user2">>,
   <<"END", "user1", "BEGIN", "user2">>}

MCIdOrder == <<"a", "b", "c", "ghost">>

\* Of 30000, 1 is less than half a hundredth of a percent.
MCMeasures == {-1, 0, 1, 30000, 30001}

\* Boards of three items and three initiatives: every graph of the items that has a
\* cycle or a reference to nothing, one of each form that has none, every graph of
\* the initiatives, and other types of items.
Known3 == {"a", "b", "c"}
On3(x, y, z) == [i \in Known3 |-> CASE i = "a" -> x [] i = "b" -> y [] OTHER -> z]
Board(kinds, deps, after) ==
  [item |-> [i \in Known3 |-> NewItem(kinds[i][1], kinds[i][2])], deps |-> deps, after |-> after,
   lists |-> [n \in Initiatives |-> {i \in Known3 : kinds[i][2] = n}]]
Plain == On3(<<"feature", "A">>, <<"feature", "B">>, <<"test", "C">>)
Others == {On3(<<"feature", "A">>, <<"feature", "A">>, <<"test", "B">>),
           On3(<<"release", "A">>, <<"release", "B">>, <<"feature", "C">>),
           On3(<<"maintenance", "A">>, <<"documentation", "B">>, <<"release", "C">>)}
Free == [n \in Initiatives |-> {}]
Fork == On3({}, {}, {"a"})
Ordered(edges) == edges["a"] = {} /\ edges["b"] \subseteq {"a"}
MCBoards ==
  {Board(Plain, deps, Free) :
     deps \in {d \in [Known3 -> SUBSET ItemIds] : /\ \A i \in {"b", "c"} : "ghost" \notin d[i]
                                                  /\ OnCycle(d) # {} \/ "ghost" \in d["a"] \/ Ordered(d)}}
  \cup {Board(kinds, Fork, Free) : kinds \in Others}
  \cup {Board(Plain, On3({}, {}, {}), after) :
          after \in {f \in [Initiatives -> SUBSET Initiatives] : OnCycle(f) # {} \/ (f["A"] = {} /\ f["B"] = {"A"})}}

\* codex-harness is of the old installer or the user's; he may put a file of his own
\* anywhere later.  The loader has a line of his.
SomeInst == InstInit /\ paths["codex-harness"] # "absent" /\ \A p \in Profile \cup {"cxh"} : paths[p] = "absent"
SomeShell == ShInit /\ (wrappers <=> interactive.is = "kaku") /\ loader = <<"user1">>

\* What is not explored stands still at one of its initial states.
StillInst == InstInit /\ paths = [p \in Bins \cup Profile |-> "absent"]
StillShell == ShInit /\ wrappers /\ zshenv = <<"user1">> /\ loader = <<>> /\ interactive = kaku(1)
StillBoard == board = [item |-> <<>>, deps |-> <<>>, after |-> Free, lists |-> Free] /\ answer = "none"
StillLoop == LoopInit /\ follows = "goal"
StillResearch == research.direction = "MINIMIZE" /\ research.baseline = 1

MCInit ==
  /\ explored \in {"install", "shell", "backlog", "loop", "watchdog", "research", "lifecycle", "memory",
                    "heartbeat", "release"}
  /\ IF explored = "install" THEN SomeInst ELSE StillInst
  /\ IF explored = "shell" THEN SomeShell ELSE StillShell
  /\ IF explored = "backlog" THEN BlInit ELSE StillBoard
  /\ IF explored = "loop" THEN LoopInit ELSE StillLoop
  /\ WatchersInit /\ (explored # "research" => StillResearch)
  /\ MemInit /\ (explored # "memory" => which = "memory")
  /\ BeatInit /\ RelInit

MCNext ==
  /\ UNCHANGED explored
  /\ \/ /\ explored = "install" /\ InstNext
        /\ UNCHANGED <<shVars, blVars, loopVars, watchVars, researchVars, lifeVars, memVars, beatVars, relVars>>
     \/ /\ explored = "shell" /\ ShNext
        /\ UNCHANGED <<instVars, blVars, loopVars, watchVars, researchVars, lifeVars, memVars, beatVars, relVars>>
     \/ /\ explored = "backlog" /\ BlNext
        /\ UNCHANGED <<instVars, shVars, loopVars, watchVars, researchVars, lifeVars, memVars, beatVars, relVars>>
     \/ /\ explored = "loop" /\ LoopNext
        /\ UNCHANGED <<instVars, shVars, blVars, watchVars, researchVars, lifeVars, memVars, beatVars, relVars>>
     \/ /\ explored = "watchdog" /\ WatchNext
        /\ UNCHANGED <<instVars, shVars, blVars, loopVars, researchVars, lifeVars, memVars, beatVars, relVars>>
     \/ /\ explored = "research" /\ ResearchNext
        /\ UNCHANGED <<instVars, shVars, blVars, loopVars, watchVars, lifeVars, memVars, beatVars, relVars>>
     \/ /\ explored = "lifecycle" /\ LifeNext
        /\ UNCHANGED <<instVars, shVars, blVars, loopVars, watchVars, researchVars, memVars, beatVars, relVars>>
     \/ /\ explored = "memory" /\ MemNext
        /\ UNCHANGED <<instVars, shVars, blVars, loopVars, watchVars, researchVars, lifeVars, beatVars, relVars>>
     \/ /\ explored = "heartbeat" /\ BeatNext
        /\ UNCHANGED <<instVars, shVars, blVars, loopVars, watchVars, researchVars, lifeVars, memVars, relVars>>
     \/ /\ explored = "release" /\ RelNext
        /\ UNCHANGED <<instVars, shVars, blVars, loopVars, watchVars, researchVars, lifeVars, memVars, beatVars>>

MCFairness == WF_mcVars(explored = "loop" /\ MCNext)

MCSpec == MCInit /\ [][MCNext]_mcVars /\ MCFairness

\* Whichever of the three classes it obeys, an agent that goes on as long as it is
\* told to comes to an end, whatever its results are, and for LoopGovernor even
\* when its step numbers stand still: results that go up and down are a plateau in
\* the end.
LoopAlwaysEnds == explored = "loop" => <>~ToldToGoOn
=============================================================================
