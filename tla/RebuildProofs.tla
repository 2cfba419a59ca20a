--------------------------- MODULE RebuildProofs ---------------------------
(* Theorems about Package when it does not build for the first time: what  *)
(* foo-rebuild leaves installed, what happens to a package that is         *)
(* extracted again, where no stale build stays installed, and why a recipe *)
(* that stopped can succeed.                                               *)
EXTENDS PackageProofs

-----------------------------------------------------------------------------
(* foo-rebuild and foo-reconfigure.                                        *)

\* Since foo-clean-for-rebuild ran, the stamps it removes come back with their
\* steps only, and each of these steps has handed on the sources as they are.
FreshInv ==
  LET p == goal.pkg IN
  goal.op \in ClearGoals /\ cleared =>
    /\ ClearSet \cap stamps[p] \subseteq visited[p]
    /\ "rsynced" \in visited[p] => dir[p].tree = src[p]
    /\ goal.op = "reconfigure" /\ "configured" \in visited[p] => dir[p].conf = dir[p].tree
    /\ "built" \in visited[p] => dir[p].obj = dir[p].tree
    /\ \A s \in AllPlaces \cap visited[p] : inst[p][s] = dir[p].tree

LEMMA ClearGoalFacts ==
  ASSUME TypeOK, goal.op \in ClearGoals
  PROVE  /\ goal.pkg \in Pkgs /\ goal # NoGoal
         /\ \A p \in Pkgs : Wanted(p) = AllSteps(p)
         /\ Roots = Selected
<1>1. /\ ClearGoals \cap (PartialGoals \cup WorldOps \cup {"idle"}) = {}
      /\ ClearGoals \cap StepGoals = {}
  BY DEF ClearGoals, PartialGoals, StepGoals, StampNames, PrepSteps, PlaceSteps, WorldOps
<1>2. goal.pkg \in Pkgs /\ goal # NoGoal
  BY <1>1 DEF TypeOK, Goals, NoGoal
<1>3. /\ goal.op \notin StepGoals /\ goal.op \in {"rebuild", "reconfigure"}
      /\ goal.op \notin {"source", "uninstall", "clean", "dirclean"}
  BY <1>1 DEF ClearGoals
<1>4. \A p \in Pkgs : Wanted(p) = AllSteps(p)
  BY <1>3 DEF Wanted
<1>5. Roots = Selected
  BY <1>3 DEF Roots
<1> QED BY <1>2, <1>4, <1>5

LEMMA ClearSetFacts ==
  /\ {"built"} \cup AllPlaces \subseteq ClearSet
  /\ goal.pkg \in Override => "rsynced" \in ClearSet
  /\ goal.op = "reconfigure" => "configured" \in ClearSet
  /\ ClearSet \subseteq StampNames
<1>1. /\ ClearOrder[2] = "built" /\ ClearOrder[3] = "staging_installed"
      /\ ClearOrder[4] = "target_installed" /\ ClearOrder[5] = "images_installed"
      /\ ClearOrder[6] = "host_installed"
  BY DEF ClearOrder
<1>2. {ClearOrder[i] : i \in 2 .. 6} = {"built"} \cup AllPlaces
  BY <1>1, StepNamesFacts
<1> QED BY <1>2, StepNamesFacts DEF ClearSet

\* A step that make is at comes before every step it has visited.
LEMMA NothingLater ==
  ASSUME TypeOK, MakeInv, NEW p \in Pkgs, NEW s \in StepNames, AtStep(p, s)
  PROVE  \A t \in visited[p] : ~(Rank[s] < Rank[t])
BY DEF AtStep, MakeInv, VisitedInOrder, Before

LEMMA FreshStep ==
  ASSUME TypeOK, MakeInv, FreshInv, NEW p \in Pkgs, StepOf(p),
         goal.op \in ClearGoals, p = goal.pkg
  PROVE  FreshInv'
<1> USE StepNamesFacts
<1>1. /\ stamps \in [Pkgs -> SUBSET StampNames] /\ visited \in [Pkgs -> SUBSET StepNames]
      /\ inst \in [Pkgs -> [AllPlaces -> Edits]]
      /\ dir \in [Pkgs -> DirType] /\ dir[p] \in DirType
  BY DEF TypeOK
<1>2. Wanted(p) = AllSteps(p) /\ goal # NoGoal
  BY ClearGoalFacts
<1>3. /\ \A s : AtStep(p, s) => s \in AllSteps(p) \ visited[p] /\ cleared
      /\ \A s : AtStep(p, s) => Before(p, s) \subseteq visited[p]
  BY <1>2 DEF AtStep
<1>4. \A s \in StepNames : AtStep(p, s) => \A t \in visited[p] : ~(Rank[s] < Rank[t])
  BY NothingLater
<1>5. cleared =>
        /\ ClearSet \cap stamps[p] \subseteq visited[p]
        /\ "rsynced" \in visited[p] => dir[p].tree = src[p]
        /\ goal.op = "reconfigure" /\ "configured" \in visited[p] => dir[p].conf = dir[p].tree
        /\ "built" \in visited[p] => dir[p].obj = dir[p].tree
        /\ \A s \in AllPlaces \cap visited[p] : inst[p][s] = dir[p].tree
  BY DEF FreshInv
<1>6. goal' = goal => ClearSet' = ClearSet
  BY DEF ClearSet
<1>7. \A s : Visit(p, s) => /\ goal' = goal /\ cleared' = cleared
                            /\ visited'[p] = visited[p] \cup {s}
  BY <1>1 DEF Visit
<1>8. \A s : Stamp(p, s) => Visit(p, s) /\ stamps'[p] = stamps[p] \cup {s}
  BY <1>1 DEF Stamp
<1>9. "rsynced" \in AllSteps(p) => p \in Override
  BY InstallStepsAreLate DEF AllSteps, ConfigureSteps
<1>10. "extracted" \in AllSteps(p) => p \notin Override
  BY InstallStepsAreLate DEF AllSteps, ConfigureSteps
\* What is left to show about a step s.
<1>11. ASSUME NEW s \in StepNames, Visit(p, s), cleared,
             ClearSet \cap stamps'[p] \subseteq visited[p] \cup {s},
             "rsynced" \in visited[p] \cup {s} => dir'[p].tree = src'[p],
             goal.op = "reconfigure" /\ "configured" \in visited[p] \cup {s} =>
               dir'[p].conf = dir'[p].tree,
             "built" \in visited[p] \cup {s} => dir'[p].obj = dir'[p].tree,
             \A t \in AllPlaces \cap (visited[p] \cup {s}) : inst'[p][t] = dir'[p].tree
      PROVE  FreshInv'
  BY <1>6, <1>7, <1>11 DEF FreshInv
<1>12. ASSUME NEW s \in StampNames, Skip(p, s) PROVE FreshInv'
  <2>1. s \in stamps[p] /\ s \notin visited[p] /\ cleared /\ s \in AllSteps(p)
    BY <1>3, <1>12 DEF Skip
  <2>2. s \notin ClearSet
    BY <1>5, <2>1
  <2>3. /\ s # "built" /\ s \notin AllPlaces /\ s # "rsynced"
        /\ goal.op = "reconfigure" => s # "configured"
    BY <1>9, <2>1, <2>2, ClearSetFacts
  <2>4. UNCHANGED <<stamps, src, dir, inst>> /\ Visit(p, s)
    BY <1>12 DEF Skip, diskVars
  <2> QED BY <1>11, <1>5, <2>1, <2>3, <2>4
<1>13. CASE VisitDepends(p)
  <2>1. UNCHANGED <<stamps, src, dir, inst>> /\ Visit(p, "depends") /\ cleared
    BY <1>13, <1>3 DEF VisitDepends, diskVars
  <2>2. "depends" \notin AllPlaces
    BY InstallStepsAreLate
  <2> QED BY <1>11, <1>5, <2>1, <2>2
<1>14. CASE Download(p)
  <2>1. /\ UNCHANGED <<src, dir, inst>> /\ Visit(p, "downloaded") /\ cleared
        /\ stamps'[p] = stamps[p] \cup {"downloaded"}
    BY <1>14, <1>3, <1>8 DEF Download, Recipe
  <2>2. "downloaded" \notin AllPlaces
    BY InstallStepsAreLate
  <2> QED BY <1>11, <1>5, <2>1, <2>2
<1>15. CASE Extract(p)
  <2>1. /\ UNCHANGED <<src, inst>> /\ Visit(p, "extracted") /\ cleared
        /\ stamps'[p] = stamps[p] \cup {"extracted"} /\ p \notin Override
    BY <1>15, <1>3, <1>8, <1>10 DEF Extract, Recipe
  <2>2. \A t \in visited[p] : ~(Rank["extracted"] < Rank[t])
    BY <1>15, <1>4 DEF Extract, Recipe
  <2>3. visited[p] \cap ({"configured", "built"} \cup AllPlaces) = {}
    BY <2>2 DEF Rank, AllPlaces, PlaceSteps
  <2>4. "rsynced" \notin visited[p]
    BY <1>9, <1>2, <2>1 DEF MakeInv, VisitedInOrder
  <2>5. "extracted" \notin AllPlaces
    BY InstallStepsAreLate
  <2> QED BY <1>11, <1>5, <2>1, <2>3, <2>4, <2>5
<1>16. CASE Rsync(p)
  <2>1. /\ UNCHANGED <<src, inst>> /\ Visit(p, "rsynced") /\ cleared
        /\ stamps'[p] = stamps[p] \cup {"rsynced"}
        /\ dir' = [dir EXCEPT ![p].tree = src[p]]
    BY <1>16, <1>3, <1>8 DEF Rsync, Recipe
  <2>2. \A t \in visited[p] : ~(Rank["rsynced"] < Rank[t])
    BY <1>16, <1>4 DEF Rsync, Recipe
  <2>3. visited[p] \cap ({"configured", "built"} \cup AllPlaces) = {}
    BY <2>2 DEF Rank, AllPlaces, PlaceSteps
  <2>4. dir'[p].tree = src'[p]
    BY <1>1, <2>1 DEF DirType
  <2>5. "rsynced" \notin AllPlaces
    BY InstallStepsAreLate
  <2> QED BY <1>11, <1>5, <2>1, <2>3, <2>4, <2>5
<1>17. CASE Patch(p)
  <2>1. /\ UNCHANGED <<src, inst>> /\ Visit(p, "patched") /\ cleared
        /\ stamps'[p] = stamps[p] \cup {"patched"}
    BY <1>17, <1>3, <1>8 DEF Patch, Recipe
  <2>2. PICK h : dir' = [dir EXCEPT ![p].patches = h]
    BY <1>17 DEF Patch
  <2>3. dir'[p].tree = dir[p].tree /\ dir'[p].conf = dir[p].conf /\ dir'[p].obj = dir[p].obj
    BY <1>1, <2>2 DEF DirType
  <2>4. "patched" \notin AllPlaces
    BY InstallStepsAreLate
  <2> QED BY <1>11, <1>5, <2>1, <2>3, <2>4
<1>18. CASE Configure(p)
  <2>1. /\ UNCHANGED <<src, inst>> /\ Visit(p, "configured") /\ cleared
        /\ stamps'[p] = stamps[p] \cup {"configured"}
        /\ dir' = [dir EXCEPT ![p].conf = dir[p].tree]
    BY <1>18, <1>3, <1>8 DEF Configure, Recipe
  <2>2. dir'[p].tree = dir[p].tree /\ dir'[p].conf = dir[p].tree /\ dir'[p].obj = dir[p].obj
    BY <1>1, <2>1 DEF DirType
  <2>3. "configured" \notin AllPlaces
    BY InstallStepsAreLate
  <2> QED BY <1>11, <1>5, <2>1, <2>2, <2>3
<1>19. CASE Build(p)
  <2>1. /\ UNCHANGED <<src, inst>> /\ Visit(p, "built") /\ cleared
        /\ stamps'[p] = stamps[p] \cup {"built"}
        /\ dir' = [dir EXCEPT ![p].obj = dir[p].tree]
    BY <1>19, <1>3, <1>8 DEF Build, Recipe
  <2>2. dir'[p].tree = dir[p].tree /\ dir'[p].conf = dir[p].conf /\ dir'[p].obj = dir[p].tree
    BY <1>1, <2>1 DEF DirType
  <2>3. "built" \notin AllPlaces
    BY InstallStepsAreLate
  <2> QED BY <1>11, <1>5, <2>1, <2>2, <2>3
<1>20. ASSUME NEW s \in AllPlaces, Install(p, s) PROVE FreshInv'
  <2>1. /\ UNCHANGED <<src, dir>> /\ Visit(p, s) /\ cleared /\ s \in AllSteps(p)
        /\ stamps'[p] = stamps[p] \cup {s}
        /\ inst' = [inst EXCEPT ![p][s] = dir[p].obj]
    BY <1>20, <1>3, <1>8 DEF Install, Recipe
  <2>2. "built" \in AllSteps(p)
    BY <2>1 DEF AllSteps
  <2>3. "built" \in visited[p]
    BY <1>20, <1>3, <1>2, <2>2, RankFacts DEF Before, Install, Recipe
  <2>4. dir[p].obj = dir[p].tree
    BY <1>5, <2>1, <2>3
  <2>5. inst'[p][s] = dir[p].tree /\ \A t \in AllPlaces \ {s} : inst'[p][t] = inst[p][t]
    BY <1>1, <2>1, <2>4
  <2>6. s \notin {"rsynced", "configured", "built"}
    BY InstallStepsAreLate
  <2> QED BY <1>11, <1>5, <2>1, <2>4, <2>5, <2>6
<1>21. ~Uninstall(p) /\ ~Clean(p) /\ ~Dirclean(p)
  <2>1. AllSteps(p) \cap {"uninstalled", "cleaned", "dircleaned"} = {}
    BY InstallStepsAreLate DEF AllSteps, ConfigureSteps
  <2> QED BY <1>3, <2>1 DEF Uninstall, Clean, Dirclean
<1> QED BY <1>12, <1>13, <1>14, <1>15, <1>16, <1>17, <1>18, <1>19, <1>20, <1>21 DEF StepOf

\* A step of one package leaves the others alone.
LEMMA OthersUntouched ==
  ASSUME TypeOK, NEW p \in Pkgs, StepOf(p), NEW q \in Pkgs, q # p
  PROVE  /\ goal' = goal /\ cleared' = cleared /\ src' = src
         /\ visited'[q] = visited[q] /\ ran'[q] = ran[q] /\ stamps'[q] = stamps[q]
         /\ dir'[q] = dir[q] /\ inst'[q] = inst[q]
<1>1. /\ stamps \in [Pkgs -> SUBSET StampNames] /\ visited \in [Pkgs -> SUBSET StepNames]
      /\ inst \in [Pkgs -> [AllPlaces -> Edits]] /\ ran \in [Pkgs -> SUBSET StepNames]
      /\ dir \in [Pkgs -> DirType]
  BY DEF TypeOK
<1>2. \A s : Visit(p, s) => goal' = goal /\ cleared' = cleared /\ visited'[q] = visited[q]
  BY <1>1 DEF Visit
<1>3. \A s : Stamp(p, s) => Visit(p, s) /\ ran'[q] = ran[q] /\ stamps'[q] = stamps[q]
  BY <1>1 DEF Stamp
<1>4. \A s : Rerun(p, s) => Visit(p, s) /\ ran'[q] = ran[q]
  BY <1>1 DEF Rerun
<1>5. ASSUME NEW s, Skip(p, s) \/ VisitDepends(p)
      PROVE  /\ goal' = goal /\ cleared' = cleared /\ src' = src
             /\ visited'[q] = visited[q] /\ ran'[q] = ran[q] /\ stamps'[q] = stamps[q]
             /\ dir'[q] = dir[q] /\ inst'[q] = inst[q]
  BY <1>5, <1>2 DEF Skip, VisitDepends, diskVars
<1>6. CASE Download(p) \/ Extract(p) \/ Rsync(p)
  BY <1>1, <1>6, <1>2, <1>3 DEF Download, Extract, Rsync
<1>7. CASE Patch(p) \/ Configure(p) \/ Build(p)
  BY <1>1, <1>7, <1>2, <1>3 DEF Patch, Configure, Build
<1>8. ASSUME NEW s \in AllPlaces, Install(p, s)
      PROVE  /\ goal' = goal /\ cleared' = cleared /\ src' = src
             /\ visited'[q] = visited[q] /\ ran'[q] = ran[q] /\ stamps'[q] = stamps[q]
             /\ dir'[q] = dir[q] /\ inst'[q] = inst[q]
  BY <1>1, <1>8, <1>2, <1>3 DEF Install
<1>9. CASE Uninstall(p) \/ Clean(p) \/ Dirclean(p)
  BY <1>1, <1>9, <1>2, <1>4 DEF Uninstall, Clean, Dirclean
<1> QED BY <1>5, <1>6, <1>7, <1>8, <1>9 DEF StepOf

LEMMA FreshNext == TypeOK /\ MakeInv /\ FreshInv /\ [Next]_vars => FreshInv'
<1> SUFFICES ASSUME TypeOK, MakeInv, FreshInv, [Next]_vars PROVE FreshInv' OBVIOUS
<1>1. "idle" \notin ClearGoals
  BY DEF ClearGoals
<1>2. ASSUME NEW op, NEW p, Start(op, p) PROVE FreshInv'
  <2>1. goal'.op = op /\ (op \in ClearGoals => ~cleared')
    BY <1>2 DEF Start
  <2> QED BY <2>1 DEF FreshInv
<1>3. CASE Exit
  BY <1>1, <1>3 DEF Exit, FreshInv, NoGoal
<1>4. CASE UNCHANGED goal /\ ~Running
  BY <1>1, <1>4 DEF FreshInv, NoGoal, Running
<1>5. CASE Clear
  <2>1. /\ goal' = goal /\ goal.pkg \in Pkgs /\ ClearSet' = ClearSet
    BY <1>5, ClearGoalFacts DEF Clear, ClearSet
  <2>2. PICK p \in Pkgs : p = goal.pkg
    BY <2>1
  <2>3. stamps'[p] = stamps[p] \ ClearSet
    BY <1>5, <2>2 DEF Clear, TypeOK
  <2>4. visited'[p] = {}
    BY <1>5, <2>2 DEF Clear, MakeInv, NothingBeforeClear, NothingVisited
  <2> QED BY <2>1, <2>2, <2>3, <2>4 DEF FreshInv
<1>6. CASE CleanOutput
  BY <1>6 DEF CleanOutput, FreshInv, ClearGoals
<1>7. ASSUME NEW p \in Pkgs, StepOf(p) PROVE FreshInv'
  <2>1. CASE goal.op \notin ClearGoals
    <3>1. goal' = goal
      BY <1>7 DEF StepOf, Skip, VisitDepends, Download, Extract, Rsync, Patch, Configure, Build,
                  Install, Uninstall, Clean, Dirclean, Stamp, Rerun, Visit
    <3> QED BY <2>1, <3>1 DEF FreshInv
  <2>2. CASE goal.op \in ClearGoals /\ p = goal.pkg
    BY <1>7, <2>2, FreshStep
  <2>3. CASE goal.op \in ClearGoals /\ p # goal.pkg
    <3>1. PICK q \in Pkgs : q = goal.pkg
      BY <2>3, ClearGoalFacts
    <3>2. /\ goal' = goal /\ cleared' = cleared /\ src' = src
          /\ visited'[q] = visited[q] /\ stamps'[q] = stamps[q]
          /\ dir'[q] = dir[q] /\ inst'[q] = inst[q]
      BY <1>7, <2>3, <3>1, OthersUntouched
    <3>3. ClearSet' = ClearSet
      BY <3>2 DEF ClearSet
    <3> QED BY <3>1, <3>2, <3>3 DEF FreshInv
  <2> QED BY <2>1, <2>2, <2>3
<1>8. CASE UNCHANGED vars
  BY <1>8 DEF vars, FreshInv, ClearSet
<1> QED BY <1>2, <1>3, <1>4, <1>5, <1>6, <1>7, <1>8, StopExits
       DEF Next, User, Advance, Stop, Edit, RemoveStamp, makeVars, Finish, Killed, ClearStops,
           CleanOutputStops, Die

\* When make has finished, it has visited every step of a needed package.
LEMMA NeededAreComplete ==
  ASSUME TypeOK, MakeInv, goal.op \in ClearGoals, Finished, NEW p \in Needed
  PROVE  p \in Pkgs /\ AllSteps(p) \subseteq visited[p]
<1> DEFINE S == {q \in Pkgs : Complete(q)}
<1>1. Selected \subseteq S
  BY PkgsAssumption, ClearGoalFacts DEF Finished
<1>2. ASSUME NEW q \in S, InstallSteps(q) # {} PROVE Deps[q] \subseteq S
  <2>1. "depends" \in Wanted(q)
    BY <1>2, ClearGoalFacts DEF AllSteps, ConfigureSteps
  <2>2. "depends" \in visited[q]
    BY <2>1 DEF Complete
  <2>3. Deps[q] \subseteq Pkgs
    BY PkgsAssumption
  <2> QED BY <2>2, <2>3 DEF MakeInv, VisitedInOrder
<1>3. S \in SUBSET Pkgs
  OBVIOUS
<1> HIDE DEF S
<1>4. p \in Pkgs /\ p \in S
  BY <1>1, <1>2, <1>3 DEF Needed
<1>5. Complete(p)
  BY <1>4 DEF S
<1> QED BY <1>4, <1>5, ClearGoalFacts DEF Complete

\* foo-rebuild and foo-reconfigure leave nothing stale installed, whatever was
\* killed, cleaned, cut short or removed by hand before them.
THEOREM RebuildsAreFresh == Spec => []RebuildIsFresh
<1>1. Init => FreshInv
  BY DEF Init, FreshInv, NoGoal, ClearGoals
<1>2. TypeOK /\ MakeInv /\ FreshInv => RebuildIsFresh
  <2> SUFFICES ASSUME TypeOK, MakeInv, FreshInv, NEW p \in Needed, p = goal.pkg,
                      goal.op \in {"rebuild", "reconfigure"}, Finished
               PROVE  /\ \A s \in InstallSteps(p) : inst[p][s] = dir[p].tree
                      /\ p \in Override /\ InstallSteps(p) # {} => dir[p].tree = src[p]
                      /\ goal.op = "reconfigure" /\ InstallSteps(p) # {} =>
                           dir[p].conf = dir[p].tree
    BY DEF RebuildIsFresh
  <2>1. goal.op \in ClearGoals /\ cleared
    BY DEF ClearGoals, Finished
  <2>2. p \in Pkgs /\ AllSteps(p) \subseteq visited[p]
    BY <2>1, NeededAreComplete
  <2>3. InstallSteps(p) \subseteq AllPlaces
    BY <2>2, InstallStepsAreLate
  <2>4. InstallSteps(p) # {} =>
          /\ InstallSteps(p) \cup {"configured"} \subseteq visited[p]
          /\ p \in Override => "rsynced" \in visited[p]
    BY <2>2 DEF AllSteps, ConfigureSteps
  <2> QED BY <2>1, <2>3, <2>4 DEF FreshInv
<1> QED BY <1>1, <1>2, FreshNext, MakeInvariant, PTL DEF Spec

-----------------------------------------------------------------------------
(* A package that is extracted again.                                      *)

Later == {s \in StampNames : Rank["extracted"] < Rank[s]}

\* No later stamp of a package is there without .stamp_extracted, and in an
\* invocation that had to extract it every later stamp is of that invocation.
ScratchOf(p) ==
  /\ p \notin Override /\ Later \cap stamps[p] # {} => "extracted" \in stamps[p]
  /\ "extracted" \in ran[p] => p \notin Override /\ Later \cap stamps[p] \subseteq ran[p]
ScratchInv == \A p \in Pkgs : ScratchOf(p)

LEMMA LaterFacts ==
  /\ Later = StampNames \ {"downloaded", "extracted"}
  /\ Later = {"patched", "rsynced", "configured", "built"} \cup AllPlaces
  /\ "downloaded" \notin AllPlaces /\ "extracted" \notin AllPlaces
BY DEF Later, Rank, StampNames, PrepSteps, PlaceSteps, AllPlaces

\* Stamps that disappear change nothing, as long as .stamp_extracted stays.
LEMMA FewerStamps ==
  ASSUME ScratchInv, NEW p \in Pkgs, stamps'[p] \subseteq stamps[p],
         "extracted" \in stamps[p] => "extracted" \in stamps'[p],
         ran'[p] = ran[p] \/ ran'[p] = {}
         \/ \E s : s # "extracted" /\ ran'[p] = ran[p] \cup {s}
  PROVE  ScratchOf(p)'
<1>1. ScratchOf(p)
  BY DEF ScratchInv
<1> QED BY <1>1 DEF ScratchOf, Later

LEMMA ScratchStep ==
  ASSUME TypeOK, MakeInv, ScratchInv, NEW p \in Pkgs, StepOf(p)
  PROVE  ScratchOf(p)'
<1> USE StepNamesFacts
<1>1. stamps \in [Pkgs -> SUBSET StampNames] /\ ran \in [Pkgs -> SUBSET StepNames]
  BY DEF TypeOK
<1>2. ScratchOf(p)
  BY DEF ScratchInv
<1>3. \A s : Stamp(p, s) => stamps'[p] = stamps[p] \cup {s} /\ ran'[p] = ran[p] \cup {s}
  BY <1>1 DEF Stamp
<1>4. \A s : Rerun(p, s) => ran'[p] = ran[p] \cup {s}
  BY <1>1 DEF Rerun
\* A recipe of a later step finds .stamp_extracted.
<1>5. ASSUME NEW s \in {"patched", "configured", "built"} \cup AllPlaces, Recipe(p, s),
             Stamp(p, s)
      PROVE  ScratchOf(p)'
  <2>1. s \in Wanted(p) /\ s \in StampNames /\ s # "extracted"
    BY <1>5, LaterFacts DEF Recipe, AtStep
  <2>2. p \notin Override => "extracted" \in Wanted(p)
    <3>1. s \in AllPlaces \cup {"built"} => "configured" \in Wanted(p)
      BY <2>1, WantedTogether
    <3>2. p \notin Override /\ "configured" \in Wanted(p) => "patched" \in Wanted(p)
      BY WantedTogether
    <3>3. "patched" \in Wanted(p) => "extracted" \in Wanted(p)
      BY WantedTogether
    <3> QED BY <1>5, <2>1, <3>1, <3>2, <3>3
  <2>3. Rank["extracted"] < Rank[s]
    BY <1>5, LaterFacts DEF Later
  <2>4. p \notin Override => "extracted" \in stamps[p]
    BY <1>5, <2>2, <2>3, StampedBefore DEF Recipe, MakeInv
  <2> QED BY <1>5, <1>2, <1>3, <2>1, <2>4 DEF ScratchOf
<1>6. ASSUME NEW s \in StampNames, Skip(p, s) PROVE ScratchOf(p)'
  BY <1>6, FewerStamps DEF Skip, diskVars
<1>7. CASE VisitDepends(p)
  BY <1>7, FewerStamps DEF VisitDepends, diskVars
<1>8. CASE Download(p)
  <2>1. stamps'[p] = stamps[p] \cup {"downloaded"} /\ ran'[p] = ran[p] \cup {"downloaded"}
    BY <1>8, <1>3 DEF Download
  <2> QED BY <1>2, <2>1, LaterFacts DEF ScratchOf
<1>9. CASE Extract(p)
  <2>1. /\ "extracted" \notin stamps[p] /\ p \notin Override
        /\ stamps'[p] = stamps[p] \cup {"extracted"}
    BY <1>9, <1>3, WantedTogether DEF Extract, Recipe, AtStep
  <2>2. Later \cap stamps'[p] = {}
    BY <1>2, <2>1, LaterFacts DEF ScratchOf
  <2> QED BY <2>1, <2>2 DEF ScratchOf
<1>10. CASE Rsync(p)
  <2>1. /\ p \in Override
        /\ stamps'[p] = stamps[p] \cup {"rsynced"} /\ ran'[p] = ran[p] \cup {"rsynced"}
    BY <1>10, <1>3, WantedTogether DEF Rsync, Recipe, AtStep
  <2> QED BY <1>2, <2>1 DEF ScratchOf
<1>11. CASE Patch(p) \/ Configure(p) \/ Build(p)
  BY <1>11, <1>5 DEF Patch, Configure, Build
<1>12. ASSUME NEW s \in AllPlaces, Install(p, s) PROVE ScratchOf(p)'
  BY <1>12, <1>5 DEF Install
<1>13. CASE Uninstall(p) \/ Clean(p)
  <2>1. /\ stamps'[p] \subseteq stamps[p]
        /\ "extracted" \in stamps[p] => "extracted" \in stamps'[p]
        /\ \E s : s # "extracted" /\ ran'[p] = ran[p] \cup {s}
    BY <1>1, <1>13, <1>4 DEF Uninstall, Clean
  <2> QED BY <2>1, FewerStamps
<1>14. CASE Dirclean(p)
  <2>1. stamps'[p] = {} /\ ran'[p] = ran[p] \cup {"dircleaned"}
    BY <1>1, <1>14, <1>4 DEF Dirclean
  <2> QED BY <1>2, <2>1 DEF ScratchOf
<1> QED BY <1>6, <1>7, <1>8, <1>9, <1>10, <1>11, <1>12, <1>13, <1>14 DEF StepOf

LEMMA ScratchNext ==
  ASSUME StopIn \cap {"dirclean", "make_clean"} = {}, UserRemoves = {}
  PROVE  TypeOK /\ MakeInv /\ ScratchInv /\ [Next]_vars => ScratchInv'
<1> SUFFICES ASSUME TypeOK, MakeInv, ScratchInv, [Next]_vars, NEW p \in Pkgs
             PROVE  ScratchOf(p)'
  BY DEF ScratchInv
<1>1. stamps \in [Pkgs -> SUBSET StampNames] /\ ran \in [Pkgs -> SUBSET StepNames]
  BY DEF TypeOK
<1>2. Exit => ran'[p] = {}
  BY DEF Exit, NothingVisited
<1>3. CASE stamps' = stamps /\ (ran' = ran \/ Exit)
  BY <1>3, <1>2, FewerStamps
<1>4. CASE Clear \/ ClearStops
  <2>1. PICK gone \in SUBSET ClearSet : stamps' = [stamps EXCEPT ![goal.pkg] = @ \ gone]
    BY <1>4 DEF Clear, ClearStops
  <2>2. "extracted" \notin ClearSet
    BY DEF ClearSet, ClearOrder
  <2>3. /\ stamps'[p] \subseteq stamps[p]
        /\ "extracted" \in stamps[p] => "extracted" \in stamps'[p]
    BY <1>1, <2>1, <2>2
  <2>4. ran'[p] = ran[p] \/ ran'[p] = {}
    BY <1>4, <1>2 DEF Clear, ClearStops, Die
  <2> QED BY <2>3, <2>4, FewerStamps
<1>5. CASE CleanOutput
  <2>1. stamps'[p] = {} /\ ran'[p] = {}
    BY <1>5 DEF CleanOutput, MakeInv, NothingBeforeClear, NothingVisited, VisitedInOrder
  <2> QED BY <2>1 DEF ScratchOf
<1>6. ASSUME NEW q \in Pkgs, StepOf(q) PROVE ScratchOf(p)'
  <2>1. CASE q = p
    BY <1>6, <2>1, ScratchStep
  <2>2. CASE q # p
    BY <1>6, <2>2, OthersUntouched, FewerStamps
  <2> QED BY <2>1, <2>2
<1>7. ASSUME NEW q \in Pkgs, StopOf(q) PROVE ScratchOf(p)'
  <2>1. Exit
    BY <1>7, StopExits
  <2>2. ~DircleanStops(q)
    BY DEF DircleanStops
  <2>3. CASE UninstallStops(q)
    <3>1. /\ stamps'[p] \subseteq stamps[p]
          /\ "extracted" \in stamps[p] => "extracted" \in stamps'[p]
      BY <1>1, <2>3 DEF UninstallStops
    <3> QED BY <1>2, <2>1, <3>1, FewerStamps
  <2>4. CASE stamps' = stamps
    BY <1>3, <2>1, <2>4
  <2> QED BY <1>7, <2>2, <2>3, <2>4
          DEF StopOf, DownloadStops, ExtractStops, RsyncStops, PatchStops, ConfigureStops,
              BuildStops, InstallStops, CleanStops
<1> QED BY <1>3, <1>4, <1>5, <1>6, <1>7
       DEF Next, User, Advance, Stop, CleanOutputStops, Start, Edit, RemoveStamp, makeVars, Finish,
           Killed, Die, diskVars, vars

\* Once make extracts a package again it repeats every later step of it, if
\* only the recipes remove stamps and no rm -Rf of a build directory is cut.
THEOREM ExtractsFromScratch ==
  ASSUME StopIn \cap {"dirclean", "make_clean"} = {}, UserRemoves = {}
  PROVE  Spec => []FromScratch
<1>1. Init => ScratchInv
  BY DEF Init, ScratchInv, ScratchOf, NothingVisited
<1>2. TypeOK /\ MakeInv /\ ScratchInv => FromScratch
  <2> SUFFICES ASSUME TypeOK, MakeInv, ScratchInv, NEW p \in Pkgs, "extracted" \in ran[p],
                      NEW s \in visited[p] \cap StampNames, Rank[s] > Rank["extracted"]
               PROVE  s \in ran[p]
    BY DEF FromScratch
  <2>1. s \in stamps[p]
    BY DEF MakeInv, VisitedInOrder
  <2>2. s \in Later
    BY RankFacts, StepNamesFacts DEF Later
  <2>3. Later \cap stamps[p] \subseteq ran[p]
    BY DEF ScratchInv, ScratchOf
  <2> QED BY <2>1, <2>2, <2>3
<1> QED BY <1>1, <1>2, ScratchNext, MakeInvariant, PTL DEF Spec

-----------------------------------------------------------------------------
(* One build at a time.                                                    *)

Uninstalled == {"staging_installed", "target_installed"}

\* The install stamps stand on .stamp_built and on that build, and once make
\* has uninstalled a package the stamps foo-uninstall removes stay away.
OneBuildOf(p) ==
  /\ \A s \in InstallSteps(p) \cap stamps[p] : "built" \in stamps[p] /\ inst[p][s] = dir[p].obj
  /\ "uninstalled" \in visited[p] => Uninstalled \cap stamps[p] = {}
OneBuildInv ==
  /\ \A p \in Pkgs : OneBuildOf(p)
  /\ Running => goal.op \in Ops

\* foo-clean removes all the install stamps of what it is typed for.
CleanUninstalls == "clean" \in Ops => \A p \in Pkgs : InstallSteps(p) \subseteq Uninstalled

LEMMA CleanFacts ==
  ASSUME TypeOK, MakeInv, OneBuildInv, CleanUninstalls, NEW p \in Pkgs, AtStep(p, "cleaned")
  PROVE  InstallSteps(p) \cap stamps[p] = {}
<1>1. "cleaned" \in Wanted(p) /\ Before(p, "cleaned") \subseteq visited[p] /\ Running
  BY DEF AtStep
<1>2. goal.op = "clean" /\ "uninstalled" \in Wanted(p)
  <2>1. \A s \in StepGoals : "cleaned" \notin StepsUpTo(p, s)
    BY StepsUpToTogether, InstallStepsAreLate DEF ConfigureSteps
  <2>2. "cleaned" \notin AllSteps(p) /\ "cleaned" \notin ConfigureSteps(p) \cup {"uninstalled"}
    BY InstallStepsAreLate DEF AllSteps, ConfigureSteps
  <2> QED BY <1>1, <2>1, <2>2, WantedForms
<1>3. "uninstalled" \in visited[p]
  <2>1. Rank["uninstalled"] < Rank["cleaned"]
    BY DEF Rank
  <2> QED BY <1>1, <1>2, <2>1 DEF Before
<1> QED BY <1>1, <1>2, <1>3 DEF OneBuildInv, OneBuildOf, CleanUninstalls

\* A package whose install stamps go, and whose build and files stay.
LEMMA StillOneBuild ==
  ASSUME OneBuildInv, NEW p \in Pkgs, stamps'[p] \subseteq stamps[p],
         InstallSteps(p) \cap stamps'[p] # {} => ("built" \in stamps[p] => "built" \in stamps'[p]),
         \A s \in InstallSteps(p) \cap stamps'[p] : inst'[p][s] = inst[p][s],
         InstallSteps(p) \cap stamps'[p] # {} => dir'[p].obj = dir[p].obj,
         "uninstalled" \in visited'[p] =>
           "uninstalled" \in visited[p] \/ Uninstalled \cap stamps'[p] = {}
  PROVE  OneBuildOf(p)'
<1>1. OneBuildOf(p)
  BY DEF OneBuildInv
<1>2. InstallSteps(p)' = InstallSteps(p)
  BY DEF InstallSteps
<1> QED BY <1>1, <1>2 DEF OneBuildOf

LEMMA OneBuildStep ==
  ASSUME TypeOK, MakeInv, OneBuildInv, CleanUninstalls, NEW p \in Pkgs, StepOf(p)
  PROVE  OneBuildOf(p)'
<1> USE StepNamesFacts
<1>1. /\ stamps \in [Pkgs -> SUBSET StampNames] /\ visited \in [Pkgs -> SUBSET StepNames]
      /\ inst \in [Pkgs -> [AllPlaces -> Edits]]
      /\ dir \in [Pkgs -> DirType] /\ dir[p] \in DirType
  BY DEF TypeOK
<1>2. OneBuildOf(p) /\ InstallSteps(p) \subseteq AllPlaces
  BY InstallStepsAreLate DEF OneBuildInv
<1>3. /\ "uninstalled" \notin StampNames
      /\ AllPlaces \cap {"downloaded", "extracted", "patched", "rsynced", "configured", "built"} = {}
  BY InstallStepsAreLate DEF StampNames, PrepSteps, PlaceSteps
<1>4. \A s : Visit(p, s) => visited'[p] = visited[p] \cup {s}
  BY <1>1 DEF Visit
<1>5. \A s : Stamp(p, s) => Visit(p, s) /\ stamps'[p] = stamps[p] \cup {s}
  BY <1>1 DEF Stamp
\* A recipe before the build leaves the objects alone.
<1>6. ASSUME NEW s \in {"downloaded", "extracted", "patched", "rsynced", "configured"}, Stamp(p, s),
             inst' = inst, dir'[p].obj = dir[p].obj
      PROVE  OneBuildOf(p)'
  <2>1. stamps'[p] = stamps[p] \cup {s} /\ visited'[p] = visited[p] \cup {s}
    BY <1>6, <1>5, <1>4
  <2> QED BY <1>2, <1>6, <1>3, <2>1 DEF OneBuildOf, InstallSteps, Uninstalled
<1>7. ASSUME NEW s \in StampNames, Skip(p, s) PROVE OneBuildOf(p)'
  BY <1>7, <1>3, <1>4, StillOneBuild DEF Skip, diskVars
<1>8. CASE VisitDepends(p)
  BY <1>8, <1>4, StillOneBuild DEF VisitDepends, diskVars
<1>9. CASE Download(p)
  BY <1>9, <1>6 DEF Download
<1>10. CASE Extract(p) \/ Rsync(p)
  <2>1. dir'[p].obj = dir[p].obj
    BY <1>1, <1>10 DEF Extract, Rsync, DirType
  <2> QED BY <1>10, <1>6, <2>1 DEF Extract, Rsync
<1>11. CASE Patch(p)
  <2>1. PICK h : dir' = [dir EXCEPT ![p].patches = h]
    BY <1>11 DEF Patch
  <2>2. dir'[p].obj = dir[p].obj
    BY <1>1, <2>1 DEF DirType
  <2> QED BY <1>11, <1>6, <2>2 DEF Patch
<1>12. CASE Configure(p)
  <2>1. dir'[p].obj = dir[p].obj
    BY <1>1, <1>12 DEF Configure, DirType
  <2> QED BY <1>12, <1>6, <2>1 DEF Configure
<1>13. CASE Build(p)
  <2>1. /\ "built" \notin stamps[p] /\ stamps'[p] = stamps[p] \cup {"built"}
        /\ visited'[p] = visited[p] \cup {"built"}
    BY <1>13, <1>5, <1>4 DEF Build, Recipe
  <2>2. InstallSteps(p) \cap stamps'[p] = {}
    BY <1>2, <1>3, <2>1 DEF OneBuildOf
  <2> QED BY <1>2, <1>3, <2>1, <2>2 DEF OneBuildOf, InstallSteps, Uninstalled
<1>14. ASSUME NEW s \in AllPlaces, Install(p, s) PROVE OneBuildOf(p)'
  <2>1. /\ s \in Wanted(p) /\ stamps'[p] = stamps[p] \cup {s} /\ visited'[p] = visited[p] \cup {s}
    BY <1>14, <1>5, <1>4 DEF Install, Recipe, AtStep
  <2>2. "built" \in Wanted(p) /\ "uninstalled" \notin Wanted(p)
    BY <2>1, WantedTogether
  <2>3. "built" \in stamps[p]
    BY <1>14, <2>2, RankFacts, StampedBefore DEF Install, Recipe, MakeInv
  <2>4. "uninstalled" \notin visited'[p]
    BY <1>3, <2>1, <2>2 DEF MakeInv, VisitedInOrder
  <2>5. dir' = dir /\ inst' = [inst EXCEPT ![p][s] = dir[p].obj]
    BY <1>14 DEF Install
  <2>6. inst'[p][s] = dir[p].obj /\ \A t \in AllPlaces \ {s} : inst'[p][t] = inst[p][t]
    BY <1>1, <2>5
  <2> QED BY <1>2, <2>1, <2>3, <2>4, <2>5, <2>6 DEF OneBuildOf, InstallSteps
<1>15. CASE Uninstall(p)
  <2>1. stamps'[p] = stamps[p] \ Uninstalled /\ dir' = dir
    BY <1>1, <1>15 DEF Uninstall, Uninstalled
  <2>2. \A t \in AllPlaces \ Uninstalled : inst'[p][t] = inst[p][t]
    BY <1>1, <1>15 DEF Uninstall, Uninstalled
  <2> QED BY <1>2, <1>3, <2>1, <2>2, StillOneBuild DEF Uninstalled
<1>16. CASE Clean(p)
  <2>1. InstallSteps(p) \cap stamps[p] = {}
    BY <1>16, CleanFacts DEF Clean
  <2>2. stamps'[p] = stamps[p] \ {"built"} /\ visited'[p] = visited[p] \cup {"cleaned"}
    BY <1>1, <1>16, <1>4 DEF Clean, Rerun
  <2> QED BY <2>1, <2>2, StillOneBuild
<1>17. CASE Dirclean(p)
  <2>1. stamps'[p] = {}
    BY <1>1, <1>17 DEF Dirclean
  <2> QED BY <2>1, StillOneBuild
<1> QED BY <1>7, <1>8, <1>9, <1>10, <1>11, <1>12, <1>13, <1>14, <1>15, <1>16, <1>17 DEF StepOf

LEMMA OneBuildStop ==
  ASSUME TypeOK, MakeInv, OneBuildInv, CleanUninstalls, "dirclean" \notin StopIn,
         NEW p \in Pkgs, StopOf(p)
  PROVE  \A q \in Pkgs : OneBuildOf(q)'
<1> SUFFICES ASSUME NEW q \in Pkgs PROVE OneBuildOf(q)'
  OBVIOUS
<1> USE StepNamesFacts
<1>1. /\ stamps \in [Pkgs -> SUBSET StampNames] /\ inst \in [Pkgs -> [AllPlaces -> Edits]]
      /\ dir \in [Pkgs -> DirType] /\ dir[q] \in DirType
  BY DEF TypeOK
<1>2. InstallSteps(q) \subseteq AllPlaces
  BY InstallStepsAreLate
<1>3. visited'[q] = {}
  BY StopExits DEF Exit, NothingVisited
<1>4. CASE UNCHANGED <<stamps, inst>> /\ dir'[q].obj = dir[q].obj
  BY <1>3, <1>4, StillOneBuild
<1>5. CASE DownloadStops(p)
  BY <1>4, <1>5 DEF DownloadStops
<1>6. CASE ExtractStops(p)
  <2>1. PICK e : dir' = [dir EXCEPT ![p].tree = e]
    BY <1>6 DEF ExtractStops
  <2>2. dir'[q].obj = dir[q].obj
    BY <1>1, <2>1 DEF DirType
  <2> QED BY <1>4, <1>6, <2>2 DEF ExtractStops
<1>7. CASE RsyncStops(p)
  <2>1. PICK e : dir' = [dir EXCEPT ![p].tree = e]
    BY <1>7 DEF RsyncStops
  <2>2. dir'[q].obj = dir[q].obj
    BY <1>1, <2>1 DEF DirType
  <2> QED BY <1>4, <1>7, <2>2 DEF RsyncStops
<1>8. CASE PatchStops(p)
  <2>1. PICK h : dir' = [dir EXCEPT ![p].patches = h]
    BY <1>8 DEF PatchStops
  <2>2. dir'[q].obj = dir[q].obj
    BY <1>1, <2>1 DEF DirType
  <2> QED BY <1>4, <1>8, <2>2 DEF PatchStops
<1>9. CASE ConfigureStops(p)
  <2>1. PICK c : dir' = [dir EXCEPT ![p].conf = c]
    BY <1>9 DEF ConfigureStops
  <2>2. dir'[q].obj = dir[q].obj
    BY <1>1, <2>1 DEF DirType
  <2> QED BY <1>4, <1>9, <2>2 DEF ConfigureStops
<1>10. CASE BuildStops(p)
  <2>1. CASE q = p
    <3>1. InstallSteps(q) \cap stamps'[q] = {}
      BY <1>10, <2>1 DEF BuildStops, Recipe, OneBuildInv, OneBuildOf
    <3> QED BY <1>10, <1>3, <3>1, StillOneBuild DEF BuildStops
  <2>2. CASE q # p
    <3>1. dir'[q] = dir[q]
      BY <1>1, <1>10, <2>2 DEF BuildStops
    <3> QED BY <1>4, <1>10, <3>1 DEF BuildStops
  <2> QED BY <2>1, <2>2
<1>11. ASSUME NEW s \in AllPlaces, InstallStops(p, s) PROVE OneBuildOf(q)'
  <2>1. s \notin stamps[p] /\ UNCHANGED <<stamps, dir>>
    BY <1>11 DEF InstallStops, Recipe
  <2>2. \A t \in InstallSteps(q) \cap stamps'[q] : inst'[q][t] = inst[q][t]
    BY <1>1, <1>11, <1>2, <2>1 DEF InstallStops
  <2> QED BY <1>3, <2>1, <2>2, StillOneBuild
<1>12. CASE UninstallStops(p)
  <2>1. PICK gone \in SUBSET Uninstalled :
          /\ stamps' = [stamps EXCEPT ![p] = @ \ gone]
          /\ \A t \in AllPlaces \ gone : inst'[p][t] = inst[p][t]
          /\ \A r \in Pkgs \ {p} : inst'[r] = inst[r]
    <3>1. CASE stamps' = [stamps EXCEPT ![p] = @ \ {"staging_installed"}] /\ UNCHANGED inst
      BY <3>1 DEF Uninstalled
    <3>2. ASSUME stamps' = [stamps EXCEPT ![p] = @ \ Uninstalled], NEW some \in SUBSET Uninstalled,
                 inst' = [inst EXCEPT ![p] = [s \in AllPlaces |-> IF s \in some THEN 0 ELSE @[s]]]
          PROVE  /\ \A t \in AllPlaces \ Uninstalled : inst'[p][t] = inst[p][t]
                 /\ \A r \in Pkgs \ {p} : inst'[r] = inst[r]
      BY <1>1, <3>2
    <3> QED BY <1>12, <3>1, <3>2 DEF UninstallStops, Uninstalled
  <2>2. /\ stamps'[q] \subseteq stamps[q]
        /\ "built" \in stamps[q] => "built" \in stamps'[q]
        /\ \A t \in AllPlaces \cap stamps'[q] : inst'[q][t] = inst[q][t]
    BY <1>1, <2>1 DEF Uninstalled
  <2>3. dir' = dir /\ \A t \in InstallSteps(q) \cap stamps'[q] : inst'[q][t] = inst[q][t]
    BY <1>12, <1>2, <2>2 DEF UninstallStops
  <2> QED BY <1>3, <2>2, <2>3, StillOneBuild
<1>13. CASE CleanStops(p)
  <2>1. CASE q = p
    <3>1. InstallSteps(q) \cap stamps'[q] = {}
      BY <1>13, <2>1, CleanFacts DEF CleanStops
    <3> QED BY <1>13, <1>3, <3>1, StillOneBuild DEF CleanStops
  <2>2. CASE q # p
    <3>1. dir'[q] = dir[q]
      BY <1>1, <1>13, <2>2 DEF CleanStops
    <3> QED BY <1>4, <1>13, <3>1 DEF CleanStops
  <2> QED BY <2>1, <2>2
<1>14. ~DircleanStops(p)
  BY DEF DircleanStops
<1> QED BY <1>5, <1>6, <1>7, <1>8, <1>9, <1>10, <1>11, <1>12, <1>13, <1>14 DEF StopOf

LEMMA OneBuildNext ==
  ASSUME StopIn \cap {"clear", "dirclean", "make_clean"} = {}, "built" \notin UserRemoves,
         CleanUninstalls
  PROVE  TypeOK /\ MakeInv /\ OneBuildInv /\ [Next]_vars => OneBuildInv'
<1> SUFFICES ASSUME TypeOK, MakeInv, OneBuildInv, [Next]_vars PROVE OneBuildInv'
  OBVIOUS
<1>1. (Running => goal.op \in Ops)'
  <2>1. CASE goal' = goal
    BY <2>1 DEF OneBuildInv, Running
  <2>2. CASE goal' = NoGoal
    BY <2>2 DEF Running
  <2>3. ASSUME NEW op, NEW p, Start(op, p) PROVE goal'.op \in Ops
    BY <2>3 DEF Start
  <2>4. ASSUME NEW p \in Pkgs, StepOf(p) PROVE goal' = goal
    BY <2>4 DEF StepOf, Skip, VisitDepends, Download, Extract, Rsync, Patch, Configure, Build,
                Install, Uninstall, Clean, Dirclean, Stamp, Rerun, Visit
  <2> QED BY <2>1, <2>2, <2>3, <2>4, StopExits
         DEF Next, User, Advance, Stop, Edit, RemoveStamp, Clear, CleanOutput, Finish, Killed,
             ClearStops, CleanOutputStops, Die, Exit, makeVars, vars
<1> SUFFICES ASSUME NEW p \in Pkgs PROVE OneBuildOf(p)'
  BY <1>1 DEF OneBuildInv
<1>2. /\ stamps \in [Pkgs -> SUBSET StampNames] /\ dir \in [Pkgs -> DirType]
      /\ inst \in [Pkgs -> [AllPlaces -> Edits]] /\ InstallSteps(p) \subseteq AllPlaces
  BY InstallStepsAreLate DEF TypeOK
<1>3. Exit => visited'[p] = {}
  BY DEF Exit, NothingVisited
<1>4. CASE UNCHANGED <<stamps, inst, dir>> /\ (visited' = visited \/ Exit)
  BY <1>4, <1>3, StillOneBuild
<1>5. CASE Clear
  <2>1. stamps' = [stamps EXCEPT ![goal.pkg] = @ \ ClearSet]
    BY <1>5 DEF Clear
  <2>2. /\ stamps'[p] \subseteq stamps[p]
        /\ stamps'[p] = stamps[p] \/ AllPlaces \cap stamps'[p] = {}
    BY <1>2, <2>1, ClearSetFacts
  <2> QED BY <1>2, <1>5, <2>2, StillOneBuild DEF Clear
<1>6. CASE CleanOutput
  <2>1. stamps'[p] = {}
    BY <1>6 DEF CleanOutput
  <2> QED BY <2>1, StillOneBuild
<1>7. ASSUME NEW q \in Pkgs, StepOf(q) PROVE OneBuildOf(p)'
  <2>1. CASE q = p
    BY <1>7, <2>1, OneBuildStep
  <2>2. CASE q # p
    BY <1>7, <2>2, OthersUntouched, StillOneBuild
  <2> QED BY <2>1, <2>2
<1>8. ASSUME NEW q \in Pkgs, StopOf(q) PROVE OneBuildOf(p)'
  BY <1>8, OneBuildStop
<1>9. ASSUME NEW q \in Pkgs, Edit(q) PROVE OneBuildOf(p)'
  <2>1. dir'[p].obj = dir[p].obj
    <3>1. CASE dir' = dir
      BY <3>1
    <3>2. CASE dir' = [dir EXCEPT ![q].tree = edits']
      BY <1>2, <3>2 DEF DirType
    <3> QED BY <1>9, <3>1, <3>2 DEF Edit
  <2> QED BY <1>9, <2>1, StillOneBuild DEF Edit, makeVars
<1>10. ASSUME NEW q \in Pkgs, RemoveStamp(q) PROVE OneBuildOf(p)'
  <2>1. PICK s \in UserRemoves : stamps' = [stamps EXCEPT ![q] = @ \ {s}]
    BY <1>10 DEF RemoveStamp
  <2>2. stamps'[p] \subseteq stamps[p] /\ ("built" \in stamps[p] => "built" \in stamps'[p])
    BY <1>2, <2>1
  <2> QED BY <1>10, <2>2, StillOneBuild DEF RemoveStamp, makeVars
<1>11. ~ClearStops /\ ~CleanOutputStops
  BY DEF ClearStops, CleanOutputStops
<1> QED BY <1>4, <1>5, <1>6, <1>7, <1>8, <1>9, <1>10, <1>11
       DEF Next, User, Advance, Stop, Start, Finish, Killed, Die, diskVars, vars

\* foo-clean is the only goal that leaves an old build installed, and only of a
\* package that installs an image or for the host: without such a package, if
\* nobody removes .stamp_built alone and no removal of stamps is cut short, what
\* is stamped as installed is always the build that is stamped.
THEOREM BuildsAreNotStale ==
  ASSUME StopIn \cap {"clear", "dirclean", "make_clean"} = {}, "built" \notin UserRemoves,
         CleanUninstalls
  PROVE  Spec => []NoStaleInstall
<1>1. Init => OneBuildInv
  BY DEF Init, OneBuildInv, OneBuildOf, NothingVisited, Running
<1>2. OneBuildInv => NoStaleInstall
  BY DEF OneBuildInv, OneBuildOf, NoStaleInstall
<1> QED BY <1>1, <1>2, OneBuildNext, MakeInvariant, PTL DEF Spec

-----------------------------------------------------------------------------
(* What a recipe works on.                                                 *)

\* The stamps vouch for what the next recipe needs, and only a series of patches
\* that was cut short is there without its stamp.
FoundOf(p) ==
  /\ src[p] # 0
  /\ p \in Override => "extracted" \notin stamps[p]
  /\ p \notin Override => "rsynced" \notin stamps[p]
  /\ "downloaded" \in stamps[p] => p \in dl
  /\ "extracted" \in stamps[p] \/ "rsynced" \in stamps[p] => dir[p].tree # 0
  /\ "configured" \in stamps[p] => dir[p].conf # 0
  /\ "built" \in stamps[p] => dir[p].obj # 0
  /\ "patched" \notin stamps[p] /\ dir[p].patches # "none" => p \in Patched /\ failures # 0
FoundInv == \A p \in Pkgs : FoundOf(p)

\* Stamps that go, other than .stamp_patched, change nothing.
LEMMA StillFound ==
  ASSUME FoundInv, NEW p \in Pkgs, stamps'[p] \subseteq stamps[p],
         "patched" \in stamps[p] => "patched" \in stamps'[p],
         src'[p] = src[p], dir'[p] = dir[p], p \in dl => p \in dl', failures # 0 => failures' # 0
  PROVE  FoundOf(p)'
<1>1. FoundOf(p)
  BY DEF FoundInv
<1> QED BY <1>1 DEF FoundOf

\* foo-configure of an override begins with foo-rsync.
LEMMA RsyncWanted ==
  ASSUME TypeOK, NEW p \in Override, p \in Pkgs, "configured" \in Wanted(p)
  PROVE  "rsynced" \in Wanted(p)
<1>1. \A s \in StepGoals : "configured" \in StepsUpTo(p, s) => "rsynced" \in StepsUpTo(p, s)
  <2> TAKE s \in StepGoals
  <2>1. Rank[s] \in Nat /\ Rank["rsynced"] \in Nat /\ Rank["rsynced"] <= Rank["configured"]
    BY RankFacts, StepNamesFacts DEF Rank, StepGoals
  <2>2. Rank["configured"] \in Nat
    BY RankFacts, StepNamesFacts
  <2>3. Rank["configured"] <= Rank[s] => Rank["rsynced"] <= Rank[s]
    BY <2>1, <2>2
  <2> QED BY <2>3 DEF StepsUpTo, ConfigureSteps
<1> QED BY <1>1, WantedForms DEF AllSteps, ConfigureSteps

\* Where a recipe begins, what it works on is there.
LEMMA FoundAtStep ==
  ASSUME TypeOK, MakeInv, FoundInv, NEW p \in Pkgs, NEW s \in StampNames, AtStep(p, s)
  PROVE  /\ s = "extracted" => p \in dl /\ p \notin Override
         /\ s = "rsynced" => p \in Override
         /\ s = "patched" => dir[p].tree # 0
         /\ s \in {"configured", "built"} => dir[p].tree # 0
         /\ s = "built" => dir[p].conf # 0
         /\ s \in AllPlaces => dir[p].obj # 0
<1> USE StepNamesFacts
<1>1. s \in Wanted(p) /\ FoundOf(p)
  BY DEF AtStep, FoundInv
<1>2. \A t \in StampNames : t \in Wanted(p) /\ Rank[t] < Rank[s] => t \in stamps[p]
  BY StampedBefore DEF MakeInv
<1>3. /\ \A t, u \in StepNames : Rank[t] < Rank[u] /\ Rank[u] < Rank[s] => Rank[t] < Rank[s]
      /\ Rank["rsynced"] < Rank["configured"]
  BY RankFacts DEF Rank
<1>4. s = "extracted" => p \in dl /\ p \notin Override
  BY <1>1, <1>2, WantedTogether, RankFacts DEF FoundOf
<1>5. s = "patched" => dir[p].tree # 0
  BY <1>1, <1>2, WantedTogether, RankFacts DEF FoundOf
<1>6. s \in {"configured", "built"} => dir[p].tree # 0
  <2> SUFFICES ASSUME s \in {"configured", "built"} PROVE dir[p].tree # 0
    OBVIOUS
  <2>1. "configured" \in Wanted(p)
    BY <1>1, WantedTogether
  <2>2. /\ Rank["rsynced"] < Rank[s] /\ Rank["extracted"] < Rank[s]
    BY <1>3, RankFacts
  <2>3. CASE p \in Override
    BY <1>1, <1>2, <2>1, <2>2, <2>3, RsyncWanted DEF FoundOf
  <2>4. CASE p \notin Override
    BY <1>1, <1>2, <2>1, <2>2, <2>4, WantedTogether DEF FoundOf
  <2> QED BY <2>3, <2>4
<1>7. s = "built" => dir[p].conf # 0
  BY <1>1, <1>2, WantedTogether, RankFacts DEF FoundOf
<1>8. s \in AllPlaces => dir[p].obj # 0
  BY <1>1, <1>2, WantedTogether, RankFacts DEF FoundOf
<1>9. s = "rsynced" => p \in Override
  BY <1>1, WantedTogether
<1> QED BY <1>4, <1>5, <1>6, <1>7, <1>8, <1>9

LEMMA FoundStep ==
  ASSUME TypeOK, MakeInv, FoundInv, NEW p \in Pkgs, StepOf(p)
  PROVE  FoundOf(p)'
<1> USE StepNamesFacts
<1>1. /\ stamps \in [Pkgs -> SUBSET StampNames] /\ dl \subseteq Pkgs
      /\ dir \in [Pkgs -> DirType] /\ dir[p] \in DirType
  BY DEF TypeOK
<1>2. FoundOf(p)
  BY DEF FoundInv
<1>3. AllPlaces \cap {"downloaded", "extracted", "patched", "rsynced", "configured", "built"} = {}
  BY InstallStepsAreLate
<1>4. \A s : Visit(p, s) => failures' = failures
  BY DEF Visit
<1>5. \A s : Stamp(p, s) => stamps'[p] = stamps[p] \cup {s} /\ failures' = failures
  BY <1>1, <1>4 DEF Stamp
<1>6. ASSUME NEW s \in StampNames, Skip(p, s) PROVE FoundOf(p)'
  BY <1>6, <1>4, StillFound DEF Skip, diskVars
<1>7. CASE VisitDepends(p)
  BY <1>7, <1>4, StillFound DEF VisitDepends, diskVars
<1>8. CASE Download(p)
  <2>1. stamps'[p] = stamps[p] \cup {"downloaded"} /\ failures' = failures /\ p \in dl'
    BY <1>8, <1>5 DEF Download
  <2> QED BY <1>8, <1>2, <2>1 DEF Download, FoundOf
<1>9. CASE Extract(p)
  <2>1. /\ stamps'[p] = stamps[p] \cup {"extracted"} /\ failures' = failures /\ p \notin Override
    BY <1>9, <1>5, FoundAtStep DEF Extract, Recipe
  <2>2. /\ dir'[p].tree = src[p] /\ dir'[p].conf = dir[p].conf /\ dir'[p].obj = dir[p].obj
        /\ dir'[p].patches = dir[p].patches
    BY <1>1, <1>9 DEF Extract, DirType
  <2> QED BY <1>9, <1>2, <2>1, <2>2 DEF Extract, FoundOf
<1>10. CASE Rsync(p)
  <2>1. /\ stamps'[p] = stamps[p] \cup {"rsynced"} /\ failures' = failures /\ p \in Override
    BY <1>10, <1>5, FoundAtStep DEF Rsync, Recipe
  <2>2. /\ dir'[p].tree = src[p] /\ dir'[p].conf = dir[p].conf /\ dir'[p].obj = dir[p].obj
        /\ dir'[p].patches = dir[p].patches
    BY <1>1, <1>10 DEF Rsync, DirType
  <2> QED BY <1>10, <1>2, <2>1, <2>2 DEF Rsync, FoundOf
<1>11. CASE Patch(p)
  <2>1. stamps'[p] = stamps[p] \cup {"patched"} /\ failures' = failures
    BY <1>11, <1>5 DEF Patch
  <2>2. PICK h : dir' = [dir EXCEPT ![p].patches = h]
    BY <1>11 DEF Patch
  <2>3. dir'[p].tree = dir[p].tree /\ dir'[p].conf = dir[p].conf /\ dir'[p].obj = dir[p].obj
    BY <1>1, <2>2 DEF DirType
  <2> QED BY <1>11, <1>2, <2>1, <2>3 DEF Patch, FoundOf
<1>12. CASE Configure(p)
  <2>1. stamps'[p] = stamps[p] \cup {"configured"} /\ failures' = failures /\ dir[p].tree # 0
    BY <1>12, <1>5 DEF Configure
  <2>2. /\ dir'[p].tree = dir[p].tree /\ dir'[p].conf = dir[p].tree /\ dir'[p].obj = dir[p].obj
        /\ dir'[p].patches = dir[p].patches
    BY <1>1, <1>12 DEF Configure, DirType
  <2> QED BY <1>12, <1>2, <2>1, <2>2 DEF Configure, FoundOf
<1>13. CASE Build(p)
  <2>1. stamps'[p] = stamps[p] \cup {"built"} /\ failures' = failures /\ dir[p].tree # 0
    BY <1>13, <1>5 DEF Build
  <2>2. /\ dir'[p].tree = dir[p].tree /\ dir'[p].conf = dir[p].conf /\ dir'[p].obj = dir[p].tree
        /\ dir'[p].patches = dir[p].patches
    BY <1>1, <1>13 DEF Build, DirType
  <2> QED BY <1>13, <1>2, <2>1, <2>2 DEF Build, FoundOf
<1>14. ASSUME NEW s \in AllPlaces, Install(p, s) PROVE FoundOf(p)'
  <2>1. stamps'[p] = stamps[p] \cup {s} /\ failures' = failures
    BY <1>14, <1>5 DEF Install
  <2> QED BY <1>14, <1>2, <1>3, <2>1 DEF Install, FoundOf
<1>15. CASE Uninstall(p)
  <2>1. /\ stamps'[p] = stamps[p] \ {"staging_installed", "target_installed"}
        /\ failures' = failures
    BY <1>1, <1>15, <1>4 DEF Uninstall, Rerun
  <2> QED BY <1>15, <2>1, StillFound DEF Uninstall
<1>16. CASE Clean(p)
  <2>1. stamps'[p] = stamps[p] \ {"built"} /\ failures' = failures
    BY <1>1, <1>16, <1>4 DEF Clean, Rerun
  <2>2. /\ dir'[p].tree = dir[p].tree /\ dir'[p].conf = dir[p].conf
        /\ dir'[p].patches = dir[p].patches
    BY <1>1, <1>16 DEF Clean, DirType
  <2> QED BY <1>16, <1>2, <2>1, <2>2 DEF Clean, FoundOf
<1>17. CASE Dirclean(p)
  <2>1. stamps'[p] = {} /\ dir'[p] = EmptyDir
    BY <1>1, <1>17 DEF Dirclean
  <2> QED BY <1>17, <1>2, <2>1 DEF Dirclean, FoundOf, EmptyDir
<1> QED BY <1>6, <1>7, <1>8, <1>9, <1>10, <1>11, <1>12, <1>13, <1>14, <1>15, <1>16, <1>17 DEF StepOf

\* Failures are counted and never forgotten.
LEMMA FailuresGrow ==
  ASSUME TypeOK
  PROVE  /\ failures' = failures \/ failures' = failures + 1 => (failures # 0 => failures' # 0)
         /\ Die(TRUE) => failures' # 0
<1>1. failures \in Nat /\ failures + 1 # 0
  BY BoundsAssumption DEF TypeOK
<1> QED BY <1>1 DEF Die

LEMMA StopCounts ==
  ASSUME NEW p \in Pkgs, StopOf(p)
  PROVE  failures' = failures \/ failures' = failures + 1
BY DEF StopOf, DownloadStops, ExtractStops, RsyncStops, PatchStops, ConfigureStops, BuildStops,
       InstallStops, UninstallStops, CleanStops, DircleanStops, Die

LEMMA FoundStop ==
  ASSUME TypeOK, MakeInv, FoundInv, StopIn \cap {"clean", "dirclean"} = {},
         NEW p \in Pkgs, StopOf(p)
  PROVE  \A q \in Pkgs : FoundOf(q)'
<1> SUFFICES ASSUME NEW q \in Pkgs PROVE FoundOf(q)'
  OBVIOUS
<1> USE StepNamesFacts
<1>1. /\ stamps \in [Pkgs -> SUBSET StampNames] /\ dl \subseteq Pkgs
      /\ dir \in [Pkgs -> DirType] /\ dir[p] \in DirType
  BY DEF TypeOK
<1>2. FoundOf(p) /\ src[p] # 0
  BY DEF FoundInv, FoundOf
<1>3. failures # 0 => failures' # 0
  BY FailuresGrow, StopCounts
<1>4. CASE UNCHANGED <<stamps, src, dir>> /\ dl \subseteq dl'
  BY <1>4, <1>3, StillFound
\* The package whose recipe stops is the only one to look at.
<1>5. ASSUME UNCHANGED <<stamps, dl, src>>, NEW d, dir' = [dir EXCEPT ![p] = d], FoundOf(p)'
      PROVE  FoundOf(q)'
  BY <1>1, <1>5, <1>3, StillFound
<1>6. CASE DownloadStops(p)
  BY <1>4, <1>6 DEF DownloadStops
<1>7. CASE ExtractStops(p)
  <2>1. PICK e : dir' = [dir EXCEPT ![p] = [dir[p] EXCEPT !.tree = e]]
    BY <1>7 DEF ExtractStops
  <2>2. /\ dir'[p].conf = dir[p].conf /\ dir'[p].obj = dir[p].obj
        /\ dir'[p].patches = dir[p].patches
    BY <1>1, <2>1 DEF DirType
  <2>3. "extracted" \notin stamps[p] /\ "rsynced" \notin stamps[p]
    BY <1>7, <1>2, FoundAtStep DEF ExtractStops, Recipe, FoundOf
  <2>4. FoundOf(p)'
    BY <1>7, <1>2, <1>3, <2>2, <2>3 DEF ExtractStops, FoundOf
  <2> QED BY <1>7, <1>5, <2>1, <2>4 DEF ExtractStops
<1>8. CASE RsyncStops(p)
  <2>1. PICK e : dir' = [dir EXCEPT ![p] = [dir[p] EXCEPT !.tree = e]]
    BY <1>8 DEF RsyncStops
  <2>2. /\ dir'[p].conf = dir[p].conf /\ dir'[p].obj = dir[p].obj
        /\ dir'[p].patches = dir[p].patches
    BY <1>1, <2>1 DEF DirType
  <2>3. "extracted" \notin stamps[p] /\ "rsynced" \notin stamps[p]
    BY <1>8, <1>2, FoundAtStep DEF RsyncStops, Recipe, FoundOf
  <2>4. FoundOf(p)'
    BY <1>8, <1>2, <1>3, <2>2, <2>3 DEF RsyncStops, FoundOf
  <2> QED BY <1>8, <1>5, <2>1, <2>4 DEF RsyncStops
<1>9. CASE PatchStops(p)
  <2>1. PICK h : /\ dir' = [dir EXCEPT ![p] = [dir[p] EXCEPT !.patches = h]]
                 /\ p \notin Patched => h = "none"
    BY <1>9 DEF PatchStops
  <2>2. /\ dir'[p].conf = dir[p].conf /\ dir'[p].obj = dir[p].obj
        /\ dir'[p].tree = dir[p].tree /\ dir'[p].patches = h
    BY <1>1, <2>1 DEF DirType
  <2>3. "patched" \notin stamps[p]
    BY <1>9 DEF PatchStops, Recipe
  <2>4. p \in Patched => failures' # 0
    <3>1. CASE dir[p].patches = "none"
      BY <1>9, <3>1, FailuresGrow DEF PatchStops, Die
    <3>2. CASE dir[p].patches # "none"
      BY <1>2, <1>3, <2>3, <3>2 DEF FoundOf
    <3> QED BY <3>1, <3>2
  <2>5. FoundOf(p)'
    BY <1>9, <1>2, <2>1, <2>2, <2>4 DEF PatchStops, FoundOf
  <2> QED BY <1>9, <1>5, <2>1, <2>5 DEF PatchStops
<1>10. CASE ConfigureStops(p)
  <2>1. PICK c : dir' = [dir EXCEPT ![p] = [dir[p] EXCEPT !.conf = c]]
    BY <1>10 DEF ConfigureStops
  <2>2. /\ dir'[p].tree = dir[p].tree /\ dir'[p].obj = dir[p].obj
        /\ dir'[p].patches = dir[p].patches
    BY <1>1, <2>1 DEF DirType
  <2>3. FoundOf(p)'
    BY <1>10, <1>2, <1>3, <2>2 DEF ConfigureStops, Recipe, FoundOf
  <2> QED BY <1>10, <1>5, <2>1, <2>3 DEF ConfigureStops
<1>11. CASE BuildStops(p)
  <2>1. PICK o : dir' = [dir EXCEPT ![p] = [dir[p] EXCEPT !.obj = o]]
    BY <1>11 DEF BuildStops
  <2>2. /\ dir'[p].tree = dir[p].tree /\ dir'[p].conf = dir[p].conf
        /\ dir'[p].patches = dir[p].patches
    BY <1>1, <2>1 DEF DirType
  <2>3. FoundOf(p)'
    BY <1>11, <1>2, <1>3, <2>2 DEF BuildStops, Recipe, FoundOf
  <2> QED BY <1>11, <1>5, <2>1, <2>3 DEF BuildStops
<1>12. ASSUME NEW s \in AllPlaces, InstallStops(p, s) PROVE FoundOf(q)'
  BY <1>4, <1>12 DEF InstallStops
<1>13. CASE UninstallStops(p)
  <2>1. PICK gone \in SUBSET Uninstalled : stamps' = [stamps EXCEPT ![p] = @ \ gone]
    BY <1>13 DEF UninstallStops, Uninstalled
  <2>2. /\ stamps'[q] \subseteq stamps[q]
        /\ "patched" \in stamps[q] => "patched" \in stamps'[q]
    BY <1>1, <2>1 DEF Uninstalled
  <2> QED BY <1>13, <1>3, <2>2, StillFound DEF UninstallStops
<1>14. ~CleanStops(p) /\ ~DircleanStops(p)
  BY DEF CleanStops, DircleanStops
<1> QED BY <1>6, <1>7, <1>8, <1>9, <1>10, <1>11, <1>12, <1>13, <1>14 DEF StopOf

LEMMA FoundNext ==
  ASSUME StopIn \cap {"clean", "dirclean", "make_clean"} = {}, "patched" \notin UserRemoves
  PROVE  TypeOK /\ MakeInv /\ FoundInv /\ [Next]_vars => FoundInv'
<1> SUFFICES ASSUME TypeOK, MakeInv, FoundInv, [Next]_vars, NEW p \in Pkgs
             PROVE  FoundOf(p)'
  BY DEF FoundInv
<1>1. /\ stamps \in [Pkgs -> SUBSET StampNames] /\ src \in [Pkgs -> Edits]
      /\ dir \in [Pkgs -> DirType] /\ dir[p] \in DirType
  BY DEF TypeOK
<1>2. FoundOf(p)
  BY DEF FoundInv
<1>3. CASE UNCHANGED <<stamps, dl, src, dir>> /\ (failures # 0 => failures' # 0)
  BY <1>3, StillFound
<1>4. CASE Clear \/ ClearStops
  <2>1. PICK gone \in SUBSET ClearSet : stamps' = [stamps EXCEPT ![goal.pkg] = @ \ gone]
    BY <1>4 DEF Clear, ClearStops
  <2>2. "patched" \notin ClearSet
    BY DEF ClearSet, ClearOrder
  <2>3. /\ stamps'[p] \subseteq stamps[p]
        /\ "patched" \in stamps[p] => "patched" \in stamps'[p]
    BY <1>1, <2>1, <2>2
  <2>4. failures # 0 => failures' # 0
    BY <1>4, FailuresGrow DEF Clear, ClearStops
  <2> QED BY <1>4, <2>3, <2>4, StillFound DEF Clear, ClearStops
<1>5. CASE CleanOutput
  <2>1. stamps'[p] = {} /\ dir'[p] = EmptyDir
    BY <1>5 DEF CleanOutput
  <2> QED BY <1>5, <1>2, <2>1 DEF CleanOutput, FoundOf, EmptyDir
<1>6. ASSUME NEW q \in Pkgs, StepOf(q) PROVE FoundOf(p)'
  <2>1. CASE q = p
    BY <1>6, <2>1, FoundStep
  <2>2. CASE q # p
    <3>1. failures' = failures /\ dl \subseteq dl'
      BY <1>6 DEF StepOf, Skip, VisitDepends, Download, Extract, Rsync, Patch, Configure, Build,
                  Install, Uninstall, Clean, Dirclean, Stamp, Rerun, Visit, diskVars
    <3> QED BY <1>6, <2>2, <3>1, OthersUntouched, StillFound
  <2> QED BY <2>1, <2>2
<1>7. ASSUME NEW q \in Pkgs, StopOf(q) PROVE FoundOf(p)'
  BY <1>7, FoundStop
<1>8. ASSUME NEW q \in Pkgs, Edit(q) PROVE FoundOf(p)'
  <2>1. edits' # 0 /\ UNCHANGED <<stamps, dl, failures>>
    BY <1>8, BoundsAssumption DEF Edit, TypeOK
  <2>2. CASE src' = [src EXCEPT ![q] = edits'] /\ UNCHANGED dir
    BY <1>1, <1>2, <2>1, <2>2 DEF FoundOf
  <2>3. CASE dir' = [dir EXCEPT ![q].tree = edits'] /\ UNCHANGED src
    <3>1. /\ dir'[p].conf = dir[p].conf /\ dir'[p].obj = dir[p].obj
          /\ dir'[p].patches = dir[p].patches
          /\ dir[p].tree # 0 => dir'[p].tree # 0
      BY <1>1, <2>1, <2>3 DEF DirType
    <3> QED BY <1>2, <2>1, <2>3, <3>1 DEF FoundOf
  <2> QED BY <1>8, <2>2, <2>3 DEF Edit
<1>9. ASSUME NEW q \in Pkgs, RemoveStamp(q) PROVE FoundOf(p)'
  <2>1. PICK s \in UserRemoves : stamps' = [stamps EXCEPT ![q] = @ \ {s}]
    BY <1>9 DEF RemoveStamp
  <2>2. /\ stamps'[p] \subseteq stamps[p]
        /\ "patched" \in stamps[p] => "patched" \in stamps'[p]
    BY <1>1, <2>1
  <2> QED BY <1>9, <2>2, StillFound DEF RemoveStamp
<1>10. ~CleanOutputStops
  BY DEF CleanOutputStops
<1> QED BY <1>3, <1>4, <1>5, <1>6, <1>7, <1>8, <1>9, <1>10, FailuresGrow
       DEF Next, User, Advance, Stop, Start, Finish, Killed, diskVars, vars

\* A recipe that has to run finds what it works on, whatever failed before it and
\* whichever stamps but .stamp_patched were removed by hand, as long as no
\* foo-clean, foo-dirclean or make clean was cut short.
THEOREM RetriesCanSucceed ==
  ASSUME StopIn \cap {"clean", "dirclean", "make_clean"} = {}, "patched" \notin UserRemoves
  PROVE  Spec => []RetrySucceeds
<1>1. Init => FoundInv
  BY DEF Init, FoundInv, FoundOf, EmptyDir
<1>2. TypeOK /\ MakeInv /\ FoundInv => RetrySucceeds
  <2> SUFFICES ASSUME TypeOK, MakeInv, FoundInv, NEW p \in Pkgs, NEW s \in StampNames, Recipe(p, s)
               PROVE  CanSucceed(p, s)
    BY DEF RetrySucceeds
  <2>1. s = "patched" => dir[p].patches = "none" \/ (p \in Patched /\ failures # 0)
    BY DEF Recipe, FoundInv, FoundOf
  <2> QED BY <2>1, FoundAtStep DEF Recipe, CanSucceed
<1> QED BY <1>1, <1>2, FoundNext, MakeInvariant, PTL DEF Spec
=============================================================================
