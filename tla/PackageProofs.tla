--------------------------- MODULE PackageProofs ---------------------------
(* Theorems about Package, for every set of packages and every bound.      *)
EXTENDS Package, TLAPS

LEMMA NoGoalType == NoGoal \in Goals
BY DEF NoGoal, Goals

LEMMA EditsType == 0 \in Edits /\ 1 \in Edits /\ (1 .. MaxEdits + 1) \subseteq Edits
BY BoundsAssumption DEF Edits

LEMMA NothingType == NothingVisited \in [Pkgs -> SUBSET StepNames]
BY DEF NothingVisited

LEMMA EmptyDirType == EmptyDir \in DirType
BY EditsType DEF EmptyDir, DirType, Series

\* A build directory stays one when one of its parts changes.
LEMMA DirTypeExcept ==
  ASSUME NEW d \in DirType, NEW e \in Edits, NEW h \in Series
  PROVE  /\ d.tree \in Edits /\ d.conf \in Edits /\ d.obj \in Edits /\ d.patches \in Series
         /\ [d EXCEPT !.tree = e] \in DirType
         /\ [d EXCEPT !.conf = e] \in DirType
         /\ [d EXCEPT !.obj = e] \in DirType
         /\ [d EXCEPT !.patches = h] \in DirType
BY DEF DirType

LEMMA TypeInit == Init => TypeOK
<1> SUFFICES ASSUME Init PROVE TypeOK OBVIOUS
<1>1. inst \in [Pkgs -> [AllPlaces -> Edits]] /\ src \in [Pkgs -> Edits]
      /\ dir \in [Pkgs -> DirType] /\ stamps \in [Pkgs -> SUBSET StampNames]
  BY EditsType, EmptyDirType DEF Init, NothingInstalled
<1>2. edits \in 1 .. MaxEdits + 1 /\ failures \in 0 .. MaxFailures
  BY BoundsAssumption DEF Init
<1> QED BY <1>1, <1>2, NoGoalType, NothingType DEF Init, TypeOK

LEMMA ExitType ==
  ASSUME Exit
  PROVE  goal' \in Goals /\ cleared' \in BOOLEAN /\ visited' \in [Pkgs -> SUBSET StepNames]
         /\ ran' \in [Pkgs -> SUBSET StepNames]
BY NoGoalType, NothingType DEF Exit

\* What does not depend on the recipe that stops.
LEMMA DieType ==
  ASSUME TypeOK, Exit, UNCHANGED edits,
         failures' = failures \/ (failures < MaxFailures /\ failures' = failures + 1),
         stamps' \in [Pkgs -> SUBSET StampNames],
         dl' \subseteq Pkgs, src' = src, dir' \in [Pkgs -> DirType],
         inst' \in [Pkgs -> [AllPlaces -> Edits]]
  PROVE  TypeOK'
<1>1. failures' \in 0 .. MaxFailures
  BY BoundsAssumption DEF TypeOK
<1> QED BY <1>1, ExitType DEF TypeOK

LEMMA VisitType ==
  ASSUME TypeOK, NEW p \in Pkgs, NEW s \in StepNames, Visit(p, s),
         ran' \in [Pkgs -> SUBSET StepNames], stamps' \in [Pkgs -> SUBSET StampNames],
         dl' \subseteq Pkgs, src' = src, dir' \in [Pkgs -> DirType],
         inst' \in [Pkgs -> [AllPlaces -> Edits]]
  PROVE  TypeOK'
<1>1. visited' \in [Pkgs -> SUBSET StepNames]
  BY DEF Visit, TypeOK
<1> QED BY <1>1 DEF Visit, TypeOK

LEMMA StampType ==
  ASSUME TypeOK, NEW p \in Pkgs, NEW s \in StampNames, Stamp(p, s),
         dl' \subseteq Pkgs, src' = src, dir' \in [Pkgs -> DirType],
         inst' \in [Pkgs -> [AllPlaces -> Edits]]
  PROVE  TypeOK'
<1>1. s \in StepNames /\ ran' \in [Pkgs -> SUBSET StepNames]
  BY DEF Stamp, TypeOK, StepNames
<1>2. stamps' \in [Pkgs -> SUBSET StampNames]
  BY DEF Stamp, TypeOK
<1> QED BY <1>1, <1>2, VisitType DEF Stamp

LEMMA RerunType ==
  ASSUME TypeOK, NEW p \in Pkgs, NEW s \in StepNames, Rerun(p, s),
         stamps' \in [Pkgs -> SUBSET StampNames],
         dl' \subseteq Pkgs, src' = src, dir' \in [Pkgs -> DirType],
         inst' \in [Pkgs -> [AllPlaces -> Edits]]
  PROVE  TypeOK'
<1>1. ran' \in [Pkgs -> SUBSET StepNames]
  BY DEF Rerun, TypeOK
<1> QED BY <1>1, VisitType DEF Rerun

LEMMA StepNamesFacts ==
  /\ StampNames \subseteq StepNames /\ AllPlaces \subseteq StampNames
  /\ {"downloaded", "extracted", "patched", "rsynced", "configured", "built"} \subseteq StampNames
  /\ {"depends", "uninstalled", "cleaned", "dircleaned"} \subseteq StepNames
  /\ {"staging_installed", "target_installed", "images_installed", "host_installed"} = AllPlaces
BY DEF StepNames, StampNames, PrepSteps, PlaceSteps, AllPlaces

LEMMA TypeStep ==
  ASSUME TypeOK, NEW p \in Pkgs, StepOf(p)
  PROVE  TypeOK'
<1> USE StepNamesFacts
<1>0. /\ dl \subseteq Pkgs /\ src[p] \in Edits /\ dir[p] \in DirType
      /\ dir \in [Pkgs -> DirType] /\ inst \in [Pkgs -> [AllPlaces -> Edits]]
      /\ stamps \in [Pkgs -> SUBSET StampNames] /\ ran \in [Pkgs -> SUBSET StepNames]
  BY DEF TypeOK
<1>d. \A e \in Edits : /\ [dir EXCEPT ![p].tree = e] \in [Pkgs -> DirType]
                       /\ [dir EXCEPT ![p].conf = e] \in [Pkgs -> DirType]
                       /\ [dir EXCEPT ![p].obj = e] \in [Pkgs -> DirType]
  BY <1>0, DirTypeExcept DEF Series
<1>e. dir[p].tree \in Edits /\ dir[p].obj \in Edits
  BY <1>0 DEF DirType
<1>1. ASSUME NEW s \in StampNames, Skip(p, s) PROVE TypeOK'
  BY <1>0, <1>1, VisitType DEF Skip, diskVars
<1>2. CASE VisitDepends(p)
  BY <1>0, <1>2, VisitType DEF VisitDepends, diskVars
<1>3. CASE Download(p)
  BY <1>0, <1>3, StampType DEF Download
<1>4. CASE Extract(p)
  BY <1>0, <1>d, <1>4, StampType DEF Extract
<1>5. CASE Rsync(p)
  BY <1>0, <1>d, <1>5, StampType DEF Rsync
<1>6. CASE Patch(p)
  <2>1. \A h \in Series : [dir EXCEPT ![p].patches = h] \in [Pkgs -> DirType]
    BY <1>0, DirTypeExcept, EditsType
  <2> QED BY <1>0, <1>6, <2>1, StampType DEF Patch, Series
<1>7. CASE Configure(p)
  BY <1>0, <1>d, <1>e, <1>7, StampType DEF Configure
<1>8. CASE Build(p)
  BY <1>0, <1>d, <1>e, <1>8, StampType DEF Build
<1>9. ASSUME NEW s \in AllPlaces, Install(p, s) PROVE TypeOK'
  <2>1. inst' \in [Pkgs -> [AllPlaces -> Edits]]
    BY <1>0, <1>e, <1>9 DEF Install
  <2> QED BY <1>0, <1>9, <2>1, StampType DEF Install
<1>10. CASE Uninstall(p)
  <2>1. inst' \in [Pkgs -> [AllPlaces -> Edits]]
    BY <1>0, <1>10, EditsType DEF Uninstall
  <2>2. stamps' \in [Pkgs -> SUBSET StampNames]
    BY <1>0, <1>10 DEF Uninstall
  <2> QED BY <1>0, <1>10, <2>1, <2>2, RerunType DEF Uninstall
<1>11. CASE Clean(p)
  <2>1. stamps' \in [Pkgs -> SUBSET StampNames]
    BY <1>0, <1>11 DEF Clean
  <2> QED BY <1>0, <1>d, <1>11, <2>1, EditsType, RerunType DEF Clean
<1>12. CASE Dirclean(p)
  <2>1. stamps' \in [Pkgs -> SUBSET StampNames] /\ dir' \in [Pkgs -> DirType]
    BY <1>0, <1>12, EmptyDirType DEF Dirclean
  <2> QED BY <1>0, <1>12, <2>1, RerunType DEF Dirclean
<1> QED BY <1>1, <1>2, <1>3, <1>4, <1>5, <1>6, <1>7, <1>8, <1>9, <1>10, <1>11, <1>12 DEF StepOf

LEMMA CutTreesType ==
  ASSUME TypeOK, NEW p \in Pkgs
  PROVE  CutTrees(p) \subseteq DirType
<1>1. dir[p] \in DirType
  BY DEF TypeOK
<1>2. /\ dir[p].conf \in Edits /\ dir[p].obj \in Edits /\ dir[p].patches \in Series
      /\ 0 \in Edits /\ "none" \in Series
  BY <1>1, EditsType DEF DirType, Series
<1> QED BY <1>2 DEF CutTrees, DirType

LEMMA TypeStop ==
  ASSUME TypeOK, NEW p \in Pkgs, StopOf(p)
  PROVE  TypeOK'
<1> USE StepNamesFacts
<1>0. /\ dl \subseteq Pkgs /\ src[p] \in Edits /\ dir[p] \in DirType
      /\ dir \in [Pkgs -> DirType] /\ inst \in [Pkgs -> [AllPlaces -> Edits]]
      /\ stamps \in [Pkgs -> SUBSET StampNames]
  BY DEF TypeOK
<1>d. \A e \in Edits : /\ [dir EXCEPT ![p].tree = e] \in [Pkgs -> DirType]
                       /\ [dir EXCEPT ![p].conf = e] \in [Pkgs -> DirType]
                       /\ [dir EXCEPT ![p].obj = e] \in [Pkgs -> DirType]
  BY <1>0, DirTypeExcept DEF Series
<1>e. /\ dir[p].tree \in Edits /\ dir[p].obj \in Edits /\ dir[p].conf \in Edits
      /\ dir[p].patches \in Series /\ 0 \in Edits
  BY <1>0, EditsType DEF DirType
<1>1. CASE DownloadStops(p)
  BY <1>0, <1>1, DieType DEF Die, DownloadStops
<1>2. CASE ExtractStops(p)
  <2>0. PICK e \in Edits : dir' = [dir EXCEPT ![p].tree = e]
    BY <1>0, <1>e, <1>2 DEF ExtractStops
  <2>1. dir' \in [Pkgs -> DirType]
    BY <1>d, <2>0
  <2> QED BY <1>0, <1>2, <2>1, DieType DEF Die, ExtractStops
<1>3. CASE RsyncStops(p)
  <2>0. PICK e \in Edits : dir' = [dir EXCEPT ![p].tree = e]
    BY <1>0, <1>e, <1>3 DEF RsyncStops
  <2>1. dir' \in [Pkgs -> DirType]
    BY <1>d, <2>0
  <2> QED BY <1>0, <1>3, <2>1, DieType DEF Die, RsyncStops
<1>4. CASE PatchStops(p)
  <2>1. \A h \in Series : [dir EXCEPT ![p].patches = h] \in [Pkgs -> DirType]
    BY <1>0, DirTypeExcept, EditsType
  <2>2. dir' \in [Pkgs -> DirType]
    BY <1>4, <2>1 DEF PatchStops, Series
  <2> QED BY <1>0, <1>4, <2>2, DieType DEF Die, PatchStops
<1>5. CASE ConfigureStops(p)
  <2>0. PICK e \in Edits : dir' = [dir EXCEPT ![p].conf = e]
    BY <1>0, <1>e, <1>5 DEF ConfigureStops
  <2>1. dir' \in [Pkgs -> DirType]
    BY <1>d, <2>0
  <2> QED BY <1>0, <1>5, <2>1, DieType DEF Die, ConfigureStops
<1>6. CASE BuildStops(p)
  <2>0. PICK e \in Edits : dir' = [dir EXCEPT ![p].obj = e]
    BY <1>0, <1>e, <1>6 DEF BuildStops
  <2>1. dir' \in [Pkgs -> DirType]
    BY <1>d, <2>0
  <2> QED BY <1>0, <1>6, <2>1, DieType DEF Die, BuildStops
<1>7. ASSUME NEW s \in AllPlaces, InstallStops(p, s) PROVE TypeOK'
  <2>1. inst' \in [Pkgs -> [AllPlaces -> Edits]]
    BY <1>0, <1>e, <1>7 DEF InstallStops
  <2> QED BY <1>0, <1>7, <2>1, DieType DEF Die, InstallStops
<1>8. CASE UninstallStops(p)
  <2>1. inst' \in [Pkgs -> [AllPlaces -> Edits]]
    <3>1. CASE UNCHANGED inst
      BY <1>0, <3>1
    <3>2. ASSUME NEW gone \in SUBSET AllPlaces,
                 inst' = [inst EXCEPT ![p] = [s \in AllPlaces |->
                                               IF s \in gone THEN 0 ELSE inst[p][s]]]
          PROVE  inst' \in [Pkgs -> [AllPlaces -> Edits]]
      BY <1>0, <1>e, <3>2
    <3> QED BY <1>8, <3>1, <3>2 DEF UninstallStops
  <2>2. stamps' \in [Pkgs -> SUBSET StampNames]
    BY <1>0, <1>8 DEF UninstallStops
  <2> QED BY <1>0, <1>8, <2>1, <2>2, DieType DEF Die, UninstallStops
<1>9. CASE CleanStops(p)
  BY <1>0, <1>d, <1>e, <1>9, DieType DEF Die, CleanStops
<1>10. CASE DircleanStops(p)
  <2>1. stamps' \in [Pkgs -> SUBSET StampNames]
    BY <1>0, <1>10 DEF DircleanStops
  <2>2. CutTrees(p) \subseteq DirType
    BY CutTreesType
  <2>3. dir' \in [Pkgs -> DirType]
    BY <1>0, <1>10, <2>2 DEF DircleanStops
  <2> QED BY <1>0, <1>10, <2>1, <2>3, DieType DEF Die, DircleanStops
<1> QED BY <1>1, <1>2, <1>3, <1>4, <1>5, <1>6, <1>7, <1>8, <1>9, <1>10 DEF StopOf

LEMMA TypeNext == TypeOK /\ [Next]_vars => TypeOK'
<1> SUFFICES ASSUME TypeOK, [Next]_vars PROVE TypeOK' OBVIOUS
<1>1. ASSUME NEW op \in WorldOps, Start(op, NoPkg) PROVE TypeOK'
  <2>1. goal' \in Goals
    BY <1>1 DEF Start, Goals
  <2> QED BY <1>1, <2>1 DEF Start, TypeOK, diskVars
<1>2. ASSUME NEW op \in PkgOps, NEW p \in Pkgs, Start(op, p) PROVE TypeOK'
  <2>1. goal' \in Goals
    BY <1>2 DEF Start, Goals
  <2> QED BY <1>2, <2>1 DEF Start, TypeOK, diskVars
<1>3. ASSUME NEW p \in Pkgs, Edit(p) PROVE TypeOK'
  <2>1. edits' \in 1 .. MaxEdits + 1 /\ edits' \in Edits
    BY <1>3, BoundsAssumption DEF Edit, TypeOK, Edits
  <2>2. src' \in [Pkgs -> Edits]
    BY <1>3, <2>1 DEF Edit, TypeOK
  <2>3. dir[p] \in DirType /\ \A e \in Edits : [dir[p] EXCEPT !.tree = e] \in DirType
    BY DirTypeExcept DEF TypeOK, Series
  <2>4. dir' \in [Pkgs -> DirType]
    BY <1>3, <2>1, <2>3 DEF Edit, TypeOK
  <2> QED BY <1>3, <2>1, <2>2, <2>4 DEF Edit, TypeOK, makeVars
<1>4. ASSUME NEW p \in Pkgs, RemoveStamp(p) PROVE TypeOK'
  BY <1>4 DEF RemoveStamp, TypeOK, makeVars
<1>5. CASE Clear
  BY <1>5 DEF Clear, TypeOK
<1>6. CASE Finish
  BY <1>6, ExitType DEF Finish, TypeOK, diskVars
<1>7. CASE Killed
  <2>1. Exit /\ UNCHANGED edits /\ failures < MaxFailures /\ failures' = failures + 1
    BY <1>7 DEF Die, Killed
  <2>2. UNCHANGED <<stamps, dl, src, dir, inst>>
    BY <1>7 DEF Killed, diskVars
  <2>3. /\ stamps' \in [Pkgs -> SUBSET StampNames] /\ dl' \subseteq Pkgs
        /\ dir' \in [Pkgs -> DirType] /\ inst' \in [Pkgs -> [AllPlaces -> Edits]]
    BY <2>2 DEF TypeOK
  <2> QED BY <2>1, <2>2, <2>3, DieType
<1>8. CASE ClearStops
  <2>0. PICK k \in 1 .. Len(ClearOrder) :
          stamps' = [stamps EXCEPT
                       ![goal.pkg] = @ \ (ClearSet \cap {ClearOrder[i] : i \in 1 .. k})]
    BY <1>8 DEF ClearStops
  <2>. DEFINE cut == ClearSet \cap {ClearOrder[i] : i \in 1 .. k}
  <2>b. stamps \in [Pkgs -> SUBSET StampNames]
    BY DEF TypeOK
  <2>c. stamps' = [stamps EXCEPT ![goal.pkg] = stamps[goal.pkg] \ cut]
    BY <2>0
  <2>. HIDE DEF cut
  <2>1. stamps' \in [Pkgs -> SUBSET StampNames]
    BY <2>b, <2>c
  <2>2. Exit /\ UNCHANGED edits /\ failures < MaxFailures /\ failures' = failures + 1
    BY <1>8 DEF Die, ClearStops
  <2>3. UNCHANGED <<dl, src, dir, inst>>
    BY <1>8 DEF ClearStops
  <2>4. dl' \subseteq Pkgs /\ dir' \in [Pkgs -> DirType] /\ inst' \in [Pkgs -> [AllPlaces -> Edits]]
    BY <2>3 DEF TypeOK
  <2> QED BY <2>1, <2>2, <2>3, <2>4, DieType
<1>9. CASE UNCHANGED vars
  BY <1>9 DEF vars, TypeOK
<1>n. NothingInstalled \in [Pkgs -> [AllPlaces -> Edits]]
  BY EditsType DEF NothingInstalled
<1>10. CASE CleanOutput
  <2>1. stamps' \in [Pkgs -> SUBSET StampNames] /\ dir' \in [Pkgs -> DirType]
    BY <1>10, EmptyDirType DEF CleanOutput
  <2> QED BY <1>10, <1>n, <2>1 DEF CleanOutput, TypeOK
<1>11. CASE CleanOutputStops
  <2>1. dl' = dl /\ src' = src /\ dl \subseteq Pkgs
    BY <1>11 DEF CleanOutputStops, TypeOK
  <2>2. ASSUME NEW k \in DOMAIN RemovedInOrder, NEW some \in SUBSET Pkgs,
               inst' = [p \in Pkgs |-> [s \in AllPlaces |->
                          IF \/ \E i \in 1 .. k - 1 : s = RemovedInOrder[i]
                             \/ s = RemovedInOrder[k] /\ p \in some
                            THEN 0 ELSE inst[p][s]]],
               UNCHANGED <<stamps, dir>>
        PROVE  TypeOK'
    <3>1. inst' \in [Pkgs -> [AllPlaces -> Edits]]
      BY <2>2, EditsType DEF TypeOK
    <3> QED BY <1>11, <2>1, <2>2, <3>1, DieType DEF CleanOutputStops, Die, TypeOK
  <2>3. ASSUME inst' = NothingInstalled, NEW gone \in SUBSET Pkgs, NEW q \in Pkgs,
               NEW left \in SUBSET stamps[q], NEW d \in CutTrees(q),
               stamps' = [p \in Pkgs |-> IF p = q THEN left
                                       ELSE IF p \in gone THEN {} ELSE stamps[p]],
               dir' = [p \in Pkgs |-> IF p = q THEN d
                                    ELSE IF p \in gone THEN EmptyDir ELSE dir[p]]
        PROVE  TypeOK'
    <3>1. stamps' \in [Pkgs -> SUBSET StampNames]
      BY <2>3 DEF TypeOK
    <3>2. dir' \in [Pkgs -> DirType]
      BY <2>3, CutTreesType, EmptyDirType DEF TypeOK
    <3> QED BY <1>11, <1>n, <2>1, <2>3, <3>1, <3>2, DieType DEF CleanOutputStops, Die
  <2> QED BY <1>11, <2>2, <2>3 DEF CleanOutputStops
<1> QED BY <1>1, <1>2, <1>3, <1>4, <1>5, <1>6, <1>7, <1>8, <1>9, <1>10, <1>11, TypeStep, TypeStop
       DEF Next, User, Advance, Stop

\* Every variable keeps its type: whatever fails, a build directory holds only
\* the stamps of Makefile.package.in, and the edits installed are edits made.
THEOREM TypeCorrect == Spec => []TypeOK
<1> QED BY TypeInit, TypeNext, PTL DEF Spec

-----------------------------------------------------------------------------
(* How the phony targets order the steps.                                  *)

LEMMA DepthDecreases ==
  /\ Depth \in [Pkgs -> 0 .. Cardinality(Pkgs)]
  /\ \A p \in Pkgs : \A q \in Deps[p] : Depth[q] < Depth[p]
BY AcyclicAssumption DEF Depth

LEMMA DepthIsNat == \A p \in Pkgs : Depth[p] \in Nat
BY DepthDecreases

LEMMA InstallStepsAreLate ==
  ASSUME NEW p \in Pkgs
  PROVE  /\ InstallSteps(p) \subseteq AllPlaces
         /\ AllPlaces \cap {"downloaded", "extracted", "patched", "rsynced", "depends",
                           "configured", "built", "uninstalled", "cleaned", "dircleaned"} = {}
BY PkgsAssumption DEF InstallSteps, AllPlaces, PlaceSteps

LEMMA WantedForms ==
  ASSUME TypeOK, NEW p \in Pkgs
  PROVE  \/ Wanted(p) \subseteq {"downloaded"} /\ goal.op = "source"
              /\ (p \in Override => Wanted(p) = {})
         \/ /\ Wanted(p) = ConfigureSteps(p) \cup {"uninstalled"}
            /\ goal.op = "uninstall" /\ goal.pkg = p
         \/ /\ Wanted(p) = ConfigureSteps(p) \cup {"uninstalled", "cleaned"}
            /\ goal.op = "clean" /\ goal.pkg = p
         \/ Wanted(p) = {"dircleaned"} /\ goal.op = "dirclean" /\ goal.pkg = p
         \/ Wanted(p) = StepsUpTo(p, goal.op) /\ goal.op \in StepGoals /\ goal.pkg = p
         \/ /\ Wanted(p) = AllSteps(p) /\ goal.op # "source"
            /\ ~(goal.op \in PartialGoals /\ goal.pkg = p)
<1>0. {"source", "uninstall", "clean", "dirclean"} \cap StepGoals = {}
  BY DEF StepGoals, StampNames, PrepSteps, PlaceSteps
<1>1. CASE goal.op = "source"
  BY <1>1 DEF Wanted
<1>2. CASE goal.op = "uninstall" /\ goal.pkg = p
  BY <1>0, <1>2 DEF Wanted
<1>3. CASE goal.op = "clean" /\ goal.pkg = p
  BY <1>0, <1>3 DEF Wanted
<1>4. CASE goal.op = "dirclean" /\ goal.pkg = p
  BY <1>0, <1>4 DEF Wanted
<1>5. CASE goal.op \in StepGoals /\ goal.pkg = p
  BY <1>0, <1>5 DEF Wanted
<1>6. CASE goal.op # "source" /\ ~(goal.op \in PartialGoals /\ goal.pkg = p)
  BY <1>6 DEF Wanted, PartialGoals
<1> QED BY <1>1, <1>2, <1>3, <1>4, <1>5, <1>6 DEF PartialGoals

LEMMA RankFacts ==
  /\ \A s \in StepNames : Rank[s] \in Nat
  /\ Rank["downloaded"] < Rank["extracted"] /\ Rank["extracted"] < Rank["patched"]
  /\ Rank["patched"] < Rank["configured"] /\ Rank["depends"] < Rank["configured"]
  /\ Rank["rsynced"] < Rank["depends"]
  /\ Rank["configured"] < Rank["built"]
  /\ \A s \in AllPlaces : Rank["built"] < Rank[s]
BY DEF Rank, StepNames, StampNames, PrepSteps, PlaceSteps, AllPlaces

\* The goal that stops at a step has the prerequisites of the step.
LEMMA StepsUpToTogether ==
  ASSUME NEW p \in Pkgs, NEW s \in StepGoals
  PROVE  LET W == StepsUpTo(p, s) IN
         /\ W \subseteq ConfigureSteps(p) \cup {"built"} \cup InstallSteps(p)
         /\ "extracted" \in W => "downloaded" \in W
         /\ "patched" \in W => "extracted" \in W
         /\ "configured" \in W => "depends" \in W /\ (p \notin Override => "patched" \in W)
         /\ "built" \in W => "configured" \in W
         /\ W \cap AllPlaces # {} => "built" \in W
<1> DEFINE W == StepsUpTo(p, s)
           all == ConfigureSteps(p) \cup {"built"} \cup (InstallSteps(p) \cap {s})
<1>0. s \in StepNames
  BY StepNamesFacts DEF StepGoals
<1>1. CASE s \in AllPlaces \ InstallSteps(p)
  BY <1>1 DEF StepsUpTo
<1>2. CASE s = "depends" /\ p \notin Override
  <2>1. W = {"depends"}
    BY <1>2 DEF StepsUpTo, AllPlaces, PlaceSteps
  <2>2. "depends" \in ConfigureSteps(p)
    BY DEF ConfigureSteps
  <2>3. "depends" \notin AllPlaces
    BY DEF AllPlaces, PlaceSteps
  <2> QED BY <2>1, <2>2, <2>3
<1>3. CASE ~(s \in AllPlaces \ InstallSteps(p)) /\ ~(s = "depends" /\ p \notin Override)
  <2>1. W = {t \in all : Rank[t] <= Rank[s]}
    BY <1>3 DEF StepsUpTo
  <2>2. /\ {"depends", "configured"} \subseteq all /\ "built" \in all
        /\ p \notin Override => {"downloaded", "extracted", "patched"} \subseteq all
        /\ p \in Override => all \cap {"downloaded", "extracted", "patched"} = {}
    BY InstallStepsAreLate DEF ConfigureSteps
  <2>3. \A t, v \in StepNames : Rank[t] < Rank[v] /\ Rank[v] <= Rank[s] => Rank[t] <= Rank[s]
    BY <1>0, RankFacts
  <2>4. {"downloaded", "extracted", "patched", "depends", "configured", "built"} \subseteq StepNames
    BY StepNamesFacts
  <2>5. \A t, v \in StepNames : v \in W /\ t \in all /\ Rank[t] < Rank[v] => t \in W
    BY <2>1, <2>3
  <2>6. W \subseteq all
    BY <2>1
  <2> HIDE DEF W, all
  <2>7. "extracted" \in W => "downloaded" \in W
    BY <2>2, <2>4, <2>5, <2>6, RankFacts
  <2>8. "patched" \in W => "extracted" \in W
    BY <2>2, <2>4, <2>5, <2>6, RankFacts
  <2>9. "configured" \in W => "depends" \in W /\ (p \notin Override => "patched" \in W)
    BY <2>2, <2>4, <2>5, <2>6, RankFacts
  <2>10. "built" \in W => "configured" \in W
    BY <2>2, <2>4, <2>5, <2>6, RankFacts
  <2>11. W \subseteq ConfigureSteps(p) \cup {"built"} \cup InstallSteps(p)
    BY <2>6 DEF all
  <2>12. W \cap AllPlaces # {} => "built" \in W
    BY <2>2, <2>4, <2>5, <2>6, RankFacts, StepNamesFacts
  <2> QED BY <2>7, <2>8, <2>9, <2>10, <2>11, <2>12 DEF W
<1> QED BY <1>1, <1>2, <1>3

\* The prerequisites of a step are wanted whenever the step is.
LEMMA WantedTogether ==
  ASSUME TypeOK, NEW p \in Pkgs
  PROVE  /\ "downloaded" \in Wanted(p) => p \notin Override
         /\ "extracted" \in Wanted(p) => p \notin Override /\ "downloaded" \in Wanted(p)
         /\ "patched" \in Wanted(p) => p \notin Override /\ "extracted" \in Wanted(p)
         /\ "rsynced" \in Wanted(p) => p \in Override
         /\ "configured" \in Wanted(p) =>
              /\ "depends" \in Wanted(p) /\ goal.op # "source"
              /\ p \notin Override => "patched" \in Wanted(p)
         /\ "built" \in Wanted(p) => "configured" \in Wanted(p)
         /\ Wanted(p) \cap AllPlaces # {} => "built" \in Wanted(p)
         /\ "uninstalled" \in Wanted(p) \/ "cleaned" \in Wanted(p) =>
              Wanted(p) \cap ({"built"} \cup AllPlaces) = {}
         /\ "dircleaned" \in Wanted(p) => Wanted(p) = {"dircleaned"}
         /\ goal.op # "source" =>
              \/ InstallSteps(p) \subseteq Wanted(p)
              \/ goal.op \in PartialGoals /\ goal.pkg = p
         /\ Wanted(p) = {"depends"} => goal.op = "depends" /\ goal.pkg = p
<1> USE InstallStepsAreLate
<1>1. CASE Wanted(p) \subseteq {"downloaded"} /\ goal.op = "source"
           /\ (p \in Override => Wanted(p) = {})
  BY <1>1
<1>2. CASE Wanted(p) = StepsUpTo(p, goal.op) /\ goal.op \in StepGoals /\ goal.pkg = p
  <2>1. goal.op # "source" /\ goal.op \in PartialGoals
    BY <1>2 DEF StepGoals, StampNames, PrepSteps, PlaceSteps, PartialGoals
  <2>2. Wanted(p) = {"depends"} => goal.op = "depends"
    <3>1. CASE goal.op \in AllPlaces \ InstallSteps(p)
      BY <1>2, <3>1 DEF StepsUpTo
    <3>2. CASE goal.op = "depends"
      BY <3>2
    <3>3. CASE ~(goal.op \in AllPlaces \ InstallSteps(p)) /\ goal.op # "depends"
      <4>1. goal.op \in StepNames /\ Rank[goal.op] \in Nat
        BY <1>2, RankFacts, StepNamesFacts DEF StepGoals
      <4>2. goal.op \in AllPlaces \/ goal.op \in {"downloaded", "extracted", "patched", "rsynced",
                                                 "configured", "built"}
        BY <1>2, <3>3 DEF StepGoals, StampNames, PrepSteps, PlaceSteps, AllPlaces
      <4>3. goal.op \in ConfigureSteps(p) \cup {"built"} \cup (InstallSteps(p) \cap {goal.op})
            => goal.op \in Wanted(p)
        BY <1>2, <3>3, <4>1 DEF StepsUpTo
      <4>4. CASE goal.op \in {"downloaded", "extracted", "patched", "rsynced"}
        <5>1. Rank["depends"] > Rank[goal.op]
          BY <4>4 DEF Rank
        <5>2. "depends" \notin Wanted(p)
          BY <1>2, <3>3, <4>1, <5>1, RankFacts, StepNamesFacts DEF StepsUpTo
        <5> QED BY <5>2
      <4>5. CASE goal.op \in AllPlaces \cup {"configured", "built"}
        <5>1. goal.op \in Wanted(p)
          BY <3>3, <4>3, <4>5 DEF ConfigureSteps
        <5> QED BY <3>3, <5>1
      <4> QED BY <4>2, <4>4, <4>5
    <3> QED BY <3>1, <3>2, <3>3
  <2> QED BY <1>2, <2>1, <2>2, StepsUpToTogether DEF ConfigureSteps
<1>3. CASE \/ Wanted(p) = ConfigureSteps(p) \cup {"uninstalled"} /\ goal.op = "uninstall"
           \/ Wanted(p) = ConfigureSteps(p) \cup {"uninstalled", "cleaned"} /\ goal.op = "clean"
           \/ Wanted(p) = {"dircleaned"} /\ goal.op = "dirclean"
  <2>1. goal.op \in PartialGoals /\ goal.op # "source" /\ goal.pkg = p
    BY <1>3, WantedForms DEF PartialGoals, ConfigureSteps, AllSteps
  <2> QED BY <1>3, <2>1 DEF ConfigureSteps
<1>4. CASE Wanted(p) = AllSteps(p) /\ goal.op # "source"
  BY <1>4 DEF ConfigureSteps, AllSteps
<1> QED BY <1>1, <1>2, <1>3, <1>4, WantedForms

\* A step that make reaches finds the stamps of its prerequisites.
LEMMA StampedBefore ==
  ASSUME TypeOK, VisitedInOrder, NEW p \in Pkgs, NEW s, AtStep(p, s),
         NEW t \in StampNames, t \in Wanted(p), Rank[t] < Rank[s]
  PROVE  t \in stamps[p]
BY DEF AtStep, Before, VisitedInOrder

-----------------------------------------------------------------------------
(* The invariant of one invocation of make.                                *)

LEMMA VisitKeepsOrder ==
  ASSUME TypeOK, MakeInv, NEW p \in Pkgs, NEW s \in StepNames, AtStep(p, s), Visit(p, s),
         ran' = ran \/ ran' = [ran EXCEPT ![p] = @ \cup {s}],
         \A q \in Pkgs \ {p} : stamps'[q] = stamps[q],
         (visited[p] \cup {s}) \cap StampNames \subseteq stamps'[p],
         s = "depends" => \A q \in Deps[p] : Complete(q)
  PROVE  MakeInv'
<1>1. goal' = goal /\ cleared' = cleared /\ cleared /\ Running
  BY DEF Visit, AtStep
<1>2. \A q \in Pkgs : Wanted(q)' = Wanted(q)
  BY <1>1 DEF Wanted
<1>3. \A q \in Pkgs, t \in StepNames : Before(q, t)' = Before(q, t)
  BY <1>2 DEF Before
<1>4. /\ visited'[p] = visited[p] \cup {s}
      /\ \A q \in Pkgs \ {p} : visited'[q] = visited[q]
  BY DEF Visit, TypeOK
<1>5. \A q \in Pkgs : visited[q] \subseteq visited'[q] /\ visited[q] \subseteq StepNames
  BY <1>4 DEF TypeOK
<1>6. \A q \in Pkgs : Complete(q) => Complete(q)'
  BY <1>2, <1>5 DEF Complete
<1>7. ran'[p] \subseteq ran[p] \cup {s} /\ \A q \in Pkgs \ {p} : ran'[q] = ran[q]
  BY DEF TypeOK
<1>8. s \in Wanted(p) /\ Before(p, s) \subseteq visited[p]
  BY DEF AtStep
<1>a. VisitedInOrder'
  <2> SUFFICES ASSUME NEW q \in Pkgs
      PROVE  /\ ran'[q] \subseteq visited'[q] /\ visited'[q] \subseteq Wanted(q)
             /\ visited'[q] \cap StampNames \subseteq stamps'[q]
             /\ \A t \in visited'[q] : Before(q, t) \subseteq visited'[q]
             /\ "depends" \in visited'[q] => \A r \in Deps[q] : Complete(r)'
    BY <1>2, <1>3, <1>4, <1>5 DEF VisitedInOrder
  <2>0. Deps[q] \subseteq Pkgs
    BY PkgsAssumption
  <2>1. CASE q = p
    BY <1>4, <1>6, <1>7, <1>8, <2>0, <2>1 DEF MakeInv, VisitedInOrder
  <2>2. CASE q # p
    BY <1>4, <1>6, <1>7, <2>0, <2>2 DEF MakeInv, VisitedInOrder
  <2> QED BY <2>1, <2>2
<1>b. NothingBeforeClear'
  BY <1>1 DEF NothingBeforeClear, Running
<1>c. OnlyBelowGoal'
  <2> SUFFICES ASSUME goal.op \in PartialGoals
               PROVE  p = goal.pkg \/ Depth[p] < Depth[goal.pkg]
    BY <1>1, <1>4 DEF OnlyBelowGoal, MakeInv
  <2>1. CASE visited[p] # {} \/ Wanted(p) = {"depends"}
    BY <2>1, WantedTogether DEF MakeInv, OnlyBelowGoal
  <2>2. CASE p \in Roots
    <3>1. goal.op \notin {"all", "rebuild", "reconfigure", "source", "make_clean"}
      BY DEF PartialGoals, StepGoals, StampNames, PrepSteps, PlaceSteps
    <3> QED BY <2>2, <3>1 DEF Roots
  <2>3. ASSUME NEW q \in Pkgs, Innermost(q), p \in Deps[q]
        PROVE  Depth[p] < Depth[goal.pkg]
    <3>1. visited[q] # {} \/ q = goal.pkg
      BY <2>3, WantedTogether DEF Innermost, Open
    <3>2. q = goal.pkg \/ Depth[q] < Depth[goal.pkg]
      BY <3>1 DEF MakeInv, OnlyBelowGoal
    <3>3. goal.pkg \in Pkgs
      <4>1. goal.op \notin WorldOps /\ goal.op # "idle"
        BY DEF PartialGoals, StepGoals, StampNames, PrepSteps, PlaceSteps, WorldOps
      <4> QED BY <4>1 DEF TypeOK, Goals, NoGoal
    <3> QED BY <2>3, <3>2, <3>3, DepthDecreases, DepthIsNat
  <2> QED BY <2>1, <2>2, <2>3 DEF AtStep, Turn, Innermost, Open
<1> QED BY <1>a, <1>b, <1>c DEF MakeInv

LEMMA MakeInvInit == Init => MakeInv
<1> SUFFICES ASSUME Init PROVE MakeInv OBVIOUS
<1>1. VisitedInOrder
  BY DEF Init, NothingVisited, VisitedInOrder
<1>2. NothingBeforeClear
  BY DEF Init, NothingBeforeClear
<1>3. OnlyBelowGoal
  BY DEF Init, NothingVisited, OnlyBelowGoal
<1> QED BY <1>1, <1>2, <1>3 DEF MakeInv

\* Nothing is known to be up to date: at the start and at the end.
LEMMA NothingKept ==
  ASSUME visited' = NothingVisited, ran' = NothingVisited,
         (goal # NoGoal \/ cleared)', (~cleared => goal.op \in ClearGoals \cup {"make_clean"})'
  PROVE  MakeInv'
<1>1. VisitedInOrder'
  BY DEF NothingVisited, VisitedInOrder
<1>2. NothingBeforeClear'
  BY DEF NothingBeforeClear, Running
<1>3. OnlyBelowGoal'
  BY DEF NothingVisited, OnlyBelowGoal
<1> QED BY <1>1, <1>2, <1>3 DEF MakeInv

LEMMA ExitKeepsOrder ==
  ASSUME Exit
  PROVE  MakeInv'
BY NothingKept DEF Exit

LEMMA MakeInvStep ==
  ASSUME TypeOK, MakeInv, NEW p \in Pkgs, StepOf(p)
  PROVE  MakeInv'
<1> USE StepNamesFacts
<1>0. stamps \in [Pkgs -> SUBSET StampNames] /\ visited \in [Pkgs -> SUBSET StepNames]
  BY DEF TypeOK
<1>v. visited[p] \cap StampNames \subseteq stamps[p] /\ visited[p] \subseteq Wanted(p)
  BY DEF MakeInv, VisitedInOrder
<1>d. "depends" \notin StampNames
  BY DEF StampNames, PrepSteps, PlaceSteps
<1>k. ASSUME NEW s \in StampNames, AtStep(p, s), Stamp(p, s)
      PROVE  MakeInv'
  BY <1>0, <1>v, <1>d, <1>k, VisitKeepsOrder DEF Stamp
<1>1. ASSUME NEW s \in StampNames, Skip(p, s) PROVE MakeInv'
  BY <1>v, <1>d, <1>1, VisitKeepsOrder DEF Skip, diskVars
<1>2. CASE VisitDepends(p)
  BY <1>v, <1>d, <1>2, VisitKeepsOrder DEF VisitDepends, diskVars
<1>3. CASE Download(p)  BY <1>3, <1>k DEF Download, Recipe
<1>4. CASE Extract(p)   BY <1>4, <1>k DEF Extract, Recipe
<1>5. CASE Rsync(p)     BY <1>5, <1>k DEF Rsync, Recipe
<1>6. CASE Patch(p)     BY <1>6, <1>k DEF Patch, Recipe
<1>7. CASE Configure(p) BY <1>7, <1>k DEF Configure, Recipe
<1>8. CASE Build(p)     BY <1>8, <1>k DEF Build, Recipe
<1>9. ASSUME NEW s \in AllPlaces, Install(p, s) PROVE MakeInv'
  BY <1>9, <1>k DEF Install, Recipe
<1>10. CASE Uninstall(p)
  <2>1. Wanted(p) \cap AllPlaces = {}
    BY <1>10, WantedTogether DEF Uninstall, AtStep
  <2>2. "uninstalled" \notin StampNames
    BY DEF StampNames, PrepSteps, PlaceSteps
  <2>3. /\ stamps'[p] = stamps[p] \ {"staging_installed", "target_installed"}
        /\ \A q \in Pkgs \ {p} : stamps'[q] = stamps[q]
    BY <1>0, <1>10 DEF Uninstall
  <2> QED BY <1>v, <1>10, <2>1, <2>2, <2>3, VisitKeepsOrder DEF Uninstall, Rerun
<1>11. CASE Clean(p)
  <2>1. "built" \notin Wanted(p)
    BY <1>11, WantedTogether DEF Clean, AtStep
  <2>2. "cleaned" \notin StampNames
    BY DEF StampNames, PrepSteps, PlaceSteps
  <2>3. /\ stamps'[p] = stamps[p] \ {"built"}
        /\ \A q \in Pkgs \ {p} : stamps'[q] = stamps[q]
    BY <1>0, <1>11 DEF Clean
  <2> QED BY <1>v, <1>11, <2>1, <2>2, <2>3, VisitKeepsOrder DEF Clean, Rerun
<1>12. CASE Dirclean(p)
  <2>1. Wanted(p) = {"dircleaned"} /\ "dircleaned" \notin StampNames
    BY <1>12, WantedTogether DEF Dirclean, AtStep, StampNames, PrepSteps, PlaceSteps
  <2>2. stamps'[p] = {} /\ \A q \in Pkgs \ {p} : stamps'[q] = stamps[q]
    BY <1>0, <1>12 DEF Dirclean
  <2> QED BY <1>v, <1>12, <2>1, <2>2, VisitKeepsOrder DEF Dirclean, Rerun
<1> QED BY <1>1, <1>2, <1>3, <1>4, <1>5, <1>6, <1>7, <1>8, <1>9, <1>10, <1>11, <1>12 DEF StepOf

LEMMA StopExits == \A p \in Pkgs : StopOf(p) => Exit
BY DEF StopOf, DownloadStops, ExtractStops, RsyncStops, PatchStops, ConfigureStops,
       BuildStops, InstallStops, UninstallStops, CleanStops, DircleanStops, Die

LEMMA MakeInvNext == TypeOK /\ MakeInv /\ [Next]_vars => MakeInv'
<1> SUFFICES ASSUME TypeOK, MakeInv, [Next]_vars PROVE MakeInv' OBVIOUS
<1>n. ~Running => \A q \in Pkgs : visited[q] = {} /\ ran[q] = {}
  BY DEF MakeInv, NothingBeforeClear, NothingVisited, VisitedInOrder
<1>s. ASSUME NEW op \in WorldOps \cup PkgOps, NEW p \in Pkgs \cup {NoPkg}, Start(op, p)
      PROVE  MakeInv'
  <2>1. /\ goal' = [op |-> op, pkg |-> p] /\ visited' = visited /\ ran' = ran /\ ~Running
        /\ cleared' = (op \notin ClearGoals \cup {"make_clean"})
    BY <1>s DEF Start
  <2>2. VisitedInOrder'
    BY <1>n, <2>1 DEF VisitedInOrder
  <2>3. goal'.op = op /\ goal' # NoGoal
    BY <2>1 DEF NoGoal, WorldOps, PkgOps, PartialGoals, StepGoals, ClearGoals, StampNames,
                PrepSteps, PlaceSteps
  <2>4. NothingBeforeClear'
    BY <2>1, <2>3 DEF NothingBeforeClear, Running, MakeInv
  <2>5. OnlyBelowGoal'
    BY <1>n, <2>1 DEF OnlyBelowGoal
  <2> QED BY <2>2, <2>4, <2>5 DEF MakeInv
<1>u. ASSUME UNCHANGED makeVars, ~Running PROVE MakeInv'
  <2>1. VisitedInOrder'
    BY <1>n, <1>u DEF VisitedInOrder, makeVars
  <2>2. NothingBeforeClear' /\ OnlyBelowGoal'
    BY <1>u DEF MakeInv, NothingBeforeClear, OnlyBelowGoal, makeVars, Running
  <2> QED BY <2>1, <2>2 DEF MakeInv
<1>1. ASSUME NEW p \in Pkgs, Edit(p) \/ RemoveStamp(p) PROVE MakeInv'
  BY <1>u, <1>1 DEF Edit, RemoveStamp
<1>2. CASE Clear \/ CleanOutput
  <2>1. /\ visited' = NothingVisited /\ ran' = ran /\ cleared'
    BY <1>2 DEF Clear, CleanOutput, MakeInv, NothingBeforeClear
  <2>2. ran = NothingVisited
    BY <1>2 DEF Clear, CleanOutput, MakeInv, NothingBeforeClear, NothingVisited,
                VisitedInOrder, TypeOK
  <2> QED BY <2>1, <2>2, NothingKept
<1>3. CASE Finish \/ Killed \/ ClearStops \/ CleanOutputStops
  BY <1>3, ExitKeepsOrder DEF Finish, Killed, ClearStops, CleanOutputStops, Die
<1>4. CASE UNCHANGED vars
  <2>1. VisitedInOrder'
    BY <1>4 DEF vars, MakeInv, VisitedInOrder, Wanted, Before, Complete
  <2> QED BY <1>4, <2>1 DEF vars, MakeInv, NothingBeforeClear, OnlyBelowGoal, Running
<1> QED BY <1>s, <1>1, <1>2, <1>3, <1>4, MakeInvStep, StopExits, ExitKeepsOrder
       DEF Next, User, Advance, Stop

\* What make takes to be up to date in an invocation was visited in the order
\* of the phony targets' prerequisites (Makefile.package.in:562-604) and has
\* its stamp: in every behaviour, for every set of packages.
THEOREM MakeInvariant == Spec => [](TypeOK /\ MakeInv)
<1> QED BY TypeInit, TypeNext, MakeInvInit, MakeInvNext, PTL DEF Spec

-----------------------------------------------------------------------------
(* What an install stamp says, when make clean is not cut short.           *)

LEMMA InstalledStep ==
  ASSUME TypeOK, InstalledWhenStamped, NEW p \in Pkgs, StepOf(p)
  PROVE  InstalledWhenStamped'
<1> USE StepNamesFacts
<1>0. stamps \in [Pkgs -> SUBSET StampNames] /\ inst \in [Pkgs -> [AllPlaces -> Edits]]
  BY DEF TypeOK
<1>i. \A q \in Pkgs : \A t \in AllPlaces : t \in stamps[q] => inst[q][t] # 0
  BY DEF InstalledWhenStamped
<1>k. ASSUME NEW s \in {"downloaded", "extracted", "patched", "rsynced", "configured", "built"},
             Stamp(p, s), inst' = inst
      PROVE  InstalledWhenStamped'
  <2>1. s \notin AllPlaces
    BY <1>k
  <2> QED BY <1>0, <1>i, <1>k, <2>1 DEF Stamp, InstalledWhenStamped
<1>1. CASE UNCHANGED <<stamps, inst>>
  BY <1>1 DEF InstalledWhenStamped
<1>2. CASE Download(p) \/ Extract(p) \/ Rsync(p)
  BY <1>2, <1>k DEF Download, Extract, Rsync
<1>3. CASE Patch(p) \/ Configure(p) \/ Build(p)
  BY <1>3, <1>k DEF Patch, Configure, Build
<1>4. ASSUME NEW s \in AllPlaces, Install(p, s) PROVE InstalledWhenStamped'
  BY <1>0, <1>i, <1>4 DEF Install, Stamp, InstalledWhenStamped
<1>5. CASE Uninstall(p)
  <2>1. /\ stamps'[p] = stamps[p] \ {"staging_installed", "target_installed"}
        /\ \A q \in Pkgs \ {p} : stamps'[q] = stamps[q]
    BY <1>0, <1>5 DEF Uninstall
  <2> QED BY <1>0, <1>i, <1>5, <2>1 DEF Uninstall, InstalledWhenStamped
<1>6. CASE Clean(p) \/ Dirclean(p)
  <2>1. inst' = inst /\ \A q \in Pkgs : stamps'[q] \subseteq stamps[q]
    BY <1>0, <1>6 DEF Clean, Dirclean
  <2> QED BY <1>i, <2>1 DEF InstalledWhenStamped
<1> QED BY <1>1, <1>2, <1>3, <1>4, <1>5, <1>6 DEF StepOf, Skip, VisitDepends, diskVars

LEMMA InstalledStop ==
  ASSUME TypeOK, InstalledWhenStamped, NEW p \in Pkgs, StopOf(p)
  PROVE  InstalledWhenStamped'
<1> USE StepNamesFacts
<1>0. stamps \in [Pkgs -> SUBSET StampNames] /\ inst \in [Pkgs -> [AllPlaces -> Edits]]
  BY DEF TypeOK
<1>i. \A q \in Pkgs : \A t \in AllPlaces : t \in stamps[q] => inst[q][t] # 0
  BY DEF InstalledWhenStamped
<1>1. CASE inst' = inst /\ stamps' = stamps
  BY <1>i, <1>1 DEF InstalledWhenStamped
<1>2. ASSUME NEW s \in AllPlaces, InstallStops(p, s) PROVE InstalledWhenStamped'
  BY <1>0, <1>i, <1>2 DEF InstallStops, Recipe, InstalledWhenStamped
<1>3. CASE UninstallStops(p)
  <2>1. CASE UNCHANGED inst
    BY <1>0, <1>i, <1>3, <2>1 DEF UninstallStops, InstalledWhenStamped
  <2>2. ASSUME NEW gone \in SUBSET {"staging_installed", "target_installed"},
               inst' = [inst EXCEPT ![p] = [s \in AllPlaces |->
                                             IF s \in gone THEN 0 ELSE inst[p][s]]],
               stamps' = [stamps EXCEPT ![p] = @ \ {"staging_installed", "target_installed"}]
        PROVE  InstalledWhenStamped'
    <3> SUFFICES ASSUME NEW q \in Pkgs, NEW t \in AllPlaces, t \in stamps'[q]
                 PROVE  inst'[q][t] # 0
      BY DEF InstalledWhenStamped
    <3> QED BY <1>0, <1>i, <2>2
  <2> QED BY <1>3, <2>1, <2>2 DEF UninstallStops
<1>4. CASE DircleanStops(p)
  BY <1>0, <1>i, <1>4 DEF DircleanStops, InstalledWhenStamped
<1> QED BY <1>1, <1>2, <1>3, <1>4
        DEF StopOf, DownloadStops, ExtractStops, RsyncStops, PatchStops, ConfigureStops,
            BuildStops, CleanStops

LEMMA InstalledNext ==
  ASSUME "make_clean" \notin StopIn
  PROVE  TypeOK /\ InstalledWhenStamped /\ [Next]_vars => InstalledWhenStamped'
<1> SUFFICES ASSUME TypeOK, InstalledWhenStamped, [Next]_vars
             PROVE  InstalledWhenStamped'
  OBVIOUS
<1>0. stamps \in [Pkgs -> SUBSET StampNames]
  BY DEF TypeOK
<1>1. CASE inst' = inst /\ \A q \in Pkgs : stamps'[q] \subseteq stamps[q]
  BY <1>1 DEF InstalledWhenStamped
<1>2. CASE Clear \/ ClearStops \/ \E p \in Pkgs : RemoveStamp(p)
  <2>1. inst' = inst /\ \A q \in Pkgs : stamps'[q] \subseteq stamps[q]
    BY <1>0, <1>2 DEF Clear, ClearStops, RemoveStamp
  <2> QED BY <1>1, <2>1
<1>3. CASE CleanOutput
  BY <1>3 DEF CleanOutput, InstalledWhenStamped
<1>4. CASE UNCHANGED <<stamps, inst>>
  BY <1>1, <1>4
<1> QED BY <1>2, <1>3, <1>4, InstalledStep, InstalledStop
       DEF Next, User, Advance, Stop, CleanOutputStops, Start, Edit, Finish, Killed, diskVars, vars

\* For every reachable state, if a make clean is never cut short.
LEMMA InstalledAlways ==
  ASSUME "make_clean" \notin StopIn
  PROVE  Spec => [](TypeOK /\ MakeInv /\ InstalledWhenStamped)
<1>1. Init => InstalledWhenStamped
  BY DEF Init, InstalledWhenStamped
<1> QED BY <1>1, InstalledNext, MakeInvariant, PTL DEF Spec

-----------------------------------------------------------------------------
(* What the invariant gives.                                               *)

LEMMA InstallStepsArePlaces == \A p \in Pkgs : InstallSteps(p) \subseteq AllPlaces
BY PkgsAssumption, StepNamesFacts DEF InstallSteps, AllPlaces

\* No failure, kill, uninstall or removed stamp leaves an install stamp that
\* vouches for files that are not there; only a make clean that stops after
\* TARGET_DIR and before BUILD_DIR does (Makefile:621-623).
THEOREM InstallStampsTrue ==
  ASSUME "make_clean" \notin StopIn
  PROVE  Spec => []InstallStampTrue
<1>1. InstalledWhenStamped => InstallStampTrue
  BY InstallStepsArePlaces DEF InstalledWhenStamped, InstallStampTrue
<1> QED BY <1>1, InstalledAlways, PTL

LEMMA CompleteIsInstalled ==
  ASSUME TypeOK, MakeInv, InstalledWhenStamped, NEW q \in Pkgs, Complete(q), goal.op # "source",
         ~(goal.op \in PartialGoals /\ goal.pkg = q)
  PROVE  \A s \in InstallSteps(q) : inst[q][s] # 0
<1>1. InstallSteps(q) \subseteq Wanted(q)
  BY WantedTogether
<1>2. InstallSteps(q) \subseteq AllPlaces /\ AllPlaces \subseteq StampNames
  BY InstallStepsArePlaces, StepNamesFacts
<1>3. InstallSteps(q) \subseteq stamps[q]
  BY <1>1, <1>2 DEF Complete, MakeInv, VisitedInOrder
<1> QED BY <1>2, <1>3 DEF InstalledWhenStamped

\* A package is configured only when everything it depends on is installed,
\* whatever the dependency graph and the goal, and however often make failed.
THEOREM DependenciesFirst ==
  ASSUME "make_clean" \notin StopIn
  PROVE  Spec => []DepsInstalledFirst
<1>1. TypeOK /\ MakeInv /\ InstalledWhenStamped => DepsInstalledFirst
  <2> SUFFICES ASSUME TypeOK, MakeInv, InstalledWhenStamped, NEW p \in Pkgs, "configured" \in ran[p],
                      NEW q \in Deps[p]
               PROVE  \A s \in InstallSteps(q) : inst[q][s] # 0
    BY DEF DepsInstalledFirst
  <2>1. q \in Pkgs
    BY PkgsAssumption
  <2>2. "configured" \in visited[p] /\ "configured" \in Wanted(p)
    BY DEF MakeInv, VisitedInOrder
  <2>3. "depends" \in Wanted(p) /\ goal.op # "source"
    BY <2>2, WantedTogether
  <2>4. "depends" \in visited[p]
    BY <2>2, <2>3, RankFacts DEF MakeInv, VisitedInOrder, Before
  <2>5. Complete(q)
    BY <2>4 DEF MakeInv, VisitedInOrder
  <2>6. ~(goal.op \in PartialGoals /\ goal.pkg = q)
    <3> SUFFICES ASSUME goal.op \in PartialGoals, goal.pkg = q
                 PROVE  FALSE
      OBVIOUS
    <3>1. p = q \/ Depth[p] < Depth[q]
      BY <2>2 DEF MakeInv, OnlyBelowGoal
    <3>2. Depth[q] < Depth[p]
      BY DepthDecreases
    <3> QED BY <2>1, <3>1, <3>2, DepthIsNat
  <2> QED BY <2>1, <2>3, <2>5, <2>6, CompleteIsInstalled
<1> QED BY <1>1, InstalledAlways, PTL

-----------------------------------------------------------------------------
(* When only the recipes remove stamps, and neither make clean nor         *)
(* foo-dirclean is interrupted, the stamps of a package stay in the order  *)
(* of its steps.                                                           *)

OrderOf(p) ==
  /\ src[p] # 0
  /\ p \in Override => stamps[p] \cap {"downloaded", "extracted", "patched"} = {}
  /\ "extracted" \in stamps[p] => "downloaded" \in stamps[p] /\ dir[p].tree # 0
  /\ "patched" \in stamps[p] =>
       "extracted" \in stamps[p] /\ (p \in Patched => dir[p].patches = "all")
  /\ "configured" \in stamps[p] =>
       dir[p].conf # 0 /\ (p \notin Override => "patched" \in stamps[p])
  /\ "built" \in stamps[p] => "configured" \in stamps[p]

LEMMA OrderByPackage == OrderInv <=> \A p \in Pkgs : OrderOf(p)
BY DEF OrderInv, OverrideUnpacksNothing, StampsInOrder, OrderOf

LEMMA OthersKeepOrder ==
  ASSUME OrderInv, NEW p \in Pkgs, OrderOf(p)',
         \A q \in Pkgs \ {p} : src'[q] = src[q] /\ stamps'[q] = stamps[q] /\ dir'[q] = dir[q]
  PROVE  OrderInv'
<1>1. \A q \in Pkgs \ {p} : OrderOf(q)'
  BY OrderByPackage DEF OrderOf
<1> QED BY <1>1 DEF OrderInv, OverrideUnpacksNothing, StampsInOrder, OrderOf

LEMMA OrderStep ==
  ASSUME TypeOK, MakeInv, OrderInv, NEW p \in Pkgs, StepOf(p)
  PROVE  OrderInv'
<1> USE StepNamesFacts
<1>0. /\ stamps \in [Pkgs -> SUBSET StampNames] /\ dir \in [Pkgs -> DirType]
      /\ dir[p] \in DirType
  BY DEF TypeOK
<1>o. OrderOf(p)
  BY OrderByPackage
<1>b. ASSUME NEW s, AtStep(p, s), NEW t \in StampNames, t \in Wanted(p), Rank[t] < Rank[s]
      PROVE  t \in stamps[p]
  BY <1>b, StampedBefore DEF MakeInv
<1>w. ASSUME NEW s, AtStep(p, s) PROVE s \in Wanted(p)
  BY <1>w DEF AtStep
<1>1. ASSUME NEW s \in StampNames, Skip(p, s) PROVE OrderInv'
  BY <1>1, <1>o, OthersKeepOrder DEF Skip, diskVars, OrderOf
<1>2. CASE VisitDepends(p)
  BY <1>2, <1>o, OthersKeepOrder DEF VisitDepends, diskVars, OrderOf
<1>3. CASE Download(p)
  <2>1. p \notin Override
    BY <1>3, <1>w, WantedTogether DEF Download, Recipe
  <2>2. OrderOf(p)'
    BY <1>0, <1>3, <1>o, <2>1 DEF Download, Stamp, OrderOf
  <2> QED BY <1>0, <1>3, <2>2, OthersKeepOrder DEF Download, Stamp
<1>4. CASE Extract(p)
  <2>1. p \notin Override /\ "downloaded" \in stamps[p]
    BY <1>4, <1>b, <1>w, WantedTogether, RankFacts DEF Extract, Recipe
  <2>2. dir'[p] = [dir[p] EXCEPT !.tree = src[p]] /\ stamps'[p] = stamps[p] \cup {"extracted"}
        /\ \A q \in Pkgs \ {p} : stamps'[q] = stamps[q] /\ dir'[q] = dir[q]
    BY <1>0, <1>4 DEF Extract, Stamp
  <2>3. dir'[p].tree = src[p] /\ dir'[p].patches = dir[p].patches /\ dir'[p].conf = dir[p].conf
    BY <1>0, <2>2 DEF DirType
  <2>4. OrderOf(p)'
    BY <1>4, <1>o, <2>1, <2>2, <2>3 DEF Extract, OrderOf
  <2> QED BY <1>4, <2>2, <2>4, OthersKeepOrder DEF Extract
<1>5. CASE Rsync(p)
  <2>1. p \in Override
    BY <1>5, <1>w, WantedTogether DEF Rsync, Recipe
  <2>2. dir'[p] = [dir[p] EXCEPT !.tree = src[p]] /\ stamps'[p] = stamps[p] \cup {"rsynced"}
        /\ \A q \in Pkgs \ {p} : stamps'[q] = stamps[q] /\ dir'[q] = dir[q]
    BY <1>0, <1>5 DEF Rsync, Stamp
  <2>3. dir'[p].patches = dir[p].patches /\ dir'[p].conf = dir[p].conf
    BY <1>0, <2>2 DEF DirType
  <2>4. OrderOf(p)'
    BY <1>5, <1>o, <2>1, <2>2, <2>3 DEF Rsync, OrderOf
  <2> QED BY <1>5, <2>2, <2>4, OthersKeepOrder DEF Rsync
<1>6. CASE Patch(p)
  <2>1. p \notin Override /\ "extracted" \in stamps[p]
    BY <1>6, <1>b, <1>w, WantedTogether, RankFacts DEF Patch, Recipe
  <2>2. dir'[p] = [dir[p] EXCEPT !.patches = IF p \in Patched THEN "all" ELSE "none"]
        /\ stamps'[p] = stamps[p] \cup {"patched"}
        /\ \A q \in Pkgs \ {p} : stamps'[q] = stamps[q] /\ dir'[q] = dir[q]
    BY <1>0, <1>6 DEF Patch, Stamp
  <2>3. dir'[p].tree = dir[p].tree /\ dir'[p].conf = dir[p].conf
        /\ (p \in Patched => dir'[p].patches = "all")
    BY <1>0, <2>2 DEF DirType
  <2>4. OrderOf(p)'
    BY <1>6, <1>o, <2>1, <2>2, <2>3 DEF Patch, OrderOf
  <2> QED BY <1>6, <2>2, <2>4, OthersKeepOrder DEF Patch
<1>7. CASE Configure(p)
  <2>1. p \notin Override => "patched" \in stamps[p]
    BY <1>7, <1>b, <1>w, WantedTogether, RankFacts DEF Configure, Recipe
  <2>2. dir'[p] = [dir[p] EXCEPT !.conf = dir[p].tree] /\ stamps'[p] = stamps[p] \cup {"configured"}
        /\ \A q \in Pkgs \ {p} : stamps'[q] = stamps[q] /\ dir'[q] = dir[q]
    BY <1>0, <1>7 DEF Configure, Stamp
  <2>3. dir'[p].tree = dir[p].tree /\ dir'[p].patches = dir[p].patches /\ dir'[p].conf = dir[p].tree
    BY <1>0, <2>2 DEF DirType
  <2>4. OrderOf(p)'
    BY <1>7, <1>o, <2>1, <2>2, <2>3 DEF Configure, OrderOf
  <2> QED BY <1>7, <2>2, <2>4, OthersKeepOrder DEF Configure
<1>8. CASE Build(p)
  <2>1. "configured" \in stamps[p]
    BY <1>8, <1>b, <1>w, WantedTogether, RankFacts DEF Build, Recipe
  <2>2. dir'[p] = [dir[p] EXCEPT !.obj = dir[p].tree] /\ stamps'[p] = stamps[p] \cup {"built"}
        /\ \A q \in Pkgs \ {p} : stamps'[q] = stamps[q] /\ dir'[q] = dir[q]
    BY <1>0, <1>8 DEF Build, Stamp
  <2>3. dir'[p].tree = dir[p].tree /\ dir'[p].patches = dir[p].patches /\ dir'[p].conf = dir[p].conf
    BY <1>0, <2>2 DEF DirType
  <2>4. OrderOf(p)'
    BY <1>8, <1>o, <2>1, <2>2, <2>3 DEF Build, OrderOf
  <2> QED BY <1>8, <2>2, <2>4, OthersKeepOrder DEF Build
<1>9. ASSUME NEW s \in AllPlaces, Install(p, s) PROVE OrderInv'
  <2>1. s \notin {"downloaded", "extracted", "patched", "configured", "built"}
    BY DEF AllPlaces, PlaceSteps
  <2>2. stamps'[p] = stamps[p] \cup {s} /\ \A q \in Pkgs \ {p} : stamps'[q] = stamps[q]
    BY <1>0, <1>9 DEF Install, Stamp
  <2>3. OrderOf(p)'
    BY <1>9, <1>o, <2>1, <2>2 DEF Install, OrderOf
  <2> QED BY <1>9, <2>2, <2>3, OthersKeepOrder DEF Install
<1>10. CASE Uninstall(p)
  <2>1. stamps'[p] = stamps[p] \ {"staging_installed", "target_installed"}
        /\ \A q \in Pkgs \ {p} : stamps'[q] = stamps[q]
    BY <1>0, <1>10 DEF Uninstall
  <2>2. OrderOf(p)'
    BY <1>10, <1>o, <2>1 DEF Uninstall, OrderOf
  <2> QED BY <1>10, <2>1, <2>2, OthersKeepOrder DEF Uninstall
<1>11. CASE Clean(p)
  <2>1. stamps'[p] = stamps[p] \ {"built"} /\ dir'[p] = [dir[p] EXCEPT !.obj = 0]
        /\ \A q \in Pkgs \ {p} : stamps'[q] = stamps[q] /\ dir'[q] = dir[q]
    BY <1>0, <1>11 DEF Clean
  <2>2. dir'[p].tree = dir[p].tree /\ dir'[p].patches = dir[p].patches /\ dir'[p].conf = dir[p].conf
    BY <1>0, <2>1 DEF DirType
  <2>3. OrderOf(p)'
    BY <1>11, <1>o, <2>1, <2>2 DEF Clean, OrderOf
  <2> QED BY <1>11, <2>1, <2>3, OthersKeepOrder DEF Clean
<1>12. CASE Dirclean(p)
  <2>1. stamps'[p] = {} /\ \A q \in Pkgs \ {p} : stamps'[q] = stamps[q] /\ dir'[q] = dir[q]
    BY <1>0, <1>12 DEF Dirclean
  <2>2. OrderOf(p)'
    BY <1>12, <1>o, <2>1 DEF Dirclean, OrderOf
  <2> QED BY <1>12, <2>1, <2>2, OthersKeepOrder DEF Dirclean
<1> QED BY <1>1, <1>2, <1>3, <1>4, <1>5, <1>6, <1>7, <1>8, <1>9, <1>10, <1>11, <1>12 DEF StepOf

LEMMA OrderStop ==
  ASSUME TypeOK, MakeInv, OrderInv, "dirclean" \notin StopIn, NEW p \in Pkgs, StopOf(p)
  PROVE  OrderInv'
<1>0. /\ stamps \in [Pkgs -> SUBSET StampNames] /\ dir \in [Pkgs -> DirType]
      /\ dir[p] \in DirType
  BY DEF TypeOK
<1>o. OrderOf(p)
  BY OrderByPackage
<1>1. CASE UNCHANGED <<stamps, src, dir>>
  BY <1>1, <1>o, OthersKeepOrder DEF OrderOf
<1>2. CASE ExtractStops(p)
  <2>0. PICK e : dir' = [dir EXCEPT ![p].tree = e]
    BY <1>2 DEF ExtractStops
  <2>1. dir'[p].patches = dir[p].patches /\ dir'[p].conf = dir[p].conf
    BY <1>0, <2>0 DEF DirType
  <2>2. OrderOf(p)'
    BY <1>2, <1>o, <2>1 DEF ExtractStops, Recipe, OrderOf
  <2> QED BY <1>0, <1>2, <2>0, <2>2, OthersKeepOrder DEF ExtractStops
<1>3. CASE RsyncStops(p)
  <2>0. PICK e : dir' = [dir EXCEPT ![p].tree = e]
    BY <1>3 DEF RsyncStops
  <2>1. dir'[p].patches = dir[p].patches /\ dir'[p].conf = dir[p].conf
    BY <1>0, <2>0 DEF DirType
  <2>2. p \in Override
    BY <1>3, WantedTogether DEF RsyncStops, Recipe, AtStep
  <2>3. OrderOf(p)'
    BY <1>3, <1>o, <2>1, <2>2 DEF RsyncStops, OrderOf
  <2> QED BY <1>0, <1>3, <2>0, <2>3, OthersKeepOrder DEF RsyncStops
<1>4. CASE PatchStops(p)
  <2>0. PICK h : dir' = [dir EXCEPT ![p].patches = h]
    BY <1>4 DEF PatchStops
  <2>1. dir'[p].tree = dir[p].tree /\ dir'[p].conf = dir[p].conf
    BY <1>0, <2>0 DEF DirType
  <2>2. OrderOf(p)'
    BY <1>4, <1>o, <2>1 DEF PatchStops, Recipe, OrderOf
  <2> QED BY <1>0, <1>4, <2>0, <2>2, OthersKeepOrder DEF PatchStops
<1>5. CASE ConfigureStops(p)
  <2>0. PICK c : dir' = [dir EXCEPT ![p].conf = c]
    BY <1>5 DEF ConfigureStops
  <2>1. dir'[p].tree = dir[p].tree /\ dir'[p].patches = dir[p].patches
    BY <1>0, <2>0 DEF DirType
  <2>2. OrderOf(p)'
    BY <1>5, <1>o, <2>1 DEF ConfigureStops, Recipe, OrderOf
  <2> QED BY <1>0, <1>5, <2>0, <2>2, OthersKeepOrder DEF ConfigureStops
<1>6. CASE BuildStops(p) \/ CleanStops(p)
  <2>0. PICK o : dir' = [dir EXCEPT ![p].obj = o]
    BY <1>6 DEF BuildStops, CleanStops
  <2>1. dir'[p].tree = dir[p].tree /\ dir'[p].patches = dir[p].patches /\ dir'[p].conf = dir[p].conf
    BY <1>0, <2>0 DEF DirType
  <2>2. OrderOf(p)'
    BY <1>6, <1>o, <2>1 DEF BuildStops, CleanStops, OrderOf
  <2> QED BY <1>0, <1>6, <2>0, <2>2, OthersKeepOrder DEF BuildStops, CleanStops
<1>7. CASE UninstallStops(p)
  <2>1. PICK gone \in SUBSET {"staging_installed", "target_installed"} :
          stamps' = [stamps EXCEPT ![p] = @ \ gone]
    BY <1>7 DEF UninstallStops
  <2>2. OrderOf(p)'
    BY <1>0, <1>7, <1>o, <2>1 DEF UninstallStops, OrderOf
  <2> QED BY <1>0, <1>7, <2>1, <2>2, OthersKeepOrder DEF UninstallStops
<1> QED BY <1>1, <1>2, <1>3, <1>4, <1>5, <1>6, <1>7
       DEF StopOf, DownloadStops, InstallStops, DircleanStops

\* foo-clean-for-rebuild removes .stamp_built before .stamp_configured.
LEMMA ClearedInOrder ==
  ASSUME TypeOK, OrderInv, NEW p \in Pkgs, UNCHANGED <<src, dir>>,
         NEW gone, stamps' = [stamps EXCEPT ![p] = @ \ gone],
         gone \cap {"downloaded", "extracted", "patched"} = {},
         "configured" \in gone => "built" \in gone
  PROVE  OrderInv'
<1>1. stamps'[p] = stamps[p] \ gone /\ \A q \in Pkgs \ {p} : stamps'[q] = stamps[q]
  BY DEF TypeOK
<1>2. OrderOf(p)
  BY OrderByPackage
<1>3. OrderOf(p)'
  BY <1>1, <1>2 DEF OrderOf
<1> QED BY <1>1, <1>3, OthersKeepOrder

LEMMA OrderNext ==
  ASSUME StopIn \cap {"dirclean", "make_clean"} = {}, UserRemoves = {}
  PROVE  TypeOK /\ MakeInv /\ OrderInv /\ [Next]_vars => OrderInv'
<1> SUFFICES ASSUME TypeOK, MakeInv, OrderInv, [Next]_vars PROVE OrderInv' OBVIOUS
<1>1. CASE UNCHANGED <<stamps, src, dir>>
  BY <1>1 DEF OrderInv, OverrideUnpacksNothing, StampsInOrder
<1>g. goal.op \in ClearGoals => goal.pkg \in Pkgs
  BY DEF TypeOK, Goals, NoGoal, WorldOps, ClearGoals
<1>2. ASSUME NEW p \in Pkgs, Edit(p) PROVE OrderInv'
  <2>0. dir \in [Pkgs -> DirType] /\ dir[p] \in DirType /\ src \in [Pkgs -> Edits] /\ edits \in Nat
    BY BoundsAssumption DEF TypeOK
  <2>1. edits' # 0 /\ stamps' = stamps
    BY <1>2, <2>0 DEF Edit
  <2>2. OrderOf(p)
    BY OrderByPackage
  <2>3. OrderOf(p)'
    BY <1>2, <2>0, <2>1, <2>2 DEF Edit, OrderOf, DirType
  <2> QED BY <1>2, <2>0, <2>1, <2>3, OthersKeepOrder DEF Edit
<1>3. CASE Clear
  <2>1. ClearSet \cap {"downloaded", "extracted", "patched"} = {} /\ "built" \in ClearSet
    BY DEF ClearSet, ClearOrder
  <2>2. PICK p \in Pkgs : p = goal.pkg
    BY <1>3, <1>g DEF Clear
  <2>3. stamps' = [stamps EXCEPT ![p] = @ \ ClearSet]
    BY <1>3, <2>2 DEF Clear
  <2> QED BY <1>3, <2>1, <2>3, ClearedInOrder DEF Clear
<1>4. CASE ClearStops
  <2>0. PICK k \in 1 .. 7 :
          stamps' = [stamps EXCEPT ![goal.pkg] = @ \ (ClearSet \cap {ClearOrder[i] : i \in 1 .. k})]
    BY <1>4 DEF ClearStops, ClearOrder
  <2> DEFINE gone == ClearSet \cap {ClearOrder[i] : i \in 1 .. k}
  <2>1. gone \cap {"downloaded", "extracted", "patched"} = {}
    BY DEF ClearSet, ClearOrder
  <2>2. "configured" \in gone => "built" \in gone
    BY DEF ClearSet, ClearOrder
  <2>3. PICK p \in Pkgs : p = goal.pkg
    BY <1>4, <1>g DEF ClearStops
  <2>4. stamps' = [stamps EXCEPT ![p] = @ \ gone]
    BY <2>0, <2>3
  <2> HIDE DEF gone
  <2> QED BY <1>4, <2>1, <2>2, <2>4, ClearedInOrder DEF ClearStops
<1>5. CASE CleanOutput
  <2>1. src' = src /\ \A q \in Pkgs : stamps'[q] = {}
    BY <1>5 DEF CleanOutput
  <2> QED BY <2>1 DEF OrderInv, OverrideUnpacksNothing, StampsInOrder
<1> QED BY <1>1, <1>2, <1>3, <1>4, <1>5, OrderStep, OrderStop
       DEF Next, User, Advance, Stop, CleanOutputStops, Start, RemoveStamp, Finish, Killed,
           diskVars, vars

\* The stamps of a package never get out of order, and vouch for unpacked,
\* completely patched and configured sources, as long as only the recipes
\* remove them and no rm -Rf of a build directory is interrupted.
THEOREM StampsKeepOrder ==
  ASSUME StopIn \cap {"dirclean", "make_clean"} = {}, UserRemoves = {}
  PROVE  Spec => []StampsInOrder
<1>1. Init => OrderInv
  BY DEF Init, OrderInv, OverrideUnpacksNothing, StampsInOrder
<1>2. TypeOK /\ MakeInv /\ OrderInv /\ [Next]_vars => OrderInv'
  BY OrderNext
<1>3. OrderInv => StampsInOrder
  BY DEF OrderInv
<1> QED BY <1>1, <1>2, <1>3, MakeInvariant, PTL DEF Spec
-----------------------------------------------------------------------------
(* The archives.                                                           *)

\* A package that is stamped as downloaded has its archive.
ArchivesThere == \A p \in Pkgs : "downloaded" \in stamps[p] => p \in dl

\* No step takes an archive away, so a stamp needs its archive when it appears.
ArchivesKeep ==
  /\ dl \subseteq dl'
  /\ \A p \in Pkgs : "downloaded" \in stamps'[p] => "downloaded" \in stamps[p] \/ p \in dl'

LEMMA ArchiveStep ==
  ASSUME TypeOK, NEW p \in Pkgs, StepOf(p)
  PROVE  ArchivesKeep
<1>0. stamps \in [Pkgs -> SUBSET StampNames]
  BY DEF TypeOK
<1>1. CASE UNCHANGED <<stamps, dl>>
  BY <1>1 DEF ArchivesKeep
<1>2. CASE Download(p)
  BY <1>0, <1>2 DEF Download, Stamp, ArchivesKeep
<1>3. ASSUME NEW s \in {"extracted", "rsynced", "patched", "configured", "built"} \cup AllPlaces,
             Stamp(p, s), dl' = dl
      PROVE  ArchivesKeep
  <2>1. s # "downloaded"
    BY DEF AllPlaces, PlaceSteps
  <2>2. \A q \in Pkgs : "downloaded" \in stamps'[q] => "downloaded" \in stamps[q]
    BY <1>0, <1>3, <2>1 DEF Stamp
  <2> QED BY <1>3, <2>2 DEF ArchivesKeep
<1>4. CASE Uninstall(p) \/ Clean(p) \/ Dirclean(p)
  BY <1>0, <1>4 DEF Uninstall, Clean, Dirclean, ArchivesKeep
<1> QED BY <1>1, <1>2, <1>3, <1>4
       DEF StepOf, Skip, diskVars, VisitDepends, Extract, Rsync, Patch, Configure, Build, Install

LEMMA ArchiveStop ==
  ASSUME TypeOK, NEW p \in Pkgs, StopOf(p)
  PROVE  ArchivesKeep
<1>0. stamps \in [Pkgs -> SUBSET StampNames]
  BY DEF TypeOK
<1>1. CASE UNCHANGED <<stamps, dl>>
  BY <1>1 DEF ArchivesKeep
<1>2. CASE DownloadStops(p)
  BY <1>2 DEF DownloadStops, ArchivesKeep
<1>3. CASE UninstallStops(p) \/ DircleanStops(p)
  BY <1>0, <1>3 DEF UninstallStops, DircleanStops, ArchivesKeep
<1> QED BY <1>1, <1>2, <1>3
       DEF StopOf, ExtractStops, RsyncStops, PatchStops, ConfigureStops, BuildStops,
           InstallStops, CleanStops

LEMMA ArchiveNext ==
  TypeOK /\ ArchivesThere /\ [Next]_vars => ArchivesThere'
<1> SUFFICES ASSUME TypeOK, ArchivesThere, [Next]_vars PROVE ArchivesThere'
  OBVIOUS
<1>0. stamps \in [Pkgs -> SUBSET StampNames]
  BY DEF TypeOK
<1>1. ASSUME UNCHANGED <<stamps, dl>> PROVE ArchivesKeep
  BY <1>1 DEF ArchivesKeep
<1>2. ASSUME Clear \/ ClearStops \/ \E p \in Pkgs : RemoveStamp(p) PROVE ArchivesKeep
  BY <1>0, <1>2 DEF Clear, ClearStops, RemoveStamp, ArchivesKeep
<1>3. ASSUME CleanOutput \/ CleanOutputStops PROVE ArchivesKeep
  BY <1>0, <1>3 DEF CleanOutput, CleanOutputStops, ArchivesKeep
<1>4. ArchivesKeep
  BY <1>1, <1>2, <1>3, ArchiveStep, ArchiveStop
     DEF Next, User, Advance, Stop, Start, Edit, Finish, Killed, diskVars, vars
<1> QED BY <1>4 DEF ArchivesKeep, ArchivesThere

\* Kconfig: a package selects the target packages it depends on.
DepsAreSelected == \A p \in Selected : Deps[p] \subseteq Selected \cup Host

\* What the host packages of the selected ones depend on depends on nothing
\* that is not looked for: "limit to 1 level for now" (Makefile:350-353).
HostChainsAreShort ==
  \A p \in TargetsHostDeps : \A q \in Deps[p] : Deps[q] \subseteq SourceSet

LEMMA SourceSetHasAll ==
  ASSUME DepsAreSelected, HostChainsAreShort
  PROVE  Needed \subseteq SourceSet
<1> DEFINE direct == UNION {Deps[p] : p \in Selected}
           second == UNION {Deps[p] : p \in TargetsHostDeps}
<1>1. TargetsHostDeps = direct \cap Host /\ SourceSet = Selected \cup TargetsHostDeps \cup second
  <2>1. TargetsHostDeps = direct \cap Host
    BY Zenon DEF TargetsHostDeps
  <2>2. SourceSet = Selected \cup TargetsHostDeps \cup second
    BY Zenon DEF SourceSet
  <2> QED BY <2>1, <2>2
<1>2. \A q \in Selected : Deps[q] \subseteq direct
  OBVIOUS
<1>3. \A q \in TargetsHostDeps : Deps[q] \subseteq second
  OBVIOUS
<1>4. \A q \in second : \E p \in TargetsHostDeps : q \in Deps[p]
  OBVIOUS
<1>5. direct \subseteq Pkgs
  BY PkgsAssumption
<1>6. second \subseteq Pkgs
  BY <1>1, <1>5, PkgsAssumption
<1> HIDE DEF direct, second
<1>7. ASSUME NEW q \in SourceSet PROVE Deps[q] \subseteq SourceSet
  <2>1. CASE q \in Selected
    BY <1>1, <1>2, <2>1 DEF DepsAreSelected
  <2>2. CASE q \in TargetsHostDeps
    BY <1>1, <1>3, <2>2
  <2>3. CASE q \in second
    BY <1>4, <2>3 DEF HostChainsAreShort
  <2> QED BY <1>1, <1>7, <2>1, <2>2, <2>3
<1>8. SourceSet \subseteq Pkgs /\ Selected \subseteq SourceSet
  BY <1>1, <1>5, <1>6, PkgsAssumption
<1> QED BY <1>7, <1>8 DEF Needed

\* make source fetches all that make is going to build, whatever was stamped and
\* killed before, for every set of packages in which the host packages are found
\* (Makefile:337-357).
THEOREM SourcesAreComplete ==
  ASSUME DepsAreSelected, HostChainsAreShort
  PROVE  Spec => []OfflineReady
<1>1. Init => ArchivesThere
  BY DEF Init, ArchivesThere
<1>2. TypeOK /\ MakeInv /\ ArchivesThere => OfflineReady
  <2> SUFFICES ASSUME TypeOK, MakeInv, ArchivesThere, goal.op = "source", Finished,
                      NEW p \in Needed, p \notin Override
               PROVE  p \in dl
    BY DEF OfflineReady
  <2>1. p \in Pkgs /\ p \in Roots
    BY SourceSetHasAll DEF Needed, Roots
  <2>2. Wanted(p) = {"downloaded"}
    <3>1. goal.op \notin StepGoals \cup {"uninstall", "clean", "dirclean"}
      BY DEF StepGoals, StampNames, PrepSteps, PlaceSteps
    <3> QED BY <3>1 DEF Wanted
  <2>3. "downloaded" \in visited[p] \cap StampNames
    BY <2>1, <2>2 DEF Finished, Complete, StampNames, PrepSteps
  <2> QED BY <2>1, <2>3 DEF MakeInv, VisitedInOrder, ArchivesThere
<1> QED BY <1>1, <1>2, ArchiveNext, MakeInvariant, PTL DEF Spec
=============================================================================
