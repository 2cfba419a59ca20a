------------------------------ MODULE Package ------------------------------
(***************************************************************************)
(* The generic package infrastructure, package/Makefile.package.in: one    *)
(* stamp file per build step, the recipes that create and remove the       *)
(* stamps, and GNU make walking the phony targets that sequence them.      *)
(*                                                                         *)
(* The stamp rules have no prerequisites: a recipe runs exactly when its   *)
(* stamp is missing at the moment make reaches it, and the only thing that *)
(* orders the steps is the left-to-right order of the prerequisites of the *)
(* phony targets foo-install, foo-build, foo-configure, ...  (.NOTPARALLEL *)
(* forces it).  What a stamp says about the files it stands for therefore  *)
(* depends on every earlier invocation of make, the killed ones included.  *)
(***************************************************************************)
EXTENDS Naturals, Sequences, FiniteSets

CONSTANTS
  Pkgs,         \* the packages, host variants included
  NoPkg,        \* the package of a goal that names none
  Deps,         \* [Pkgs -> SUBSET Pkgs]: FOO_DEPENDENCIES
  Host,         \* the packages declared with $(call GENTARGETS,host)
  Override,     \* the packages with a FOO_OVERRIDE_SRCDIR
  Patched,      \* the packages that have patches to apply
  Places,       \* [Pkgs -> SUBSET PlaceSteps]: FOO_INSTALL_{STAGING,TARGET,IMAGES}
  Selected,     \* the packages .config selects: TARGETS
  Ops,          \* the make goals the user types
  StopIn,       \* the stamp-removing recipes that may stop half way
  UserRemoves,  \* the stamps the user deletes by hand
  MaxEdits,     \* bound: source edits
  MaxFailures   \* bound: invocations of make that fail or are killed

PlaceSteps == {"staging_installed", "target_installed", "images_installed"}
PrepSteps  == {"downloaded", "extracted", "patched", "rsynced"}
StampNames == PrepSteps \cup PlaceSteps \cup {"configured", "built", "host_installed"}
StepNames  == StampNames \cup {"depends", "uninstalled", "cleaned", "dircleaned"}
AllPlaces  == PlaceSteps \cup {"host_installed"}

\* foo-source, foo-extract, ..., foo-install-target are named by their last step.
StepGoals    == StampNames \cup {"depends"}
PartialGoals == StepGoals \cup {"uninstall", "clean", "dirclean"}
ClearGoals   == {"rebuild", "reconfigure"}
WorldOps     == {"all", "source", "make_clean"}
PkgOps       == PartialGoals \cup ClearGoals \cup {"install"}

ASSUME PkgsAssumption ==
  /\ NoPkg \notin Pkgs
  /\ Deps \in [Pkgs -> SUBSET Pkgs]
  /\ Places \in [Pkgs -> SUBSET PlaceSteps]
  /\ Host \subseteq Pkgs /\ Override \subseteq Pkgs /\ Patched \subseteq Pkgs
  /\ Selected \subseteq Pkgs
ASSUME AcyclicAssumption ==
  \E depth \in [Pkgs -> 0 .. Cardinality(Pkgs)] :
    \A p \in Pkgs : \A q \in Deps[p] : depth[q] < depth[p]
ASSUME OpsAssumption ==
  /\ Ops \subseteq WorldOps \cup PkgOps
  /\ StopIn \subseteq {"clear", "clean", "dirclean", "make_clean"}
  /\ UserRemoves \subseteq StampNames
ASSUME BoundsAssumption == MaxEdits \in Nat /\ MaxFailures \in Nat

VARIABLES
  goal,      \* what make was asked for; NoGoal between two invocations
  cleared,   \* foo-clean-for-rebuild has run, or the goal does not have it
  visited,   \* [Pkgs -> steps make has brought up to date in this invocation]
  ran,       \* history: the visited steps whose recipe had to run
  stamps,    \* [Pkgs -> stamp files present in the build directory]
  dl,        \* the packages whose archive is in DL_DIR
  src,       \* [Pkgs -> edit the package's own source is at]
  dir,       \* [Pkgs -> what is in the build directory besides the stamps]
  inst,      \* [Pkgs -> [place -> edit installed there, 0 if nothing usable]]
  edits,     \* counter of source edits
  failures   \* counter of failed or killed invocations

vars == <<goal, cleared, visited, ran, stamps, dl, src, dir, inst, edits,
          failures>>
makeVars == <<goal, cleared, visited, ran>>
diskVars == <<stamps, dl, src, dir, inst>>

NoGoal   == [op |-> "idle", pkg |-> NoPkg]
Goals    == {NoGoal} \cup [op : WorldOps, pkg : {NoPkg}] \cup [op : PkgOps, pkg : Pkgs]
EmptyDir == [tree |-> 0, patches |-> "none", conf |-> 0, obj |-> 0]
Edits    == 0 .. MaxEdits + 1

Series   == {"none", "some", "all", "rejects"}
DirType  == [tree : Edits, patches : Series, conf : Edits, obj : Edits]

TypeOK ==
  /\ goal \in Goals
  /\ cleared \in BOOLEAN
  /\ visited \in [Pkgs -> SUBSET StepNames]
  /\ ran \in [Pkgs -> SUBSET StepNames]
  /\ stamps \in [Pkgs -> SUBSET StampNames]
  /\ dl \subseteq Pkgs
  /\ src \in [Pkgs -> Edits]
  /\ dir \in [Pkgs -> DirType]
  /\ inst \in [Pkgs -> [AllPlaces -> Edits]]
  /\ edits \in 1 .. MaxEdits + 1
  /\ failures \in 0 .. MaxFailures

-----------------------------------------------------------------------------
(* Which targets a goal reaches, and in which order make visits them.      *)

InstallSteps(p) == IF p \in Host THEN {"host_installed"} ELSE Places[p]

\* foo-configure with its prerequisites
ConfigureSteps(p) ==
  (IF p \in Override THEN {"rsynced"} ELSE {"downloaded", "extracted", "patched"})
    \cup {"depends", "configured"}

\* foo-install: a package that installs nowhere is not even built
AllSteps(p) ==
  IF InstallSteps(p) = {} THEN {}
  ELSE ConfigureSteps(p) \cup {"built"} \cup InstallSteps(p)

Rank == [downloaded |-> 1, extracted |-> 2, patched |-> 3, rsynced |-> 3,
         depends |-> 4, configured |-> 5, built |-> 6, staging_installed |-> 7,
         host_installed |-> 7, target_installed |-> 8, images_installed |-> 9,
         uninstalled |-> 10, cleaned |-> 11, dircleaned |-> 12]

\* foo-source, foo-depends, foo-configure, ...: the steps up to one of them.  The
\* dependencies are no prerequisite of foo-patch, nor the sources of foo-depends
\* if they are not an override.  foo-install-target of a package that does not
\* install there has no prerequisites.
StepsUpTo(p, s) ==
  IF s \in AllPlaces \ InstallSteps(p) THEN {}
  ELSE IF s = "depends" /\ p \notin Override THEN {"depends"}
  ELSE {t \in ConfigureSteps(p) \cup {"built"} \cup (InstallSteps(p) \cap {s}) :
          Rank[t] <= Rank[s]}

\* The steps of p that the current goal needs.
Wanted(p) ==
  CASE goal.op = "source" -> IF p \in Override THEN {} ELSE {"downloaded"}
    [] goal.op \in StepGoals /\ goal.pkg = p -> StepsUpTo(p, goal.op)
    [] goal.op = "uninstall" /\ goal.pkg = p -> ConfigureSteps(p) \cup {"uninstalled"}
    [] goal.op = "clean" /\ goal.pkg = p ->
         ConfigureSteps(p) \cup {"uninstalled", "cleaned"}
    [] goal.op = "dirclean" /\ goal.pkg = p -> {"dircleaned"}
    [] OTHER -> AllSteps(p)

\* HOST_SOURCE: the host packages the targets depend on, and one level more.
TargetsHostDeps == (UNION {Deps[p] : p \in Selected}) \cap Host
SourceSetTargetsOnly ==   \* mutant: the host-* dependencies are not handled specially
  Selected
SourceSet == Selected \cup TargetsHostDeps \cup UNION {Deps[p] : p \in TargetsHostDeps}

Roots ==
  CASE goal.op \in {"all", "rebuild", "reconfigure"} -> Selected
    [] goal.op = "source" -> SourceSet
    [] goal.op = "make_clean" -> {}
    [] OTHER -> {goal.pkg}

Complete(p) == Wanted(p) \subseteq visited[p]
\* Make has begun with p.  All of foo-depends may be to wait.
Open(p)     == (visited[p] # {} \/ Wanted(p) = {"depends"}) /\ ~Complete(p)
Before(p, s) == {t \in Wanted(p) : Rank[t] < Rank[s]}

\* Make works depth first: the innermost open package is the one it is at.
Innermost(p) == Open(p) /\ \A q \in Deps[p] : ~Open(q)
AtDepends(p) == "depends" \in Wanted(p) \ visited[p] /\ Before(p, "depends") \subseteq visited[p]
Turn(p) ==
  \/ Innermost(p)
  \/ /\ ~Open(p)
     /\ \E q \in Pkgs : Innermost(q) /\ AtDepends(q) /\ p \in Deps[q]
  \/ p \in Roots /\ \A q \in Pkgs : ~Open(q)

Running == goal # NoGoal
AtStep(p, s) ==
  /\ Running /\ cleared
  /\ s \in Wanted(p) \ visited[p]
  /\ Before(p, s) \subseteq visited[p]
  /\ Turn(p)
Finished == Running /\ cleared /\ \A p \in Roots : Complete(p)

\* Every package that is built for the selected ones.  A package that installs
\* nowhere is not built, and nothing is built for it.
Needed ==
  {p \in Pkgs : \A S \in SUBSET Pkgs :
     /\ Selected \subseteq S
     /\ \A q \in S : InstallSteps(q) # {} => Deps[q] \subseteq S
     => p \in S}

-----------------------------------------------------------------------------
(* The ends of an invocation.                                              *)

NothingVisited == [p \in Pkgs |-> {}]

\* An override has no foo-extract and foo-patch, other packages no foo-rsync;
\* foo-install-host is for host packages and foo-install-target is not.
HasGoal(op, p) ==
  /\ op \in PrepSteps \ {"downloaded"} => (op = "rsynced" <=> p \in Override)
  /\ op \in AllPlaces => (op = "host_installed" <=> p \in Host)

\* make is typed; the rebuild goals begin with foo-clean-for-rebuild, and all
\* that make clean does is to remove.
Start(op, p) ==
  /\ ~Running /\ op \in Ops /\ HasGoal(op, p)
  /\ goal' = [op |-> op, pkg |-> p]
  /\ cleared' = (op \notin ClearGoals \cup {"make_clean"})
  /\ UNCHANGED <<visited, ran, diskVars, edits, failures>>

\* What make knows of an invocation is lost when it exits.
Exit ==
  /\ goal' = NoGoal /\ cleared' = TRUE
  /\ visited' = NothingVisited /\ ran' = NothingVisited

\* make exits with everything up to date.
Finish ==
  /\ Finished
  /\ Exit
  /\ UNCHANGED <<diskVars, edits, failures>>

\* make exits with an error, or is killed: whatever it was at stays as it is.
\* MaxFailures bounds the invocations that could have gone well.
Die(could) ==
  /\ Exit
  /\ IF could THEN failures < MaxFailures /\ failures' = failures + 1
              ELSE UNCHANGED failures
  /\ UNCHANGED edits

\* ... between two recipes, or before the first command of one.
Killed ==
  /\ Running
  /\ Die(TRUE)
  /\ UNCHANGED diskVars

\* make has brought step s of p up to date: by a recipe, or without one.
Visit(p, s) ==
  /\ visited' = [visited EXCEPT ![p] = @ \cup {s}]
  /\ UNCHANGED <<goal, cleared, edits, failures>>
Stamp(p, s) ==
  /\ Visit(p, s)
  /\ ran' = [ran EXCEPT ![p] = @ \cup {s}]
  /\ stamps' = [stamps EXCEPT ![p] = @ \cup {s}]

\* The stamp is there: no recipe.
Skip(p, s) ==
  /\ s \in stamps[p] /\ AtStep(p, s)
  /\ Visit(p, s)
  /\ UNCHANGED <<ran, diskVars>>

VisitDependsNoWait(p) ==   \* mutant: the dependencies are not awaited
  /\ AtStep(p, "depends")
  /\ Visit(p, "depends")
  /\ UNCHANGED <<ran, diskVars>>
VisitDepends(p) ==
  /\ AtStep(p, "depends")
  /\ \A q \in Deps[p] : Complete(q)
  /\ Visit(p, "depends")
  /\ UNCHANGED <<ran, diskVars>>

\* A recipe begins: the stamp is missing.
Recipe(p, s) == s \notin stamps[p] /\ AtStep(p, s)

-----------------------------------------------------------------------------
(* The recipes.  Each has an action for the run that reaches its last      *)
(* command, touch $@, and one for the run that stops anywhere before it:   *)
(* nothing, part (0), or all of the work is done, and there is no stamp.   *)

Download(p) ==
  /\ Recipe(p, "downloaded")
  /\ Stamp(p, "downloaded")
  /\ dl' = dl \cup {p}
  /\ UNCHANGED <<src, dir, inst>>
DownloadStops(p) ==
  /\ Recipe(p, "downloaded")
  /\ Die(TRUE)
  /\ dl' = dl \cup {p}
  /\ UNCHANGED <<stamps, src, dir, inst>>

\* tar unpacks the archive over whatever is in the directory.
Extract(p) ==
  /\ Recipe(p, "extracted")
  /\ p \in dl
  /\ Stamp(p, "extracted")
  /\ dir' = [dir EXCEPT ![p].tree = src[p]]
  /\ UNCHANGED <<dl, src, inst>>
ExtractStopsStamped(p) ==   \* mutant: the stamp is touched before tar
  /\ Recipe(p, "extracted")
  /\ Die(p \in dl)
  /\ stamps' = [stamps EXCEPT ![p] = @ \cup {"extracted"}]
  /\ UNCHANGED <<dl, src, dir, inst>>
ExtractStops(p) ==
  /\ Recipe(p, "extracted")
  /\ Die(p \in dl)
  /\ \E t \in {0} \cup {e \in {src[p]} : p \in dl} : dir' = [dir EXCEPT ![p].tree = t]
  /\ UNCHANGED <<stamps, dl, src, inst>>

\* rsync -au copies FOO_OVERRIDE_SRCDIR over the directory.
Rsync(p) ==
  /\ Recipe(p, "rsynced")
  /\ Stamp(p, "rsynced")
  /\ dir' = [dir EXCEPT ![p].tree = src[p]]
  /\ UNCHANGED <<dl, src, inst>>
RsyncStops(p) ==
  /\ Recipe(p, "rsynced")
  /\ Die(TRUE)
  /\ \E t \in {0, src[p]} : dir' = [dir EXCEPT ![p].tree = t]
  /\ UNCHANGED <<stamps, dl, src, inst>>

\* apply-patches.sh applies the series to a pristine tree.  On a tree that has
\* some of the patches already, patch rejects them and so does the script.
Patch(p) ==
  /\ Recipe(p, "patched")
  /\ dir[p].patches = "none"
  /\ Stamp(p, "patched")
  /\ dir' = [dir EXCEPT ![p].patches = IF p \in Patched THEN "all" ELSE "none"]
  /\ UNCHANGED <<dl, src, inst>>
PatchStops(p) ==
  /\ Recipe(p, "patched")
  /\ Die(dir[p].patches = "none")
  /\ \E h \in IF p \notin Patched THEN {"none"}
               ELSE IF dir[p].patches = "none" THEN {"some", "all", "rejects"}
               ELSE {"rejects"} :
       dir' = [dir EXCEPT ![p].patches = h]
  /\ UNCHANGED <<stamps, dl, src, inst>>

Configure(p) ==
  /\ Recipe(p, "configured")
  /\ dir[p].tree # 0
  /\ Stamp(p, "configured")
  /\ dir' = [dir EXCEPT ![p].conf = dir[p].tree]
  /\ UNCHANGED <<dl, src, inst>>
ConfigureStops(p) ==
  /\ Recipe(p, "configured")
  /\ Die(dir[p].tree # 0)
  /\ \E c \in {0, dir[p].tree} : dir' = [dir EXCEPT ![p].conf = c]
  /\ UNCHANGED <<stamps, dl, src, inst>>

\* The package's own make brings its objects up to date with its sources.
Build(p) ==
  /\ Recipe(p, "built")
  /\ dir[p].tree # 0 /\ dir[p].conf # 0
  /\ Stamp(p, "built")
  /\ dir' = [dir EXCEPT ![p].obj = dir[p].tree]
  /\ UNCHANGED <<dl, src, inst>>
BuildStops(p) ==
  /\ Recipe(p, "built")
  /\ Die(dir[p].tree # 0 /\ dir[p].conf # 0)
  /\ \E o \in {0, dir[p].tree} : dir' = [dir EXCEPT ![p].obj = o]
  /\ UNCHANGED <<stamps, dl, src, inst>>

Install(p, s) ==
  /\ s \in AllPlaces
  /\ Recipe(p, s)
  /\ dir[p].obj # 0
  /\ Stamp(p, s)
  /\ inst' = [inst EXCEPT ![p][s] = dir[p].obj]
  /\ UNCHANGED <<dl, src, dir>>
InstallStops(p, s) ==
  /\ s \in AllPlaces
  /\ Recipe(p, s)
  /\ Die(dir[p].obj # 0)
  /\ \E i \in {0, dir[p].obj} : inst' = [inst EXCEPT ![p][s] = i]
  /\ UNCHANGED <<stamps, dl, src, dir>>

-----------------------------------------------------------------------------
(* The recipes that remove stamps; none of them leaves one of its own.     *)

\* The stamps foo-clean-for-rebuild removes, one rm after the other, and the
\* one foo-clean-for-reconfigure removes after them.
ClearOrder == <<"rsynced", "built", "staging_installed", "target_installed",
                "images_installed", "host_installed", "configured">>
ClearSetNoImages ==   \* mutant: .stamp_images_installed is forgotten
  {ClearOrder[i] : i \in 2 .. 4}
    \cup (IF goal.pkg \in Override THEN {"rsynced"} ELSE {})
    \cup (IF goal.op = "reconfigure" THEN {"configured"} ELSE {})
ClearSetKeepsBuilt ==   \* mutant: foo-clean-for-reconfigure leaves .stamp_built
  {ClearOrder[i] : i \in 3 .. 6}
    \cup (IF goal.pkg \in Override THEN {"rsynced"} ELSE {})
    \cup (IF goal.op = "reconfigure" THEN {"configured"} ELSE {})
ClearSet ==
  {ClearOrder[i] : i \in 2 .. 6}
    \cup (IF goal.pkg \in Override THEN {"rsynced"} ELSE {})
    \cup (IF goal.op = "reconfigure" THEN {"configured"} ELSE {})

Clear ==
  /\ goal.op \in ClearGoals /\ ~cleared
  /\ cleared' = TRUE
  /\ stamps' = [stamps EXCEPT ![goal.pkg] = @ \ ClearSet]
  /\ UNCHANGED <<goal, visited, ran, dl, src, dir, inst, edits, failures>>
ClearStops ==
  /\ goal.op \in ClearGoals /\ ~cleared /\ "clear" \in StopIn
  /\ Die(TRUE)
  /\ \E k \in 1 .. Len(ClearOrder) :
       stamps' = [stamps EXCEPT
                    ![goal.pkg] = @ \ (ClearSet \cap {ClearOrder[i] : i \in 1 .. k})]
  /\ UNCHANGED <<dl, src, dir, inst>>

Rerun(p, s) ==
  /\ Visit(p, s)
  /\ ran' = [ran EXCEPT ![p] = @ \cup {s}]

\* "Uninstall commands tend to fail, so remove the stamp files first"
UninstallTouches(p) ==   \* mutant: the recipe ends with touch $@, as the others do
  /\ AtStep(p, "uninstalled")
  /\ Rerun(p, "uninstalled")
  /\ stamps' = [stamps EXCEPT ![p] = {"uninstalled"} \cup (@ \ {"staging_installed", "target_installed"})]
  /\ inst' = [inst EXCEPT ![p]["staging_installed"] = 0, ![p]["target_installed"] = 0]
  /\ UNCHANGED <<dl, src, dir>>
Uninstall(p) ==
  /\ AtStep(p, "uninstalled")
  /\ Rerun(p, "uninstalled")
  /\ stamps' = [stamps EXCEPT ![p] = @ \ {"staging_installed", "target_installed"}]
  /\ inst' = [inst EXCEPT ![p]["staging_installed"] = 0, ![p]["target_installed"] = 0]
  /\ UNCHANGED <<dl, src, dir>>
UninstallStopsFilesFirst(p) ==   \* mutant: the stamps are removed last
  /\ AtStep(p, "uninstalled")
  /\ Die(TRUE)
  /\ inst' = [inst EXCEPT ![p]["staging_installed"] = 0]
  /\ UNCHANGED <<stamps, dl, src, dir>>
UninstallStops(p) ==
  /\ AtStep(p, "uninstalled")
  /\ Die(TRUE)
  /\ \/ /\ stamps' = [stamps EXCEPT ![p] = @ \ {"staging_installed"}]
        /\ UNCHANGED inst
     \/ /\ stamps' = [stamps EXCEPT ![p] = @ \ {"staging_installed", "target_installed"}]
        /\ \E gone \in SUBSET {"staging_installed", "target_installed"} :
             inst' = [inst EXCEPT ![p] = [s \in AllPlaces |-> IF s \in gone THEN 0 ELSE @[s]]]
  /\ UNCHANGED <<dl, src, dir>>

\* FOO_CLEAN_CMDS, then rm .stamp_built
Clean(p) ==
  /\ AtStep(p, "cleaned")
  /\ Rerun(p, "cleaned")
  /\ stamps' = [stamps EXCEPT ![p] = @ \ {"built"}]
  /\ dir' = [dir EXCEPT ![p].obj = 0]
  /\ UNCHANGED <<dl, src, inst>>
CleanStops(p) ==
  /\ AtStep(p, "cleaned") /\ "clean" \in StopIn
  /\ Die(TRUE)
  /\ dir' = [dir EXCEPT ![p].obj = 0]
  /\ UNCHANGED <<stamps, dl, src, inst>>

\* rm -Rf of the build directory
DircleanSources(p) ==   \* mutant: only the sources and their stamps go
  /\ AtStep(p, "dircleaned")
  /\ Rerun(p, "dircleaned")
  /\ stamps' = [stamps EXCEPT ![p] = @ \ PrepSteps]
  /\ dir' = [dir EXCEPT ![p].tree = 0, ![p].patches = "none"]
  /\ UNCHANGED <<dl, src, inst>>
DircleanStampsOnly(p) ==   \* mutant: rm -f of the stamp files, the tree stays
  /\ AtStep(p, "dircleaned")
  /\ Rerun(p, "dircleaned")
  /\ stamps' = [stamps EXCEPT ![p] = {}]
  /\ UNCHANGED <<dl, src, dir, inst>>
Dirclean(p) ==
  /\ AtStep(p, "dircleaned")
  /\ Rerun(p, "dircleaned")
  /\ stamps' = [stamps EXCEPT ![p] = {}]
  /\ dir' = [dir EXCEPT ![p] = EmptyDir]
  /\ UNCHANGED <<dl, src, inst>>
\* What a killed rm -Rf leaves: some of the stamps, and no source that compiles.
CutTrees(p) ==
  [tree : {0}, patches : {"none", dir[p].patches}, conf : {0, dir[p].conf}, obj : {0, dir[p].obj}]
DircleanStops(p) ==
  /\ AtStep(p, "dircleaned") /\ "dirclean" \in StopIn
  /\ Die(TRUE)
  /\ \E left \in SUBSET stamps[p] : stamps' = [stamps EXCEPT ![p] = left]
  /\ \E d \in CutTrees(p) : dir' = [dir EXCEPT ![p] = d]
  /\ UNCHANGED <<dl, src, inst>>

\* make clean: rm -rf of STAGING_DIR, TARGET_DIR, BINARIES_DIR and HOST_DIR, and
\* last of BUILD_DIR, which has the stamps.
RemovedInOrder == <<"staging_installed", "target_installed", "images_installed", "host_installed">>
NothingInstalled == [p \in Pkgs |-> [s \in AllPlaces |-> 0]]
CleanOutput ==
  /\ goal.op = "make_clean" /\ ~cleared
  /\ cleared' = TRUE
  /\ stamps' = [p \in Pkgs |-> {}]
  /\ dir' = [p \in Pkgs |-> EmptyDir]
  /\ inst' = NothingInstalled
  /\ UNCHANGED <<goal, visited, ran, dl, src, edits, failures>>
CleanOutputStops ==
  /\ goal.op = "make_clean" /\ ~cleared /\ "make_clean" \in StopIn
  /\ Die(TRUE)
  /\ \/ /\ \E k \in DOMAIN RemovedInOrder, some \in SUBSET Pkgs :
             inst' = [p \in Pkgs |-> [s \in AllPlaces |->
                        IF \/ \E i \in 1 .. k - 1 : s = RemovedInOrder[i]
                           \/ s = RemovedInOrder[k] /\ p \in some
                          THEN 0 ELSE inst[p][s]]]
        /\ UNCHANGED <<stamps, dir>>
     \/ /\ inst' = NothingInstalled
        /\ \E gone \in SUBSET Pkgs, q \in Pkgs : \E left \in SUBSET stamps[q], d \in CutTrees(q) :
             /\ stamps' = [p \in Pkgs |-> IF p = q THEN left
                                         ELSE IF p \in gone THEN {} ELSE stamps[p]]
             /\ dir' = [p \in Pkgs |-> IF p = q THEN d
                                      ELSE IF p \in gone THEN EmptyDir ELSE dir[p]]
  /\ UNCHANGED <<dl, src>>

-----------------------------------------------------------------------------
(* What the user does between two invocations.                             *)

\* Edit the source: FOO_OVERRIDE_SRCDIR, or the files unpacked for the build.
Edit(p) ==
  /\ ~Running /\ edits <= MaxEdits
  /\ edits' = edits + 1
  /\ IF p \in Override
       THEN src' = [src EXCEPT ![p] = edits'] /\ UNCHANGED dir
       ELSE /\ dir[p].tree # 0
            /\ dir' = [dir EXCEPT ![p].tree = edits']
            /\ UNCHANGED src
  /\ UNCHANGED <<makeVars, stamps, dl, inst, failures>>

\* Remove a stamp file, as docs/manual/rebuilding-packages.txt teaches.
RemoveStamp(p) ==
  /\ ~Running
  /\ \E s \in UserRemoves \cap stamps[p] : stamps' = [stamps EXCEPT ![p] = @ \ {s}]
  /\ UNCHANGED <<makeVars, dl, src, dir, inst, edits, failures>>

-----------------------------------------------------------------------------
Init ==
  /\ goal = NoGoal /\ cleared = TRUE
  /\ visited = NothingVisited /\ ran = NothingVisited
  /\ stamps = [p \in Pkgs |-> {}]
  /\ dl = {}
  /\ src = [p \in Pkgs |-> 1]
  /\ dir = [p \in Pkgs |-> EmptyDir]
  /\ inst = NothingInstalled
  /\ edits = 1 /\ failures = 0

User ==
  \/ \E op \in WorldOps : Start(op, NoPkg)
  \/ \E op \in PkgOps, p \in Pkgs : Start(op, p)
  \/ \E p \in Pkgs : Edit(p) \/ RemoveStamp(p)

StepOf(p) ==
  \/ \E s \in StampNames : Skip(p, s)
  \/ VisitDepends(p)
  \/ Download(p) \/ Extract(p) \/ Rsync(p) \/ Patch(p) \/ Configure(p) \/ Build(p)
  \/ \E s \in AllPlaces : Install(p, s)
  \/ Uninstall(p) \/ Clean(p) \/ Dirclean(p)

StopOf(p) ==
  \/ DownloadStops(p) \/ ExtractStops(p) \/ RsyncStops(p) \/ PatchStops(p)
  \/ ConfigureStops(p) \/ BuildStops(p)
  \/ \E s \in AllPlaces : InstallStops(p, s)
  \/ UninstallStops(p) \/ CleanStops(p) \/ DircleanStops(p)

Advance == Clear \/ CleanOutput \/ Finish \/ \E p \in Pkgs : StepOf(p)
Stop    == Killed \/ ClearStops \/ CleanOutputStops \/ \E p \in Pkgs : StopOf(p)

Next == User \/ Advance \/ Stop

Spec == Init /\ [][Next]_vars

\* make is a sequential program that only waits for its commands, and a user
\* who wants the packages goes back to typing make, and foo-dirclean for the
\* packages that do not build, whatever else was typed.
FairSpec ==
  /\ Spec /\ WF_vars(Advance \/ Stop) /\ SF_vars(Start("all", NoPkg))
  /\ \A p \in Pkgs : SF_vars(Start("dirclean", p))

-----------------------------------------------------------------------------
(* Properties.                                                             *)

\* A stamp stands only on the stamps of the steps before it, and on the files
\* it vouches for: sources, patches, a configuration.  The steps have no
\* dependency on each other's stamps (Makefile.package.in:326-436), so this is
\* what has to survive every failure for make to resume in the right place.
StampsInOrder ==
  \A p \in Pkgs :
    /\ "extracted" \in stamps[p] => "downloaded" \in stamps[p] /\ dir[p].tree # 0
    /\ "patched" \in stamps[p] =>
         "extracted" \in stamps[p] /\ (p \in Patched => dir[p].patches = "all")
    /\ "configured" \in stamps[p] =>
         dir[p].conf # 0 /\ (p \notin Override => "patched" \in stamps[p])
    /\ "built" \in stamps[p] => "configured" \in stamps[p]

\* The stamp of an install step vouches for files that are really installed:
\* the uninstall recipe removes the stamps before the files, "Uninstall
\* commands tend to fail" (Makefile.package.in:445-451).
InstallStampTrue ==
  \A p \in Pkgs : \A s \in InstallSteps(p) : s \in stamps[p] => inst[p][s] # 0

\* "Buildroot will ensure that all these packages are built and installed
\* 'before' the current package starts its configuration"
\* (docs/manual/adding-packages-gentargets.txt:71-72).
DepsInstalledFirst ==
  \A p \in Pkgs : "configured" \in ran[p] =>
    \A q \in Deps[p] : \A s \in InstallSteps(q) : inst[q][s] # 0

\* Whatever failures came before, when foo-rebuild or foo-reconfigure succeeds
\* everything foo has installed was built from the sources as they are now,
\* and the configuration foo-reconfigure made is of them too
\* (Makefile.package.in:664-679).
RebuildIsFresh ==
  LET p == goal.pkg IN
  goal.op \in {"rebuild", "reconfigure"} /\ Finished /\ p \in Needed =>
    /\ \A s \in InstallSteps(p) : inst[p][s] = dir[p].tree
    /\ p \in Override /\ InstallSteps(p) # {} => dir[p].tree = src[p]
    /\ goal.op = "reconfigure" /\ InstallSteps(p) # {} => dir[p].conf = dir[p].tree

\* What is stamped as built and as installed is the same build: make never
\* rebuilds a package and leaves the old files installed.
NoStaleInstall ==
  \A p \in Pkgs : \A s \in InstallSteps(p) :
    {"built", s} \subseteq stamps[p] => inst[p][s] = dir[p].obj

\* "remove its build directory [...] Buildroot will then re-extract,
\* re-configure, re-compile and re-install this package from scratch"
\* (docs/manual/rebuilding-packages.txt:14-16): once a package is extracted
\* again, make skips none of its later steps.
FromScratch ==
  \A p \in Pkgs : "extracted" \in ran[p] =>
    {s \in visited[p] \cap StampNames : Rank[s] > Rank["extracted"]} \subseteq ran[p]

\* A recipe that has to run finds what it works on: after any failure, and with
\* stamps removed by hand, typing make again can get past the step that failed
\* (Makefile.package.in:325-436).  The exception is a series of patches that was
\* cut short (support/scripts/apply-patches.sh:52).
CanSucceed(p, s) ==
  /\ s = "extracted" => p \in dl
  /\ s = "patched" => dir[p].patches = "none" \/ (p \in Patched /\ failures # 0)
  /\ s \in {"configured", "built"} => dir[p].tree # 0
  /\ s = "built" => dir[p].conf # 0
  /\ s \in AllPlaces => dir[p].obj # 0
RetrySucceeds == \A p \in Pkgs : \A s \in StampNames : Recipe(p, s) => CanSucceed(p, s)

\* "source - download all sources needed for offline-build" (Makefile:685): when
\* make source has succeeded, whatever was fetched, stamped or killed before, all
\* that make builds has its archive in DL_DIR.  What make builds is found by the
\* prerequisites of foo-depends, what make source fetches by the variables of
\* Makefile:337-357, of which TARGETS has no host package.
OfflineReady == goal.op = "source" /\ Finished => Needed \ Override \subseteq dl

\* "remove its build directory [...] Buildroot will then re-extract [...] this
\* package from scratch" (docs/manual/rebuilding-packages.txt:14-16): whatever
\* was killed, half applied, half cleaned or removed by hand, foo-dirclean and
\* make get the files of every package that is needed installed again.
EventuallyInstalled == []<>(\A p \in Needed : \A s \in InstallSteps(p) : inst[p][s] # 0)

-----------------------------------------------------------------------------
(* The inductive invariant behind the safety properties.                   *)

\* A dependency is at a smaller depth than what depends on it.
Depth == CHOOSE depth \in [Pkgs -> 0 .. Cardinality(Pkgs)] :
           \A p \in Pkgs : \A q \in Deps[p] : depth[q] < depth[p]

\* What make holds to be up to date is wanted, stamped, and visited in order,
\* the dependencies before the step that waits for them.
VisitedInOrder ==
  \A p \in Pkgs :
    /\ ran[p] \subseteq visited[p] /\ visited[p] \subseteq Wanted(p)
    /\ visited[p] \cap StampNames \subseteq stamps[p]
    /\ \A s \in visited[p] : Before(p, s) \subseteq visited[p]
    /\ "depends" \in visited[p] => \A q \in Deps[p] : Complete(q)

NothingBeforeClear ==
  /\ ~Running => cleared
  /\ ~Running \/ ~cleared => visited = NothingVisited
  /\ ~cleared => goal.op \in ClearGoals \cup {"make_clean"}

\* The goals that name one package reach it and what is below it.
OnlyBelowGoal ==
  goal.op \in PartialGoals =>
    \A p \in Pkgs : visited[p] # {} => p = goal.pkg \/ Depth[p] < Depth[goal.pkg]

\* Holds as long as make clean is not cut short.
InstalledWhenStamped ==
  \A p \in Pkgs : \A s \in AllPlaces : s \in stamps[p] => inst[p][s] # 0

MakeInv == VisitedInOrder /\ NothingBeforeClear /\ OnlyBelowGoal

\* Holds when stamps are removed by the recipes only, and completely.
OverrideUnpacksNothing ==
  \A p \in Pkgs : /\ src[p] # 0
                  /\ p \in Override =>
                       stamps[p] \cap {"downloaded", "extracted", "patched"} = {}
OrderInv == OverrideUnpacksNothing /\ StampsInOrder
=============================================================================
