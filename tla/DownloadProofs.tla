--------------------------- MODULE DownloadProofs ---------------------------
(***************************************************************************)
(* What the .stamp_downloaded recipe keeps through broken transfers and     *)
(* kills, for every set of packages, files, sites and methods.             *)
(***************************************************************************)
EXTENDS Download, TLAPS

LEMMA SitesFacts ==
  /\ Len(Sites) = 3 /\ Sites[1] = "primary" /\ Sites[2] = "own" /\ Sites[3] = "backup"
  /\ SiteSet = {"primary", "own", "backup"}
<1>1. Len(Sites) = 3 /\ Sites[1] = "primary" /\ Sites[2] = "own" /\ Sites[3] = "backup"
  BY DEF Sites
<1>2. 1 .. Len(Sites) = {1, 2, 3}
  BY <1>1
<1>3. SiteSet = {Sites[1], Sites[2], Sites[3]}
  BY <1>2 DEF SiteSet
<1> QED BY <1>1, <1>3

-----------------------------------------------------------------------------
(* The inductive invariant.                                                *)

\* Where make is in a recipe.  The patch comes when the source is there; a
\* clone is archived while the archive is missing, and removed once it exists.
Position ==
  /\ InRecipe => mode # "idle"
  /\ InRecipe /\ at.arg = "patch" =>
       /\ PatchFile[at.pkg] # NoFile
       /\ mode = "DOWNLOAD" => file[Source[at.pkg]] # "none"
  /\ at.stage # "try" =>
       /\ InRecipe /\ mode = "DOWNLOAD"
       /\ at.site = 2 /\ Method[at.pkg] \in Cloning
       /\ at.pkg \in BadVersion => Method[at.pkg] = "git"
       /\ at.stage = "archive" => file[Source[at.pkg]] = "none"
       /\ at.stage = "remove" => file[Source[at.pkg]] # "none"

DownloadInv == TypeOK /\ Position /\ StampedHasFiles

\* The file of an attempt is one of the files, and it is the source where a
\* clone is made of it.
LEMMA TargetFacts ==
  ASSUME TypeOK, Position, InRecipe, at.site <= Len(Sites)
  PROVE  /\ at.pkg \in Pkgs /\ Target \in Files
         /\ at.arg = "source" => Target = Source[at.pkg]
         /\ Clones => Target = Source[at.pkg]
         /\ at.stage # "try" => Site = "own" /\ Clones /\ Target = Source[at.pkg]
  BY DownloadAssumption, SitesFacts
     DEF TypeOK, Positions, Position, InRecipe, Target, Wanted, NameOf, Site, Clones, Cloning, Args

LEMMA SiteType ==
  ASSUME TypeOK, at.site <= Len(Sites)
  PROVE  Site \in SiteSet /\ at.site + 1 \in 1 .. Len(Sites) + 1
<1>1. at.site \in 1 .. 3
  BY SitesFacts DEF TypeOK, Positions
<1> QED BY <1>1, SitesFacts DEF Site

\* The recipe is done with a file that is there, or nothing was to be fetched.
LEMMA FileDoneKeeps ==
  ASSUME DownloadInv, InRecipe, FileDone, mode' = mode, todo' = todo, failures' = failures,
         file' \in [Files -> Contents], clone' \in [Pkgs -> {"none", "part", "whole"}],
         \A f \in Files : file[f] # "none" => file'[f] # "none",
         at.site <= Len(Sites), mode = "DOWNLOAD" => file'[Target] # "none"
  PROVE  DownloadInv'
<1> USE DEF DownloadInv
<1>1. at.pkg \in Pkgs /\ Source[at.pkg] \in Files /\ at.arg \in Args
  BY TargetFacts, DownloadAssumption DEF TypeOK, Positions
<1>2. CASE at.arg = "source" /\ PatchFile[at.pkg] # NoFile
  <2>1. at' = [at EXCEPT !.arg = "patch", !.site = 1, !.stage = "try"] /\ asked' = {} /\ stamps' = stamps
    BY <1>2 DEF FileDone
  <2>2. at' \in Positions /\ at'.pkg = at.pkg /\ at'.arg = "patch" /\ at'.stage = "try"
    <3>1. at \in Positions /\ 1 \in 1 .. Len(Sites) + 1
      BY SitesFacts DEF TypeOK
    <3> QED BY <2>1, <3>1 DEF Positions, Args
  <2>3. TypeOK'
    BY <2>1, <2>2 DEF TypeOK
  <2>4. Position'
    BY <1>1, <1>2, <2>2, TargetFacts DEF Position, InRecipe
  <2>5. StampedHasFiles'
    BY <2>1, DownloadAssumption DEF StampedHasFiles, TypeOK
  <2> QED BY <2>3, <2>4, <2>5
<1>3. CASE ~(at.arg = "source" /\ PatchFile[at.pkg] # NoFile)
  <2>1. /\ at' = Nowhere /\ asked' = {}
        /\ stamps' = IF mode = "DOWNLOAD" THEN stamps \cup {at.pkg} ELSE stamps
    BY <1>3 DEF FileDone
  <2>2. at' \in Positions /\ at'.pkg = NoPkg /\ at'.stage = "try"
    BY <2>1, SitesFacts DEF Nowhere, Positions, Args
  <2>3. TypeOK'
    BY <1>1, <2>1, <2>2 DEF TypeOK
  <2>4. Position'
    BY <2>2 DEF Position, InRecipe
  <2>5. ASSUME mode = "DOWNLOAD"
        PROVE  /\ file'[Source[at.pkg]] # "none"
               /\ PatchFile[at.pkg] # NoFile /\ Method[at.pkg] \in {"wget", "scp"}
                    => file'[PatchFile[at.pkg]] # "none"
    <3>1. CASE at.arg = "source"
      BY <1>3, <2>5, <3>1, TargetFacts
    <3>2. CASE at.arg = "patch"
      <4>1. file'[Source[at.pkg]] # "none"
        BY <1>1, <2>5, <3>2 DEF Position
      <4>2. Method[at.pkg] \in {"wget", "scp"} => Target = PatchFile[at.pkg]
        BY <3>2 DEF Target, Wanted, NameOf
      <4> QED BY <2>5, <4>1, <4>2
    <3> QED BY <1>1, <3>1, <3>2 DEF Args
  <2>6. StampedHasFiles'
    <3> SUFFICES ASSUME NEW p \in stamps'
                 PROVE  /\ file'[Source[p]] # "none"
                        /\ PatchFile[p] # NoFile /\ Method[p] \in {"wget", "scp"}
                             => file'[PatchFile[p]] # "none"
      BY DEF StampedHasFiles
    <3>1. CASE p \in stamps
      BY <3>1, DownloadAssumption DEF StampedHasFiles, TypeOK
    <3>2. CASE p \notin stamps
      BY <2>1, <2>5, <3>2
    <3> QED BY <3>1, <3>2
  <2> QED BY <2>3, <2>4, <2>6
<1> QED BY <1>2, <1>3

\* On to the next site: the file is as before, or a part of it was left.
LEMMA NextSiteKeeps ==
  ASSUME DownloadInv, InRecipe, at.site <= Len(Sites), NextSite, mode' = mode, todo' = todo,
         stamps' = stamps, asked' \in SUBSET SiteSet, failures' \in 0 .. MaxFailures,
         file' \in [Files -> Contents], clone' \in [Pkgs -> {"none", "part", "whole"}],
         \A f \in Files : file[f] # "none" => file'[f] # "none"
  PROVE  DownloadInv'
<1> USE DEF DownloadInv
<1>1. /\ at' \in Positions /\ at'.pkg = at.pkg /\ at'.arg = at.arg /\ at'.stage = "try"
      /\ at.pkg \in Pkgs
  <2>1. at \in Positions /\ at.site + 1 \in 1 .. Len(Sites) + 1
    BY SiteType DEF TypeOK
  <2> QED BY <2>1 DEF NextSite, Positions, InRecipe
<1>2. TypeOK'
  BY <1>1 DEF TypeOK
<1>3. Position'
  BY <1>1, DownloadAssumption DEF Position, InRecipe
<1>4. StampedHasFiles'
  BY DownloadAssumption DEF StampedHasFiles, TypeOK
<1> QED BY <1>2, <1>3, <1>4

\* The recipe or make is over.
LEMMA OverKeeps ==
  ASSUME DownloadInv, Over, stamps' = stamps, failures' \in 0 .. MaxFailures,
         file' \in [Files -> Contents], clone' \in [Pkgs -> {"none", "part", "whole"}],
         \A f \in Files : file[f] # "none" => file'[f] # "none"
  PROVE  DownloadInv'
<1> USE DEF DownloadInv
<1>1. at' \in Positions /\ at'.pkg = NoPkg /\ at'.stage = "try" /\ at'.arg = "source"
  <2>1. 1 \in 1 .. Len(Sites) + 1
    BY SitesFacts
  <2> QED BY <2>1 DEF Over, Nowhere, Positions, Args
<1>2. TypeOK'
  BY <1>1 DEF Over, TypeOK
<1>3. Position'
  BY <1>1 DEF Position, InRecipe
<1>4. StampedHasFiles'
  BY DownloadAssumption DEF StampedHasFiles, TypeOK
<1> QED BY <1>2, <1>3, <1>4

\* A command that breaks off spoils only a file that was not there.
LEMMA CutFacts ==
  ASSUME DownloadInv, FileCut, Fetching \/ (InRecipe /\ at.stage = "archive")
  PROVE  /\ file' \in [Files -> Contents] /\ UNCHANGED <<clone, stamps>>
         /\ \A f \in Files : file[f] # "none" => file'[f] = file[f]
         /\ \A f \in Files : file'[f] \in CutLeaves \cup {file[f]}
<1>1. PICK c \in CutLeaves : file' = [file EXCEPT ![Target] = c] /\ UNCHANGED <<clone, stamps>>
  BY DEF FileCut
<1>2. c \in Contents
  BY DownloadAssumption DEF Contents
<1>3. file[Target] = "none" /\ Target \in Files
  BY TargetFacts, SitesFacts DEF DownloadInv, Fetching, AtSite, Trying, Missing, Position, InRecipe
<1> QED BY <1>1, <1>2, <1>3 DEF DownloadInv, TypeOK

LEMMA CloneCutFacts ==
  ASSUME DownloadInv, CloneCut
  PROVE  clone' \in [Pkgs -> {"none", "part", "whole"}] /\ UNCHANGED <<file, stamps>>
<1>1. PICK c \in {"none", "part"} : clone' = [clone EXCEPT ![at.pkg] = c] /\ UNCHANGED <<file, stamps>>
  BY DEF CloneCut
<1> QED BY <1>1 DEF DownloadInv, TypeOK

\* What one step does to the files: nothing, the whole archive where there was
\* none, or what a break leaves of it.
LEMMA LeavingsFacts ==
  ASSUME DownloadInv, Leavings
  PROVE  /\ file' \in [Files -> Contents] /\ clone' \in [Pkgs -> {"none", "part", "whole"}]
         /\ stamps' = stamps
         /\ \A f \in Files : file[f] # "none" => file'[f] = file[f]
         /\ \A f \in Files : file'[f] \in CutLeaves \cup {file[f]}
<1>1. CASE Fetching /\ ~Clones /\ FileCut
  BY <1>1, CutFacts DEF DownloadInv, TypeOK
<1>2. CASE Fetching /\ Clones /\ CanClone /\ CloneCut
  BY <1>2, CloneCutFacts DEF DownloadInv, TypeOK
<1>3. CASE InRecipe /\ at.stage = "archive" /\ FileCut
  BY <1>3, CutFacts DEF DownloadInv, TypeOK
<1>4. CASE InRecipe /\ at.stage = "remove" /\ clone' = [clone EXCEPT ![at.pkg] = "part"]
             /\ UNCHANGED <<file, stamps>>
  BY <1>4 DEF DownloadInv, TypeOK
<1>5. CASE UNCHANGED disk
  BY <1>5 DEF disk, DownloadInv, TypeOK
<1> QED BY <1>1, <1>2, <1>3, <1>4, <1>5 DEF Leavings

\* An archive was made of a clone, complete or not.
LEMMA ArchivedKeeps ==
  ASSUME DownloadInv, InRecipe, at.stage = "archive", at' = [at EXCEPT !.stage = "remove"],
         \E c \in {"part", "bogus", "whole"} : file' = [file EXCEPT ![Target] = c],
         UNCHANGED <<mode, todo, clone, stamps, asked>>, failures' \in 0 .. MaxFailures
  PROVE  DownloadInv'
<1> USE DEF DownloadInv
<1>1. /\ at.site = 2 /\ at.pkg \in Pkgs /\ mode = "DOWNLOAD" /\ Method[at.pkg] \in Cloning
      /\ Target = Source[at.pkg] /\ Target \in Files
  BY TargetFacts, SitesFacts DEF Position
<1>2. /\ file' \in [Files -> Contents] /\ file'[Source[at.pkg]] # "none"
      /\ \A f \in Files : file[f] # "none" => file'[f] # "none"
  BY <1>1 DEF TypeOK, Contents
<1>3. at' \in Positions /\ at'.pkg = at.pkg /\ at'.arg = at.arg /\ at'.site = 2 /\ at'.stage = "remove"
  BY <1>1 DEF TypeOK, Positions
<1>4. TypeOK'
  BY <1>2, <1>3 DEF TypeOK
<1>5. Position'
  <2>1. (at.arg = "patch" => PatchFile[at.pkg] # NoFile) /\ mode' = mode
    BY DEF Position
  <2>2. InRecipe' /\ mode' = "DOWNLOAD"
    BY <1>1, <1>3, <2>1 DEF InRecipe
  <2> QED BY <1>1, <1>2, <1>3, <2>1, <2>2 DEF Position
<1>6. StampedHasFiles'
  BY <1>2, DownloadAssumption DEF StampedHasFiles, TypeOK
<1> QED BY <1>4, <1>5, <1>6

LEMMA PipeKeeps == DownloadInv /\ BreaksInPipe => DownloadInv'
<1> SUFFICES ASSUME DownloadInv, BreaksInPipe PROVE DownloadInv'
  OBVIOUS
<1>1. failures' \in 0 .. MaxFailures
  BY DownloadAssumption DEF BreaksInPipe, DownloadInv, TypeOK
<1> QED BY <1>1, ArchivedKeeps DEF BreaksInPipe

LEMMA DownloadInit == Init => DownloadInv
<1> SUFFICES ASSUME Init PROVE DownloadInv
  OBVIOUS
<1>1. Nowhere \in Positions
  <2>1. 1 \in 1 .. Len(Sites) + 1
    BY SitesFacts
  <2> QED BY <2>1 DEF Nowhere, Positions, Args
<1>2. TypeOK
  BY <1>1, DownloadAssumption DEF Init, TypeOK, Contents
<1> QED BY <1>2 DEF Init, DownloadInv, Position, StampedHasFiles, InRecipe, Nowhere

LEMMA DownloadNext == DownloadInv /\ [Next]_vars => DownloadInv'
<1> SUFFICES ASSUME DownloadInv, [Next]_vars PROVE DownloadInv'
  OBVIOUS
<1> USE DEF DownloadInv
<1>1. \A f \in Files : file[f] # "none" => file[f] # "none"
  OBVIOUS
<1>2. ASSUME NEW m \in Modes, Begin(m) PROVE DownloadInv'
  BY <1>2, DownloadAssumption
     DEF Begin, disk, TypeOK, Position, StampedHasFiles, InRecipe
<1>3. ASSUME NEW p \in Pkgs, Visit(p) PROVE DownloadInv'
  <2>1. CASE p \in stamps
    BY <1>3, <2>1 DEF Visit, disk, TypeOK, Position, StampedHasFiles, InRecipe
  <2>2. CASE p \notin stamps
    <3>1. at' = [Nowhere EXCEPT !.pkg = p] /\ 1 \in 1 .. Len(Sites) + 1
      BY <1>3, <2>2, SitesFacts DEF Visit
    <3>2. at' \in Positions /\ at'.arg = "source" /\ at'.stage = "try"
      BY <3>1 DEF Nowhere, Positions, Args
    <3>3. TypeOK'
      BY <1>3, <3>2 DEF Visit, disk, TypeOK
    <3>4. Position'
      BY <1>3, <3>2 DEF Visit, Position, InRecipe
    <3> QED BY <1>3, <3>3, <3>4 DEF Visit, disk, StampedHasFiles
  <2> QED BY <2>1, <2>2
<1>4. CASE End
  BY <1>4, OverKeeps DEF End, disk, TypeOK
<1>5. CASE SkipSite
  BY <1>5, NextSiteKeeps DEF SkipSite, Trying, disk, TypeOK
<1>6. CASE NoSiteLeft
  BY <1>6, OverKeeps DEF NoSiteLeft, disk, TypeOK
<1>7. CASE Check
  <2>1. InRecipe /\ at.site <= Len(Sites) /\ mode = "SOURCE_CHECK"
        /\ UNCHANGED <<mode, todo, file, clone, failures>>
    BY <1>7 DEF Check, AtSite, Trying
  <2>2. CASE FileDone
    BY <2>1, <2>2, FileDoneKeeps DEF TypeOK
  <2>3. CASE NextSite /\ UNCHANGED <<stamps, asked>>
    BY <2>1, <2>3, NextSiteKeeps DEF TypeOK
  <2> QED BY <1>7, <2>2, <2>3 DEF Check
<1>8. CASE AlreadyThere
  BY <1>8, FileDoneKeeps DEF AlreadyThere, AtSite, Trying, Missing, TypeOK
<1>9. CASE Fetch
  <2>1. InRecipe /\ at.site <= Len(Sites) /\ Target \in Files /\ FileDone
    BY <1>9, TargetFacts DEF Fetch, AtSite, Trying
  <2>2. file' = [file EXCEPT ![Target] = "whole"] /\ UNCHANGED <<mode, todo, clone, failures>>
    BY <1>9 DEF Fetch
  <2>3. /\ file' \in [Files -> Contents] /\ file'[Target] # "none"
        /\ \A f \in Files : file[f] # "none" => file'[f] # "none"
    BY <2>1, <2>2 DEF TypeOK, Contents
  <2> QED BY <2>1, <2>2, <2>3, FileDoneKeeps DEF TypeOK
<1>10. CASE CloneRepo
  <2>1. /\ InRecipe /\ at.site <= Len(Sites) /\ at.pkg \in Pkgs /\ Target = Source[at.pkg]
        /\ file[Source[at.pkg]] = "none" /\ mode = "DOWNLOAD"
    BY <1>10, TargetFacts DEF CloneRepo, AtSite, Trying, Missing
  <2>2. Site = "own" /\ Method[at.pkg] \in Cloning /\ Site \in SiteSet
    BY <1>10, <2>1, SiteType DEF CloneRepo, Clones
  <2>3. at.site = 2
    BY <2>1, <2>2, SitesFacts DEF Site, TypeOK, Positions
  <2>4. at' = [at EXCEPT !.stage = "archive"] /\ UNCHANGED <<mode, todo, file, stamps, failures>>
        /\ clone' = [clone EXCEPT ![at.pkg] = "whole"] /\ asked' = asked \cup {Site}
    BY <1>10 DEF CloneRepo
  <2>5. at' \in Positions /\ at'.pkg = at.pkg /\ at'.arg = at.arg /\ at'.site = 2 /\ at'.stage = "archive"
    BY <2>3, <2>4 DEF TypeOK, Positions
  <2>6. TypeOK'
    BY <2>2, <2>4, <2>5 DEF TypeOK
  <2>7. Position'
    <3>1. at.pkg \in BadVersion => Method[at.pkg] = "git"
      BY <1>10 DEF CloneRepo, CanClone
    <3> QED BY <2>1, <2>2, <2>4, <2>5, <3>1 DEF Position, InRecipe
  <2> QED BY <2>4, <2>6, <2>7 DEF StampedHasFiles
<1>11. CASE ArchiveClone
  <2>1. /\ InRecipe /\ at.stage = "archive" /\ at' = [at EXCEPT !.stage = "remove"]
        /\ UNCHANGED <<mode, todo, clone, stamps, asked, failures>>
    BY <1>11 DEF ArchiveClone
  <2>2. \E c \in {"bogus", "whole"} : file' = [file EXCEPT ![Target] = c]
    BY <1>11 DEF ArchiveClone
  <2>3. failures' \in 0 .. MaxFailures
    BY <2>1 DEF TypeOK
  <2> QED BY <2>1, <2>2, <2>3, ArchivedKeeps
<1>12. CASE RemoveClone
  <2>1. at.site = 2 /\ Target = Source[at.pkg] /\ file[Target] # "none" /\ InRecipe
    BY <1>12, TargetFacts, SitesFacts DEF RemoveClone, Position
  <2>2. clone' \in [Pkgs -> {"none", "part", "whole"}] /\ FileDone
        /\ UNCHANGED <<mode, todo, file, failures>>
    BY <1>12 DEF RemoveClone, TypeOK
  <2> QED BY <2>1, <2>2, SitesFacts, FileDoneKeeps DEF TypeOK
<1>13. CASE Refused
  <2>1. InRecipe /\ at.site <= Len(Sites)
    BY <1>13 DEF Refused, AtSite, Trying
  <2> QED BY <1>13, <2>1, SiteType, NextSiteKeeps DEF Refused, disk, TypeOK
<1>14. CASE Breaks
  <2>1. InRecipe /\ at.site <= Len(Sites) /\ failures' \in 0 .. MaxFailures
    BY <1>14, SitesFacts, DownloadAssumption
       DEF Breaks, Fetching, AtSite, Trying, Position, TypeOK
  <2>2. NextSite /\ asked' \in SUBSET SiteSet /\ UNCHANGED <<mode, todo>>
    BY <1>14, <2>1, SiteType DEF Breaks, TypeOK
  <2>3. /\ file' \in [Files -> Contents] /\ clone' \in [Pkgs -> {"none", "part", "whole"}]
        /\ stamps' = stamps /\ \A f \in Files : file[f] # "none" => file'[f] # "none"
    <3>1. Leavings
      BY <1>14 DEF Breaks, Leavings
    <3> QED BY <3>1, LeavingsFacts
  <2> QED BY <2>1, <2>2, <2>3, NextSiteKeeps
<1>15. CASE BreaksInPipe
  BY <1>15, PipeKeeps
<1>16. CASE Killed
  <2>1. failures' \in 0 .. MaxFailures
    BY <1>16, DownloadAssumption DEF Killed, TypeOK
  <2>2. \A f \in Files : file[f] # "none" => file'[f] # "none"
    BY <1>16, LeavingsFacts DEF Killed
  <2> QED BY <1>16, <2>1, <2>2, LeavingsFacts, OverKeeps DEF Killed
<1>17. ASSUME NEW p \in Pkgs, Dirclean(p) PROVE DownloadInv'
  BY <1>17 DEF Dirclean, TypeOK, Position, StampedHasFiles, InRecipe
<1>18. CASE UNCHANGED vars
  BY <1>18 DEF vars, disk, TypeOK, Position, StampedHasFiles, InRecipe
<1> QED BY <1>2, <1>3, <1>4, <1>5, <1>6, <1>7, <1>8, <1>9, <1>10, <1>11, <1>12, <1>13,
           <1>14, <1>16, <1>17, <1>18, <1>15 DEF Next, Advance

\* Every position of make in a recipe, and every file, is one the code can have.
THEOREM TypeCorrect == Spec => []TypeOK
<1>1. DownloadInv => TypeOK
  BY DEF DownloadInv
<1> QED BY <1>1, DownloadInit, DownloadNext, PTL DEF Spec

\* A stamp stands for a file in DL_DIR (Makefile.package.in:326-339), whatever
\* breaks off and whenever make is killed.
THEOREM StampsHaveFiles == Spec => []StampedHasFiles
<1>1. DownloadInv => StampedHasFiles
  BY DEF DownloadInv
<1> QED BY <1>1, DownloadInit, DownloadNext, PTL DEF Spec

-----------------------------------------------------------------------------
(* What a step does to a file.                                             *)

\* A file is written where there was none, whatever the step.
LEMMA FileStep ==
  ASSUME DownloadInv, [Next]_vars, NEW f \in Files
  PROVE  file[f] # "none" => file'[f] = file[f]
<1> USE DEF DownloadInv
<1>1. CASE Fetch
  <2>1. file' = [file EXCEPT ![Target] = "whole"] /\ file[Target] = "none"
    BY <1>1 DEF Fetch, Missing
  <2> QED BY <2>1 DEF TypeOK
<1>2. CASE ArchiveClone
  <2>1. file' = [file EXCEPT ![Target] = IF at.pkg \in BadVersion THEN "bogus" ELSE "whole"]
    BY <1>2 DEF ArchiveClone
  <2>2. file[Target] = "none"
    BY <1>2, TargetFacts, SitesFacts DEF ArchiveClone, Position
  <2> QED BY <2>1, <2>2 DEF TypeOK
<1>3. CASE Breaks \/ Killed
  <2>1. Leavings
    BY <1>3 DEF Breaks, Killed, Leavings
  <2> QED BY <2>1, LeavingsFacts
<1>4. CASE file' = file
  BY <1>4
<1>5. CASE BreaksInPipe
  <2>1. file' = [file EXCEPT ![Target] = "part"] /\ file[Target] = "none"
    BY <1>5, TargetFacts, SitesFacts DEF BreaksInPipe, Position
  <2> QED BY <2>1 DEF TypeOK
<1>6. Fetch \/ ArchiveClone \/ Breaks \/ BreaksInPipe \/ Killed \/ file' = file
  BY DEF Next, Advance, Begin, Visit, End, SkipSite, NoSiteLeft, Check, AlreadyThere, CloneRepo,
         RemoveClone, Refused, Dirclean, disk, vars
<1> QED BY <1>1, <1>2, <1>3, <1>4, <1>5, <1>6

\* A complete archive in DL_DIR is never fetched again, overwritten or cut
\* (docs/manual/adding-packages-gentargets.txt:187-190), by whatever site,
\* package or make.
THEOREM ArchivesAreKept == Spec => NeverRefetched
<1>1. DownloadInv /\ [Next]_vars => [\A f \in Files : file[f] = "whole" => file'[f] = "whole"]_vars
  BY FileStep
<1> QED BY <1>1, DownloadInit, DownloadNext, PTL DEF Spec, NeverRefetched

-----------------------------------------------------------------------------
(* The store, when a transfer that breaks off leaves nothing.              *)

\* A transfer that is cut short leaves nothing of its file.
WholeTransfers == CutLeaves = {"none"}

WholeOrNone == \A p \in Unpiped : file[Source[p]] \in {"none", "whole"}

LEMMA WholeNext ==
  ASSUME WholeTransfers, DownloadInv, WholeOrNone, [Next]_vars
  PROVE  WholeOrNone'
<1> USE DEF DownloadInv
<1> SUFFICES ASSUME NEW p \in Unpiped PROVE file'[Source[p]] \in {"none", "whole"}
  BY DEF WholeOrNone, Unpiped
<1>1. p \in Pkgs /\ Source[p] \in Files /\ file[Source[p]] \in {"none", "whole"}
  BY DownloadAssumption DEF Unpiped, WholeOrNone
<1>2. CASE Fetch
  BY <1>1, <1>2 DEF Fetch, TypeOK
<1>3. CASE ArchiveClone \/ BreaksInPipe
  <2>1. InRecipe /\ at.stage = "archive" /\ at.pkg \in Pkgs /\ Target = Source[at.pkg]
    BY <1>3, TargetFacts, SitesFacts DEF ArchiveClone, BreaksInPipe, Position
  <2>2. PICK c : file' = [file EXCEPT ![Target] = c]
                 /\ (c # "whole" => at.pkg \in BadVersion \/ Method[at.pkg] = "git")
    BY <1>3 DEF ArchiveClone, BreaksInPipe
  <2>3. at.pkg \in BadVersion => Method[at.pkg] = "git"
    BY <2>1 DEF Position
  <2>4. Source[at.pkg] = Source[p] => c = "whole"
    BY <2>1, <2>2, <2>3 DEF Unpiped
  <2> QED BY <1>1, <2>1, <2>2, <2>4 DEF TypeOK
<1>4. CASE Breaks \/ Killed
  <2>1. Leavings
    BY <1>4 DEF Breaks, Killed, Leavings
  <2> QED BY <1>1, <2>1, LeavingsFacts DEF WholeTransfers
<1>5. CASE file' = file
  BY <1>1, <1>5
<1>6. Fetch \/ ArchiveClone \/ BreaksInPipe \/ Breaks \/ Killed \/ file' = file
  BY DEF Next, Advance, Begin, Visit, End, SkipSite, NoSiteLeft, Check,
         AlreadyThere, CloneRepo, RemoveClone, Refused, Dirclean, disk, vars
<1> QED BY <1>2, <1>3, <1>4, <1>5, <1>6

\* Only dirclean takes a stamp away, and it leaves the archives alone.
LEMMA StampsStay ==
  ASSUME DownloadInv, [Next]_vars
  PROVE  stamps \subseteq stamps' \/ (file' = file /\ stamps' \subseteq stamps)
<1> USE DEF DownloadInv
<1>1. CASE FileDone
  BY <1>1 DEF FileDone
<1>2. CASE Breaks \/ Killed
  <2>1. Leavings
    BY <1>2 DEF Breaks, Killed, Leavings
  <2> QED BY <2>1, LeavingsFacts
<1>3. CASE stamps' = stamps
  BY <1>3
<1>4. CASE \E p \in Pkgs : Dirclean(p)
  BY <1>4 DEF Dirclean
<1>5. FileDone \/ Breaks \/ Killed \/ stamps' = stamps \/ \E p \in Pkgs : Dirclean(p)
  BY DEF Next, Advance, Begin, Visit, End, SkipSite, NoSiteLeft, Check, AlreadyThere, Fetch,
         CloneRepo, ArchiveClone, BreaksInPipe, RemoveClone, Refused, disk, vars
<1> QED BY <1>1, <1>2, <1>3, <1>4, <1>5

LEMMA StoreNext ==
  ASSUME WholeTransfers, DownloadInv, WholeOrNone, [Next]_vars
  PROVE  [Store!Next]_<<Archives, stamps \cap Unpiped>>
<1> DEFINE st == stamps \cap Unpiped
<1>1. Archives \subseteq Archives' /\ Archives' \subseteq Unpiped
  BY FileStep, DownloadAssumption DEF Archives, Unpiped
<1>2. st' \subseteq Archives'
  <2>1. DownloadInv' /\ WholeOrNone'
    BY DownloadNext, WholeNext
  <2> SUFFICES ASSUME NEW p \in stamps', p \in Unpiped PROVE p \in Archives'
    BY DEF Unpiped
  <2>2. file'[Source[p]] # "none" /\ file'[Source[p]] \in {"none", "whole"}
    BY <2>1 DEF DownloadInv, StampedHasFiles, WholeOrNone, Unpiped
  <2> QED BY <2>2 DEF Archives, Unpiped
<1>3. CASE stamps \subseteq stamps'
  <2>1. st \subseteq st'
    BY <1>3 DEF Unpiped
  <2> QED BY <1>1, <1>2, <2>1 DEF Store!Next, Store!Deliver
<1>4. CASE file' = file /\ stamps' \subseteq stamps
  <2>1. Archives' = Archives /\ st' \subseteq st
    BY <1>4 DEF Archives, Unpiped
  <2> QED BY <2>1 DEF Store!Next, Store!Forget
<1> QED BY <1>3, <1>4, StampsStay

\* Download implements ArchiveStore where the commands deliver a whole file or
\* report that they did not: sites that fail, scratch clones in the way and kills
\* take no archive back and stamp no package without its own.  DownloadPartial
\* shows that wget -P and cp leave a part; git archive | gzip takes one for success
\* (Makefile.package.in:152), hence the exception of what goes through its pipe.
THEOREM WholeTransfersDeliver ==
  ASSUME WholeTransfers
  PROVE  Spec => DeliversAsPromised
<1>1. Init => DownloadInv /\ WholeOrNone /\ Store!Init
  BY DownloadInit, DownloadAssumption DEF Init, WholeOrNone, Store!Init, Archives, Unpiped
<1>2. DownloadInv /\ WholeOrNone /\ [Next]_vars
        => DownloadInv' /\ WholeOrNone' /\ [Store!Next]_<<Archives, stamps \cap Unpiped>>
  BY DownloadNext, WholeNext, StoreNext
<1> QED BY <1>1, <1>2, PTL DEF Spec, DeliversAsPromised, Store!Spec

-----------------------------------------------------------------------------
(* The sites are tried in turn, when a transfer that breaks off leaves     *)
(* nothing and every attempt tests for the file it is about.               *)

\* The patches come over wget or scp, which look at the name they are given.
NamesAreTested == \A p \in Pkgs : PatchFile[p] # NoFile => Method[p] \in {"wget", "scp"}

\* A file that a site was asked for is missing until it is delivered.
AskedInVain ==
  /\ ~InRecipe => asked = {}
  /\ asked # {} /\ mode = "DOWNLOAD" /\ at.stage # "remove" => file[NameOf(at.pkg, at.arg)] = "none"

LEMMA TargetIsNamed ==
  ASSUME NamesAreTested, DownloadInv, InRecipe, at.site <= Len(Sites)
  PROVE  Target = NameOf(at.pkg, at.arg)
<1>1. at.pkg \in Pkgs /\ at.arg \in Args
  BY DEF DownloadInv, TypeOK, Positions, InRecipe
<1>2. at.arg = "patch" => PatchFile[at.pkg] # NoFile
  BY DEF DownloadInv, Position
<1> QED BY <1>1, <1>2 DEF Target, Wanted, NameOf, NamesAreTested, Args

\* A file is done with, or make is over: nobody was asked for what comes next.
LEMMA NobodyAsked ==
  ASSUME FileDone \/ Over
  PROVE  AskedInVain'
<1>1. asked' = {}
  BY DEF FileDone, Over
<1> QED BY <1>1 DEF AskedInVain

LEMMA AskedNext ==
  ASSUME CutLeaves = {"none"}, NamesAreTested, DownloadInv, AskedInVain, [Next]_vars
  PROVE  AskedInVain'
<1> USE DEF DownloadInv
<1>1. at \in Positions /\ file \in [Files -> Contents]
  BY DEF TypeOK
\* On to the next site: the file that was missing still is.
<1>2. ASSUME InRecipe, NextSite, mode' = mode, at.site <= Len(Sites),
             asked' # {} /\ mode = "DOWNLOAD" => file'[Target] = "none"
      PROVE  AskedInVain'
  <2>1. at'.pkg = at.pkg /\ at'.arg = at.arg
    BY <1>1, <1>2 DEF NextSite, Positions
  <2>2. NameOf(at'.pkg, at'.arg) = Target
    BY <1>2, <2>1, TargetIsNamed DEF NameOf
  <2> QED BY <1>2, <2>1, <2>2 DEF AskedInVain, InRecipe, NameOf
<1>3. ASSUME NEW m \in Modes, Begin(m) PROVE AskedInVain'
  <2>1. asked = {} /\ UNCHANGED <<at, asked>>
    BY <1>3, DownloadAssumption DEF Begin, Position, AskedInVain
  <2> QED BY <2>1 DEF AskedInVain
<1>4. ASSUME NEW p \in Pkgs, Visit(p) PROVE AskedInVain'
  BY <1>4 DEF Visit, AskedInVain
<1>5. CASE End \/ NoSiteLeft \/ Killed
  BY <1>5, NobodyAsked DEF End, NoSiteLeft, Killed
<1>6. CASE AlreadyThere \/ Fetch \/ RemoveClone
  BY <1>6, NobodyAsked DEF AlreadyThere, Fetch, RemoveClone
<1>7. CASE SkipSite
  <2>1. InRecipe /\ at.site <= Len(Sites) /\ at.stage = "try"
    BY <1>7 DEF SkipSite, Trying
  <2>2. asked # {} /\ mode = "DOWNLOAD" => file[Target] = "none"
    BY <2>1, TargetIsNamed DEF AskedInVain
  <2> QED BY <1>7, <1>2, <2>1, <2>2 DEF SkipSite, disk
<1>8. CASE Check
  <2>1. InRecipe /\ at.site <= Len(Sites) /\ mode = "SOURCE_CHECK" /\ mode' = mode
    BY <1>8 DEF Check, AtSite, Trying
  <2> QED BY <1>8, <1>2, <2>1, NobodyAsked DEF Check
<1>9. CASE Refused
  BY <1>9, <1>2 DEF Refused, AtSite, Trying, Missing, disk
<1>10. CASE CloneRepo
  <2>1. file[Target] = "none" /\ InRecipe /\ at.site <= Len(Sites) /\ UNCHANGED <<mode, file>>
    BY <1>10 DEF CloneRepo, AtSite, Trying, Missing
  <2>2. at'.pkg = at.pkg /\ at'.arg = at.arg
    BY <1>10, <1>1 DEF CloneRepo, Positions
  <2>3. file'[NameOf(at'.pkg, at'.arg)] = "none"
    BY <2>1, <2>2, TargetIsNamed DEF NameOf
  <2> QED BY <2>1, <2>2, <2>3 DEF AskedInVain, InRecipe
<1>11. CASE ArchiveClone \/ BreaksInPipe
  <2>1. at' = [at EXCEPT !.stage = "remove"] /\ InRecipe
    BY <1>11 DEF ArchiveClone, BreaksInPipe
  <2>2. at'.pkg = at.pkg /\ at'.stage = "remove"
    BY <1>1, <2>1 DEF Positions
  <2> QED BY <2>1, <2>2 DEF AskedInVain, InRecipe
<1>12. CASE Breaks
  <2>1. NextSite /\ mode' = mode
    BY <1>12 DEF Breaks
  <2>2. InRecipe /\ at.site <= Len(Sites) /\ file[Target] = "none"
    BY <1>12, TargetFacts, SitesFacts
       DEF Breaks, Fetching, AtSite, Trying, Missing, Position, InRecipe
  <2>3. file'[Target] = "none"
    <3>1. Leavings
      BY <1>12 DEF Breaks, Leavings
    <3>2. Target \in Files
      BY <2>2, TargetFacts
    <3> QED BY <2>2, <3>1, <3>2, LeavingsFacts
  <2> QED BY <1>2, <2>1, <2>2, <2>3
<1>13. ASSUME NEW p \in Pkgs, Dirclean(p) PROVE AskedInVain'
  BY <1>13 DEF Dirclean, AskedInVain, InRecipe, NameOf
<1>14. CASE UNCHANGED vars
  BY <1>14 DEF vars, AskedInVain, InRecipe, NameOf
<1> QED BY <1>3, <1>4, <1>5, <1>6, <1>7, <1>8, <1>9, <1>10, <1>11, <1>12, <1>13, <1>14
       DEF Next, Advance

\* Every site that is set is tried until one delivers: as the code's comment says
\* (Makefile.package.in:266-269), of the transfers that leave nothing behind and
\* of the files whose name is looked at.  DownloadPartial shows the others.
THEOREM SitesAreTried ==
  ASSUME CutLeaves = {"none"}, NamesAreTested
  PROVE  Spec => []NextSiteTried
<1>1. Init => AskedInVain
  BY DEF Init, AskedInVain
<1>2. DownloadInv /\ AskedInVain => NextSiteTried
  <2> SUFFICES ASSUME DownloadInv, AskedInVain, AtSite, mode = "DOWNLOAD", asked # {}
               PROVE  Missing
    BY DEF NextSiteTried
  <2>1. InRecipe /\ at.site <= Len(Sites) /\ at.stage = "try"
    BY DEF AtSite, Trying
  <2> QED BY <2>1, TargetIsNamed DEF AskedInVain, Missing
<1> QED BY <1>1, <1>2, AskedNext, DownloadInit, DownloadNext, PTL DEF Spec
=============================================================================
