------------------------------ MODULE Download ------------------------------
(***************************************************************************)
(* The .stamp_downloaded recipe and the DOWNLOAD helpers it expands to,    *)
(* package/Makefile.package.in.  One file after the other (the source, the *)
(* patch), the sites are tried in turn; a site is asked only if the file   *)
(* is not in DL_DIR, and `test -e' does not look inside it.  The version   *)
(* control methods go through a scratch clone in DL_DIR.                   *)
(***************************************************************************)
EXTENDS Naturals, Sequences, FiniteSets

CONSTANTS
  Pkgs,        \* the packages
  NoPkg,
  Files,       \* the archives and patches, by name
  NoFile,      \* the package has no such file
  Source,      \* [Pkgs -> Files]: FOO_SOURCE; variants of a package share it
  PatchFile,   \* [Pkgs -> Files \cup {NoFile}]: FOO_PATCH
  Method,      \* [Pkgs -> Methods]: FOO_SITE_METHOD
  Enabled,     \* the sites that are set: BR2_PRIMARY_SITE, FOO_SITE, BR2_BACKUP_SITE
  Serves,      \* [Enabled -> SUBSET Files]: the files each of them really has
  BadVersion,  \* the cloned packages whose version is not in their repository
  CutLeaves,   \* what a transfer that breaks off leaves of its file
  Modes,       \* what the user invokes: DL_MODE
  MaxFailures  \* bound: transfers that break off, and kills

Sites    == <<"primary", "own", "backup">>
SiteSet  == {Sites[i] : i \in 1 .. Len(Sites)}
Cloning  == {"git", "hg", "svn"}
Methods  == Cloning \cup {"bzr", "wget", "scp", "file"}
Contents == {"none", "part", "whole", "bogus"}
Args     == {"source", "patch"}

ASSUME DownloadAssumption ==
  /\ NoPkg \notin Pkgs /\ NoFile \notin Files
  /\ Source \in [Pkgs -> Files] /\ PatchFile \in [Pkgs -> Files \cup {NoFile}]
  /\ Method \in [Pkgs -> Methods]
  /\ "own" \in Enabled /\ Enabled \subseteq SiteSet
  /\ Serves \in [Enabled -> SUBSET Files]
  /\ BadVersion \subseteq Pkgs
  /\ CutLeaves \subseteq {"none", "part"} /\ CutLeaves # {}
  /\ Modes \subseteq {"DOWNLOAD", "SOURCE_CHECK"}
  /\ MaxFailures \in Nat

VARIABLES
  mode,      \* DL_MODE of the running make, or "idle"
  todo,      \* the packages it has not visited yet
  at,        \* where it is in a recipe: package, argument of DOWNLOAD, site, stage
  file,      \* [Files -> contents in DL_DIR]
  clone,     \* [Pkgs -> the scratch directory DL_DIR/foo-version]
  stamps,    \* the packages with a .stamp_downloaded
  asked,     \* history: the sites asked for the file at hand
  failures   \* counter of broken transfers and kills

vars == <<mode, todo, at, file, clone, stamps, asked, failures>>
disk == <<file, clone, stamps>>

Nowhere   == [pkg |-> NoPkg, arg |-> "source", site |-> 1, stage |-> "try"]
Positions == [pkg : Pkgs \cup {NoPkg}, arg : Args, site : 1 .. Len(Sites) + 1,
              stage : {"try", "archive", "remove"}]

TypeOK ==
  /\ mode \in {"idle", "DOWNLOAD", "SOURCE_CHECK"}
  /\ todo \subseteq Pkgs
  /\ at \in Positions
  /\ file \in [Files -> Contents]
  /\ clone \in [Pkgs -> {"none", "part", "whole"}]
  /\ stamps \subseteq Pkgs
  /\ asked \subseteq SiteSet
  /\ failures \in 0 .. MaxFailures

-----------------------------------------------------------------------------
InRecipe == at.pkg # NoPkg
NameOf(p, arg) == IF arg = "source" THEN Source[p] ELSE PatchFile[p]

\* The file an attempt tests for and creates: only DOWNLOAD_WGET and
\* DOWNLOAD_SCP look at their second argument.
Wanted(p, arg, site) ==
  IF site # "own" \/ Method[p] \in {"wget", "scp"} THEN NameOf(p, arg) ELSE Source[p]

Site == Sites[at.site]
Target == Wanted(at.pkg, at.arg, Site)
Clones == Site = "own" /\ Method[at.pkg] \in Cloning
Trying == InRecipe /\ at.stage = "try" /\ at.site <= Len(Sites)
AtSite == Trying /\ Site \in Enabled
Missing == file[Target] = "none"
Served == Target \in Serves[Site]

\* make is typed
Begin(m) ==
  /\ mode = "idle" /\ m \in Modes
  /\ mode' = m /\ todo' = Pkgs
  /\ UNCHANGED <<at, disk, asked, failures>>

\* make visits the packages in the order of TARGETS; a stamp means no recipe
Visit(p) ==
  /\ mode # "idle" /\ ~InRecipe /\ p \in todo
  /\ todo' = todo \ {p}
  /\ IF p \in stamps THEN UNCHANGED at ELSE at' = [Nowhere EXCEPT !.pkg = p]
  /\ UNCHANGED <<mode, disk, asked, failures>>

Over ==
  /\ mode' = "idle" /\ todo' = {} /\ at' = Nowhere /\ asked' = {}

End ==
  /\ mode # "idle" /\ ~InRecipe /\ todo = {}
  /\ Over
  /\ UNCHANGED <<disk, failures>>

\* `&& exit': on to the next file, or to the end of the recipe
FileDone ==
  IF at.arg = "source" /\ PatchFile[at.pkg] # NoFile
    THEN /\ at' = [at EXCEPT !.arg = "patch", !.site = 1, !.stage = "try"]
         /\ asked' = {}
         /\ UNCHANGED stamps
    ELSE /\ at' = Nowhere /\ asked' = {}
         /\ stamps' = IF mode = "DOWNLOAD" THEN stamps \cup {at.pkg} ELSE stamps

NextSiteSkipsOne ==   \* mutant: a failed site takes the next one with it
  at' = [at EXCEPT !.site = @ + 2, !.stage = "try"]
NextSite == at' = [at EXCEPT !.site = @ + 1, !.stage = "try"]

SkipSite ==
  /\ Trying /\ Site \notin Enabled
  /\ NextSite
  /\ UNCHANGED <<mode, todo, disk, asked, failures>>

NoSiteLeftGoesOn ==   \* mutant: the final `exit 1' is missing
  /\ InRecipe /\ at.site > Len(Sites)
  /\ FileDone
  /\ UNCHANGED <<mode, todo, file, clone, failures>>
\* exit 1
NoSiteLeft ==
  /\ InRecipe /\ at.site > Len(Sites)
  /\ Over
  /\ UNCHANGED <<disk, failures>>

\* SOURCE_CHECK_*: only ask whether the site has it
Check ==
  /\ AtSite /\ mode = "SOURCE_CHECK"
  /\ IF Target \in Serves[Site] THEN FileDone
     ELSE NextSite /\ UNCHANGED <<stamps, asked>>
  /\ UNCHANGED <<mode, todo, file, clone, failures>>

AlreadyThere ==
  /\ AtSite /\ mode = "DOWNLOAD" /\ ~Missing
  /\ FileDone
  /\ UNCHANGED <<mode, todo, file, clone, failures>>

\* wget, scp, cp and bzr export write the file itself.
FetchUntested ==   \* mutant: DOWNLOAD_WGET has no test -e
  /\ AtSite /\ mode = "DOWNLOAD" /\ ~Clones /\ Served
  /\ file' = [file EXCEPT ![Target] = IF Missing THEN "whole" ELSE "part"]
  /\ FileDone
  /\ UNCHANGED <<mode, todo, clone, failures>>
Fetch ==
  /\ AtSite /\ mode = "DOWNLOAD" /\ Missing /\ ~Clones /\ Served
  /\ file' = [file EXCEPT ![Target] = "whole"]
  /\ FileDone
  /\ UNCHANGED <<mode, todo, clone, failures>>

\* git clone, hg clone and svn export refuse a directory that is there; only
\* the latter two ask for the version.
CanClone ==
  /\ clone[at.pkg] = "none"
  /\ Target \in Serves[Site]
  /\ at.pkg \in BadVersion => Method[at.pkg] = "git"
CloneRepo ==
  /\ AtSite /\ mode = "DOWNLOAD" /\ Missing /\ Clones /\ CanClone
  /\ clone' = [clone EXCEPT ![at.pkg] = "whole"]
  /\ at' = [at EXCEPT !.stage = "archive"]
  /\ asked' = asked \cup {Site}
  /\ UNCHANGED <<mode, todo, file, stamps, failures>>

\* git archive | gzip: the status is gzip's, so an unknown version makes an
\* archive of nothing and goes on.
ArchiveClone ==
  /\ InRecipe /\ at.stage = "archive"
  /\ file' = [file EXCEPT ![Target] = IF at.pkg \in BadVersion THEN "bogus" ELSE "whole"]
  /\ at' = [at EXCEPT !.stage = "remove"]
  /\ UNCHANGED <<mode, todo, clone, stamps, asked, failures>>

RemoveClone ==
  /\ InRecipe /\ at.stage = "remove"
  /\ clone' = [clone EXCEPT ![at.pkg] = "none"]
  /\ FileDone
  /\ UNCHANGED <<mode, todo, file, failures>>

RefusedGivesUp ==   \* mutant: the sites are not joined by `; fi ;'
  /\ AtSite /\ mode = "DOWNLOAD" /\ Missing
  /\ ~(IF Clones THEN CanClone ELSE Served)
  /\ Over
  /\ UNCHANGED <<disk, failures>>
RefusedLeavesPart ==   \* mutant: the file is opened before the site is asked
  /\ AtSite /\ mode = "DOWNLOAD" /\ Missing
  /\ ~(IF Clones THEN CanClone ELSE Served)
  /\ NextSite
  /\ asked' = asked \cup {Site}
  /\ file' = [file EXCEPT ![Target] = "part"]
  /\ UNCHANGED <<mode, todo, clone, stamps, failures>>
\* A site that cannot deliver: it has no such file or version, or the scratch
\* directory is in the way.  `|| fi': the next one is tried.
Refused ==
  /\ AtSite /\ mode = "DOWNLOAD" /\ Missing
  /\ ~(IF Clones THEN CanClone ELSE Served)
  /\ NextSite
  /\ asked' = asked \cup {Site}
  /\ UNCHANGED <<mode, todo, disk, failures>>

\* What is left when the command at hand breaks off: a part of the file, if the
\* command is one that leaves it, or of the clone, or nothing of it.
FileCut == \E c \in CutLeaves : file' = [file EXCEPT ![Target] = c] /\ UNCHANGED <<clone, stamps>>
CloneCut == \E c \in {"none", "part"} : clone' = [clone EXCEPT ![at.pkg] = c] /\ UNCHANGED <<file, stamps>>
Fetching == AtSite /\ mode = "DOWNLOAD" /\ Missing
Leavings ==
  \/ Fetching /\ ~Clones /\ FileCut
  \/ Fetching /\ Clones /\ CanClone /\ CloneCut
  \/ InRecipe /\ at.stage = "archive" /\ FileCut
  \/ InRecipe /\ at.stage = "remove" /\ clone' = [clone EXCEPT ![at.pkg] = "part"]
       /\ UNCHANGED <<file, stamps>>
  \/ UNCHANGED disk

\* The command breaks off; make goes on with the next site.  At the archive of a
\* git clone the command that counts is gzip.
Breaks ==
  /\ failures < MaxFailures /\ failures' = failures + 1
  /\ \/ Fetching /\ ~Clones /\ Served /\ FileCut
     \/ Fetching /\ Clones /\ CanClone /\ CloneCut
     \/ InRecipe /\ at.stage = "archive" /\ FileCut
  /\ NextSite
  /\ asked' = asked \cup {Site}
  /\ UNCHANGED <<mode, todo>>

\* git archive breaks off: gzip packs what it got, and the recipe goes on.
BreaksInPipe ==
  /\ failures < MaxFailures /\ failures' = failures + 1
  /\ InRecipe /\ at.stage = "archive" /\ Method[at.pkg] = "git"
  /\ file' = [file EXCEPT ![Target] = "part"]
  /\ at' = [at EXCEPT !.stage = "remove"]
  /\ UNCHANGED <<mode, todo, clone, stamps, asked>>

\* make is killed
Killed ==
  /\ failures < MaxFailures /\ failures' = failures + 1
  /\ mode # "idle"
  /\ Leavings
  /\ Over

\* foo-dirclean
Dirclean(p) ==
  /\ mode = "idle" /\ p \in stamps
  /\ stamps' = stamps \ {p}
  /\ UNCHANGED <<mode, todo, at, file, clone, asked, failures>>

-----------------------------------------------------------------------------
Init ==
  /\ mode = "idle" /\ todo = {} /\ at = Nowhere
  /\ file = [f \in Files |-> "none"]
  /\ clone = [p \in Pkgs |-> "none"]
  /\ stamps = {} /\ asked = {}
  /\ failures = 0

Advance ==
  \/ \E p \in Pkgs : Visit(p)
  \/ End \/ SkipSite \/ NoSiteLeft \/ Check \/ AlreadyThere \/ Fetch
  \/ CloneRepo \/ ArchiveClone \/ RemoveClone \/ Refused

Next ==
  \/ \E m \in Modes : Begin(m)
  \/ Advance
  \/ Breaks \/ BreaksInPipe \/ Killed
  \/ \E p \in Pkgs : Dirclean(p)

Spec == Init /\ [][Next]_vars

\* make does not dawdle, and a user who wants the sources goes back to typing
\* make, whatever else was typed in between.
FairSpec == Spec /\ WF_vars(Advance) /\ SF_vars(Begin("DOWNLOAD"))

-----------------------------------------------------------------------------
(* Properties.                                                             *)

\* An archive that is complete is never fetched again, overwritten or cut:
\* "Next builds will not checkout/clone again, but will use the tarball
\* directly" (docs/manual/adding-packages-gentargets.txt:187-190).
NeverRefetched == [][\A f \in Files : file[f] = "whole" => file'[f] = "whole"]_vars

\* A package is stamped as downloaded only when its archive is in DL_DIR, and
\* so is its patch if the method looks at the name it is given
\* (Makefile.package.in:326-339).
StampedHasFiles ==
  \A p \in stamps :
    /\ file[Source[p]] # "none"
    /\ PatchFile[p] # NoFile /\ Method[p] \in {"wget", "scp"} => file[PatchFile[p]] # "none"

\* The packages whose archive no git archive packs: of what goes through its pipe
\* anything can be left, and is taken for the archive.
Unpiped == {p \in Pkgs : \A q \in Pkgs : Source[q] = Source[p] => Method[q] # "git"}

\* When every other command leaves a whole file or none, this is the store that
\* the package infrastructure relies on.
Archives == {p \in Unpiped : file[Source[p]] = "whole"}
Store == INSTANCE ArchiveStore WITH Pkgs <- Unpiped, dl <- Archives, stamped <- stamps \cap Unpiped
DeliversAsPromised == Store!Spec

\* Whenever transfers fail and make is killed, every complete archive gets there
\* in the end, also past a scratch clone that a killed make left in the way of all
\* later ones (Makefile.package.in:150): if a broken transfer leaves nothing and
\* a site that needs no clone serves the archive.  It is not so where a part is
\* left, which is taken for the archive from then on.
EventuallyWhole == <>[](\A p \in Unpiped : file[Source[p]] = "whole")

\* "Will try to download source from: 1) BR2_PRIMARY_SITE if enabled 2) Download
\* site 3) BR2_BACKUP_SITE if enabled" (Makefile.package.in:266-269): after one
\* site failed the next finds the file missing, and is tried.
NextSiteTried == AtSite /\ mode = "DOWNLOAD" /\ asked # {} => Missing
=============================================================================
