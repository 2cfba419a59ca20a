# OpenRTD: specifications

OpenRTD is a build system: a fork of Buildroot (2012.02-git) that builds root
filesystems and firmware images for media players with Realtek RTD1073 chips.
A user edits `.config` with the kconfig programs; `make` reads it, downloads,
unpacks, patches, configures, builds and installs every selected package, and
packs the result into images. It is invoked again and again on the same output
directory. Invocations fail and are killed. Everything it knows about the past
is in files: stamps, archives, build directories, `.config`. The specifications
are about that: what the files say must stay true whatever happened before.

Contents: [inventory](#inventory), [modules](#modules), [runs](#runs),
[proofs](#proofs), [findings](#findings), [what is left out](#what-the-models-leave-out),
[plan](#plan).

## Inventory

| part | source | state it keeps | operations |
|---|---|---|---|
| Generic package infrastructure | `package/Makefile.package.in`, `support/scripts/apply-patches.sh` | per package: its `.stamp_*` files, the build directory, what is installed in staging, target, images and host | one recipe per step; foo-rebuild, foo-reconfigure, foo-uninstall, foo-clean, foo-dirclean |
| Top-level Makefile | `Makefile` | none but its prerequisites' order | all, source, clean, the set of targets, the rule for auto.conf |
| Source downloads | `package/Makefile.package.in:99-339` | `DL_DIR`: archives, patches, scratch clones; `.stamp_downloaded` | DOWNLOAD over three sites with seven methods; source-check; external-deps |
| Kconfig symbol engine | `support/kconfig/symbol.c`, `expr.c` | symbols: user value, cached value, flags VALID, WRITE, DEF_USER, CHANGED | sym_calc_value, sym_set_tristate_value, sym_set_string_value, sym_clear_all_valid |
| Kconfig files and programs | `support/kconfig/confdata.c`, `conf.c`, `menu.c`, `mconf.c` | `.config`, `.config.old`, the change counter | conf_read, conf_write, savedefconfig, oldconfig, silentoldconfig, defconfig, all{no,yes}config, the menus |
| Kconfig autoconf output | `confdata.c:671-936`, `conf.c:606-628` | `autoconf.h`, `tristate.conf`, `auto.conf`, one touched header per symbol | silentoldconfig: conf_write, conf_split_config, conf_write_autoconf |
| Kconfig parser and tree | `zconf.y`, `zconf.l`, `menu.c:166-425`, `expr.c` | the menu tree and its expressions, built once | parsing, menu_finalize, the rewriting of expressions |
| Kconfig interfaces | `nconf.c`, `gconf.c`, `qconf.cc`, `lxdialog/` | a cursor | drawing, input |
| Autotools and CMake packages | `package/Makefile.autotools.in`, `Makefile.cmake.in` | none of their own | default commands for the recipes |
| Root filesystem images | `fs/common.mk`, `fs/*/*.mk` | the fakeroot script, the images | one recipe per image |
| Firmware image | `fs/rtdimg/rtdimg.mk`, `support/scripts/build-install-img` | a scratch tree | unpack a player's firmware, replace parts, pack it |
| Boot and shutdown of the player | `fs/skeleton/etc/init.d/*` | `/etc/random-seed` | start and stop scripts |
| mini_fo overlay filesystem | a patch under `kernel/` | - | (a patch to the kernel) |
| Small programs | `makedevs.c`, `ext-toolchain-wrapper.c`, `mcookie.c` | none | one output from their arguments |
| Toolchain, kernel, boot loader recipes; package recipes | `toolchain/`, `linux/`, `boot/`, `package/*/*.mk` | as the infrastructure | instances of it |
| Vendored code; reports | `toolchain_mipsel/`, patches; `support/scripts/*` | - | - |

How they interact:

- `make` reads `.config` (through `auto.conf`, which silentoldconfig writes
  unattended whenever `.config` is newer, `Makefile:366-368`). If silentoldconfig
  had questions, the build would stop.
- A package's recipes read `DL_DIR`, which is shared: the host and the target
  variant of a package, and other output directories, use the same archive names.
  The infrastructure takes a `.stamp_downloaded` for a complete archive.
- A package reads what its dependencies installed, from its configure step on.
- The images read what all packages installed in target and images.

What is hard:

- **Crashes and failures between two steps.** Every recipe is a list of commands
  that may stop after any of them; the next invocation resumes from the stamps.
  The recipes that remove stamps (uninstall, clean, clean-for-rebuild, dirclean)
  are worse than those that add one: half of their work is a state no successful
  run ever has.
- **Ordering without prerequisites.** No stamp rule depends on another stamp. Only
  the order of the prerequisites of phony targets, and `.NOTPARALLEL`, put the steps
  of a package, and the packages, in order.
- **Staleness.** Stamps, `test -e` in `DL_DIR`, VALID and WRITE flags in kconfig are
  all caches of something that can change behind them.
- **Retries.** A transfer that fails at one site is repeated at the next and in the
  next invocation; oldconfig is run again on what it wrote.
- **Fixed points.** Symbol values depend on each other; oldconfig asks until no
  answer makes a new question.

What makes each part correct:

- *Packages*: stamps stay in the order of the steps and vouch for what they stand
  for; dependencies are installed first; a rebuild is of the sources as they are and
  leaves no older build installed; typing make again completes the build.
- *Downloads*: a complete archive is never touched again; a stamp means an archive;
  all sites get their turn; where a broken transfer leaves nothing behind, every
  complete archive arrives in the end.
- *Kconfig*: cached values are those of the settings; what the program says is saved
  is in the file; a file that was rewritten, or minimised, reads back the same; what
  was answered is not asked again; asking ends.
- *Autoconf*: when auto.conf is up to date the three files are of one `.config`, the
  one that is there; a change of a symbol reaches what is compiled against it.
- *Expressions*: a rewritten expression means what was written; an entry that moves
  under a symbol needs the symbol to be seen.
- *Images*: an image is made of the installed files with all devices and users, from
  the images it is built on as they are now.
- *Firmware*: a part that could not be replaced stops the script.

## Modules

| module | what it is |
|---|---|
| `Package` | the infrastructure's recipes, and make walking over their targets |
| `ArchiveStore` | abstract: what the infrastructure relies on in `DL_DIR` |
| `Download` | the download recipe with its sites, methods and scratch clones |
| `Kconfig` | operators: values of symbols, lines of a `.config`, reading one |
| `ConfSession` | the programs that edit `.config`; EXTENDS `Kconfig` |
| `Autoconf` | silentoldconfig as make runs it: `.config`, auto.conf and what depends on them |
| `ExprTests` | operators: tests of one symbol, and the rules that replace one or two of them |
| `Expr` | the rewriting of dependency expressions, and menu_finalize which uses it; EXTENDS `ExprTests` |
| `MCPackage`, `MCDownload`, `MCConf`, `MCAutoconf`, `MCExpr` | constants of the small instances |
| `PackageProofs`, `RebuildProofs`, `DownloadProofs`, `KconfigProofs`, `ConfProofs`, `AutoconfProofs`, `RewriteProofs`, `ExprProofs` | theorems |

`ArchiveStore` is what recipes that unpack an archive rely on. `Download` implements it
(`DeliversAsPromised`, where no transfer leaves a part behind and no git archive packs
the file). In `Package` the whole recipe is one action, a delivery and a stamp in one
step; nothing is left there to show about it. `Kconfig` starts from expressions
in disjunctive form; `Expr` is about how the program gets its own forms, and that they
mean what the Config.in files say. `Autoconf` takes `.config` as what `ConfSession`
saves: whole, or not there.

### Package

State. `goal`, `cleared`, `visited`, `ran` are the running make: the goal, whether
the stamp-removing prerequisite of foo-rebuild has run, the steps it holds to be up to
date, and those whose recipe it ran. They are lost when make exits. `stamps`, `dl`,
`src`, `dir` and `inst` are on disk: stamp files, archives, override sources, the build
directory (its tree, how many patches of its series it has, what it was configured and
built from) and installed files. Sources have a version, the number of the edit they
are at; what is configured, built and installed carries the version it was made of. 0
is "nothing usable": absent or incomplete.

Actions. Each recipe has two: one for the run that reaches its last command (`touch
$@`), one (`...Stops`) for a run that stops anywhere before, leaving nothing, something
unusable or all of the work, and no stamp. `Skip` is a target whose stamp exists. A
goal is all, source or clean, or one of foo-source, foo-extract, ..., foo-install-target,
foo-install, foo-rebuild, foo-reconfigure, foo-uninstall, foo-clean, foo-dirclean; a
step's name stands for the goal that ends with it.
`Clear` is foo-clean-for-rebuild and -reconfigure, `ClearStops` its list of rm commands
cut at any point. `Uninstall`, `Clean` and `Dirclean` leave no stamp of their own.
`CleanOutput` is make clean: the
installed files go first and BUILD_DIR with the stamps last, so `CleanOutputStops` can
leave stamps of files that are gone. `Killed` is make killed between two recipes. `Edit` and `RemoveStamp` are the user,
between two invocations.

The walk. `Wanted(p)` is the set of steps the goal needs of a package, `Rank` the order
of prerequisites. `AtStep(p, s)` says that make is at `s`: everything before it is
visited and it is the package's `Turn` - it is the innermost open one, or a dependency
the innermost open one is waiting for, or a root of the goal while none is open. That is
make's depth-first walk; in which order it takes the members of a list of prerequisites
(TARGETS, FOO_DEPENDENCIES) is left open, so the properties hold for every order.

### Download

State. `mode` and `todo`: DL_MODE and the packages still to visit. `at`: the position
in a recipe - package, file (source, then patch), site, and within a cloning method
the stage. `file`: each file of DL_DIR: none, part, whole, or bogus (an archive of
nothing). `clone`: the scratch directory of a package. `asked`: history, the sites
asked for the file at hand.

Actions are the branches of the shell text DOWNLOAD expands to: `SkipSite` (not
configured), `Check` (source-check), `AlreadyThere` (`test -e`), `Fetch`, `CloneRepo`,
`ArchiveClone`, `RemoveClone`, `Refused` (the site cannot deliver), `NoSiteLeft` (`exit
1`). `Breaks` is a command that fails half way, after which make goes on with the next
site; `Killed` ends make at any of these points. What a broken transfer leaves of the
file is the constant `CutLeaves`; a broken clone may always leave a part of its
directory. `BreaksInPipe` is `git archive | gzip`: the status is that of gzip, so a git
archive that breaks off is packed as far as it got, and the recipe goes on. `Unpiped` are
the packages whose archive is not made that way: of the others nothing can be promised.
`Wanted` has a detail of the code: only
wget and scp look at the name they are given, so the patch of a package with another
method is looked for under the name of its source.

### Kconfig, ConfSession

The tree is constants: which symbols there are, prompts, selects and defaults as
expressions in disjunctive form, the choice a symbol is a value of. `Settings` is what
has been set (DEF_USER flags and values). `CalcValue` is sym_calc_value, `ValuesFor` the
recursive function it defines; `Read` is conf_read with the flags it takes away again;
`Lines` and `Minimal` are conf_write and conf_write_defconfig.

State of `ConfSession`. `proc` is the running program; `set` and `curr` are settings and
cached values; `changed` is sym_change_count # 0; `spent` says that conf_write has
cleared the WRITE flags of symbols that are still VALID; `stale` are the choice values
whose WRITE flag outlives their being visible; `renamed` says that the file name of the
menu (set_config_filename) is another one; `file` is `.config`.

Actions: `Start` (conf_read), `MenuEdit` (setting a symbol in an interface), `Ask` (one
question of oldconfig and its answer), `Save`, `SaveFails` (the last rename fails),
`SaveAs` (under another name: the counter is 0 after it, `.config` is as it was), `Load`
(`.config` again, or one of `OtherFiles`; the menu counts that as a change), `LoadFails`
(no file of that name), `ConfDone`, `Quit`, `Killed`, `Distil` (savedefconfig, then
defconfig from its result), `AllConfig`. `WriteAll` is what the three ways to save have
in common, `Loaded` what all that read a file do. `SaveFails` and `LoadFails` are steps
of specifications of their own (`RenameSpec`, `LoadSpec`), since each refutes
SavedIsCurrent. Two choices stand for what the user happens to look at: `Shown` and
`Flagged` are the menus displayed again, which flags what they show.

### Autoconf

State. `config` is `.config` (its values, and whether it answers all questions of the
tree), `newer` whether it is newer than auto.conf, `auto`, `header` and `tristate` the
contents of the three files. `built` has the value of a symbol with which what depends
on it was compiled, `touched` the symbols whose header is newer than that; `orphans` is
history. `at`, `values`, `spent` and `todo` are the running silentoldconfig.

Actions. `Make` is the rule of `Makefile:367`. `Ask`, `BackUp`, `Replace`,
`StartAutoconf`, `Touch`, `NameHeader`, `NameTristate`, `NameAuto` are the steps of
silentoldconfig; `Dies` ends it between any two of them. `Save`, `ChangeTree`, `Clean`,
`CleanStops` and `Compile` happen between two of its runs. `Compile` is kbuild's rule and
not in the repository: confdata.c is kbuild's file, and its comment says what the rule is.

### ExprTests, Expr

`ExprTests` has the leaves: a symbol or its comparison with a constant, its value, what
expr_transform makes of a comparison of a bool, and what expr_join_or and expr_join_and
make of two tests of one symbol. `Expr` has the walks, which are recursive.

Expressions are records; `&&` and `||` have lists of operands, because every walk of
expr.c goes through nested nodes of one type to what lies below. The walks change
expressions in place while they run over pairs of operands: they are two nested loops,
each step of which hands on the list as it is by then. A function that calls itself does
it through a constant, so that the module can be reasoned about: `CallTransform` is what
`Transform` calls for an operand. `Expr.cfg` makes each of these constants the function
(`RunTransform` of `MCExpr`), and the proofs assume that it is. `Transform`, `EliminateDups`, `EliminateYn`, `EliminateEq`, `TransBool`, `Compare`
are the functions of these names. The state is menu_finalize on its way down: `above`
(the dependencies of the menu), `entry`, `follower` (the entry after it). `Open`,
`Follow` and `Descend` choose what the Config.in files say next; each carries, besides
what the program holds, the value of what was written for all values of the symbols.

## Runs

| run | instance | distinct states | it shows |
|---|---|---|---|
| PackageStamps | app (patched) on lib (override); all, reconfigure, clean, dirclean; 2 failures, also inside the stamp-removing recipes; 1 edit | 522,911 | TypeOK, StampsInOrder, InstallStampTrue, FromScratch, RebuildIsFresh |
| PackageRetry | app (patched) on lib and the host tool, lib on tool; all, source, foo-depends, foo-configure; .stamp_configured removed by hand; 2 failures | 115,928 | DepsInstalledFirst, RetrySucceeds, OfflineReady |
| PackageRecovery | the first two; all, clean, dirclean, make clean, all of which may stop half way; 1 failure | 282,922 | EventuallyInstalled |
| DownloadSites | four packages: two share an archive (wget, one has a patch), one is exported from svn, one cloned from git at a version that does not exist; no primary site; broken transfers leave nothing of the file, broken clones a part; also source-check; 3 failures | 282,421 | TypeOK, StampedHasFiles, NextSiteTried, NeverRefetched, DeliversAsPromised, EventuallyWhole |
| ConfSaves | six symbols: a select, a choice with conditional default and member, a conditional text; 55 first files; saved, saved under another name, loaded again | 99,439 | TypeOK, CacheIsFresh, SavedIsCurrent, OneRewriteSettles, UserValueIsUsed, MinimalIsEnough, AnsweredForGood, AnswersCount, QuestionsEnd |
| Autoconf | a tristate and a text; 2 edits of `.config` or the tree, 1 death of silentoldconfig or cut make clean | 178,992 | TypeOK, InStep, ChangesReachObjects, GetsInStep |
| Expr | two bools, a tristate, a string; a menu or a symbol with one of more than 700 dependencies, then one of seven below or after it, and two prompts | 85,867 | TypeOK, MeaningKept, ChildNeedsParent |
| PackageStaleImage, DownloadPartial, ConfRename, ConfLoad, ConfText | | | violated: see [findings](#findings) |

The properties are stated, each with the code or text it is about, at the end of
`Package`, `Download`, `ConfSession`, `Autoconf` and `Expr`.

Bounds, and why they are enough:

- *Packages.* Two make a dependency. Three, one of them below both others, make the
  case in which a package is reached twice and must not be run twice or waited for in
  vain.
- *MaxFailures.* One failure leaves a half-done state; a second, where the run is about
  safety, hits the recovery from it. What fails whatever the bound says (a patch series
  on a patched tree) is not counted, so a run cannot get stuck because the bound is used
  up.
- *MaxEdits = 1.* Two versions of the sources are what "old" and "new" need.
- *Goals.* Each run has the goals its question is about. foo-reconfigure stands for
  foo-rebuild, which removes one stamp less; foo-configure and foo-depends for the goals
  of single steps. The theorems are about all of them.
- *Files.* Two packages share an archive, one has a patch: a file found by name that
  another package fetched. The sites differ in what they serve. Transfers that leave a
  part are in DownloadPartial, which they refute; that whole archives stay whole and
  stamps have their files is proved for those too (`ArchivesAreKept`, `StampsHaveFiles`).
- *Host tools.* One level of host packages below the target packages; the proof of
  OfflineReady is for two, which is as far as the Makefile looks.
- *Kconfig tree.* The smallest that has a symbol selected and directly settable, a
  choice whose default and whose member are conditional, a text that disappears, and
  a question that appears because of the answer to another. The first files leave out,
  set or contradict each line about the choice and the text.
- *Autoconf.* A tristate has a line in all three files, a text a value that cannot be
  `n`. Two edits make a value that changes and changes back, with a death of
  silentoldconfig in between.
- *Expressions.* Two operands are joined at a time, so the upper level has all pairs of
  a dozen tests and some of their negations; the entries are a menu, a bool and a
  tristate, as only a tristate is still compared when menu_finalize looks for a parent;
  the lower level shares symbols with them in both
  orders and nests once more, which is what the rules about `(FOO || BAR) && !FOO && !BAR`
  need.

Fairness:

- `Package`: weak fairness of `Advance \/ Stop` - make is one sequential program that
  only waits for its commands, and each either gets on or fails; strong fairness of
  typing `make` and of `foo-dirclean` for each package - the liveness property is about a
  user who wants the packages, does what the manual says when one does not build, and
  goes back to it whatever else is typed in between. Failing is allowed to be the only
  thing that happens wherever it cannot go well.
- `Download` (DownloadSites): the same. Nothing is assumed about transfers but that those that break
  off, where they could have succeeded, are finitely many.
- `ConfSession`: weak fairness of the steps of conf. The user answers; nothing is
  assumed about the answer.
- `Autoconf`: weak fairness of `Make`, of the steps of silentoldconfig and of its death
  together: a program that runs gets on or ends, and make is typed again. Nothing says
  that it is not killed, but for the bound.

All runs check for deadlock, make can always be typed again, but two: `Autoconf` stops
when everything is up to date and the bounds are used up, and `Expr` when the tree has
been walked.

## Proofs

TLAPS checks these for every value of the constants that satisfies the named
assumptions in the modules. The runs above check the same formulas on small instances.

### PackageProofs

`MakeInvariant` is the inductive invariant `TypeOK /\ MakeInv`. Its four parts:

- `VisitedInOrder`: what make holds to be up to date is wanted by the goal, has its
  stamp, and came after everything of smaller rank; after "depends" all dependencies are
  complete. This is make's memory of one invocation, and the reason the walk is right.
- `OnlyBelowGoal`: a goal for one package visits only it and what is below it in the
  dependency order. A complete dependency is an installed one, except if it is the
  package of foo-uninstall, foo-clean or foo-dirclean, whose goal needs no install
  step; this part, with `AcyclicAssumption`, says that nothing visited depends on it.
- `NothingBeforeClear`: stamps are removed by foo-clean-for-rebuild before anything is
  visited.
- `InstalledWhenStamped`: an install stamp means installed files.

From it: `InstallStampsTrue` and `DependenciesFirst`, with the hypothesis that no make
clean is cut short: one that is leaves stamps of removed files (see
[findings](#findings)). `StampsKeepOrder` needs `OrderInv` as well, and two hypotheses: a
dirclean is not cut short and users remove no stamps by hand. Both are necessary: rm -Rf
may delete `.stamp_extracted` first.

`SourcesAreComplete` is about two ways through the dependencies that have to find the
same packages: make follows foo-depends, make source the variables of
`Makefile:337-357`, which list the selected target packages, their host dependencies
and the host dependencies of these. `DepsAreSelected`: what a target package depends on
is selected too, or a host package; this is what the selects of the Config.in files are
for. `HostChainsAreShort`: below the second level of host packages there is none that
was not met before. The comment in the Makefile admits that it need not be so. Then
whatever was stamped, killed or removed before, a make source that ends has every
archive make will ask for.

### RebuildProofs

`RebuildsAreFresh` has no hypothesis: what goes before foo-rebuild does not matter.
`FreshInv` says that since `Clear` the stamps it removes come back with their steps only,
and that each of these steps has handed on the sources as they are. It stays true
because nothing else touches the package: a build directory belongs to one package, and
the goal has no step that removes.

`ExtractsFromScratch` has the hypotheses of `StampsKeepOrder`. `ScratchInv` says that a
package without `.stamp_extracted` has no later stamp, so that when it is extracted none
can be skipped.

`RetriesCanSucceed`: `FoundInv` says that a stamp vouches for what the next recipe works
on: the archive, a tree, a configuration, objects. It holds because every recipe touches
its stamp last and the stamps of later steps go before what they vouch for. The
hypotheses are those under which that is true: foo-clean, foo-dirclean and make clean
are not cut short, and nobody removes `.stamp_patched`, after which the series would be
applied to a tree that has it. foo-rebuild, foo-uninstall and all other recipes may stop
anywhere.

`BuildsAreNotStale` is about the property that PackageStaleImage refutes, and shows that
foo-clean is the whole of the reason. `OneBuildInv`: every stamped install is of the
build that is stamped. It holds if foo-clean is not used or no package installs an
image or for the host (`CleanUninstalls`), if no removal of stamps is cut short (a
foo-rebuild killed between its rm commands has `.stamp_built` removed and the install
stamps left), and if nobody removes `.stamp_built` alone. The only run with this property
is the one that refutes it, where foo-clean is used on a package with an image.

### DownloadProofs

The invariant `DownloadInv` adds `Position` to the type and to `StampedHasFiles`: the
patch is reached only with the source there, a clone is archived while its archive is
missing and removed when it exists. That makes every write go to a file that is not
there, whatever was cut before: `ArchivesAreKept`. `StampsHaveFiles` is the other
conjunct. `WholeTransfersDeliver` is the refinement of `ArchiveStore`, for the archives
that no git archive packs (`Unpiped`), under the hypothesis that a broken transfer
leaves nothing (`WholeTransfers`); `DownloadPartial` shows that it is needed.
`SitesAreTried` is the property `DownloadPartial` refutes, under the same
hypothesis and one more: the method of a package with a patch is one that looks at the
name it is given (wget, scp). `AskedInVain`: after a site was asked, the file is still
not there under the name it is looked for, so the next one is asked too.

### KconfigProofs, ConfProofs

`ValuesFor` is defined by a recursion without a measure. `KconfigProofs` shows that it
has exactly one solution: `NoLoop` (what sym_check_deps refuses) says that every set of
symbols has one that reads none of the others. A largest set of symbols with a
solution of their own equations is therefore all of them, and two solutions cannot
differ first anywhere. `ValuesForSolves` and `ValuesForUnique` are then the two facts
about `ValuesFor` that all else uses. No expression of the tree is looked into.

`SameValues`: two settings that agree on what is changeable in the values of one have
the same values. So conf_read may take flags from what is hidden (`ReadKeepsValues`), a
file written from values reads as these values (`LinesAreRead`), and a minimal file does
(`MinimalHasValues`).

The inductive invariant `SessionInv` says of a running program (`InStep`): the cache is
the values of the settings; if nothing is to be saved, and nothing was saved under
another name or loaded from one, the file has every line that would be written, and its
values; the flags are spent only if nothing changed since.
`CacheStaysFresh` is its first part, `ExitLosesNothing` the second,
`NothingIsAskedTwice` follows for the file conf leaves. These three have the hypothesis
`TextsAreAsked`: a text has a default only where it can be seen. Where it has one while
hidden, sym_set_string_value leaves the cache old: that is the finding of ConfText.
`UserTextIsUsed` is the property ConfText refutes, under this hypothesis: no other
sequence of edits, saves and reloads makes a text that was set go unused.
`RewriteSettles`, `DefconfigRestores` and `EveryAnswerCounts` need no hypothesis. The
last is what makes the loop of oldconfig end: an answer flags what was asked for
(`AnswerFlags`: the symbol, or with the member of a choice all that can be seen in it)
and no step of the program takes a flag away, whatever the values become.

### AutoconfProofs

The invariant is the type with `InStep`, `RunInv` and `ObjectsInv`. `RunInv`: while
silentoldconfig runs auto.conf is out of date, from `StartAutoconf` on `.config` has the
values the process has, and what is renamed is of these values. `ObjectsInv`: what is
compiled with another value than the last auto.conf gives is touched. A header touched
by a run that died stays touched, and the next run compares with the same old auto.conf,
because auto.conf is renamed last: so both `FilesInStep` and `NoChangeIsMissed` rest on
the order of the renames, for every number of edits and deaths.

### RewriteProofs

The rules, and every function of expr.c that they are part of.

*Tests of one symbol*, for every set of symbols and all their values, m among them.
`JoinsKeepValue`: where two tests of a bool or tristate are replaced by one, the larger
or the smaller of their values stays. `AndRules` first shows that the rules of
expr_join_and exclude each other, so that their order in the code does not matter.
`JoinedListKeepsValue` puts this into the list expr_eliminate_dups1 works on in place.
`BoolTestKeepsValue` is the same of expr_transform. `ConjunctNeedsSymbol` is why an entry
may move under a symbol. It is of bools and tristates; a text that is not "n" has the
value of n all the same, and expr_depends_symbol does not look at the type (no Config.in
compares a text with n).

*Whole expressions.* `Tree(e, n)`: e is an expression of level n. A test or the negation
of a symbol has any level, a negation is one level and a list two levels above its
operands. Levels are counted this way because expr_transform turns `!(a && b)` into
`!a || !b`: the list becomes one of negations, and has the level it had. `Same(x, e)`: x
and e are y for the same values of the symbols. Each function has a lemma (`TransformIs`,
`EliminateYnIs`, `Dups1Is`, ...): what it makes of an expression of level n is one of
level n, and the same. Three arguments recur:

- by level: if a lemma is false there is a lowest level at which it is
  (`LeastExists`, `AllNumbers`), and the calls for the operands are below it;
- by loop (`NestedLoop`): what is left to do from the pair `<<i, j>>` on is smaller than
  from any pair before it, so what each step of two nested loops keeps the loops keep.
  It is stated of the list as it is by then and not as it was: operands that have become
  y or n in place are seen by the steps after them;
- by list (`FlattenIs`): what is in a list that was put together of lists.

`ExprEqIs` and `EliminateEqIs` depend on each other, one level down. What expr_eq takes
for equal is what nothing is left of once expr_eliminate_eq has cancelled its operands;
`OrderKept` says that where two expressions differ, what is left of them differs the same
way. `RefutesIs` is the rule of expr_eliminate_dups2: that two operands have no value in
common is found by transforming the negation of one and comparing.

### ExprProofs

*The rounds end.* `RoundsAreFinite`: expr_eliminate_dups goes on while a round counts a
change, and nothing in it counts down. What does is the weight of an expression
(`AtMost`): how many operands that are neither y nor n it has, through all its lists. A
walk never adds to it. `Lighter` says of one that, if there was no y or n to begin with,
it has changed nothing or has counted a change and taken an operand away: two have become
one and n, or one has become y. expr_eliminate_yn takes y and n out before the next round
(`Settled`). So each round but the first takes one away.

*The menu.* The inductive invariant `IInv` says of the menu and of each entry that has
been finished that its dependencies are an expression (`IsPart`), and have the value that
the Config.in files write down (`Meaning(x.dep) = x.means`); that an entry which follows
another follows a symbol; and ChildNeedsParent. It is inductive because the dependencies
of a menu are handed down: what a level is given is what the level above has made.
`ExprMeaningKept` and `ExprTypeCorrect` are parts of it. For `ExprChildNeedsParent`
menu_finalize has two reasons to move an entry: `DependsIs` (a conjunct that is n with the
symbol) and `InSubmenuIs` (nothing but y is left of what the symbol needs, so that what
the entry needs implies it, `NothingLeftIsImplied`).

`TransformKeepsMeaning`, `EliminateDupsKeepsMeaning` and the others state the same of
single functions, for any expression.

The hypotheses:

- `Calls`, `CallsOfIsExpr`: what a function calls is the function. `Expr.cfg` says so to
  TLC, the code by the name of what it calls. It is assumed for expressions only.
- `NoModules`: no tristate is m, as no Config.in has `option modules`. It is needed: with
  m the rule at expr.c:582 is wrong.
- `Inputs`: dependencies and prompts are NULL or expressions (`IsTree`): `&&` and `||`
  have two operands or more, none of their own type; a bare symbol is a bool, a tristate,
  y or n, and a string is compared with texts. `m` alone means `MODULES && m` and does not
  occur without modules. No number of levels, operands or symbols is assumed.

### Only model-checked

- Liveness (`EventuallyInstalled`, `EventuallyWhole`, `QuestionsEnd`, `GetsInStep`):
  fairness and ENABLED are out of the prover's reach. `RetriesCanSucceed`,
  `ArchivesAreKept` and `EveryAnswerCounts` are what is proved of the first three: what is
  to be done next can be, and what was done stays.
- That the constants of the MC modules satisfy the assumptions: TLC evaluates them.
  That those of `MCExpr` satisfy the hypotheses of `ExprProofs` can be read off them.
- That there are functions `Calls` speaks of: each call is for a lower level, a later pair
  or, by `RoundsAreFinite`, an earlier round from the end; TLC runs them.

All safety invariants and action properties of the passing runs are theorems, and so is
the refinement.

## Findings

- **PackageStaleImage.** foo-clean leaves `.stamp_images_installed` (and
  `.stamp_host_installed`): the next make rebuilds the package and keeps the old image
  although the stamps "keep track of which steps have been done and which remain".
  Nothing else does that but removals that are cut short or by hand (`BuildsAreNotStale`).
- **DownloadPartial.** A transfer that leaves a part of the file makes the `test -e` of
  the next site succeed: the site is not asked, a cut archive is stamped. Where transfers
  leave nothing, all sites are asked (`SitesAreTried`).
- **ConfRename.** When the last rename of conf_write fails and saving is tried again,
  a `.config` without any symbol is written.
- **ConfLoad.** conf_read sets the change counter to 0 before it looks for the file. A
  mistyped name at "Load an Alternate Configuration File" leaves the settings as they
  were edited and the counter at 0: on exit the menu does not ask whether to save
  (`mconf.c:829-831`), says nothing of changes that were not saved (`mconf.c:855-857`), and
  they are lost.
- **ConfText.** Typing, for a text that has become visible, the value `.config` had for
  it while it was hidden, does nothing; the default is used and saved. It takes a text
  with a default where it is hidden (`UserTextIsUsed`).

Seen while modelling, without a run of their own:

- A make clean that is killed after TARGET_DIR and before BUILD_DIR (`Makefile:621-623`
  removes them in this order) leaves the stamps of what is gone: the next make believes
  that everything is installed. With "make_clean" in `StopIn` TLC refutes
  InstallStampTrue and DepsInstalledFirst; nothing in the repository says otherwise of an
  interrupted clean, and foo-dirclean gets out of it (PackageRecovery).
- `make source` follows host dependencies for two levels: where a chain of host packages
  is longer it does not get "all sources needed for offline-build" (`Makefile:685`). The
  comment at `Makefile:349-353` admits it; it is the hypothesis `HostChainsAreShort` of
  `SourcesAreComplete`.
- A git archive that breaks off is packed as far as it got, and stamped: the status of
  `git archive | gzip` (`Makefile.package.in:152-153`) is that of gzip. Make's shell has
  no pipefail.
- After saving under another name the menu has nothing left to save, and exits without a
  word: `.config` is as it was. gconf and qconf do not count a loaded file as a change:
  loading a file under another name and leaving loses it.
- auto.conf does not depend on the Config.in files: file_write_dep writes the rule for
  them to `.config.cmd`, which no Makefile includes. After a change of the tree make goes
  on with the old auto.conf until `.config` is saved again.
- The comment at expr.c:489 says `(a!='m') && (a!='n') -> (a='m')`; the code makes it
  `a='y'`, which is right.
- The rules of expr.c about `!` are those of two values: with m as a value of tristates
  MeaningKept is refuted (`(FOO || BAR) && (!FOO && !BAR) -> n`, expr.c:582). No tree of
  the repository has modules.
- Removing `.stamp_configured` by hand repeats the configuration and nothing else, as
  `.stamp_built` stays: `docs/manual/rebuilding-packages.txt:40-46` says that the
  package is recompiled "from the configuration step". Removing `.stamp_built` does not
  install the result for the same reason.
- foo-clean runs CLEAN_CMDS before it removes `.stamp_built`. If they fail half way the
  next install step has nothing to install (`CleanStops`), until foo-dirclean.
- The cloning methods, bzr and file ignore DOWNLOAD's second argument: the patch of such
  a package is never fetched by them.
- source-check does not check packages that were downloaded before.
- A choice value that was visible once and is hidden keeps its WRITE flag and gets a "is
  not set" line. Harmless: the value it reads as is the one it has.

## What the models leave out

Package: hooks are part of the recipe they belong to. A package's own build is taken to
be right: `make` in a build directory brings its objects up to date with its sources.
The user edits and removes stamps between two invocations, not during one. A patch
series applied to a tree that has part of it is rejected. What a power failure does to
files that were written but not flushed is left out, as is a second make at the same
time. Of the top-level Makefile, target-finalize and the toolchain's own stamps are left
out.

Download: SHOW_EXTERNAL_DEPS only prints. What a broken transfer leaves of the file is a
constant (`CutLeaves`). A repository is reachable or not (`Serves`), its version there or not
(`BadVersion`). A site serves whole files. For a kill in the middle of `rm -rf` the scratch
clone stays partly.

Kconfig: there are no modules (no tree of the repository has `option modules`), so a
tristate is y or n; no ranges; no hexadecimal prefixes; optional choices do not occur.
The tree is one that menu_finalize made, its expressions in disjunctive form.
`.config` has lines about known symbols and no two about one. Loading a file and saving
under another name are those of mconf and nconf; what is written under another name is
not kept, and SavedIsCurrent is not about `.config` until it is saved or loaded again. `.config.old` appears
only as the place `.config` was moved to. Values are calculated when the interface shows
them, in the code; the model calculates all after a change and leaves open which flags a
display sets.

Autoconf: writes are whole, although conf_write_autoconf looks at no result of fprintf
or fclose; `.config` is not saved by another program while silentoldconfig runs. Two files
are older or newer, never of the same second.

Expr: the reverse dependencies of select, the types of choices and their members, `visible
if` (no Config.in of the repository has it) and the warnings; of the entries after a
symbol the first one.

### Not modelled

- *Root filesystem images.* `fs/common.mk` writes one script for each image and runs it.
  All prerequisites of an image are phony: every make makes every image again, so nothing
  is kept that could be old. What fails in the script without being noticed (it has no
  `set -e`) is in its text, and a model would restate it.
- *Firmware image.* `build-install-img` is one sequential pass over a scratch directory.
  Which of its steps stop the script when they fail can be read off each line; the steps
  are binary tools that are not in the repository.
- *Boot and shutdown.* Three scripts in the order of their names, and one file, the seed
  of urandom, about which nothing is promised.
- *Interfaces, small programs, reports*: no state, or only a cursor.
- *Autotools, CMake, toolchain, kernel, boot loaders, packages*: default commands for, or
  instances of, the infrastructure that `Package` models.
- *Vendored code, mini_fo*: other projects' code.

## Plan

What could still be added, most important first:

1. `Package` composed with `Download` in one specification, where a part of an archive
   is stamped and the extract step that fails on it has to be recovered from.
2. The kernel with an initramfs: it is built with an empty rootfs.cpio and once more after
   the real one is made (`linux/linux.mk:215-225`); with the images that are made of it.
3. Reverse dependencies and choices in `Expr`.
