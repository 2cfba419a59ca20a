------------------------------ MODULE Autoconf ------------------------------
(***************************************************************************)
(* What make does about .config before it builds: when auto.conf is older  *)
(* than .config or missing, silentoldconfig brings .config up to date with *)
(* the Kconfig tree, touches one header for each symbol that has changed   *)
(* since the last time, and replaces autoconf.h, tristate.conf and         *)
(* auto.conf by three renames, auto.conf last.                             *)
(*                                                                         *)
(* The old auto.conf has two roles: its date tells make whether to run     *)
(* silentoldconfig, and its lines tell silentoldconfig what has changed.   *)
(* An object compiled against a symbol is compiled again if the header of  *)
(* the symbol is newer.  That rule is kbuild's, outside the repository; the *)
(* comment at confdata.c:926 says what kbuild expects of these files.  No  *)
(* symbol is ever m: the Buildroot tree has no modules symbol.             *)
(***************************************************************************)
EXTENDS Naturals, FiniteSets

CONSTANTS
  Syms,        \* the symbols
  Strs,        \* those of type string, int or hex; the others are y or n
  Tris,        \* those of type tristate
  Texts,       \* the values of the symbols in Strs
  None,        \* no value: SYMBOL_WRITE is not set, or there is no line
  Never,       \* not compiled yet
  NoFile,      \* the file is not there
  Configs,     \* what a .config can make of the symbols
  MaxSaves,    \* bound: edits of .config and of the tree
  MaxFailures  \* bound: kills and errors of silentoldconfig, cut make cleans

Bools == {"y", "n"}
Values == Bools \cup Texts \cup {None}
ValuesOf(s) == (IF s \in Strs THEN Texts ELSE Bools) \cup {None}

\* .config: what it makes of the symbols, and whether it agrees with the tree
Saved == [val : Configs, agrees : BOOLEAN]

ASSUME SymsAssumption ==
  /\ Strs \subseteq Syms /\ Tris \subseteq Syms \ Strs
  /\ Texts \cap Bools = {}
  /\ None \notin Bools \cup Texts /\ Never \notin Values
  /\ NoFile \notin [Syms -> Values] \cup Saved
ASSUME ConfigsAssumption ==
  Configs # {} /\ Configs \subseteq {c \in [Syms -> Values] : \A s \in Syms : c[s] \in ValuesOf(s)}
ASSUME BoundsAssumption == MaxSaves \in Nat /\ MaxFailures \in Nat

VARIABLES
  config,    \* .config: the values it gives, and whether it agrees with the tree
  newer,     \* .config is newer than auto.conf
  auto,      \* the lines of auto.conf
  header,    \* the definitions in autoconf.h
  tristate,  \* the tristate symbols that are y in tristate.conf
  touched,   \* the symbols whose header is newer than what is compiled against it
  built,     \* [Syms -> the value the symbol had when that was compiled]
  orphans,   \* history: what was compiled before auto.conf was lost
  at,        \* where silentoldconfig is
  values,    \* its values of the symbols
  spent,     \* conf_write has cleared SYMBOL_WRITE of all symbols
  todo,      \* the symbols whose header it has still to touch
  saves,     \* counter of the edits
  failures   \* counter of failures

files == <<config, newer, auto, header, tristate>>
objects == <<touched, built, orphans>>
process == <<at, values, spent, todo>>
vars == <<files, objects, process, saves, failures>>

Lines == {f \in [Syms -> Values] : \A s \in Syms : f[s] \in ValuesOf(s) \ {"n"}}
Steps == {"idle", "asks", "backs up", "replaces", "starts", "touches",
          "names tristate.conf", "names auto.conf"}

TypeOK ==
  /\ config \in Saved \cup {NoFile}
  /\ newer \in BOOLEAN
  /\ auto \in Lines \cup {NoFile} /\ header \in Lines \cup {NoFile}
  /\ tristate \subseteq Tris
  /\ touched \subseteq Syms /\ orphans \subseteq Syms
  /\ built \in [Syms -> Values \cup {Never}]
  /\ at \in Steps
  /\ values \in Configs /\ spent \in BOOLEAN /\ todo \subseteq Syms
  /\ saves \in 0 .. MaxSaves /\ failures \in 0 .. MaxFailures

-----------------------------------------------------------------------------
(* What the files say.                                                     *)

LinesWithNo(c) == c   \* mutant: "n" is written like any other value
\* conf_write_symbol without the comments: a symbol that is n has no line, and
\* no #define.
LinesOf(c) == [s \in Syms |-> IF c[s] = "n" THEN None ELSE c[s]]
TristatesOf(c) == {s \in Tris : c[s] = "y"}

\* conf_read_simple(auto.conf, S_DEF_AUTO): no lines if there is no file
OldValue(s) == IF auto = NoFile THEN None ELSE auto[s]

NeedsTouchIfWritten(s, c) ==   \* mutant: a symbol without a new value is skipped
  /\ c[s] # None
  /\ IF OldValue(s) # None THEN c[s] # OldValue(s) ELSE s \in Strs \/ c[s] # "n"
\* conf_split_config compares the old and the new value.
NeedsTouch(s, c) ==
  IF c[s] = None THEN OldValue(s) # None
  ELSE IF OldValue(s) # None THEN c[s] # OldValue(s)
  ELSE s \in Strs \/ c[s] # "n"

UpToDate == auto # NoFile /\ ~newer

-----------------------------------------------------------------------------
(* silentoldconfig.                                                        *)

Process(step) == at' = step /\ UNCHANGED <<saves, failures>>

\* make finds that auto.conf is missing or older than .config.  Without .config
\* there is nothing to make.
Make ==
  /\ at = "idle" /\ ~UpToDate /\ config # NoFile
  /\ Process(IF config.agrees THEN "starts" ELSE "asks")
  /\ values' = config.val
  /\ UNCHANGED <<files, objects, spent, todo>>

\* check_conf asks for what is new.
Ask ==
  /\ at = "asks"
  /\ Process("backs up")
  /\ \E c \in Configs : values' = c
  /\ UNCHANGED <<files, objects, spent, todo>>

\* conf_write: rename .config to .config.old, then the new file to .config
BackUp ==
  /\ at = "backs up"
  /\ Process("replaces")
  /\ config' = NoFile
  /\ UNCHANGED <<newer, auto, header, tristate, objects, values, spent, todo>>
Replace ==
  /\ at = "replaces"
  /\ Process("starts")
  /\ config' = [val |-> values, agrees |-> TRUE]
  /\ newer' = TRUE /\ spent' = TRUE
  /\ UNCHANGED <<auto, header, tristate, objects, values, todo>>

\* conf_write_autoconf: the values are calculated again, which sets the flags.
StartAutoconf ==
  /\ at = "starts"
  /\ Process("touches")
  /\ spent' = FALSE
  /\ todo' = {s \in Syms : NeedsTouch(s, values)}
  /\ UNCHANGED <<files, objects, values>>

\* The header of a symbol is opened and truncated.
Touch(s) ==
  /\ at = "touches" /\ s \in todo
  /\ todo' = todo \ {s} /\ touched' = touched \cup {s}
  /\ UNCHANGED <<files, built, orphans, at, values, spent, saves, failures>>

\* The symbols that have the flag when the three files are written
WithFlag == IF spent THEN [s \in Syms |-> None] ELSE values

NameHeaderLastFirst ==   \* mutant: auto.conf is renamed before the other two
  /\ at = "touches" /\ todo = {}
  /\ Process("names tristate.conf")
  /\ header' = LinesOf(WithFlag) /\ auto' = LinesOf(WithFlag) /\ newer' = FALSE
  /\ UNCHANGED <<config, tristate, objects, values, spent, todo>>
NameHeader ==
  /\ at = "touches" /\ todo = {}
  /\ Process("names tristate.conf")
  /\ header' = LinesOf(WithFlag)
  /\ UNCHANGED <<config, newer, auto, tristate, objects, values, spent, todo>>
NameTristate ==
  /\ at = "names tristate.conf"
  /\ Process("names auto.conf")
  /\ tristate' = TristatesOf(WithFlag)
  /\ UNCHANGED <<config, newer, auto, header, objects, values, spent, todo>>
NameAutoIfChanged ==   \* mutant: an auto.conf with the same lines is left alone
  /\ at = "names auto.conf"
  /\ Process("idle")
  /\ auto' = LinesOf(WithFlag)
  /\ newer' = (newer /\ auto' = auto)
  /\ UNCHANGED <<config, header, tristate, objects, values, spent, todo>>
\* "This must be the last step"
NameAuto ==
  /\ at = "names auto.conf"
  /\ Process("idle")
  /\ auto' = LinesOf(WithFlag)
  /\ newer' = FALSE
  /\ UNCHANGED <<config, header, tristate, objects, values, spent, todo>>

\* silentoldconfig is killed, or one of its calls fails: it exits at once, and
\* nothing is undone.
Dies ==
  /\ at # "idle" /\ failures < MaxFailures
  /\ failures' = failures + 1
  /\ at' = "idle" /\ spent' = FALSE /\ todo' = {}
  /\ UNCHANGED <<files, objects, values, saves>>

-----------------------------------------------------------------------------
(* What happens between two runs of silentoldconfig.                       *)

\* The user saves a .config with a menu or an editor.
Save ==
  /\ at = "idle" /\ saves < MaxSaves
  /\ saves' = saves + 1
  /\ config' \in Saved /\ newer' = TRUE
  /\ UNCHANGED <<auto, header, tristate, objects, process, failures>>

\* The Config.in files change.  auto.conf is made from .config alone: the rule
\* that file_write_dep writes to .config.cmd for them is included nowhere.
ChangeTree ==
  /\ at = "idle" /\ config # NoFile /\ saves < MaxSaves
  /\ saves' = saves + 1
  /\ config' = [config EXCEPT !.agrees = FALSE]
  /\ UNCHANGED <<newer, auto, header, tristate, objects, process, failures>>

\* make goes on only when auto.conf is up to date; what has been compiled
\* against a symbol is compiled again if the header of the symbol is newer.
Compile(s) ==
  /\ at = "idle" /\ UpToDate
  /\ s \in touched \/ built[s] = Never
  /\ built' = [built EXCEPT ![s] = header[s]]
  /\ touched' = touched \ {s} /\ orphans' = orphans \ {s}
  /\ UNCHANGED <<files, process, saves, failures>>

\* make clean removes BUILD_DIR with all of this; .config stays.
Clean ==
  /\ at = "idle" /\ auto # NoFile
  /\ auto' = NoFile /\ header' = NoFile /\ tristate' = {}
  /\ touched' = {} /\ orphans' = {} /\ built' = [s \in Syms |-> Never]
  /\ UNCHANGED <<config, newer, process, saves, failures>>

\* ... or is cut short when auto.conf is gone and some of what was compiled is
\* still there.
CleanStops ==
  /\ at = "idle" /\ auto # NoFile /\ failures < MaxFailures
  /\ failures' = failures + 1
  /\ auto' = NoFile
  /\ \E gone \in SUBSET Syms :
       /\ built' = [s \in Syms |-> IF s \in gone THEN Never ELSE built[s]]
       /\ touched' = touched \ gone
  /\ orphans' = {s \in Syms : built'[s] # Never}
  /\ UNCHANGED <<config, newer, header, tristate, process, saves>>

-----------------------------------------------------------------------------
Init ==
  /\ config \in Saved /\ newer = TRUE
  /\ auto = NoFile /\ header = NoFile /\ tristate = {}
  /\ touched = {} /\ built = [s \in Syms |-> Never] /\ orphans = {}
  /\ at = "idle" /\ values \in Configs /\ spent = FALSE /\ todo = {}
  /\ saves = 0 /\ failures = 0

Silentoldconfig ==
  \/ Ask \/ BackUp \/ Replace \/ StartAutoconf
  \/ \E s \in Syms : Touch(s)
  \/ NameHeader \/ NameTristate \/ NameAuto

Next ==
  \/ Make \/ Silentoldconfig \/ Dies
  \/ Save \/ ChangeTree \/ Clean \/ CleanStops
  \/ \E s \in Syms : Compile(s)

Spec == Init /\ [][Next]_vars

\* A program that runs goes on, answers are given, and make is typed again.
FairSpec == Spec /\ WF_vars(Make \/ Silentoldconfig \/ Dies)

-----------------------------------------------------------------------------
(* Properties.                                                             *)

\* "This must be the last step, kbuild has a dependency on auto.conf and this
\* marks the successful completion of the previous steps" (confdata.c:926-929):
\* whenever make finds auto.conf up to date, all three files are of the .config
\* that is there.
InStep ==
  UpToDate =>
    /\ config # NoFile
    /\ auto = LinesOf(config.val) /\ header = auto
    /\ tristate = TristatesOf(config.val)

\* A change of a symbol is never missed, however many runs that were killed,
\* values that changed and changed back, and lost files lie between: what make
\* takes to be compiled with the current value of a symbol is.  If auto.conf is
\* lost without the objects, only those are missed whose symbol is n or gone by
\* then: "If there is no old value, only 'no' (unset) is allowed as new value"
\* (confdata.c:723-724).
ChangesReachObjects ==
  UpToDate =>
    \A s \in Syms : built[s] # Never /\ s \notin touched =>
      built[s] = auto[s] \/ (s \in orphans /\ auto[s] = None)

\* Whatever was killed, make gets auto.conf up to date with a .config that is
\* there, and does not run silentoldconfig for ever.
GetsInStep == config # NoFile ~> UpToDate \/ config = NoFile

-----------------------------------------------------------------------------
(* The inductive invariant behind the safety properties.                   *)

Busy == at \in {"starts", "touches", "names tristate.conf", "names auto.conf"}

\* While silentoldconfig is running auto.conf is out of date, and what has
\* been renamed is of the values it has.
RunInv ==
  /\ at # "idle" => ~UpToDate
  /\ Busy => config # NoFile /\ config.agrees /\ config.val = values
  /\ at \in {"touches", "names tristate.conf", "names auto.conf"} => ~spent
  /\ at \in {"names tristate.conf", "names auto.conf"} => todo = {} /\ header = LinesOf(values)
  /\ at = "names auto.conf" => tristate = TristatesOf(values)

\* What is compiled with another value than the last auto.conf gives has been
\* touched, or has outlived an auto.conf.
ObjectsInv ==
  /\ \A s \in Syms : built[s] # Never /\ s \notin touched =>
       built[s] = OldValue(s) \/ (s \in orphans /\ OldValue(s) = None)
  /\ at \in {"touches", "names tristate.conf", "names auto.conf"} =>
       \A s \in Syms : LinesOf(values)[s] # OldValue(s) => s \in todo \cup touched
=============================================================================
