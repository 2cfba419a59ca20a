----------------------------- MODULE ConfSession -----------------------------
(***************************************************************************)
(* The programs that edit .config: conf (oldconfig, silentoldconfig,        *)
(* savedefconfig, defconfig, all*config) and the menu interfaces (mconf,    *)
(* nconf, gconf, qconf).  A process reads .config, sets symbols through     *)
(* sym_set_tristate_value and sym_set_string_value, and writes it back.     *)
(*                                                                         *)
(* Values are cached under SYMBOL_VALID, whether there is something to save *)
(* is a counter, and the SYMBOL_WRITE flags that conf_write follows are     *)
(* used up by it; these three have to stay in step with the settings.       *)
(***************************************************************************)
EXTENDS Kconfig

CONSTANTS
  NoFile,       \* .config is not there
  FirstFiles,   \* the .config a user may start from
  OtherFiles    \* configurations kept under other names

ASSUME SessionAssumption ==
  NoFile \notin Files /\ FirstFiles \subseteq Files \cup {NoFile} /\ OtherFiles \subseteq Files

VARIABLES
  proc,     \* the running program: "none", "menu" or "conf" (oldconfig)
  set,      \* the settings
  curr,     \* the cached values
  stale,    \* choice values whose WRITE flag stays set when they are hidden
  spent,    \* conf_write has cleared the WRITE flags of what is still VALID
  changed,  \* conf_get_changed: sym_change_count is not 0
  renamed,  \* the file name of the menu (set_config_filename) is not .config
  file      \* .config

vars == <<proc, set, curr, stale, spent, changed, renamed, file>>
mem  == <<set, curr, stale, spent, changed, renamed>>

TypeOK ==
  /\ proc \in {"none", "menu", "conf"}
  /\ set \in Settings
  /\ curr \in Valuations
  /\ stale \subseteq Syms
  /\ spent \in BOOLEAN /\ changed \in BOOLEAN /\ renamed \in BOOLEAN
  /\ file \in Files \cup {NoFile}

-----------------------------------------------------------------------------
\* The interface shows some menus again: the values it shows are calculated,
\* which flags the members of the choices among them, and menu_is_visible
\* flags a hidden symbol that is y above something visible.
Shown(u, v, flagged) ==
  \E seen \in SUBSET {c \in Choices : ChoiceOn(c, v)} :
    stale' = flagged \cup {m \in SeenMembers(v) : InChoice[m] \in seen}
Above(v) ==
  {s \in Syms : ~Visible(s, v) /\ v[s] = "y" /\ \E t \in Syms : Under[t] = s /\ Visible(t, v)}
Flagged(u, v) == \E P \in SUBSET Above(v) : set' = [u EXCEPT !.has = @ \cup P]

\* sym_clear_all_valid after a change of the settings
Recalculate(u) ==
  /\ curr' = ValuesFor(u)
  /\ Flagged(u, curr')
  /\ Shown(u, curr', stale)
  /\ changed' = TRUE /\ spent' = FALSE

\* Only flags have changed: nothing is recalculated
FlagOnly(u) == set' = u /\ UNCHANGED <<curr, stale, spent, changed>>

\* What conf_read makes of a file, and what is shown after it
Loaded(f, flagged) ==
  /\ curr' = Read(f).values
  /\ Flagged(Read(f).u, curr')
  /\ stale' = flagged \cup SeenMembers(curr')
  /\ spent' = FALSE

\* conf_read(NULL)
Start(p) ==
  /\ proc = "none"
  /\ proc' = p
  /\ renamed' = FALSE
  /\ \/ /\ file = NoFile
        /\ Recalculate(Untouched)
     \/ /\ file # NoFile
        /\ Loaded(file, {})
        /\ changed' = Read(file).changed
  /\ UNCHANGED file

\* Between two programs there is no memory to look at.
Exit ==
  /\ proc' = "none"
  /\ set' = Untouched /\ curr' = ValuesFor(Untouched)
  /\ stale' = {} /\ spent' = FALSE /\ changed' = FALSE /\ renamed' = FALSE

-----------------------------------------------------------------------------
(* Setting a symbol, symbol.c.                                             *)

InRange(s, x) == Changeable(s, curr) /\ (IsMember(s) => x = "y")

SettingAlone(s, x) ==   \* mutant: the flags of the choice are left as they are
  [has  |-> set.has \cup {s},
   val  |-> [set.val EXCEPT ![s] = x],
   pick |-> IF IsMember(s) /\ x = "y" THEN [set.pick EXCEPT ![InChoice[s]] = s] ELSE set.pick]
\* A member set to y becomes the value of its choice, and nothing visible in
\* the choice is new any more.
Setting(s, x) ==
  LET c    == InChoice[s]
      more == IF IsMember(s) /\ x = "y" THEN {c} \cup VisibleMembers(c, curr) ELSE {}
  IN [has  |-> set.has \cup {s} \cup more,
      val  |-> [set.val EXCEPT ![s] = x],
      pick |-> IF more # {} THEN [set.pick EXCEPT ![c] = s] ELSE set.pick]

SetTristateSilently(s, x) ==   \* mutant: a forgotten sym_clear_all_valid
  /\ Changeable(s, curr)
  /\ (x = curr[s] \/ InRange(s, x))
  /\ FlagOnly(Setting(s, x))
SetTristateUnflagged(s, x) ==   \* mutant: DEF_USER is set only if the value changes
  /\ Changeable(s, curr)
  /\ x # curr[s] /\ InRange(s, x) /\ Recalculate(Setting(s, x))
\* sym_set_tristate_value, for what an interface offers
SetTristate(s, x) ==
  /\ Changeable(s, curr)
  /\ \/ x = curr[s] /\ FlagOnly(Setting(s, x))
     \/ x # curr[s] /\ InRange(s, x) /\ Recalculate(Setting(s, x))

SetStringOnce(s, x) ==   \* mutant: a text that was set before is only flagged
  /\ Visible(s, curr)
  /\ IF s \in set.has THEN FlagOnly(Setting(s, x)) ELSE Recalculate(Setting(s, x))
\* sym_set_string_value: a text that is there already is only flagged
SetString(s, x) ==
  /\ Visible(s, curr)
  /\ IF set.val[s] = x THEN FlagOnly(Setting(s, x)) ELSE Recalculate(Setting(s, x))

Edit(s) ==
  \/ s \notin Strs /\ \E x \in Bools : SetTristate(s, x)
  \/ s \in Strs /\ \E x \in Texts : SetString(s, x)

MenuEdit(s) ==
  /\ proc = "menu" /\ Edit(s)
  /\ UNCHANGED <<proc, renamed, file>>

\* check_conf and conf: ask for one thing that is new
AskChoice(c) ==
  IF c \in set.has THEN SetTristate(Chosen(c, set, curr), "y")
  ELSE \E m \in VisibleMembers(c, curr) : SetTristate(m, "y")
Ask(q) ==
  /\ proc = "conf" /\ q \in New(set, curr)
  /\ IF q \in Choices THEN AskChoice(q)
     ELSE IF IsMember(q) THEN AskChoice(InChoice[q])
     ELSE Edit(q)
  /\ UNCHANGED <<proc, renamed, file>>

-----------------------------------------------------------------------------
(* conf_write, confdata.c.                                                 *)

ToWriteTrusting ==   \* mutant: does not clear VALID when nothing has changed
  IF spent THEN {} ELSE Written(curr) \cup stale
\* If there was no change everything is calculated again; if there was one,
\* what is VALID is written as its flag says.
ToWrite ==
  IF changed /\ spent THEN {}
  ELSE Written(IF changed THEN curr ELSE ValuesFor(set)) \cup stale
WrittenFile == Lines(IF changed THEN curr ELSE ValuesFor(set), ToWrite)

\* conf_write has gone through the symbols: the file is complete.
WriteAll ==
  /\ proc = "menu"
  /\ curr' = IF changed THEN curr ELSE ValuesFor(set)
  /\ stale' = {} /\ spent' = TRUE
  /\ UNCHANGED <<proc, set>>

Save ==
  /\ WriteAll
  /\ file' = WrittenFile
  /\ changed' = FALSE /\ renamed' = FALSE

\* The configuration is saved under another name: there is nothing to save any
\* more, and .config is left as it is.
SaveAs ==
  /\ WriteAll
  /\ changed' = FALSE /\ renamed' = TRUE
  /\ UNCHANGED file

\* .config may have been moved to .config.old, and the last rename fails.
SaveFails ==
  /\ WriteAll
  /\ file' \in {file, NoFile}
  /\ changed' = TRUE
  /\ UNCHANGED renamed

\* The menu loads .config again, or a configuration that has another name.
Load ==
  /\ proc = "menu"
  /\ \/ file # NoFile /\ Loaded(file, stale) /\ renamed' = FALSE
     \/ \E f \in OtherFiles : Loaded(f, stale) /\ renamed' = TRUE
  /\ changed' = TRUE
  /\ UNCHANGED <<proc, file>>

\* There is no file of the name: conf_read has set the counter to 0 by then.
LoadFails ==
  /\ proc = "menu"
  /\ changed' = FALSE
  /\ UNCHANGED <<proc, set, curr, stale, spent, renamed, file>>

\* Killed, possibly between the two renames of conf_write
Killed ==
  /\ proc # "none"
  /\ file' = file \/ (file' = NoFile /\ (proc = "conf" => New(set, curr) = {}))
  /\ Exit

\* conf is through: silentoldconfig writes only if something changed
ConfDone ==
  /\ proc = "conf" /\ New(set, curr) = {}
  /\ file' = WrittenFile \/ (~changed /\ file' = file)
  /\ Exit

Quit ==
  /\ proc = "menu"
  /\ Exit
  /\ UNCHANGED file

\* make savedefconfig; make defconfig
Distil ==
  /\ proc = "none" /\ file # NoFile
  /\ file' = Fresh(AllNew(Read(Minimal(file)).u, "default"))
  /\ UNCHANGED <<proc, mem>>

\* make allnoconfig, allyesconfig
AllConfig(x) ==
  /\ proc = "none"
  /\ file' = Fresh(AllNew(Untouched, x))
  /\ UNCHANGED <<proc, mem>>

-----------------------------------------------------------------------------
Init ==
  /\ proc = "none" /\ file \in FirstFiles
  /\ set = Untouched /\ curr = ValuesFor(Untouched)
  /\ stale = {} /\ spent = FALSE /\ changed = FALSE /\ renamed = FALSE

Next ==
  \/ \E p \in {"menu", "conf"} : Start(p)
  \/ \E s \in Syms : MenuEdit(s)
  \/ \E q \in Syms \cup Choices : Ask(q)
  \/ Save \/ SaveAs \/ Load \/ Killed \/ ConfDone \/ Quit \/ Distil
  \/ \E x \in Bools : AllConfig(x)

Spec == Init /\ [][Next]_vars

\* The same where saving may fail at its last step
RenameSpec == Init /\ [][Next \/ SaveFails]_vars

\* The same where the name of a file to load may be mistyped
LoadSpec == Init /\ [][Next \/ LoadFails]_vars

\* The user answers the questions of conf, which does not wait for anything else.
FairSpec == Spec /\ WF_vars(ConfDone \/ \E q \in Syms \cup Choices : Ask(q))

-----------------------------------------------------------------------------
(* Properties.                                                             *)

\* The cached values are those of the settings, although neither setting a
\* symbol to the value it has nor the flags conf_read and the menus change
\* make them invalid (symbol.c:505-506, confdata.c:378-400).
CacheIsFresh == proc # "none" => curr = ValuesFor(set)

\* When the program says there is nothing to save, and has not saved it under
\* another name, .config holds what it shows: exiting without a question loses
\* nothing (mconf.c:828, conf.c:621).
SavedIsCurrent ==
  proc # "none" /\ ~changed /\ ~renamed /\ file # NoFile => Read(file).values = curr

\* A .config that conf rewrites is not rewritten again: reading what a process
\* wrote from it reports no change (confdata.c:357-374; Makefile:367-370 runs
\* silentoldconfig whenever .config is newer).
OneRewriteSettles ==
  proc = "none" /\ file # NoFile => ~Read(Fresh(Read(file).u)).changed

\* "Write out a minimal config. All values that has default values are skipped
\* as this is redundant" (confdata.c:477-480): defconfig restores all values.
MinimalIsEnough == [][Distil => Read(file').values = Read(file).values]_vars

\* What has been asked for is not asked for again: silentoldconfig, which make
\* runs unattended, finds nothing new in what oldconfig wrote (conf.c:414-441).
AnsweredForGood ==
  [][ConfDone => LET r == Read(file') IN New(r.u, r.values) = {}]_vars

\* The loop of conf gets nearer its end with every answer: an answer, also one
\* that changes no value, flags something that was not flagged and takes no
\* flag away, although values, and what can be seen, are calculated again in
\* between (conf.c:414-441, 607-613).
AnswersCount ==
  [][proc = "conf" /\ proc' = "conf" =>
       set.has \subseteq set'.has /\ set.has # set'.has]_vars

\* "Update until a loop caused no more changes" (conf.c:607-613): it ends.
QuestionsEnd == proc = "conf" ~> proc # "conf"

\* "if the symbol is visible use the user value if available, otherwise try the
\* default value" (symbol.c:332-334).
UserValueIsUsed ==
  proc # "none" =>
    \A s \in set.has \cap Strs : Visible(s, curr) => curr[s] = set.val[s]
=============================================================================
