----------------------------- MODULE ConfProofs -----------------------------
(***************************************************************************)
(* What a program that edits .config keeps in step, for every Kconfig tree  *)
(* without a dependency loop.                                              *)
(***************************************************************************)
EXTENDS ConfSession, KconfigProofs

-----------------------------------------------------------------------------
(* Types.                                                                  *)

ChoiceValues == {s \in Syms : IsMember(s)}

\* One symbol is set, in a menu or by the answer to a question.
SetOne(s, x) == IF s \in Strs THEN SetString(s, x) ELSE SetTristate(s, x)

LEMMA SettingType ==
  ASSUME set \in Settings, NEW s \in Syms, NEW x \in ValuesOf(s)
  PROVE  Setting(s, x) \in Settings
<1> DEFINE w == Setting(s, x)
<1>1. w.has \subseteq Syms \cup Choices
  BY TreeAssumption DEF Setting, Settings, VisibleMembers, Members, IsMember
<1>2. w.val \in [Syms -> Bools \cup Texts \cup {None}]
  BY DEF Setting, Settings, ValuesOf, Bools
<1>3. w.pick \in [Choices -> Syms \cup {None}]
  BY DEF Setting, Settings
<1>4. \A t \in Syms : w.val[t] \in ValuesOf(t) \/ (t \in Strs \ w.has /\ w.val[t] = None)
  <2> TAKE t \in Syms
  <2>1. w.val[t] = IF t = s THEN x ELSE set.val[t]
    BY DEF Setting, Settings
  <2>2. t \in Strs => (t \in w.has <=> t = s \/ t \in set.has)
    BY TreeAssumption, ChoiceAssumption DEF Setting, VisibleMembers, Members, IsMember
  <2> QED BY <2>1, <2>2 DEF Settings
<1> QED BY <1>1, <1>2, <1>3, <1>4 DEF Settings, Setting

LEMMA FlagsType ==
  ASSUME NEW u \in Settings, NEW v \in Valuations, NEW P \in SUBSET Above(v)
  PROVE  [u EXCEPT !.has = @ \cup P] \in Settings
<1>1. P \cap Strs = {}
  BY TreeAssumption DEF Above, Valuations, ValuesOf, Bools
<1>2. P \subseteq Syms
  BY DEF Above
<1> QED BY <1>1, <1>2 DEF Settings

LEMMA ReadType ==
  ASSUME NEW f \in Files
  PROVE  Read(f).u \in Settings /\ Read(f).values \in Valuations /\ Read(f).changed \in BOOLEAN
  BY SimpleType, ValuesForType DEF Read, Settings

LEMMA UntouchedType == Untouched \in Settings
  BY TreeAssumption DEF Untouched, Settings, ValuesOf, Bools

LEMMA AllNewType ==
  ASSUME NEW u \in Settings, NEW mode \in Bools \cup {"default"}
  PROVE  AllNew(u, mode) \in Settings
<1>1. CASE mode = "default"
  <2>1. AllNew(u, mode) = [u EXCEPT !.has = @ \cup Choices]
    BY <1>1 DEF AllNew
  <2> QED BY <2>1, TreeAssumption DEF Settings
<1>2. CASE mode # "default"
  <2> DEFINE new == {s \in Syms \ Strs : s \notin u.has}
             w == [s \in Syms |-> IF s \in new THEN mode ELSE u.val[s]]
             h == u.has \cup new \cup Choices
  <2>1. AllNew(u, mode) = [has |-> h, val |-> w, pick |-> u.pick]
    BY <1>2 DEF AllNew, Settings
  <2>2. w \in [Syms -> Bools \cup Texts \cup {None}]
    BY <1>2 DEF Settings
  <2>3. \A s \in Syms : w[s] \in ValuesOf(s) \/ (s \in Strs \ u.has /\ w[s] = None)
    BY <1>2 DEF Settings, ValuesOf
  <2>4. h \subseteq Syms \cup Choices /\ \A s \in Strs \ u.has : s \notin h
    BY TreeAssumption DEF Settings
  <2>5. u.pick \in [Choices -> Syms \cup {None}]
    BY DEF Settings
  <2> HIDE DEF w, h, new
  <2> QED BY <2>1, <2>2, <2>3, <2>4, <2>5 DEF Settings
<1> QED BY <1>1, <1>2

LEMMA LinesType ==
  ASSUME NEW v \in Valuations, NEW W
  PROVE  Lines(v, W) \in Files
  BY DEF Valuations, Lines, Files, ValuesOf, Bools

-----------------------------------------------------------------------------
(* One symbol is set.                                                      *)

\* An answer or a menu key sets one symbol that can be seen to one of its values.
LEMMA EditSetsOne ==
  ASSUME NEW s \in Syms, Edit(s)
  PROVE  \E x \in ValuesOf(s) : SetOne(s, x)
  BY DEF Edit, SetOne, ValuesOf

\* An answer sets the symbol that is new, or, for what is new in a choice, a
\* member of it: what was asked for is flagged then.
LEMMA AnswerFlags ==
  ASSUME NEW q \in Syms \cup Choices, Ask(q)
  PROVE  \E s \in Syms : \E x \in ValuesOf(s) : SetOne(s, x) /\ q \in Setting(s, x).has
<1>1. ASSUME NEW c \in Choices, ChoiceOn(c, curr), AskChoice(c),
             q \in {c} \cup VisibleMembers(c, curr)
      PROVE  \E s \in Syms : \E x \in ValuesOf(s) : SetOne(s, x) /\ q \in Setting(s, x).has
  <2>1. \E m \in VisibleMembers(c, curr) : SetTristate(m, "y")
    BY <1>1, ChosenIsSeen DEF AskChoice
  <2>2. PICK m \in VisibleMembers(c, curr) : SetTristate(m, "y")
    BY <2>1
  <2>3. m \in Syms /\ InChoice[m] = c /\ IsMember(m) /\ m \notin Strs
    BY <1>1, TreeAssumption, ChoiceAssumption DEF VisibleMembers, Members, IsMember
  <2>4. q \in Setting(m, "y").has
    BY <1>1, <2>3 DEF Setting
  <2> QED BY <2>2, <2>3, <2>4 DEF SetOne, ValuesOf, Bools
<1>2. CASE q \in Choices
  BY <1>1, <1>2, TreeAssumption DEF Ask, New
<1>3. CASE q \in Syms /\ IsMember(q)
  <2>1. InChoice[q] \in Choices /\ q \in VisibleMembers(InChoice[q], curr)
    BY <1>3, TreeAssumption DEF IsMember, Members, Ask, New, Changeable, VisibleMembers
  <2>2. AskChoice(InChoice[q])
    BY <1>3, TreeAssumption DEF Ask
  <2> QED BY <1>1, <2>1, <2>2 DEF ChoiceOn
<1>4. CASE q \in Syms /\ ~IsMember(q)
  <2>1. PICK x \in ValuesOf(q) : SetOne(q, x)
    BY <1>4, TreeAssumption, EditSetsOne DEF Ask
  <2> QED BY <1>4, <2>1 DEF Setting
<1> QED BY <1>2, <1>3, <1>4

\* Setting a symbol either only flags it, or calculates everything again.
LEMMA SetOneSteps ==
  ASSUME NEW s \in Syms, NEW x \in ValuesOf(s), SetOne(s, x)
  PROVE  \/ /\ FlagOnly(Setting(s, x))
            /\ Visible(s, curr)
            /\ IF s \in Strs THEN set.val[s] = x ELSE x = curr[s]
         \/ Recalculate(Setting(s, x))
  BY DEF SetOne, SetTristate, SetString, Changeable

\* The next invariant in parts.
Typed ==
  /\ set \in Settings /\ curr \in Valuations
  /\ stale \subseteq ChoiceValues
  /\ spent \in BOOLEAN /\ changed \in BOOLEAN

LEMMA RecalculateType ==
  ASSUME NEW u \in Settings, stale \subseteq ChoiceValues, Recalculate(u)
  PROVE  Typed' /\ changed' /\ ~spent' /\ \E P \in SUBSET Above(curr') : set' = [u EXCEPT !.has = @ \cup P]
<1>1. curr' = ValuesFor(u) /\ curr' \in Valuations
  BY ValuesForType DEF Recalculate
<1>2. PICK P \in SUBSET Above(curr') : set' = [u EXCEPT !.has = @ \cup P]
  BY DEF Recalculate, Flagged
<1>3. set' \in Settings
  BY <1>1, <1>2, FlagsType
<1>4. stale' \subseteq ChoiceValues
  BY DEF Recalculate, Shown, SeenMembers, ChoiceValues
<1> QED BY <1>1, <1>2, <1>3, <1>4 DEF Recalculate, Typed

\* conf_read, and what is shown after it
LEMMA LoadedType ==
  ASSUME NEW f \in Files, NEW flagged \in SUBSET ChoiceValues, Loaded(f, flagged),
         changed' \in BOOLEAN
  PROVE  Typed' /\ ~spent'
<1>1. /\ curr' = Read(f).values /\ curr' \in Valuations
      /\ Read(f).u \in Settings
  BY ReadType DEF Loaded
<1>2. PICK P \in SUBSET Above(curr') : set' = [Read(f).u EXCEPT !.has = @ \cup P]
  BY DEF Loaded, Flagged
<1>3. set' \in Settings
  BY <1>1, <1>2, FlagsType
<1>4. stale' \subseteq ChoiceValues
  BY DEF Loaded, SeenMembers, ChoiceValues
<1> QED BY <1>1, <1>3, <1>4 DEF Loaded, Typed

LEMMA SetOneType ==
  ASSUME Typed, NEW s \in Syms, NEW x \in ValuesOf(s), SetOne(s, x)
  PROVE  Typed'
<1>1. Setting(s, x) \in Settings
  BY SettingType DEF Typed
<1>2. CASE FlagOnly(Setting(s, x))
  BY <1>1, <1>2 DEF FlagOnly, Typed
<1>3. CASE Recalculate(Setting(s, x))
  BY <1>1, <1>3, RecalculateType DEF Typed
<1> QED BY <1>2, <1>3, SetOneSteps

-----------------------------------------------------------------------------
\* The settings, the values, what is written, and .config keep their types, for
\* every Kconfig tree (symbol.c, confdata.c).
TypeInv == TypeOK /\ Typed

LEMMA ExitType ==
  ASSUME Exit
  PROVE  Typed' /\ proc' = "none" /\ renamed' = FALSE
  BY UntouchedType, ValuesForType DEF Exit, Typed

LEMMA WrittenFileType ==
  ASSUME Typed
  PROVE  WrittenFile \in Files
  BY LinesType, ValuesForType DEF Typed, WrittenFile

LEMMA TypeInit == Init => TypeInv
  BY SessionAssumption, UntouchedType, ValuesForType DEF Init, TypeInv, TypeOK, Typed

LEMMA TypeNext == TypeInv /\ [Next]_vars => TypeInv'
<1> SUFFICES ASSUME TypeInv, [Next]_vars PROVE TypeInv'
  OBVIOUS
<1>1. ASSUME Typed', proc' \in {"none", "menu", "conf"}, file' \in Files \cup {NoFile},
             renamed' \in BOOLEAN
      PROVE  TypeInv'
  BY <1>1 DEF TypeInv, TypeOK, Typed, ChoiceValues
<1>2. ASSUME NEW p \in {"menu", "conf"}, Start(p) PROVE TypeInv'
  <2>1. CASE file = NoFile /\ Recalculate(Untouched)
    <3>1. Typed'
      BY <2>1, UntouchedType, RecalculateType DEF TypeInv, Typed
    <3> QED BY <1>1, <1>2, <3>1 DEF Start, TypeInv, TypeOK
  <2>2. CASE file # NoFile /\ Loaded(file, {}) /\ changed' = Read(file).changed
    <3>1. file \in Files
      BY <2>2 DEF TypeInv, TypeOK
    <3>2. Typed'
      BY <2>2, <3>1, ReadType, LoadedType
    <3> QED BY <1>1, <1>2, <3>2 DEF Start, TypeInv, TypeOK
  <2> QED BY <1>2, <2>1, <2>2 DEF Start
<1>3. ASSUME NEW s \in Syms, MenuEdit(s) PROVE TypeInv'
  <2>1. PICK x \in ValuesOf(s) : SetOne(s, x)
    BY <1>3, EditSetsOne DEF MenuEdit
  <2> QED BY <1>1, <1>3, <2>1, SetOneType DEF MenuEdit, TypeInv, TypeOK
<1>4. ASSUME NEW q \in Syms \cup Choices, Ask(q) PROVE TypeInv'
  <2>1. PICK s \in Syms : \E x \in ValuesOf(s) : SetOne(s, x)
    BY <1>4, AnswerFlags
  <2>2. PICK x \in ValuesOf(s) : SetOne(s, x)
    BY <2>1
  <2>3. Typed'
    BY <2>2, SetOneType DEF TypeInv
  <2> QED BY <1>1, <1>4, <2>3 DEF Ask, TypeInv, TypeOK
<1>5. CASE Save \/ SaveAs
  <2>1. WriteAll /\ changed' = FALSE /\ renamed' \in BOOLEAN /\ file' \in {file, WrittenFile}
    BY <1>5 DEF Save, SaveAs
  <2>2. Typed' /\ proc' = proc
    BY <2>1, ValuesForType DEF WriteAll, TypeInv, Typed, ChoiceValues
  <2>3. WrittenFile \in Files
    BY WrittenFileType DEF TypeInv
  <2> QED BY <1>1, <2>1, <2>2, <2>3 DEF TypeInv, TypeOK
<1>6. CASE Load
  <2>1. PICK f \in Files : Loaded(f, stale)
    BY <1>6, SessionAssumption DEF Load, TypeInv, TypeOK
  <2>2. /\ changed' = TRUE /\ renamed' \in BOOLEAN
        /\ UNCHANGED <<proc, file>>
    BY <1>6 DEF Load
  <2>3. Typed'
    BY <2>1, <2>2, LoadedType DEF TypeInv, Typed
  <2> QED BY <1>1, <2>2, <2>3 DEF TypeInv, TypeOK
<1>7. CASE Killed
  BY <1>1, <1>7, ExitType DEF Killed, TypeInv, TypeOK
<1>8. CASE ConfDone
  BY <1>1, <1>8, ExitType, WrittenFileType DEF ConfDone, TypeInv, TypeOK
<1>9. CASE Quit
  BY <1>1, <1>9, ExitType DEF Quit, TypeInv, TypeOK
<1>10. CASE Distil
  <2>1. file \in Files
    BY <1>10 DEF Distil, TypeInv, TypeOK
  <2>2. Read(Minimal(file)).u \in Settings
    BY <2>1, MinimalHasValues, ReadType
  <2>3. AllNew(Read(Minimal(file)).u, "default") \in Settings
    BY <2>2, AllNewType
  <2>4. file' \in Files
    BY <1>10, <2>3, LinesType, ValuesForType DEF Distil, Fresh
  <2>5. Typed' /\ proc' = proc /\ renamed' = renamed
    BY <1>10 DEF Distil, mem, TypeInv, Typed
  <2> QED BY <1>1, <2>4, <2>5 DEF TypeInv, TypeOK
<1>11. ASSUME NEW x \in Bools, AllConfig(x) PROVE TypeInv'
  <2>1. AllNew(Untouched, x) \in Settings
    BY UntouchedType, AllNewType
  <2>2. file' \in Files
    BY <1>11, <2>1, LinesType, ValuesForType DEF AllConfig, Fresh
  <2>3. Typed' /\ proc' = proc /\ renamed' = renamed
    BY <1>11 DEF AllConfig, mem, TypeInv, Typed
  <2> QED BY <1>1, <2>2, <2>3 DEF TypeInv, TypeOK
<1>12. CASE UNCHANGED vars
  BY <1>12 DEF vars, TypeInv, TypeOK, Typed
<1> QED
  BY <1>2, <1>3, <1>4, <1>5, <1>7, <1>8, <1>9, <1>10, <1>11, <1>12, <1>6 DEF Next

\* Every value that is set, calculated or written is a value of its symbol.
THEOREM TypeCorrect == Spec => []TypeOK
<1>1. TypeInv => TypeOK
  BY DEF TypeInv
<1> QED BY <1>1, TypeInit, TypeNext, PTL DEF Spec

-----------------------------------------------------------------------------
(* The cache, the change counter and .config.                              *)

\* A text has a default only where it can be seen.  Without it conf_read leaves
\* the old text in a symbol that it no longer takes to be set, and typing that
\* text again is taken for no change (UserValueIsUsed is violated).
TextsAreAsked ==
  \A u \in Settings : \A s \in Strs :
    HasDefault(s, ValuesFor(u)) => Visible(s, ValuesFor(u))

NoLeftover(u) == \A s \in Strs \ u.has : u.val[s] = None

InStep ==
  /\ curr = ValuesFor(set)
  /\ NoLeftover(set)
  /\ ~changed /\ ~renamed /\ file # NoFile => Read(file).values = curr
  /\ proc = "conf" => ~renamed
  /\ proc = "conf" /\ ~changed => file # NoFile /\ Written(curr) \subseteq InFile(file)

SessionInv ==
  /\ TypeInv
  /\ spent => ~changed
  /\ proc # "none" => InStep

\* The menus flag hidden symbols only, whose values do not depend on it.
LEMMA FlagsKeepValues ==
  ASSUME NEW u \in Settings, NEW P \in SUBSET Above(ValuesFor(u)), NoLeftover(u)
  PROVE  /\ ValuesFor([u EXCEPT !.has = @ \cup P]) = ValuesFor(u)
         /\ NoLeftover([u EXCEPT !.has = @ \cup P])
<1> DEFINE v == ValuesFor(u)
           w == [u EXCEPT !.has = @ \cup P]
<1>1. w.val = u.val /\ w.pick = u.pick /\ w.has = u.has \cup P
  BY DEF Settings
<1>2. \A s \in Syms : ~IsMember(s) /\ Changeable(s, v) =>
        v[s] = IF s \in w.has THEN w.val[s] ELSE DefaultOf(s, v)
  BY <1>1, ValuesForSolves DEF Changeable, CalcValue, Above
<1>3. \A c \in Choices : Chosen(c, w, v) = Chosen(c, u, v)
  BY <1>1 DEF Chosen
<1>4. NoLeftover(w)
  BY <1>1 DEF NoLeftover
<1> HIDE DEF w
<1>5. ValuesFor(w) = v
  BY <1>2, <1>3, SameValues
<1> QED BY <1>4, <1>5 DEF w

\* Setting a symbol to the value it has needs no calculation.
LEMMA FlagOnlyKeepsValues ==
  ASSUME set \in Settings, curr = ValuesFor(set), NoLeftover(set),
         NEW s \in Syms, NEW x \in ValuesOf(s), Visible(s, curr),
         IF s \in Strs THEN set.val[s] = x ELSE x = curr[s]
  PROVE  ValuesFor(Setting(s, x)) = curr
<1> DEFINE v == ValuesFor(set)
           w == Setting(s, x)
           c == InChoice[s]
<1>1. \A t \in Syms : w.val[t] = IF t = s THEN x ELSE set.val[t]
  BY DEF Setting, Settings
<1>2. \A t \in Syms : ~IsMember(t) => (t \in w.has <=> t = s \/ t \in set.has)
  BY TreeAssumption DEF Setting, VisibleMembers, Members, IsMember
<1>3. ASSUME NEW t \in Syms, ~IsMember(t), Changeable(t, v)
      PROVE  v[t] = IF t \in w.has THEN w.val[t] ELSE DefaultOf(t, v)
  <2>1. v[t] = IF t \in set.has THEN set.val[t] ELSE DefaultOf(t, v)
    BY <1>3, ValuesForSolves DEF Changeable, CalcValue
  <2>2. CASE t # s
    BY <1>1, <1>2, <1>3, <2>1, <2>2
  <2>3. CASE t = s /\ s \notin Strs
    BY <1>1, <1>2, <1>3, <2>3
  <2>4. CASE t = s /\ s \in Strs
    <3>1. s \in set.has
      BY <2>4, TreeAssumption DEF NoLeftover, ValuesOf
    <3> QED BY <1>1, <1>2, <1>3, <2>1, <2>4, <3>1
  <2> QED BY <2>2, <2>3, <2>4
<1>4. ASSUME NEW d \in Choices, ChoiceOn(d, v)
      PROVE  Chosen(d, w, v) = Chosen(d, set, v)
  <2>1. CASE w.pick[d] = set.pick[d]
    BY <2>1 DEF Chosen
  <2>2. CASE w.pick[d] # set.pick[d]
    <3>1. IsMember(s) /\ x = "y" /\ d = c /\ w.pick[d] = s
      BY <2>2 DEF Setting, Settings
    <3>2. s \in VisibleMembers(d, v)
      BY <3>1 DEF VisibleMembers, Members
    <3>3. v[s] = "y"
      BY <3>1, ChoiceAssumption DEF IsMember
    <3>4. Chosen(d, set, v) = s
      BY <3>1, <3>3, OneIsChosen
    <3> QED BY <3>1, <3>2, <3>4 DEF Chosen
  <2> QED BY <2>1, <2>2
<1> HIDE DEF w
<1>5. ValuesFor(w) = v
  BY <1>3, <1>4, SameValues
<1> QED BY <1>5 DEF w

LEMMA SettingNoLeftover ==
  ASSUME set \in Settings, NoLeftover(set), NEW s \in Syms, NEW x \in ValuesOf(s)
  PROVE  NoLeftover(Setting(s, x))
  BY DEF Setting, Settings, NoLeftover

\* Everything is calculated again, and the menus are shown.
LEMMA RecalculatedInStep ==
  ASSUME NEW u \in Settings, NoLeftover(u), Recalculate(u)
  PROVE  curr' = ValuesFor(set') /\ NoLeftover(set')
<1>1. PICK P \in SUBSET Above(curr') : set' = [u EXCEPT !.has = @ \cup P]
  BY DEF Recalculate, Flagged
<1>2. curr' = ValuesFor(u)
  BY DEF Recalculate
<1> QED BY <1>1, <1>2, FlagsKeepValues

LEMMA SetOneInStep ==
  ASSUME TypeInv, InStep, NEW s \in Syms, NEW x \in ValuesOf(s), SetOne(s, x),
         UNCHANGED <<proc, renamed, file>>
  PROVE  InStep' /\ (spent' => ~changed' \/ UNCHANGED <<spent, changed>>)
<1> DEFINE u == Setting(s, x)
<1>1. u \in Settings /\ NoLeftover(u)
  BY SettingType, SettingNoLeftover DEF TypeInv, Typed, InStep
<1>2. CASE FlagOnly(u) /\ Visible(s, curr) /\ IF s \in Strs THEN set.val[s] = x ELSE x = curr[s]
  <2>1. ValuesFor(u) = curr
    BY <1>2, FlagOnlyKeepsValues DEF TypeInv, Typed, InStep
  <2> QED BY <1>1, <1>2, <2>1 DEF FlagOnly, InStep
<1>3. CASE Recalculate(u)
  <2>1. changed' /\ ~spent'
    BY <1>3 DEF Recalculate
  <2>2. curr' = ValuesFor(set') /\ NoLeftover(set')
    BY <1>1, <1>3, RecalculatedInStep
  <2> QED BY <2>1, <2>2 DEF InStep
<1> QED BY <1>2, <1>3, SetOneSteps

\* conf_read leaves no text behind a flag that it takes away.
LEMMA ReadNoLeftover ==
  ASSUME TextsAreAsked, NEW f \in Files
  PROVE  NoLeftover(Read(f).u)
<1> DEFINE v == ValuesFor(Simple(f))
           w == Read(f).u
<1> SUFFICES ASSUME NEW s \in Strs, s \notin w.has PROVE w.val[s] = None
  BY DEF NoLeftover
<1>1. s \in Syms /\ w.val[s] = f[s]
  BY TreeAssumption DEF Read, Simple
<1>2. CASE s \notin InFile(f)
  BY <1>1, <1>2 DEF InFile
<1>3. CASE s \in InFile(f)
  <2>1. Unsaved(f, v, Written(v)) = {} /\ s \in Hidden(v)
    BY <1>1, <1>3, TreeAssumption DEF Read, Simple
  <2>2. s \in Written(v)
    BY <1>1, <1>3, <2>1 DEF Unsaved
  <2>3. ~Visible(s, v)
    BY <1>1, <2>1, TreeAssumption DEF Hidden
  <2>4. ~Selected(s, v)
    BY ChoiceAssumption DEF Selected, Holds
  <2>5. HasDefault(s, v)
    BY <2>2, <2>3, <2>4 DEF Written, Writes
  <2> QED BY <2>3, <2>5, SimpleType DEF TextsAreAsked
<1> QED BY <1>2, <1>3

\* A file has been read, and the menus are shown.
LEMMA LoadedInStep ==
  ASSUME TextsAreAsked, NEW f \in Files, NEW flagged, Loaded(f, flagged)
  PROVE  curr' = Read(f).values /\ curr' = ValuesFor(set') /\ NoLeftover(set') /\ ~spent'
<1> DEFINE u == Read(f).u
<1>1. u \in Settings /\ NoLeftover(u) /\ ValuesFor(u) = Read(f).values
  BY ReadType, ReadNoLeftover, ReadKeepsValues
<1>2. PICK P \in SUBSET Above(curr') : set' = [u EXCEPT !.has = @ \cup P]
  BY DEF Loaded, Flagged
<1>3. curr' = Read(f).values /\ ~spent'
  BY DEF Loaded
<1> HIDE DEF u
<1> QED BY <1>1, <1>2, <1>3, FlagsKeepValues

\* What conf_write writes, whether or not it calculates everything again.
LEMMA WrittenFileHasValues ==
  ASSUME SessionInv, InStep
  PROVE  /\ ToWrite = Written(curr) \cup stale /\ FullSet(curr, ToWrite)
         /\ WrittenFile = Lines(curr, ToWrite)
         /\ WrittenFile \in Files /\ Read(WrittenFile).values = curr
<1>1. ToWrite = Written(curr) \cup stale /\ WrittenFile = Lines(curr, ToWrite)
  BY DEF SessionInv, InStep, ToWrite, WrittenFile
<1>2. FullSet(curr, ToWrite)
  BY <1>1 DEF FullSet, Written, SessionInv, TypeInv, Typed, ChoiceValues
<1>3. curr = ValuesFor(set) /\ set \in Settings
  BY DEF SessionInv, InStep, TypeInv, Typed
<1>4. Lines(curr, ToWrite) \in Files /\ ValuesFor(Simple(Lines(curr, ToWrite))) = curr
  BY <1>2, <1>3, LinesAreRead
<1> QED BY <1>1, <1>2, <1>4 DEF Read

LEMMA SessionInit == Init => SessionInv
  BY TypeInit DEF Init, SessionInv

LEMMA SessionNext ==
  ASSUME TextsAreAsked
  PROVE  SessionInv /\ [Next]_vars => SessionInv'
<1> SUFFICES ASSUME SessionInv, [Next]_vars PROVE SessionInv'
  OBVIOUS
<1>1. TypeInv' /\ TypeInv
  BY TypeNext DEF SessionInv
<1>2. ASSUME NEW p \in {"menu", "conf"}, Start(p) PROVE SessionInv'
  <2>1. CASE file = NoFile /\ Recalculate(Untouched)
    <3>1. NoLeftover(Untouched)
      BY TreeAssumption DEF NoLeftover, Untouched
    <3>2. curr' = ValuesFor(set') /\ NoLeftover(set')
      BY <2>1, <3>1, UntouchedType, RecalculatedInStep
    <3>3. ~renamed'
      BY <1>2 DEF Start
    <3> QED BY <1>1, <2>1, <3>2, <3>3 DEF Recalculate, SessionInv, InStep
  <2>2. CASE file # NoFile /\ Loaded(file, {}) /\ changed' = Read(file).changed
    <3>1. file \in Files /\ file' = file /\ ~renamed'
      BY <1>1, <1>2, <2>2 DEF TypeInv, TypeOK, Start
    <3> DEFINE r == Read(file)
    <3>2. curr' = r.values /\ curr' = ValuesFor(set') /\ NoLeftover(set') /\ ~spent'
      BY <2>2, <3>1, LoadedInStep
    <3>3. ~r.changed => Written(r.values) \subseteq InFile(file)
      BY DEF Read, Unsaved, Written, InFile
    <3> HIDE DEF r
    <3>4. Read(file').values = r.values
      BY <3>1 DEF r
    <3>5. changed' = r.changed
      BY <2>2 DEF r
    <3> QED BY <1>1, <2>2, <3>1, <3>2, <3>3, <3>4, <3>5 DEF SessionInv, InStep
  <2> QED BY <1>2, <2>1, <2>2 DEF Start
<1>3. ASSUME NEW s \in Syms, MenuEdit(s) PROVE SessionInv'
  <2>1. PICK x \in ValuesOf(s) : SetOne(s, x)
    BY <1>3, EditSetsOne DEF MenuEdit
  <2> QED BY <1>1, <1>3, <2>1, SetOneInStep DEF MenuEdit, SessionInv
<1>4. ASSUME NEW q \in Syms \cup Choices, Ask(q) PROVE SessionInv'
  <2>1. PICK s \in Syms : \E x \in ValuesOf(s) : SetOne(s, x)
    BY <1>4, AnswerFlags
  <2>2. PICK x \in ValuesOf(s) : SetOne(s, x)
    BY <2>1
  <2> QED BY <1>1, <1>4, <2>2, SetOneInStep DEF Ask, SessionInv
<1>5. CASE Save \/ SaveAs
  <2>1. InStep /\ proc' = "menu" /\ set' = set /\ ~changed'
    BY <1>5 DEF Save, SaveAs, WriteAll, SessionInv
  <2>2. curr' = curr /\ (renamed' \/ file' = WrittenFile)
    BY <1>5, <2>1 DEF Save, SaveAs, WriteAll, InStep
  <2>3. file' = WrittenFile => Read(file').values = curr
    BY <2>1, WrittenFileHasValues
  <2> QED BY <1>1, <2>1, <2>2, <2>3 DEF SessionInv, InStep
<1>6. CASE Load
  <2>1. PICK f \in Files : Loaded(f, stale)
    BY <1>1, <1>6, SessionAssumption DEF Load, TypeInv, TypeOK
  <2>2. changed' /\ proc' = "menu" /\ ~spent'
    BY <1>6, <2>1 DEF Load, Loaded
  <2>3. curr' = ValuesFor(set') /\ NoLeftover(set')
    BY <2>1, LoadedInStep
  <2> QED BY <1>1, <2>2, <2>3 DEF SessionInv, InStep
<1>7. CASE Killed
  BY <1>1, <1>7 DEF Killed, Exit, SessionInv
<1>8. CASE ConfDone
  BY <1>1, <1>8 DEF ConfDone, Exit, SessionInv
<1>9. CASE Quit
  BY <1>1, <1>9 DEF Quit, Exit, SessionInv
<1>10. CASE Distil
  BY <1>1, <1>10 DEF Distil, mem, SessionInv
<1>11. ASSUME NEW x \in Bools, AllConfig(x) PROVE SessionInv'
  BY <1>1, <1>11 DEF AllConfig, mem, SessionInv
<1>12. CASE UNCHANGED vars
  BY <1>1, <1>12 DEF vars, SessionInv, InStep
<1> QED
  BY <1>2, <1>3, <1>4, <1>5, <1>7, <1>8, <1>9, <1>10, <1>11, <1>12, <1>6 DEF Next

\* The cached values are always those of the settings (symbol.c:505-506,
\* confdata.c:378-400), if texts have defaults only where they are seen.
THEOREM CacheStaysFresh ==
  ASSUME TextsAreAsked
  PROVE  Spec => []CacheIsFresh
<1>1. SessionInv => CacheIsFresh
  BY DEF SessionInv, InStep, CacheIsFresh
<1>2. SessionInv /\ [Next]_vars => SessionInv'
  BY SessionNext
<1> QED BY <1>1, <1>2, SessionInit, PTL DEF Spec

\* When there is nothing to save, .config holds what is shown (mconf.c:828,
\* conf.c:621), under the same assumption.
THEOREM ExitLosesNothing ==
  ASSUME TextsAreAsked
  PROVE  Spec => []SavedIsCurrent
<1>1. SessionInv => SavedIsCurrent
  BY DEF SessionInv, InStep, SavedIsCurrent
<1>2. SessionInv /\ [Next]_vars => SessionInv'
  BY SessionNext
<1> QED BY <1>1, <1>2, SessionInit, PTL DEF Spec

\* A text that the user has set is used wherever it can be seen
\* (symbol.c:332-334), under the same assumption.
THEOREM UserTextIsUsed ==
  ASSUME TextsAreAsked
  PROVE  Spec => []UserValueIsUsed
<1>1. SessionInv => UserValueIsUsed
  <2> SUFFICES ASSUME SessionInv, proc # "none",
                      NEW s \in set.has \cap Strs, Visible(s, curr)
               PROVE  curr[s] = set.val[s]
    BY DEF UserValueIsUsed
  <2>1. s \in Syms /\ ~IsMember(s) /\ ~Selected(s, curr)
    BY TreeAssumption, ChoiceAssumption DEF IsMember, Selected, Holds
  <2>2. curr = ValuesFor(set)
    BY DEF SessionInv, InStep
  <2>3. curr[s] = CalcValue(s, set, curr)
    BY <2>1, <2>2, ValuesForSolves
  <2> QED BY <2>1, <2>3 DEF CalcValue
<1>2. SessionInv /\ [Next]_vars => SessionInv'
  BY SessionNext
<1> QED BY <1>1, <1>2, SessionInit, PTL DEF Spec

\* What conf leaves behind has nothing left to ask for (conf.c:414-441), under
\* the same assumption.
THEOREM NothingIsAskedTwice ==
  ASSUME TextsAreAsked
  PROVE  Spec => AnsweredForGood
<1> DEFINE Left(f) == LET r == Read(f) IN New(r.u, r.values) = {}
<1>1. SessionInv /\ [Next]_vars => (ConfDone => Left(file'))
  <2> SUFFICES ASSUME SessionInv, ConfDone PROVE Left(file')
    OBVIOUS
  <2>1. InStep /\ proc = "conf"
    BY DEF ConfDone, SessionInv
  <2>2. CASE file' = WrittenFile
    <3>1. file' = Lines(ValuesFor(set), ToWrite) /\ FullSet(ValuesFor(set), ToWrite) /\ set \in Settings
      BY <2>1, <2>2, WrittenFileHasValues DEF InStep, SessionInv, TypeInv, Typed
    <3> QED BY <3>1, NothingNew
  <2>3. CASE file' = file /\ ~changed
    <3>1. file # NoFile /\ Written(curr) \subseteq InFile(file) /\ Read(file).values = curr
      BY <2>1, <2>3 DEF InStep
    <3>2. file \in Files
      BY <3>1 DEF SessionInv, TypeInv, TypeOK
    <3> QED BY <2>3, <3>1, <3>2, NothingNewWhenWritten
  <2> QED BY <2>2, <2>3 DEF ConfDone
<1>2. SessionInv /\ [Next]_vars => SessionInv'
  BY SessionNext
<1> QED BY <1>1, <1>2, SessionInit, PTL DEF Spec, AnsweredForGood

\* Setting a symbol takes no flag away, and the menus only add some.
LEMMA FlagsStay ==
  ASSUME TypeInv, NEW s \in Syms, NEW x \in ValuesOf(s), SetOne(s, x)
  PROVE  set.has \subseteq Setting(s, x).has /\ Setting(s, x).has \subseteq set'.has
<1>1. set.has \subseteq Setting(s, x).has
  BY DEF Setting
<1>2. Setting(s, x) \in Settings
  BY SettingType DEF TypeInv, Typed
<1>3. CASE FlagOnly(Setting(s, x))
  BY <1>1, <1>3 DEF FlagOnly
<1>4. CASE Recalculate(Setting(s, x))
  <2>1. PICK P : set' = [Setting(s, x) EXCEPT !.has = @ \cup P]
    BY <1>4 DEF Recalculate, Flagged
  <2>2. set'.has = Setting(s, x).has \cup P
    BY <1>2, <2>1 DEF Settings
  <2> QED BY <1>1, <2>2
<1> QED BY <1>3, <1>4, SetOneSteps

\* Every answer adds to the flags of the finitely many symbols and choices, so
\* that there are no more answers than these (conf.c:607-613), for every Kconfig
\* tree.
THEOREM EveryAnswerCounts == Spec => AnswersCount
<1> DEFINE Counts == set.has \subseteq set'.has /\ set.has # set'.has
<1>1. TypeInv /\ [Next]_vars => [proc = "conf" /\ proc' = "conf" => Counts]_vars
  <2> SUFFICES ASSUME TypeInv, Next, proc = "conf", proc' = "conf" PROVE Counts
    OBVIOUS
  <2>1. PICK q \in Syms \cup Choices : Ask(q)
    BY DEF Next, Start, MenuEdit, Save, SaveAs, WriteAll, Load, Killed, ConfDone, Quit, Distil,
           AllConfig, Exit
  <2>2. q \notin set.has
    BY <2>1 DEF Ask, New
  <2>3. PICK s \in Syms : \E x \in ValuesOf(s) : SetOne(s, x) /\ q \in Setting(s, x).has
    BY <2>1, AnswerFlags
  <2>4. PICK x \in ValuesOf(s) : SetOne(s, x) /\ q \in Setting(s, x).has
    BY <2>3
  <2> QED BY <2>2, <2>4, FlagsStay
<1> QED BY <1>1, TypeInit, TypeNext, PTL DEF Spec, AnswersCount

\* A .config that was rewritten reads without a change (confdata.c:357-374).
THEOREM RewriteSettles == Spec => []OneRewriteSettles
<1>1. TypeInv => OneRewriteSettles
  BY ReadType, RewriteIsClean DEF TypeInv, TypeOK, OneRewriteSettles
<1> QED BY <1>1, TypeInit, TypeNext, PTL DEF Spec

\* make savedefconfig, and make defconfig from what it wrote, change no value
\* (confdata.c:477-480).
THEOREM DefconfigRestores == Spec => MinimalIsEnough
<1>1. TypeInv /\ [Next]_vars => (Distil => Read(file').values = Read(file).values)
  <2> SUFFICES ASSUME TypeInv, Distil PROVE Read(file').values = Read(file).values
    OBVIOUS
  <2> DEFINE m == Read(Minimal(file)).u
             u == AllNew(m, "default")
             v == ValuesFor(m)
  <2>1. file \in Files
    BY DEF Distil, TypeInv, TypeOK
  <2>2. Minimal(file) \in Files /\ v = Read(file).values
    BY <2>1, MinimalHasValues, ReadKeepsValues DEF Read
  <2>3. m \in Settings /\ u \in Settings
    BY <2>2, ReadType, AllNewType
  <2>4. u.val = m.val /\ u.pick = m.pick /\ u.has = m.has \cup Choices
    BY <2>3 DEF AllNew, Settings
  <2>5. \A s \in Syms : ~IsMember(s) /\ Changeable(s, v) =>
          v[s] = IF s \in u.has THEN u.val[s] ELSE DefaultOf(s, v)
    <3>1. \A s \in Syms : v[s] = CalcValue(s, m, v) /\ (s \in u.has <=> s \in m.has)
      BY <2>4, ValuesForSolves, TreeAssumption
    <3> HIDE DEF m, u, v
    <3> QED BY <2>4, <3>1 DEF Changeable, CalcValue
  <2>6. \A c \in Choices : Chosen(c, u, v) = Chosen(c, m, v)
    BY <2>4 DEF Chosen
  <2>7. file' = Fresh(u)
    BY DEF Distil
  <2> HIDE DEF m, u
  <2>8. ValuesFor(u) = v
    BY <2>5, <2>6, SameValues
  <2>9. Read(Fresh(u)).values = ValuesFor(u)
    BY <2>3, LinesAreRead, WrittenIsFull DEF Fresh, Read
  <2> QED BY <2>2, <2>7, <2>8, <2>9
<1> QED BY <1>1, TypeInit, TypeNext, PTL DEF Spec, MinimalIsEnough
=============================================================================
