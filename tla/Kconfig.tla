------------------------------ MODULE Kconfig ------------------------------
(***************************************************************************)
(* The symbol engine of support/kconfig: what value every symbol has, given *)
(* the Kconfig tree (constants) and what the user or a .config file has set *)
(* (records u), which symbols are written to .config, and what reading such *)
(* a file sets.  No symbol of the repository has `option modules', so mod   *)
(* never is a value: a tristate is y or n.                                  *)
(*                                                                         *)
(* An expression is in disjunctive form: a set of sets of tests, [sym, is]. *)
(* {{}} is always true, {} never.                                           *)
(***************************************************************************)
EXTENDS Naturals, Sequences, FiniteSets

CONSTANTS
  Syms,           \* the config symbols
  Strs,           \* those of type string, int or hex; the others are bool
  Choices,        \* the (unnamed) choice symbols
  None,
  InChoice,       \* [Syms -> Choices \cup {None}]: the choice a symbol is a value of
  Place,          \* [Syms -> Nat]: position of the symbol in the tree
  Under,          \* [Syms -> Syms \cup {None}]: the symbol whose submenu it is in
  Prompt,         \* [Syms \cup Choices -> expression]: when it can be seen
  SelectedBy,     \* [Syms -> expression]: rev_dep
  Defaults,       \* [Syms -> Seq([when, val])]: for a bool val is an expression
  ChoiceDefaults, \* [Choices -> Seq([when, val])]: val is a symbol of the choice
  Texts,          \* the values of the symbols in Strs
  EmptyText       \* symbol_empty

Bools  == {"y", "n"}
ValuesOf(s) == IF s \in Strs THEN Texts ELSE Bools

ASSUME TreeAssumption ==
  /\ Strs \subseteq Syms /\ Syms \cap Choices = {}
  /\ None \notin Syms \cup Choices \cup Texts \cup Bools
  /\ EmptyText \in Texts /\ Texts \cap Bools = {}
  /\ InChoice \in [Syms -> Choices \cup {None}]
  /\ Under \in [Syms -> Syms \cup {None}]
  /\ IsFiniteSet(Syms) /\ Place \in [Syms -> 1 .. Cardinality(Syms)]
  /\ \A s, t \in Syms : Place[s] = Place[t] => s = t
  /\ DOMAIN Prompt = Syms \cup Choices /\ DOMAIN SelectedBy = Syms
  /\ DOMAIN Defaults = Syms /\ DOMAIN ChoiceDefaults = Choices
\* Choice values are bool and have no defaults of their own; only bool symbols
\* are selected.
ASSUME ChoiceAssumption ==
  /\ \A s \in Syms : InChoice[s] # None => s \notin Strs /\ Defaults[s] = <<>>
  /\ \A s \in Strs : SelectedBy[s] = {}
\* Defaults are lists; the default of a string is one of the texts.
ASSUME DefaultAssumption ==
  /\ \A s \in Syms : DOMAIN Defaults[s] \subseteq Nat
  /\ \A c \in Choices : DOMAIN ChoiceDefaults[c] \subseteq Nat
  /\ \A s \in Strs : \A i \in DOMAIN Defaults[s] : Defaults[s][i].val \in Texts

Valuations == {v \in [Syms -> Bools \cup Texts] : \A s \in Syms : v[s] \in ValuesOf(s)}

\* What has been set: SYMBOL_DEF_USER, def[S_DEF_USER].tri or .val (None for a
\* NULL string, which is never flagged), and the def[S_DEF_USER].val of a choice.
Settings ==
  {u \in [has  : SUBSET (Syms \cup Choices),
          val  : [Syms -> Bools \cup Texts \cup {None}],
          pick : [Choices -> Syms \cup {None}]] :
     \A s \in Syms : \/ u.val[s] \in ValuesOf(s)
                     \/ s \in Strs \ u.has /\ u.val[s] = None}

\* The lines of a .config: None for a symbol that has none, "n" for the
\* comment that it is not set.
Files == {f \in [Syms -> Bools \cup Texts \cup {None}] :
            \A s \in Syms : f[s] = None \/ f[s] \in ValuesOf(s)}

-----------------------------------------------------------------------------
(* The values that a symbol's value depends on; sym_check_deps refuses a    *)
(* tree with a loop.                                                       *)

Members(c) == {s \in Syms : InChoice[s] = c}
IsMember(s) == InChoice[s] # None

\* The expressions that the value of a symbol is calculated from
Expressions(s) ==
  IF IsMember(s)
    THEN LET c == InChoice[s]
         IN {Prompt[x] : x \in Members(c) \cup {c}}
              \cup {ChoiceDefaults[c][i].when : i \in DOMAIN ChoiceDefaults[c]}
    ELSE {Prompt[s], SelectedBy[s]}
           \cup {Defaults[s][i].when : i \in DOMAIN Defaults[s]}
           \cup (IF s \in Strs THEN {} ELSE {Defaults[s][i].val : i \in DOMAIN Defaults[s]})

SymsIn(e) == {t \in Syms : \E conj \in e : \E test \in conj : test.sym = t}
Reads(s) == UNION {SymsIn(e) : e \in Expressions(s)}

ASSUME NoLoop == \A S \in SUBSET Syms : S # {} => \E s \in S : Reads(s) \cap S = {}

\* An expression tests symbols only.
OverSyms(e) == \A conj \in e : \A test \in conj : test.sym \in Syms
ASSUME ExprAssumption == \A s \in Syms : \A e \in Expressions(s) : OverSyms(e)
ASSUME ChoiceDefaultAssumption ==
  \A c \in Choices : \A i \in DOMAIN ChoiceDefaults[c] :
    ChoiceDefaults[c][i].val \in Members(c)

-----------------------------------------------------------------------------
(* Values, symbol.c.                                                       *)

Holds(e, v) == \E conj \in e : \A test \in conj : v[test.sym] = test.is
BoolOf(b) == IF b THEN "y" ELSE "n"
Least(S) == CHOOSE n \in S : \A m \in S : n <= m

\* A choice bounds what its members can be seen.
Visible(s, v) == Holds(Prompt[s], v) /\ (IsMember(s) => Holds(Prompt[InChoice[s]], v))
VisibleMembers(c, v) == {m \in Members(c) : Visible(m, v)}

\* A choice is not optional, so it is y whenever its prompt is visible, and n
\* if none of its members is.
ChoiceOn(c, v) == VisibleMembers(c, v) # {}

\* sym_calc_visibility leaves rev_dep alone for choice values.
Selected(s, v) == ~IsMember(s) /\ Holds(SelectedBy[s], v)
Changeable(s, v) == Visible(s, v) /\ ~Selected(s, v)

\* The first default whose condition holds.
ActiveDefaults(s, v) == {i \in DOMAIN Defaults[s] : Holds(Defaults[s][i].when, v)}
HasDefault(s, v) == ActiveDefaults(s, v) # {}
DefaultUnset(s, v) ==   \* mutant: no symbol_empty when there is no default
  IF HasDefault(s, v)
    THEN LET d == Defaults[s][Least(ActiveDefaults(s, v))].val
         IN IF s \in Strs THEN d ELSE BoolOf(Holds(d, v))
    ELSE IF s \in Strs THEN None ELSE "n"
DefaultOf(s, v) ==
  IF HasDefault(s, v)
    THEN LET d == Defaults[s][Least(ActiveDefaults(s, v))].val
         IN IF s \in Strs THEN d ELSE BoolOf(Holds(d, v))
    ELSE IF s \in Strs THEN EmptyText ELSE "n"

ActiveChoiceDefaults(c, v) ==
  {i \in DOMAIN ChoiceDefaults[c] : /\ Holds(ChoiceDefaults[c][i].when, v)
                                    /\ ChoiceDefaults[c][i].val \in VisibleMembers(c, v)}
FirstOf(S) == CHOOSE m \in S : \A n \in S : Place[m] <= Place[n]
LastOf(S)  == CHOOSE m \in S : \A n \in S : Place[n] <= Place[m]
ChoiceDefault(c, v) ==
  LET active == ActiveChoiceDefaults(c, v)
  IN IF active # {} THEN ChoiceDefaults[c][Least(active)].val
     ELSE FirstOf(VisibleMembers(c, v))

\* The member that is y, for a choice that is on.
Chosen(c, u, v) ==
  IF u.pick[c] \in VisibleMembers(c, v) THEN u.pick[c] ELSE ChoiceDefault(c, v)

CalcValue(s, u, v) ==
  IF IsMember(s) THEN BoolOf(Visible(s, v) /\ Chosen(InChoice[s], u, v) = s)
  ELSE IF Selected(s, v) THEN "y"
  ELSE IF Visible(s, v) /\ s \in u.has THEN u.val[s]
  ELSE DefaultOf(s, v)

\* sym_calc_value for all symbols
ValuesFor(u) == LET v[s \in Syms] == CalcValue(s, u, v) IN v

\* SYMBOL_WRITE, as a calculation leaves it
Writes(s, v) == Visible(s, v) \/ (~IsMember(s) /\ (Selected(s, v) \/ HasDefault(s, v)))
Written(v) == {s \in Syms : Writes(s, v)}
SeenMembers(v) == {s \in Syms : IsMember(s) /\ Visible(s, v)}

-----------------------------------------------------------------------------
(* Files, confdata.c.                                                      *)

LinesNoComments(v, W) ==   \* mutant: write_no is false
  [s \in Syms |-> IF s \in W /\ v[s] # "n" THEN v[s] ELSE None]
\* conf_write_symbol for every symbol with the WRITE flag
Lines(v, W) == [s \in Syms |-> IF s \in W THEN v[s] ELSE None]

InFile(f) == {s \in Syms : f[s] # None}

\* conf_read_simple: every choice is flagged as set, its value is the last
\* member the file sets to y.
Simple(f) ==
  [has  |-> InFile(f) \cup Choices,
   val  |-> [s \in Syms |-> IF f[s] = None /\ s \notin Strs THEN "n" ELSE f[s]],
   pick |-> [c \in Choices |->
               LET yes == {m \in Members(c) : f[m] = "y"}
               IN IF yes = {} THEN None ELSE LastOf(yes)]]

Unsaved(f, v, W) ==
  {s \in Syms : (s \in InFile(f)) # (s \in W) \/ (s \in InFile(f) /\ f[s] # v[s])}
Warned(f) == \E c \in Choices : \E m, n \in Members(c) : m # n /\ f[m] = "y" /\ f[n] = "y"

HiddenAll(v) == {s \in Syms : ~IsMember(s)} \cup Choices   \* mutant: visible ones too
Hidden(v) ==
  {s \in Syms : ~IsMember(s) /\ ~Visible(s, v)} \cup {c \in Choices : ~Holds(Prompt[c], v)}

\* conf_read: a choice of which a visible member is missing is new; if the file
\* agrees with the tree, what cannot be seen is new when it appears.
Read(f) ==
  LET u == Simple(f)
      v == ValuesFor(u)
      clean   == Unsaved(f, v, Written(v)) = {}
      partial == {c \in Choices : ~(VisibleMembers(c, v) \subseteq InFile(f))}
  IN [u       |-> [u EXCEPT !.has = @ \ (partial \cup (IF clean THEN Hidden(v) ELSE {}))],
      values  |-> v,
      changed |-> ~clean \/ Warned(f)]

\* A process that has set nothing: there is no .config.
Untouched ==
  [has  |-> {},
   val  |-> [s \in Syms |-> IF s \in Strs THEN None ELSE "n"],
   pick |-> [c \in Choices |-> None]]

\* The .config a process writes that has only read what u says
Fresh(u) == LET v == ValuesFor(u) IN Lines(v, Written(v))

MinimalDropsChosen(f) ==   \* mutant: does not look at the default of the choice
  LET v == Read(f).values
      redundant(s) == v[s] = DefaultOf(s, v) \/ (IsMember(s) /\ v[s] = "y")
  IN Lines(v, {s \in Written(v) : Changeable(s, v) /\ ~redundant(s)})
\* conf_write_defconfig in a process that has read f
Minimal(f) ==
  LET v == Read(f).values
      redundant(s) ==
        \/ v[s] = DefaultOf(s, v)
        \/ IsMember(s) /\ v[s] = "y" /\ s = ChoiceDefault(InChoice[s], v)
  IN Lines(v, {s \in Written(v) : Changeable(s, v) /\ ~redundant(s)})

\* conf_set_all_new_symbols for allnoconfig and allyesconfig, and for defconfig,
\* which only flags the choices
AllNew(u, mode) ==
  LET new == {s \in Syms \ Strs : s \notin u.has}
  IN IF mode = "default" THEN [u EXCEPT !.has = @ \cup Choices]
     ELSE [u EXCEPT !.has = @ \cup new \cup Choices,
                    !.val = [s \in Syms |-> IF s \in new THEN mode ELSE @[s]]]

\* A symbol or choice that oldconfig asks for
New(u, v) ==
  {s \in Syms : s \notin u.has /\ Changeable(s, v)}
    \cup {c \in Choices : c \notin u.has /\ ChoiceOn(c, v)}
=============================================================================
