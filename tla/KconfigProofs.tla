---------------------------- MODULE KconfigProofs ----------------------------
(***************************************************************************)
(* What the symbol engine promises, for every Kconfig tree without a        *)
(* dependency loop: the settings determine the values, the values a program *)
(* writes are the values the next one reads, and a minimal .config is       *)
(* enough.                                                                 *)
(***************************************************************************)
EXTENDS Kconfig, TLAPS, WellFoundedInduction, FiniteSetTheorems

\* v gives every symbol of G the value the settings u and v itself say.
Agrees(v, u, G) == \A s \in G : v[s] = CalcValue(s, u, v)
Same(v, w, G) == \A t \in G : v[t] = w[t]

-----------------------------------------------------------------------------
(* Numbers: the first default is one of the defaults.                      *)

Less == {p \in Nat \X Nat : p[1] < p[2]}

LEMMA LeastExists ==
  ASSUME NEW S, S \subseteq Nat, S # {}
  PROVE  \E n \in S : \A m \in S : n <= m
<1>1. IsWellFoundedOn(Less, Nat)
  <2>1. Less = OpToRel(<, Nat)
    BY Zenon DEF Less, OpToRel
  <2> QED BY Zenon, NatLessThanWellFounded, <2>1
<1>2. PICK x \in S : \A y \in S : <<y, x>> \notin Less
  BY <1>1, WFMin, Zenon
<1>3. \A y \in S : x <= y
  <2> TAKE y \in S
  <2>1. <<y, x>> \notin Less
    BY <1>2
  <2> QED BY <2>1 DEF Less
<1> QED BY <1>3

LEMMA LeastIsIn ==
  ASSUME NEW S, S \subseteq Nat, S # {}
  PROVE  Least(S) \in S
  BY LeastExists DEF Least

-----------------------------------------------------------------------------
(* The settings determine the values.                                      *)

\* Two valuations that agree on what an expression tests give it the same value.
LEMMA HoldsSame ==
  ASSUME NEW e, OverSyms(e), NEW v, NEW w, Same(v, w, SymsIn(e))
  PROVE  Holds(e, v) <=> Holds(e, w)
  BY DEF OverSyms, Same, SymsIn, Holds

\* The value of a symbol depends on what it reads only.
LEMMA CalcSame ==
  ASSUME NEW s \in Syms, NEW u, NEW v, NEW w, Same(v, w, Reads(s))
  PROVE  CalcValue(s, u, v) = CalcValue(s, u, w)
<1>0. \A e \in Expressions(s) : Holds(e, v) <=> Holds(e, w)
  <2> TAKE e \in Expressions(s)
  <2>1. Same(v, w, SymsIn(e))
    BY DEF Same, Reads
  <2> QED BY <2>1, HoldsSame, ExprAssumption
<1>1. CASE IsMember(s)
  <2> DEFINE c == InChoice[s]
  <2>1. s \in Members(c)
    BY DEF Members
  <2>2. \A x \in Members(c) \cup {c} : Holds(Prompt[x], v) <=> Holds(Prompt[x], w)
    BY <1>0, <1>1 DEF Expressions
  <2>3. \A i \in DOMAIN ChoiceDefaults[c] :
          Holds(ChoiceDefaults[c][i].when, v) <=> Holds(ChoiceDefaults[c][i].when, w)
    BY <1>0, <1>1 DEF Expressions
  <2>4. \A m \in Members(c) : Visible(m, v) <=> Visible(m, w)
    BY <2>2 DEF Visible, Members
  <2>5. VisibleMembers(c, v) = VisibleMembers(c, w)
    BY <2>4 DEF VisibleMembers
  <2>6. ActiveChoiceDefaults(c, v) = ActiveChoiceDefaults(c, w)
    BY <2>3, <2>5 DEF ActiveChoiceDefaults
  <2>7. ChoiceDefault(c, v) = ChoiceDefault(c, w)
    BY <2>5, <2>6 DEF ChoiceDefault
  <2> QED BY <1>1, <2>1, <2>4, <2>5, <2>7 DEF CalcValue, Chosen
<1>2. CASE ~IsMember(s)
  <2>1. /\ Holds(Prompt[s], v) <=> Holds(Prompt[s], w)
        /\ Holds(SelectedBy[s], v) <=> Holds(SelectedBy[s], w)
    BY <1>0, <1>2 DEF Expressions
  <2>2. \A i \in DOMAIN Defaults[s] :
          Holds(Defaults[s][i].when, v) <=> Holds(Defaults[s][i].when, w)
    BY <1>0, <1>2 DEF Expressions
  <2>3. s \notin Strs => \A i \in DOMAIN Defaults[s] :
          Holds(Defaults[s][i].val, v) <=> Holds(Defaults[s][i].val, w)
    BY <1>0, <1>2 DEF Expressions
  <2>4. ActiveDefaults(s, v) = ActiveDefaults(s, w)
    BY <2>2 DEF ActiveDefaults
  <2>5. DefaultOf(s, v) = DefaultOf(s, w)
    <3> DEFINE A == ActiveDefaults(s, v)
    <3>1. CASE A = {}
      BY <3>1, <2>4 DEF DefaultOf, HasDefault
    <3>2. CASE A # {}
      <4>1. Least(A) \in DOMAIN Defaults[s]
        BY <3>2, LeastIsIn, DefaultAssumption DEF ActiveDefaults
      <4> QED BY <4>1, <3>2, <2>3, <2>4 DEF DefaultOf, HasDefault, BoolOf
    <3> QED BY <3>1, <3>2
  <2> QED BY <1>2, <2>1, <2>5 DEF CalcValue, Visible, Selected
<1> QED BY <1>1, <1>2

\* No two valuations follow from the same settings, on any set of symbols that
\* contains what its members read.
LEMMA OneSolution ==
  ASSUME NEW u, NEW v, NEW w, NEW G \in SUBSET Syms, \A s \in G : Reads(s) \subseteq G,
         Agrees(v, u, G), Agrees(w, u, G)
  PROVE  Same(v, w, G)
<1> DEFINE D == {s \in G : v[s] # w[s]}
<1>1. SUFFICES ASSUME D # {} PROVE FALSE
  BY DEF Same
<1>2. PICK s \in D : Reads(s) \cap D = {}
  BY <1>1, NoLoop
<1>3. Same(v, w, Reads(s))
  BY <1>2 DEF Same
<1>4. CalcValue(s, u, v) = CalcValue(s, u, w)
  BY <1>3, CalcSame
<1> QED BY <1>4 DEF Agrees

\* Part of the symbols have values, and all they depend on is among them.
Partial(G, v, u) ==
  /\ G \subseteq Syms /\ \A s \in G : Reads(s) \subseteq G
  /\ Agrees(v, u, G)

\* There is a valuation for any settings: what has values can be extended by a
\* symbol that reads nothing else, and all such parts agree.
LEMMA Solution ==
  ASSUME NEW u
  PROVE  \E v : v = [s \in Syms |-> CalcValue(s, u, v)]
<1> DEFINE Parts == {G \in SUBSET Syms : \E v : Partial(G, v, u)}
           with(s) == CHOOSE v : \E G \in Parts : s \in G /\ Partial(G, v, u)
           D == {s \in Syms : \E G \in Parts : s \in G}
           all == [s \in Syms |-> with(s)[s]]
<1>1. ASSUME NEW G \in Parts, NEW v, Partial(G, v, u)
      PROVE  Same(all, v, G)
  <2> SUFFICES ASSUME NEW s \in G PROVE all[s] = v[s]
    BY DEF Same
  <2>1. s \in Syms
    BY <1>1 DEF Partial
  <2>2. PICK H \in Parts : s \in H /\ Partial(H, with(s), u)
    BY <1>1
  <2>3. /\ G \cap H \in SUBSET Syms /\ \A t \in G \cap H : Reads(t) \subseteq G \cap H
        /\ Agrees(v, u, G \cap H) /\ Agrees(with(s), u, G \cap H)
    BY <1>1, <2>2 DEF Partial, Agrees
  <2>4. Same(v, with(s), G \cap H)
    BY <2>3, OneSolution
  <2> QED BY <2>1, <2>2, <2>4 DEF Same
<1>2. Partial(D, all, u)
  <2>1. ASSUME NEW s \in D
        PROVE  Reads(s) \subseteq D /\ all[s] = CalcValue(s, u, all)
    <3>1. PICK G \in Parts : s \in G
      OBVIOUS
    <3>2. PICK v : Partial(G, v, u)
      OBVIOUS
    <3>3. Same(all, v, G)
      BY <1>1, <3>2
    <3>4. Reads(s) \subseteq G /\ v[s] = CalcValue(s, u, v)
      BY <3>1, <3>2 DEF Partial, Agrees
    <3>5. CalcValue(s, u, all) = CalcValue(s, u, v)
      BY <3>3, <3>4, CalcSame DEF Same
    <3>6. G \subseteq D
      BY <3>2 DEF Partial
    <3> QED BY <3>1, <3>3, <3>4, <3>5, <3>6 DEF Same
  <2> QED BY <2>1 DEF Partial, Agrees
<1>3. D = Syms
  <2>1. SUFFICES ASSUME Syms \ D # {} PROVE FALSE
    OBVIOUS
  <2>2. PICK s \in Syms \ D : Reads(s) \cap (Syms \ D) = {}
    BY <2>1, NoLoop
  <2> DEFINE more == [all EXCEPT ![s] = CalcValue(s, u, all)]
  <2>3. Reads(s) \subseteq D
    BY <2>2 DEF Reads, SymsIn
  <2>4. Same(more, all, D)
    BY <2>2 DEF Same
  <2>5. ASSUME NEW t \in D \cup {s}
        PROVE  Reads(t) \subseteq D /\ more[t] = CalcValue(t, u, more)
    <3>1. Reads(t) \subseteq D
      BY <1>2, <2>3 DEF Partial
    <3>2. CalcValue(t, u, more) = CalcValue(t, u, all)
      BY <2>4, <3>1, CalcSame DEF Same
    <3>3. CASE t \in D
      <4>1. more[t] = all[t]
        BY <2>4, <3>3 DEF Same
      <4>2. all[t] = CalcValue(t, u, all)
        BY <1>2, <3>3 DEF Partial, Agrees
      <4> QED BY <3>1, <3>2, <4>1, <4>2
    <3>4. CASE t = s
      <4>1. s \in DOMAIN all
        BY <2>2
      <4>2. more[s] = CalcValue(s, u, all)
        <5> HIDE DEF all, D
        <5> QED BY <4>1
      <4> QED BY <3>1, <3>2, <3>4, <4>2
    <3> QED BY <3>3, <3>4
  <2>6. Partial(D \cup {s}, more, u)
    BY <2>5 DEF Partial, Agrees
  <2>7. D \cup {s} \in SUBSET Syms
    BY <2>2
  <2>8. D \cup {s} \in Parts
    <3> HIDE DEF D, more
    <3> QED BY <2>6, <2>7
  <2>9. s \in D
    BY <2>2, <2>8
  <2> QED BY <2>2, <2>9
<1>4. all = [s \in Syms |-> all[s]]
  OBVIOUS
<1> HIDE DEF all, D
<1>5. \A s \in Syms : all[s] = CalcValue(s, u, all)
  BY <1>2, <1>3 DEF Partial, Agrees
<1>6. all = [s \in Syms |-> CalcValue(s, u, all)]
  BY <1>4, <1>5
<1> QED BY <1>6

\* ValuesFor is that valuation, and there is no other.
LEMMA ValuesForSolves ==
  ASSUME NEW u
  PROVE  ValuesFor(u) = [s \in Syms |-> CalcValue(s, u, ValuesFor(u))]
  BY Solution, Zenon DEF ValuesFor

LEMMA ValuesForUnique ==
  ASSUME NEW u, NEW v, v = [s \in Syms |-> v[s]], Agrees(v, u, Syms)
  PROVE  v = ValuesFor(u)
<1>1. Agrees(ValuesFor(u), u, Syms) /\ ValuesFor(u) = [s \in Syms |-> ValuesFor(u)[s]]
  BY ValuesForSolves DEF Agrees
<1>2. Same(v, ValuesFor(u), Syms)
  BY <1>1, OneSolution DEF Reads, SymsIn
<1> QED BY <1>1, <1>2 DEF Same

-----------------------------------------------------------------------------
(* Types, and the value of a choice.                                       *)

LEMMA DefaultType ==
  ASSUME NEW s \in Syms, NEW v
  PROVE  DefaultOf(s, v) \in ValuesOf(s)
<1>1. CASE ActiveDefaults(s, v) = {}
  BY <1>1, TreeAssumption DEF DefaultOf, HasDefault, ValuesOf, Bools
<1>2. CASE ActiveDefaults(s, v) # {}
  <2>1. Least(ActiveDefaults(s, v)) \in DOMAIN Defaults[s]
    BY <1>2, LeastIsIn, DefaultAssumption DEF ActiveDefaults
  <2> QED BY <1>2, <2>1, DefaultAssumption DEF DefaultOf, HasDefault, ValuesOf, Bools, BoolOf
<1> QED BY <1>1, <1>2

LEMMA CalcType ==
  ASSUME NEW u \in Settings, NEW v, NEW s \in Syms
  PROVE  CalcValue(s, u, v) \in ValuesOf(s)
<1>1. CASE IsMember(s)
  BY <1>1, ChoiceAssumption DEF IsMember, CalcValue, ValuesOf, Bools, BoolOf
<1>2. CASE ~IsMember(s) /\ Selected(s, v)
  BY <1>2, ChoiceAssumption DEF CalcValue, ValuesOf, Bools, Selected, Holds
<1>3. CASE ~IsMember(s) /\ ~Selected(s, v) /\ Visible(s, v) /\ s \in u.has
  BY <1>3 DEF CalcValue, Settings
<1>4. CASE ~IsMember(s) /\ ~Selected(s, v) /\ ~(Visible(s, v) /\ s \in u.has)
  BY <1>4, DefaultType DEF CalcValue
<1> QED BY <1>1, <1>2, <1>3, <1>4

LEMMA ValuesForType ==
  ASSUME NEW u \in Settings
  PROVE  ValuesFor(u) \in Valuations
<1>1. \A s \in Syms : ValuesFor(u)[s] \in ValuesOf(s)
  BY ValuesForSolves, CalcType
<1> QED BY <1>1, ValuesForSolves DEF Valuations, ValuesOf

LEMMA FirstOfIsIn ==
  ASSUME NEW S \in SUBSET Syms, S # {}
  PROVE  FirstOf(S) \in S
<1> DEFINE P == {Place[m] : m \in S}
<1>1. P \subseteq Nat /\ P # {}
  BY TreeAssumption
<1>2. PICK m \in S : \A n \in S : Place[m] <= Place[n]
  <2>1. \E p \in P : \A q \in P : p <= q
    BY <1>1, LeastExists
  <2> QED BY <2>1
<1> QED BY <1>2 DEF FirstOf

LEMMA LastOfIsIn ==
  ASSUME NEW S \in SUBSET Syms, S # {}
  PROVE  LastOf(S) \in S
<1> DEFINE last == Cardinality(Syms)
           P == {last - Place[m] : m \in S}
<1>1. last \in Nat
  BY TreeAssumption, FS_CardinalityType
<1>2. \A m \in S : Place[m] \in Nat /\ last - Place[m] \in Nat
  BY <1>1, TreeAssumption
<1>3. P \subseteq Nat /\ P # {}
  BY <1>2
<1>4. PICK m \in S : \A n \in S : last - Place[m] <= last - Place[n]
  <2>1. \E p \in P : \A q \in P : p <= q
    BY <1>3, LeastExists
  <2> QED BY <2>1
<1>5. \A n \in S : Place[n] <= Place[m]
  BY <1>1, <1>2, <1>4
<1> QED BY <1>5 DEF LastOf

LEMMA ChosenIsSeen ==
  ASSUME NEW c \in Choices, NEW u, NEW v, ChoiceOn(c, v)
  PROVE  Chosen(c, u, v) \in VisibleMembers(c, v)
<1> DEFINE A == ActiveChoiceDefaults(c, v)
<1>1. VisibleMembers(c, v) \in SUBSET Syms /\ VisibleMembers(c, v) # {}
  BY DEF ChoiceOn, VisibleMembers, Members
<1>2. ChoiceDefault(c, v) \in VisibleMembers(c, v)
  <2>1. CASE A = {}
    BY <2>1, <1>1, FirstOfIsIn DEF ChoiceDefault
  <2>2. CASE A # {}
    <3>1. Least(A) \in A
      BY <2>2, LeastIsIn, DefaultAssumption DEF ActiveChoiceDefaults
    <3> QED BY <2>2, <3>1 DEF ChoiceDefault, ActiveChoiceDefaults
  <2> QED BY <2>1, <2>2
<1> QED BY <1>2 DEF Chosen

-----------------------------------------------------------------------------
(* Other settings with the same values.                                    *)

\* Settings that give the symbols which the user can change the values they
\* have, and choose the same members, have the same values throughout.
LEMMA SameValues ==
  ASSUME NEW u, NEW w, NEW v, v = ValuesFor(u),
         \A s \in Syms : ~IsMember(s) /\ Changeable(s, v) =>
           v[s] = IF s \in w.has THEN w.val[s] ELSE DefaultOf(s, v),
         \A c \in Choices : ChoiceOn(c, v) => Chosen(c, w, v) = Chosen(c, u, v)
  PROVE  ValuesFor(w) = v
<1>1. v = [s \in Syms |-> v[s]] /\ Agrees(v, u, Syms)
  BY ValuesForSolves DEF Agrees
<1>2. ASSUME NEW s \in Syms PROVE v[s] = CalcValue(s, w, v)
  <2>1. CASE IsMember(s)
    <3>1. InChoice[s] \in Choices /\ s \in Members(InChoice[s])
      BY <2>1, TreeAssumption DEF IsMember, Members
    <3>2. Visible(s, v) => Chosen(InChoice[s], w, v) = Chosen(InChoice[s], u, v)
      BY <3>1 DEF ChoiceOn, VisibleMembers
    <3> QED BY <1>1, <2>1, <3>2 DEF Agrees, CalcValue
  <2>2. CASE ~IsMember(s)
    BY <1>1, <2>2 DEF Agrees, CalcValue, Changeable
  <2> QED BY <2>1, <2>2
<1>3. Agrees(v, w, Syms)
  BY <1>2 DEF Agrees
<1> QED BY <1>1, <1>3, ValuesForUnique

-----------------------------------------------------------------------------
(* Reading and writing.                                                    *)

\* What a user sees of the choices: at most one member is y.
LEMMA OneIsChosen ==
  ASSUME NEW u, NEW v, v = ValuesFor(u), NEW m \in Syms, IsMember(m)
  PROVE  v[m] = "y" <=> Visible(m, v) /\ Chosen(InChoice[m], u, v) = m
  BY ValuesForSolves DEF CalcValue, BoolOf

LEMMA SimpleType ==
  ASSUME NEW f \in Files
  PROVE  Simple(f) \in Settings
<1>1. Simple(f).has \subseteq Syms \cup Choices
  BY DEF Simple, InFile
<1>2. Simple(f).val \in [Syms -> Bools \cup Texts \cup {None}]
  BY DEF Simple, Files, Bools
<1>3. Simple(f).pick \in [Choices -> Syms \cup {None}]
  <2> SUFFICES ASSUME NEW c \in Choices PROVE Simple(f).pick[c] \in Syms \cup {None}
    BY DEF Simple
  <2> DEFINE yes == {m \in Members(c) : f[m] = "y"}
  <2>1. yes # {} => LastOf(yes) \in yes
    BY LastOfIsIn DEF Members
  <2>2. Simple(f).pick[c] = IF yes = {} THEN None ELSE LastOf(yes)
    BY DEF Simple
  <2> QED BY <2>1, <2>2 DEF Members
<1>4. \A s \in Syms : \/ Simple(f).val[s] \in ValuesOf(s)
                      \/ s \in Strs \ Simple(f).has /\ Simple(f).val[s] = None
  <2> TAKE s \in Syms
  <2>1. CASE f[s] = None
    BY <2>1, TreeAssumption DEF Simple, InFile, ValuesOf, Bools
  <2>2. CASE f[s] # None
    BY <2>2 DEF Simple, Files
  <2> QED BY <2>1, <2>2
<1> QED BY <1>1, <1>2, <1>3, <1>4 DEF Settings, Simple

\* The flags that conf_read takes away do not change a value.
LEMMA ReadKeepsValues ==
  ASSUME NEW f \in Files
  PROVE  ValuesFor(Read(f).u) = Read(f).values
<1> DEFINE u == Simple(f)
           v == ValuesFor(u)
           w == Read(f).u
<1>1. Read(f).values = v
  BY DEF Read
<1>2. w.val = u.val /\ w.pick = u.pick /\ w.has \subseteq u.has
  BY DEF Read, Simple
<1>3. \A s \in Syms : Visible(s, v) => (s \in w.has <=> s \in u.has)
  BY TreeAssumption DEF Read, Hidden, Simple
<1>4. \A s \in Syms : ~IsMember(s) /\ Changeable(s, v) =>
        v[s] = IF s \in w.has THEN w.val[s] ELSE DefaultOf(s, v)
  BY <1>2, <1>3, ValuesForSolves DEF Changeable, CalcValue
<1>5. \A c \in Choices : Chosen(c, w, v) = Chosen(c, u, v)
  BY <1>2 DEF Chosen
<1> HIDE DEF u, v, w
<1>6. v = ValuesFor(u)
  BY DEF v
<1>7. ValuesFor(w) = v
  BY <1>4, <1>5, <1>6, SameValues
<1> QED BY <1>1, <1>7 DEF w

\* The file with the lines of W, which are all written symbols and perhaps some
\* members that are n, has the values it was written from.
FullSet(v, W) ==
  /\ W \subseteq Syms /\ Written(v) \subseteq W
  /\ \A s \in W \ Written(v) : IsMember(s)

LEMMA LinesAreRead ==
  ASSUME NEW u \in Settings, NEW v, v = ValuesFor(u), NEW W, FullSet(v, W)
  PROVE  /\ Lines(v, W) \in Files /\ InFile(Lines(v, W)) = W
         /\ \A c \in Choices : ChoiceOn(c, v) => Simple(Lines(v, W)).pick[c] = Chosen(c, u, v)
         /\ ValuesFor(Simple(Lines(v, W))) = v
<1> DEFINE f == Lines(v, W)
           w == Simple(f)
<1>1. v \in Valuations
  BY ValuesForType
<1>2. /\ f \in [Syms -> Bools \cup Texts \cup {None}]
      /\ \A s \in Syms : f[s] = IF s \in W THEN v[s] ELSE None
      /\ \A s \in Syms : v[s] # None
  BY <1>1, TreeAssumption DEF Lines, Valuations, ValuesOf
<1>3. f \in Files
  BY <1>1, <1>2 DEF Files, Valuations
<1>4. InFile(f) = W
  BY <1>2 DEF InFile, FullSet
<1>5. ASSUME NEW c \in Choices, ChoiceOn(c, v)
      PROVE  w.pick[c] = Chosen(c, u, v)
  <2> DEFINE m == Chosen(c, u, v)
             yes == {n \in Members(c) : f[n] = "y"}
  <2>1. m \in VisibleMembers(c, v)
    BY <1>5, ChosenIsSeen
  <2>2. m \in Syms /\ InChoice[m] = c /\ Visible(m, v) /\ IsMember(m)
    BY <2>1, TreeAssumption DEF VisibleMembers, Members, IsMember
  <2>3. f[m] = "y"
    BY <1>2, <2>2, OneIsChosen DEF FullSet, Written, Writes
  <2>4. \A n \in yes : n = m
    <3> TAKE n \in yes
    <3>1. n \in Syms /\ InChoice[n] = c /\ IsMember(n) /\ v[n] = "y"
      BY <1>2, <2>2, TreeAssumption DEF Members, IsMember, Bools
    <3> QED BY <3>1, OneIsChosen
  <2>5. yes = {m}
    BY <2>2, <2>3, <2>4 DEF Members
  <2>6. w.pick[c] = LastOf(yes)
    BY <2>5 DEF Simple
  <2>7. yes \in SUBSET Syms /\ yes # {}
    BY <2>5 DEF Members
  <2>8. LastOf(yes) \in yes
    BY <2>7, LastOfIsIn
  <2> QED BY <2>4, <2>6, <2>8
<1>6. ASSUME NEW s \in Syms, ~IsMember(s), Changeable(s, v)
      PROVE  v[s] = IF s \in w.has THEN w.val[s] ELSE DefaultOf(s, v)
  <2>1. s \in W
    BY <1>6 DEF FullSet, Written, Writes, Changeable
  <2>2. s \in w.has /\ w.val[s] = v[s]
    BY <1>2, <1>4, <2>1 DEF Simple
  <2> QED BY <2>2
<1>7. \A c \in Choices : ChoiceOn(c, v) => Chosen(c, w, v) = Chosen(c, u, v)
  BY <1>5, ChosenIsSeen DEF Chosen
<1> HIDE DEF w
<1>8. ValuesFor(w) = v
  BY <1>6, <1>7, SameValues
<1> QED BY <1>3, <1>4, <1>5, <1>8 DEF w

LEMMA WrittenIsFull ==
  ASSUME NEW v
  PROVE  FullSet(v, Written(v))
  BY DEF FullSet, Written

\* A .config with a line for all that is written leaves nothing to ask for.
LEMMA NothingNewWhenWritten ==
  ASSUME NEW f \in Files, Written(Read(f).values) \subseteq InFile(f)
  PROVE  New(Read(f).u, Read(f).values) = {}
<1> DEFINE v == Read(f).values
           w == Read(f).u
<1>1. v = ValuesFor(Simple(f))
  BY DEF Read
<1>2. \A s \in Syms : Visible(s, v) => s \in w.has
  <2> TAKE s \in Syms
  <2>1. ASSUME Visible(s, v) PROVE s \in w.has
    <3>1. s \in InFile(f)
      BY <2>1 DEF Written, Writes
    <3> QED BY <1>1, <2>1, <3>1, TreeAssumption DEF Read, Hidden, Simple
  <2> QED BY <2>1
<1>3. \A c \in Choices : ChoiceOn(c, v) => c \in w.has
  <2> TAKE c \in Choices
  <2>1. ASSUME ChoiceOn(c, v) PROVE c \in w.has
    <3>1. VisibleMembers(c, v) \subseteq InFile(f)
      BY DEF VisibleMembers, Members, Written, Writes
    <3>2. Holds(Prompt[c], v)
      BY <2>1, TreeAssumption DEF ChoiceOn, VisibleMembers, Members, Visible, IsMember
    <3> QED BY <1>1, <3>1, <3>2, TreeAssumption DEF Read, Hidden, Simple
  <2> QED BY <2>1
<1> QED BY <1>2, <1>3 DEF New, Changeable

\* What has been asked for is not asked for again (conf.c:414-441).
LEMMA NothingNew ==
  ASSUME NEW u \in Settings, NEW W, FullSet(ValuesFor(u), W)
  PROVE  New(Read(Lines(ValuesFor(u), W)).u, Read(Lines(ValuesFor(u), W)).values) = {}
<1> DEFINE v == ValuesFor(u)
           f == Lines(v, W)
<1>1. f \in Files /\ InFile(f) = W /\ Read(f).values = v
  BY LinesAreRead DEF Read
<1>2. Written(v) \subseteq W
  BY DEF FullSet
<1> HIDE DEF v, f
<1>3. New(Read(f).u, Read(f).values) = {}
  BY <1>1, <1>2, NothingNewWhenWritten
<1> QED BY <1>3 DEF v, f

\* A file that reads without a change has a line for all that is written.
LEMMA NothingNewWhenClean ==
  ASSUME NEW f \in Files, ~Read(f).changed
  PROVE  New(Read(f).u, Read(f).values) = {}
<1>1. Unsaved(f, Read(f).values, Written(Read(f).values)) = {}
  BY DEF Read
<1>2. Written(Read(f).values) \subseteq InFile(f)
  BY <1>1 DEF Unsaved, Written, InFile
<1> QED BY <1>2, NothingNewWhenWritten

\* A file that was written agrees with the tree when it is read (confdata.c:357-374).
LEMMA RewriteIsClean ==
  ASSUME NEW u \in Settings
  PROVE  ~Read(Fresh(u)).changed
<1> DEFINE v == ValuesFor(u)
           f == Lines(v, Written(v))
<1>1. InFile(f) = Written(v) /\ ValuesFor(Simple(f)) = v
  BY LinesAreRead, WrittenIsFull
<1>2. \A s \in InFile(f) : f[s] = v[s]
  BY <1>1 DEF Lines, Written
<1>3. Unsaved(f, v, Written(v)) = {}
  BY <1>1, <1>2 DEF Unsaved
<1>4. ~Warned(f)
  <2> SUFFICES ASSUME NEW c \in Choices, NEW m \in Members(c), NEW n \in Members(c),
                      f[m] = "y", f[n] = "y"
               PROVE  m = n
    BY DEF Warned
  <2>1. /\ m \in Syms /\ n \in Syms /\ InChoice[m] = c /\ InChoice[n] = c
        /\ IsMember(m) /\ IsMember(n)
    BY TreeAssumption DEF Members, IsMember
  <2>2. v[m] = "y" /\ v[n] = "y"
    BY <2>1, TreeAssumption DEF Lines, Bools
  <2> QED BY <2>1, <2>2, OneIsChosen
<1>5. Fresh(u) = f
  BY DEF Fresh
<1> HIDE DEF v, f
<1>6. ~Read(f).changed
  BY <1>1, <1>3, <1>4 DEF Read
<1> QED BY <1>5, <1>6

\* "All values that has default values are skipped as this is redundant"
\* (confdata.c:477-480): what is left gives the same values.
LEMMA MinimalHasValues ==
  ASSUME NEW f \in Files
  PROVE  ValuesFor(Simple(Minimal(f))) = Read(f).values /\ Minimal(f) \in Files
<1> DEFINE u == Simple(f)
           v == ValuesFor(u)
           redundant(s) ==
             \/ v[s] = DefaultOf(s, v)
             \/ IsMember(s) /\ v[s] = "y" /\ s = ChoiceDefault(InChoice[s], v)
           W == {s \in Written(v) : Changeable(s, v) /\ ~redundant(s)}
           g == Lines(v, W)
           w == Simple(g)
<1>1. Minimal(f) = g /\ Read(f).values = v
  BY DEF Minimal, Read
<1>2. u \in Settings /\ v \in Valuations
  BY SimpleType, ValuesForType
<1>3. /\ \A s \in Syms : g[s] = IF s \in W THEN v[s] ELSE None
      /\ g \in Files
      /\ InFile(g) = W
  BY <1>2, TreeAssumption DEF Lines, Valuations, ValuesOf, Files, InFile, Written
<1>4. ASSUME NEW s \in Syms, ~IsMember(s), Changeable(s, v)
      PROVE  v[s] = IF s \in w.has THEN w.val[s] ELSE DefaultOf(s, v)
  <2>1. s \in Written(v)
    BY <1>4 DEF Written, Writes, Changeable
  <2>2. s \in w.has <=> s \in W
    BY <1>3, TreeAssumption DEF Simple
  <2>3. ASSUME s \in W PROVE w.val[s] = v[s]
    <3>1. v[s] \in ValuesOf(s)
      BY <1>2 DEF Valuations
    <3>2. v[s] # None
      BY <3>1, TreeAssumption DEF ValuesOf
    <3>3. g[s] = v[s]
      BY <1>3, <2>3
    <3>4. w.val[s] = IF g[s] = None /\ s \notin Strs THEN "n" ELSE g[s]
      <4> HIDE DEF g
      <4> QED BY DEF Simple
    <3> HIDE DEF w, g, v
    <3> QED BY <3>2, <3>3, <3>4
  <2> QED BY <1>4, <2>1, <2>2, <2>3
<1>5. ASSUME NEW c \in Choices, ChoiceOn(c, v)
      PROVE  Chosen(c, w, v) = Chosen(c, u, v)
  <2> DEFINE m == Chosen(c, u, v)
             yes == {n \in Members(c) : g[n] = "y"}
  <2>1. m \in VisibleMembers(c, v)
    BY <1>5, ChosenIsSeen
  <2>2. m \in Syms /\ InChoice[m] = c /\ Visible(m, v) /\ IsMember(m) /\ v[m] = "y"
    BY <2>1, TreeAssumption, OneIsChosen DEF VisibleMembers, Members, IsMember
  <2>3. \A n \in yes : n = m
    <3> TAKE n \in yes
    <3>1. n \in Syms /\ InChoice[n] = c /\ IsMember(n) /\ v[n] = "y"
      BY <1>3, <2>2, TreeAssumption DEF Members, IsMember, Bools
    <3> QED BY <3>1, OneIsChosen
  <2>4. w.pick[c] = IF yes = {} THEN None ELSE LastOf(yes)
    BY DEF Simple
  <2>5. CASE yes = {}
    <3>1. m \notin W
      BY <1>3, <2>2, <2>5 DEF Members
    <3>2. m \in Written(v) /\ Changeable(m, v)
      BY <2>2 DEF Written, Writes, Changeable, Selected
    <3>3. DefaultOf(m, v) = "n"
      BY <2>2, ChoiceAssumption DEF IsMember, DefaultOf, HasDefault, ActiveDefaults
    <3>4. m = ChoiceDefault(c, v)
      BY <2>2, <3>1, <3>2, <3>3
    <3>5. None \notin VisibleMembers(c, v)
      BY TreeAssumption DEF VisibleMembers, Members
    <3> QED BY <2>4, <2>5, <3>4, <3>5 DEF Chosen
  <2>6. CASE yes # {}
    <3>1. LastOf(yes) \in yes
      BY <2>6, LastOfIsIn DEF Members
    <3>2. w.pick[c] = m
      BY <2>3, <2>4, <2>6, <3>1
    <3> QED BY <2>1, <3>2 DEF Chosen
  <2> QED BY <2>5, <2>6
<1>6. v = ValuesFor(u)
  OBVIOUS
<1> HIDE DEF u, v, W, g, w
<1>7. ValuesFor(w) = v
  BY <1>4, <1>5, <1>6, SameValues
<1> QED BY <1>1, <1>3, <1>7 DEF w
=============================================================================
