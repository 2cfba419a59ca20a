------------------------------ MODULE ExprTests ------------------------------
(***************************************************************************)
(* What the dependency expressions of support/kconfig are made of: the      *)
(* tests of one symbol, their values, and the rules of expr.c that replace  *)
(* a test, or two tests of one symbol, by another.  Expr has the walks that *)
(* apply them all over an expression.                                       *)
(***************************************************************************)
EXTENDS Naturals

CONSTANTS
  Bools,      \* the symbols of type bool
  Tris,       \* those of type tristate
  Strs,       \* those of type string
  Texts,      \* the constants they are compared with
  TriValues,  \* the values of the tristate symbols: no m without `option modules'
  Nobody      \* no symbol: a menu, an if or a comment

Syms == Bools \cup Tris \cup Strs
YMN  == {"y", "m", "n"}

\* A constant is not a symbol that can be set, whatever it looks like.
ASSUME SymsAssumption ==
  /\ Bools \cap Tris = {} /\ (Bools \cup Tris) \cap Strs = {}
  /\ Syms \cap (YMN \cup Texts \cup {Nobody}) = {}
  /\ Texts \cap YMN = {} /\ TriValues \subseteq YMN

-----------------------------------------------------------------------------
(* Tests and their values.                                                 *)

NoExpr        == [op |-> "none"]     \* NULL
Sym(s)        == [op |-> "sym", sym |-> s]
Comp(op, s, c) == [op |-> op, sym |-> s, with |-> c]
Not(e)        == [op |-> "not", arg |-> e]

\* What the symbols may be.
Assignments ==
  {f \in [Syms -> {"y", "n"} \cup TriValues \cup Texts] :
     /\ \A s \in Bools : f[s] \in {"y", "n"}
     /\ \A s \in Tris : f[s] \in TriValues
     /\ \A s \in Strs : f[s] \in Texts}

StringOf(s, f) == IF s \in Syms THEN f[s] ELSE s
TristateOf(s, f) ==
  CASE StringOf(s, f) = "y" -> 2 [] StringOf(s, f) = "m" -> 1 [] OTHER -> 0
TestValue(e, f) ==
  CASE e.op = "sym" -> TristateOf(e.sym, f)
    [] e.op = "="   -> IF StringOf(e.sym, f) = StringOf(e.with, f) THEN 2 ELSE 0
    [] e.op = "!="  -> IF StringOf(e.sym, f) = StringOf(e.with, f) THEN 0 ELSE 2

-----------------------------------------------------------------------------
(* expr_transform, for a test.                                             *)

\* A comparison of a bool symbol with y, m or n
BoolTestModular(e) ==   \* mutant: m is taken for y
  LET same == e.op = "="
  IN  CASE e.with \in {"y", "m"} -> IF same THEN Sym(e.sym) ELSE Not(Sym(e.sym))
        [] e.with = "n" -> IF same THEN Not(Sym(e.sym)) ELSE Sym(e.sym)
        [] OTHER        -> e
BoolTest(e) ==
  LET same == e.op = "="
  IN  CASE e.with = "y" -> IF same THEN Sym(e.sym) ELSE Not(Sym(e.sym))
        [] e.with = "n" -> IF same THEN Not(Sym(e.sym)) ELSE Sym(e.sym)
        [] e.with = "m" -> IF same THEN Sym("n") ELSE Sym("y")
        [] OTHER        -> e

-----------------------------------------------------------------------------
(* expr_join_or and expr_join_and.                                         *)

IsPair(e1, e2, x, y) == <<e1, e2>> \in {<<x, y>>, <<y, x>>}
\* sym1 and sym2 of the two joins
TestedFirst(e) ==
  LET x == IF e.op = "not" THEN e.arg ELSE e
  IN  IF x.op \in {"sym", "=", "!="} THEN x.sym ELSE Nobody
TestedSecond(e) ==
  IF e.op = "not" /\ e.arg.op # "sym" THEN Nobody ELSE TestedFirst(e)
SameTest(e1, e2, s) ==
  s = TestedFirst(e1) /\ s = TestedSecond(e2) /\ s \in Bools \cup Tris
ThirdOf(c, d) == CHOOSE k \in YMN : k \notin {c, d}

OneOf(S)  == CHOOSE c \in S : TRUE
Different == {c \in YMN \X YMN : c[1] # c[2]}
\* e1 and e2 compare s with two constants, in this order or the other one.
Compared(e1, e2, s, op1, op2, Cs) ==
  {c \in Cs : IsPair(e1, e2, Comp(op1, s, c[1]), Comp(op2, s, c[2]))}

\* e1 || e2 -> ?, e1 && e2 -> ?; NoExpr if they cannot be joined
JoinOr(e1, e2, s) ==
  LET equal == Compared(e1, e2, s, "=", "=", Different)
  IN  CASE s \in Tris /\ equal # {} ->
             LET c == OneOf(equal) IN Comp("!=", s, ThirdOf(c[1], c[2]))
        [] s \in Bools /\ IsPair(e1, e2, Sym(s), Not(Sym(s))) -> Sym("y")
        [] OTHER -> NoExpr
JoinAnd(e1, e2, s) ==
  LET unequal == Compared(e1, e2, s, "!=", "!=", Different)
      mixed   == Compared(e1, e2, s, "=", "!=", (YMN \cup Texts) \X (YMN \cup Texts))
  IN  CASE IsPair(e1, e2, Sym(s), Comp("=", s, "y"))  -> Comp("=", s, "y")
        [] IsPair(e1, e2, Sym(s), Comp("!=", s, "n")) -> Sym(s)
        [] IsPair(e1, e2, Sym(s), Comp("!=", s, "m")) -> Comp("=", s, "y")
        [] s \in Tris /\ mixed # {} ->
             LET c == OneOf(mixed)
             IN  IF c[1] = c[2] THEN Sym("n") ELSE Comp("=", s, c[1])
        [] s \in Tris /\ unequal # {} ->
             LET c == OneOf(unequal) IN Comp("=", s, ThirdOf(c[1], c[2]))
        [] OTHER -> NoExpr

-----------------------------------------------------------------------------
(* expr_depends_symbol, for one conjunct.                                  *)

\* s is not n if e is not n, as far as the conjuncts of e tell
DependsConjunct(x, s) ==
  \/ x = Sym(s)
  \/ \E c \in {"y", "m"} : x = Comp("=", s, c)
  \/ x = Comp("!=", s, "n")
=============================================================================
