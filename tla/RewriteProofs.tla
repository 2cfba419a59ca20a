---------------------------- MODULE RewriteProofs ----------------------------
(***************************************************************************)
(* What expr.c rewrites keeps its value.  First the rules that replace      *)
(* tests of one symbol, for every test of every symbol and all values of    *)
(* the symbols, m among them; then every function that rewrites a whole     *)
(* expression, whatever the expression is, where no tristate is m.          *)
(* The rounds of expr_eliminate_dups and the menu are in ExprProofs.        *)
(***************************************************************************)
EXTENDS Expr, TLAPS, WellFoundedInduction

Tristates == Bools \cup Tris

\* The value of a test or of the negation of one (expr_calc_value)
Val(e, f) == IF e.op = "not" THEN 2 - TestValue(e.arg, f) ELSE TestValue(e, f)

Larger(m, n)  == IF m < n THEN n ELSE m
Smaller(m, n) == IF m < n THEN m ELSE n

-----------------------------------------------------------------------------
(* The values of the tests of one symbol.                                  *)

LEMMA Constants ==
  ASSUME NEW f
  PROVE  /\ \A c \in YMN \cup Texts : StringOf(c, f) = c
         /\ TristateOf("y", f) = 2 /\ TristateOf("m", f) = 1 /\ TristateOf("n", f) = 0
<1>1. \A c \in YMN \cup Texts : StringOf(c, f) = c
  BY SymsAssumption DEF StringOf
<1> QED BY <1>1 DEF YMN, TristateOf

LEMMA SymbolValue ==
  ASSUME NEW s \in Tristates, NEW f \in Assignments
  PROVE  /\ f[s] \in YMN /\ StringOf(s, f) = f[s]
         /\ s \in Bools => f[s] # "m"
  BY SymsAssumption DEF Tristates, Assignments, YMN, StringOf, Syms

LEMMA SymVal ==
  ASSUME NEW s \in Tristates, NEW f \in Assignments
  PROVE  /\ Val(Sym(s), f) = TristateOf(s, f)
         /\ Val(Not(Sym(s)), f) = 2 - TristateOf(s, f)
         /\ TristateOf(s, f) = IF f[s] = "y" THEN 2 ELSE IF f[s] = "m" THEN 1 ELSE 0
<1>1. Val(Sym(s), f) = TristateOf(s, f) /\ Val(Not(Sym(s)), f) = 2 - TristateOf(s, f)
  BY DEF Val, Sym, Not, TestValue
<1>2. TristateOf(s, f) = IF f[s] = "y" THEN 2 ELSE IF f[s] = "m" THEN 1 ELSE 0
  BY SymbolValue DEF TristateOf
<1> QED BY <1>1, <1>2

LEMMA ConstVal ==
  ASSUME NEW f
  PROVE  Val(Sym("y"), f) = 2 /\ Val(Sym("m"), f) = 1 /\ Val(Sym("n"), f) = 0
  BY Constants DEF Val, Sym, TestValue

LEMMA CompVal ==
  ASSUME NEW s \in Tristates, NEW f \in Assignments, NEW c \in YMN \cup Texts
  PROVE  /\ Val(Comp("=", s, c), f) = IF f[s] = c THEN 2 ELSE 0
         /\ Val(Comp("!=", s, c), f) = IF f[s] = c THEN 0 ELSE 2
  BY Constants, SymbolValue DEF Val, Comp, TestValue

LEMMA ThirdIsOther ==
  ASSUME NEW c \in YMN, NEW d \in YMN, c # d
  PROVE  ThirdOf(c, d) \in YMN \ {c, d} /\ YMN = {c, d, ThirdOf(c, d)}
<1>1. \E k \in YMN : k \notin {c, d}
  BY DEF YMN
<1>2. ThirdOf(c, d) \in YMN /\ ThirdOf(c, d) \notin {c, d}
  BY <1>1 DEF ThirdOf
<1> QED BY <1>2 DEF YMN

-----------------------------------------------------------------------------
(* Two tests become one.                                                   *)

LEMMA EitherOrder ==
  ASSUME NEW e1, NEW e2, NEW x, NEW y, NEW f, IsPair(e1, e2, x, y),
         Val(x, f) \in Nat, Val(y, f) \in Nat
  PROVE  /\ Larger(Val(e1, f), Val(e2, f)) = Larger(Val(x, f), Val(y, f))
         /\ Smaller(Val(e1, f), Val(e2, f)) = Smaller(Val(x, f), Val(y, f))
<1>1. (e1 = x /\ e2 = y) \/ (e1 = y /\ e2 = x)
  BY DEF IsPair
<1>2. CASE e1 = x /\ e2 = y
  BY <1>2
<1>3. CASE e1 = y /\ e2 = x
  BY <1>3 DEF Larger, Smaller
<1> QED BY <1>1, <1>2, <1>3

\* (a='b') || (a='c') is a!='d', and a || !a of a bool is y (expr.c:379-413).
LEMMA OrIsKept ==
  ASSUME NEW e1, NEW e2, NEW s \in Tristates, NEW f \in Assignments,
         JoinOr(e1, e2, s) # NoExpr
  PROVE  Val(JoinOr(e1, e2, s), f) = Larger(Val(e1, f), Val(e2, f))
<1> DEFINE equal == Compared(e1, e2, s, "=", "=", Different)
           c == OneOf(equal)
<1>1. CASE s \in Tris /\ equal # {}
  <2>1. JoinOr(e1, e2, s) = Comp("!=", s, ThirdOf(c[1], c[2]))
    BY <1>1, SymsAssumption DEF JoinOr
  <2>2. c \in equal
    BY <1>1 DEF OneOf
  <2> HIDE DEF c
  <2>3. /\ c[1] \in YMN /\ c[2] \in YMN /\ c[1] # c[2]
        /\ IsPair(e1, e2, Comp("=", s, c[1]), Comp("=", s, c[2]))
    BY <2>2 DEF Compared, Different
  <2>4. Larger(Val(e1, f), Val(e2, f))
          = Larger(Val(Comp("=", s, c[1]), f), Val(Comp("=", s, c[2]), f))
    BY <2>3, CompVal, EitherOrder
  <2>5. /\ f[s] \in {c[1], c[2], ThirdOf(c[1], c[2])}
        /\ ThirdOf(c[1], c[2]) \in YMN \ {c[1], c[2]}
    BY <2>3, ThirdIsOther, SymbolValue
  <2> QED BY <2>1, <2>3, <2>4, <2>5, CompVal DEF Larger
<1>2. CASE ~(s \in Tris /\ equal # {}) /\ s \in Bools /\ IsPair(e1, e2, Sym(s), Not(Sym(s)))
  <2>1. JoinOr(e1, e2, s) = Sym("y")
    BY <1>2 DEF JoinOr
  <2>2. Larger(Val(e1, f), Val(e2, f)) = Larger(Val(Sym(s), f), Val(Not(Sym(s)), f))
    BY <1>2, SymVal, EitherOrder
  <2> QED BY <1>2, <2>1, <2>2, SymVal, SymbolValue, ConstVal DEF Larger
<1> QED BY <1>1, <1>2 DEF JoinOr

\* The rules of expr_join_and exclude each other (expr.c:439-507).
LEMMA AndRules ==
  ASSUME NEW e1, NEW e2, NEW s
  PROVE  LET unequal == Compared(e1, e2, s, "!=", "!=", Different)
             mixed   == Compared(e1, e2, s, "=", "!=", (YMN \cup Texts) \X (YMN \cup Texts))
             c == OneOf(mixed)
             d == OneOf(unequal)
             x == JoinAnd(e1, e2, s)
         IN  \/ IsPair(e1, e2, Sym(s), Comp("=", s, "y"))  /\ x = Comp("=", s, "y")
             \/ IsPair(e1, e2, Sym(s), Comp("!=", s, "n")) /\ x = Sym(s)
             \/ IsPair(e1, e2, Sym(s), Comp("!=", s, "m")) /\ x = Comp("=", s, "y")
             \/ mixed # {} /\ x = IF c[1] = c[2] THEN Sym("n") ELSE Comp("=", s, c[1])
             \/ unequal # {} /\ x = Comp("=", s, ThirdOf(d[1], d[2]))
             \/ x = NoExpr
<1> DEFINE equals  == IsPair(e1, e2, Sym(s), Comp("=", s, "y"))
           not(c)  == IsPair(e1, e2, Sym(s), Comp("!=", s, c))
           unequal == Compared(e1, e2, s, "!=", "!=", Different)
           mixed   == Compared(e1, e2, s, "=", "!=", (YMN \cup Texts) \X (YMN \cup Texts))
           has(op) == e1.op = op \/ e2.op = op
<1>1. Sym(s).op = "sym" /\ \A op, c : Comp(op, s, c).op = op /\ Comp(op, s, c).with = c
  BY DEF Sym, Comp
<1>2. equals => has("sym") /\ has("=") /\ ~has("!=")
  BY <1>1 DEF IsPair
<1>3. \A c : not(c) => has("sym") /\ has("!=")
  BY <1>1 DEF IsPair
<1>4. not("n") => ~not("m")
  <2>1. \A c : not(c) => (e1.op = "sym" /\ e2.with = c) \/ (e2.op = "sym" /\ e1.with = c)
    BY <1>1 DEF IsPair
  <2>2. \A c : not(c) => ~(e1.op = "sym" /\ e2.op = "sym")
    BY <1>1 DEF IsPair
  <2> QED BY <2>1, <2>2
<1>5. mixed # {} => has("=") /\ has("!=") /\ ~has("sym")
  BY <1>1 DEF IsPair, Compared
<1>6. unequal # {} => ~has("=") /\ ~has("sym")
  BY <1>1 DEF IsPair, Compared
<1> HIDE DEF has
<1>7. CASE equals
  BY <1>2, <1>3, <1>5, <1>6, <1>7 DEF JoinAnd
<1>8. CASE not("n")
  BY <1>2, <1>3, <1>4, <1>5, <1>6, <1>8 DEF JoinAnd
<1>9. CASE not("m")
  BY <1>2, <1>3, <1>4, <1>5, <1>6, <1>9 DEF JoinAnd
<1>10. CASE ~equals /\ ~not("n") /\ ~not("m") /\ s \in Tris /\ mixed # {}
  <2>1. unequal = {}
    BY <1>5, <1>6, <1>10
  <2> QED BY <1>10, <2>1 DEF JoinAnd
<1>11. CASE ~equals /\ ~not("n") /\ ~not("m") /\ s \in Tris /\ mixed = {} /\ unequal # {}
  BY <1>11 DEF JoinAnd
<1>12. CASE ~equals /\ ~not("n") /\ ~not("m") /\ (s \notin Tris \/ (mixed = {} /\ unequal = {}))
  BY <1>12 DEF JoinAnd
<1> QED BY <1>7, <1>8, <1>9, <1>10, <1>11, <1>12

\* (a) && (a='y') is a='y', and so on (expr.c:439-507).
LEMMA AndIsKept ==
  ASSUME NEW e1, NEW e2, NEW s \in Tristates, NEW f \in Assignments,
         JoinAnd(e1, e2, s) # NoExpr
  PROVE  Val(JoinAnd(e1, e2, s), f) = Smaller(Val(e1, f), Val(e2, f))
<1> DEFINE unequal == Compared(e1, e2, s, "!=", "!=", Different)
           mixed   == Compared(e1, e2, s, "=", "!=", (YMN \cup Texts) \X (YMN \cup Texts))
           x == JoinAnd(e1, e2, s)
           c == OneOf(mixed)
           d == OneOf(unequal)
<1>1. \/ IsPair(e1, e2, Sym(s), Comp("=", s, "y"))  /\ x = Comp("=", s, "y")
      \/ IsPair(e1, e2, Sym(s), Comp("!=", s, "n")) /\ x = Sym(s)
      \/ IsPair(e1, e2, Sym(s), Comp("!=", s, "m")) /\ x = Comp("=", s, "y")
      \/ mixed # {} /\ x = IF c[1] = c[2] THEN Sym("n") ELSE Comp("=", s, c[1])
      \/ unequal # {} /\ x = Comp("=", s, ThirdOf(d[1], d[2]))
  BY AndRules
<1> HIDE DEF x
<1>2. \A k \in {"y", "m", "n"} : k \in YMN \cup Texts
  BY DEF YMN
<1>3. CASE IsPair(e1, e2, Sym(s), Comp("=", s, "y")) /\ x = Comp("=", s, "y")
  <2>1. Smaller(Val(e1, f), Val(e2, f)) = Smaller(Val(Sym(s), f), Val(x, f))
    BY <1>2, <1>3, SymVal, CompVal, EitherOrder
  <2> QED BY <1>2, <1>3, <2>1, SymVal, CompVal DEF Smaller, x
<1>4. CASE IsPair(e1, e2, Sym(s), Comp("!=", s, "n")) /\ x = Sym(s)
  <2>1. Smaller(Val(e1, f), Val(e2, f)) = Smaller(Val(Sym(s), f), Val(Comp("!=", s, "n"), f))
    <3>1. Val(Comp("!=", s, "n"), f) \in Nat /\ Val(Sym(s), f) \in Nat
      BY <1>2, CompVal, SymVal
    <3> QED BY <1>4, <3>1, EitherOrder
  <2> QED BY <1>2, <1>4, <2>1, SymVal, CompVal, SymbolValue DEF Smaller, x, YMN
<1>5. CASE IsPair(e1, e2, Sym(s), Comp("!=", s, "m")) /\ x = Comp("=", s, "y")
  <2>1. Smaller(Val(e1, f), Val(e2, f)) = Smaller(Val(Sym(s), f), Val(Comp("!=", s, "m"), f))
    BY <1>2, <1>5, SymVal, CompVal, EitherOrder
  <2> QED BY <1>2, <1>5, <2>1, SymVal, CompVal, SymbolValue DEF Smaller, x, YMN
<1>6. CASE mixed # {} /\ x = IF c[1] = c[2] THEN Sym("n") ELSE Comp("=", s, c[1])
  <2>1. c \in mixed
    BY <1>6 DEF OneOf
  <2> HIDE DEF c
  <2>2. /\ c[1] \in YMN \cup Texts /\ c[2] \in YMN \cup Texts
        /\ IsPair(e1, e2, Comp("=", s, c[1]), Comp("!=", s, c[2]))
    BY <2>1 DEF Compared
  <2>3. /\ Val(Comp("=", s, c[1]), f) = IF f[s] = c[1] THEN 2 ELSE 0
        /\ Val(Comp("!=", s, c[2]), f) = IF f[s] = c[2] THEN 0 ELSE 2
    BY <2>2, CompVal
  <2>4. Smaller(Val(e1, f), Val(e2, f))
          = Smaller(Val(Comp("=", s, c[1]), f), Val(Comp("!=", s, c[2]), f))
    BY <2>2, <2>3, EitherOrder
  <2> QED BY <1>6, <2>3, <2>4, ConstVal DEF Smaller, x
<1>7. CASE unequal # {} /\ x = Comp("=", s, ThirdOf(d[1], d[2]))
  <2>1. d \in unequal
    BY <1>7 DEF OneOf
  <2> HIDE DEF d
  <2>2. /\ d[1] \in YMN /\ d[2] \in YMN /\ d[1] # d[2]
        /\ IsPair(e1, e2, Comp("!=", s, d[1]), Comp("!=", s, d[2]))
    BY <2>1 DEF Compared, Different
  <2>3. Smaller(Val(e1, f), Val(e2, f))
          = Smaller(Val(Comp("!=", s, d[1]), f), Val(Comp("!=", s, d[2]), f))
    <3>1. Val(Comp("!=", s, d[1]), f) \in Nat /\ Val(Comp("!=", s, d[2]), f) \in Nat
      BY <2>2, CompVal
    <3> QED BY <2>2, <3>1, EitherOrder
  <2>4. /\ f[s] \in {d[1], d[2], ThirdOf(d[1], d[2])}
        /\ ThirdOf(d[1], d[2]) \in YMN \ {d[1], d[2]}
    <3>1. f[s] \in YMN
      BY SymbolValue
    <3>2. /\ ThirdOf(d[1], d[2]) \in YMN \ {d[1], d[2]}
          /\ YMN = {d[1], d[2], ThirdOf(d[1], d[2])}
      BY <2>2, ThirdIsOther, Zenon
    <3> QED BY <3>1, <3>2, Zenon
  <2> QED BY <1>7, <2>2, <2>3, <2>4, CompVal DEF Smaller, x
<1> QED BY <1>1, <1>3, <1>4, <1>5, <1>6, <1>7

\* Where two tests of a bool or a tristate are replaced by one, the value of
\* their || or && stays, for all values of the symbol, m among them
\* (expr_join_or and expr_join_and, expr.c:379-413, 439-507).
THEOREM JoinsKeepValue ==
  ASSUME NEW e1, NEW e2, NEW s \in Tristates, NEW f \in Assignments
  PROVE  /\ JoinOr(e1, e2, s) # NoExpr =>
              Val(JoinOr(e1, e2, s), f) = Larger(Val(e1, f), Val(e2, f))
         /\ JoinAnd(e1, e2, s) # NoExpr =>
              Val(JoinAnd(e1, e2, s), f) = Smaller(Val(e1, f), Val(e2, f))
  BY OrIsKept, AndIsKept

\* expr_eliminate_dups1 puts the joint of two operands of a list in the place of
\* one of them and n, or y, in that of the other: whatever the other operands
\* are, the list has the largest, or the smallest, value it had (expr.c:509-559).
THEOREM JoinedListKeepsValue ==
  ASSUME NEW n \in Nat, NEW i \in 1 .. n, NEW j \in 1 .. n, i # j,
         NEW e1, NEW e2, NEW s \in Tristates, NEW f \in Assignments,
         NEW V \in [1 .. n -> 0 .. 2], V[i] = Val(e1, f), V[j] = Val(e2, f)
  PROVE  /\ JoinOr(e1, e2, s) # NoExpr =>
              LET W == [V EXCEPT ![i] = Val(Sym("n"), f), ![j] = Val(JoinOr(e1, e2, s), f)]
              IN  \A b \in Nat : (\A k \in 1 .. n : W[k] <= b) <=> (\A k \in 1 .. n : V[k] <= b)
         /\ JoinAnd(e1, e2, s) # NoExpr =>
              LET W == [V EXCEPT ![i] = Val(Sym("y"), f), ![j] = Val(JoinAnd(e1, e2, s), f)]
              IN  \A b \in 0 .. 2 : (\A k \in 1 .. n : b <= W[k]) <=> (\A k \in 1 .. n : b <= V[k])
<1>1. V[i] \in 0 .. 2 /\ V[j] \in 0 .. 2 /\ \A k \in 1 .. n : V[k] \in 0 .. 2
  OBVIOUS
<1>2. ASSUME JoinOr(e1, e2, s) # NoExpr, NEW b \in Nat
      PROVE  LET W == [V EXCEPT ![i] = Val(Sym("n"), f), ![j] = Val(JoinOr(e1, e2, s), f)]
             IN  (\A k \in 1 .. n : W[k] <= b) <=> (\A k \in 1 .. n : V[k] <= b)
  <2> DEFINE v == Val(JoinOr(e1, e2, s), f)
             W == [V EXCEPT ![i] = Val(Sym("n"), f), ![j] = v]
  <2>1. \A k \in 1 .. n : W[k] = IF k = j THEN v ELSE IF k = i THEN 0 ELSE V[k]
    BY ConstVal
  <2>2. v = Larger(V[i], V[j])
    BY <1>2, JoinsKeepValue
  <2> HIDE DEF v, W
  <2>3. (v <= b /\ 0 <= b) <=> (V[i] <= b /\ V[j] <= b)
    BY <1>1, <2>2 DEF Larger
  <2>4. (\A k \in 1 .. n : W[k] <= b) <=> (\A k \in 1 .. n : V[k] <= b)
    BY <2>1, <2>3
  <2> QED BY <2>4 DEF W, v
<1>3. ASSUME JoinAnd(e1, e2, s) # NoExpr, NEW b \in 0 .. 2
      PROVE  LET W == [V EXCEPT ![i] = Val(Sym("y"), f), ![j] = Val(JoinAnd(e1, e2, s), f)]
             IN  (\A k \in 1 .. n : b <= W[k]) <=> (\A k \in 1 .. n : b <= V[k])
  <2> DEFINE v == Val(JoinAnd(e1, e2, s), f)
             W == [V EXCEPT ![i] = Val(Sym("y"), f), ![j] = v]
  <2>1. \A k \in 1 .. n : W[k] = IF k = j THEN v ELSE IF k = i THEN 2 ELSE V[k]
    BY ConstVal
  <2>2. v = Smaller(V[i], V[j])
    BY <1>3, JoinsKeepValue
  <2> HIDE DEF v, W
  <2>3. (b <= v /\ b <= 2) <=> (b <= V[i] /\ b <= V[j])
    BY <1>1, <2>2 DEF Smaller
  <2>4. (\A k \in 1 .. n : b <= W[k]) <=> (\A k \in 1 .. n : b <= V[k])
    BY <2>1, <2>3
  <2> QED BY <2>4 DEF W, v
<1> QED BY <1>2, <1>3

-----------------------------------------------------------------------------
(* The other rules.                                                        *)

\* A comparison of a bool with y, m or n, that expr_transform replaces by the
\* bool, its negation or a constant, keeps its value (expr.c:659-702).
THEOREM BoolTestKeepsValue ==
  ASSUME NEW s \in Bools, NEW c \in YMN, NEW op \in {"=", "!="}, NEW f \in Assignments
  PROVE  Val(BoolTest(Comp(op, s, c)), f) = Val(Comp(op, s, c), f)
<1> DEFINE e == Comp(op, s, c)
<1>1. s \in Tristates /\ e.op = op /\ e.with = c /\ e.sym = s
  BY DEF Tristates, Comp
<1>2. f[s] \in {"y", "n"}
  BY <1>1, SymbolValue DEF YMN
<1>3. Val(e, f) = IF op = "=" THEN (IF f[s] = c THEN 2 ELSE 0) ELSE (IF f[s] = c THEN 0 ELSE 2)
  BY <1>1, CompVal
<1> HIDE DEF e
<1>4. CASE c = "y"
  <2>1. BoolTest(e) = IF op = "=" THEN Sym(s) ELSE Not(Sym(s))
    BY <1>1, <1>4 DEF BoolTest
  <2> QED BY <1>1, <1>2, <1>3, <1>4, <2>1, SymVal DEF e
<1>5. CASE c = "n"
  <2>1. BoolTest(e) = IF op = "=" THEN Not(Sym(s)) ELSE Sym(s)
    BY <1>1, <1>5 DEF BoolTest
  <2> QED BY <1>1, <1>2, <1>3, <1>5, <2>1, SymVal DEF e
<1>6. CASE c = "m"
  <2>1. BoolTest(e) = IF op = "=" THEN Sym("n") ELSE Sym("y")
    BY <1>1, <1>6 DEF BoolTest
  <2> QED BY <1>1, <1>2, <1>3, <1>6, <2>1, ConstVal DEF e
<1> QED BY <1>4, <1>5, <1>6 DEF YMN

\* An entry whose condition has a conjunct that expr_depends_symbol looks for can
\* only be seen while the symbol is not n (expr.c:811-824).
THEOREM ConjunctNeedsSymbol ==
  ASSUME NEW s \in Tristates, NEW f \in Assignments, NEW x,
         DependsConjunct(x, s), Val(x, f) # 0
  PROVE  TristateOf(s, f) # 0
<1>1. \A c \in {"y", "m", "n"} : c \in YMN \cup Texts
  BY DEF YMN
<1>2. CASE x = Sym(s)
  BY <1>2, SymVal
<1>3. ASSUME NEW c \in {"y", "m"}, x = Comp("=", s, c) PROVE TristateOf(s, f) # 0
  BY <1>1, <1>3, CompVal, SymVal
<1>4. CASE x = Comp("!=", s, "n")
  BY <1>1, <1>4, CompVal, SymVal, SymbolValue DEF YMN
<1> QED BY <1>2, <1>3, <1>4 DEF DependsConjunct

-----------------------------------------------------------------------------
(* Induction, and the lists that are put together.                         *)

Less == {p \in Nat \X Nat : p[1] < p[2]}

LEMMA LeastExists ==
  ASSUME NEW S, S \subseteq Nat, S # {}
  PROVE  \E n \in S : \A m \in S : n <= m
<1>1. IsWellFoundedOn(Less, Nat)
  <2>1. Less = OpToRel(<, Nat)
    BY Zenon DEF Less, OpToRel
  <2> QED BY Zenon, NatLessThanWellFounded, <2>1
<1>2. PICK x \in S : \A y \in S : <<y, x>> \notin Less
  BY <1>1, WFMin, Zenon
<1>3. \A y \in S : x <= y
  <2> TAKE y \in S
  <2>1. <<y, x>> \notin Less
    BY <1>2
  <2> QED BY <2>1 DEF Less
<1> QED BY <1>3

\* A set that has every number all of whose predecessors it has
LEMMA AllNumbers ==
  ASSUME NEW S, \A n \in Nat : (\A m \in Nat : m < n => m \in S) => n \in S
  PROVE  Nat \subseteq S
<1> SUFFICES ASSUME Nat \ S # {} PROVE FALSE
  OBVIOUS
<1>1. PICK n \in Nat \ S : \A m \in Nat \ S : n <= m
  BY LeastExists
<1>2. \A m \in Nat : m < n => m \in S
  BY <1>1
<1> QED BY <1>1, <1>2

LEMMA Counting ==
  ASSUME NEW N \in Nat, NEW S, 1 \in S, \A n \in 1 .. N : n \in S /\ n < N => n + 1 \in S
  PROVE  \A n \in 1 .. N : n \in S
<1> SUFFICES ASSUME (1 .. N) \ S # {} PROVE FALSE
  OBVIOUS
<1>1. PICK n \in (1 .. N) \ S : \A m \in (1 .. N) \ S : n <= m
  <2>1. (1 .. N) \ S \subseteq Nat
    OBVIOUS
  <2> QED BY <2>1, LeastExists
<1>2. n # 1 /\ n - 1 \in 1 .. N /\ n - 1 \in S
  BY <1>1
<1>3. n - 1 + 1 \in S
  BY <1>2
<1> QED BY <1>1, <1>3

\* FlattenSeq, up to m
IsFlat(g, ss, m) == g = [i \in 1 .. m |-> IF i = 1 THEN ss[i] ELSE g[i - 1] \o ss[i]]

LEMMA FlatExists ==
  ASSUME NEW N \in Nat, NEW ss
  PROVE  \A m \in 1 .. N : \E g : IsFlat(g, ss, m)
<1> DEFINE S == {m \in 1 .. N : \E g : IsFlat(g, ss, m)}
<1>1. CASE N = 0
  BY <1>1
<1>2. CASE N # 0
  <2>1. 1 \in S
    <3>1. IsFlat([i \in 1 .. 1 |-> ss[i]], ss, 1)
      BY DEF IsFlat
    <3> QED BY <1>2, <3>1
  <2>2. ASSUME NEW m \in 1 .. N, m \in S, m < N
        PROVE  m + 1 \in S
    <3>1. PICK g : IsFlat(g, ss, m)
      BY <2>2
    <3> DEFINE h == [i \in 1 .. m + 1 |-> IF i = m + 1 THEN g[m] \o ss[i] ELSE g[i]]
    <3>2. \A i \in 1 .. m : g[i] = IF i = 1 THEN ss[i] ELSE g[i - 1] \o ss[i]
      BY <3>1 DEF IsFlat
    <3>3. \A i \in 1 .. m + 1 : h[i] = IF i = 1 THEN ss[i] ELSE h[i - 1] \o ss[i]
      <4> TAKE i \in 1 .. m + 1
      <4>1. CASE i = m + 1
        <5>1. h[i] = g[m] \o ss[i]
          BY <4>1
        <5>2. i - 1 = m /\ i # 1
          BY <4>1
        <5>3. h[m] = g[m]
          OBVIOUS
        <5> HIDE DEF h
        <5> QED BY <5>1, <5>2, <5>3
      <4>2. CASE i # m + 1
        BY <3>2, <4>2
      <4> QED BY <4>1, <4>2
    <3>4. h = [i \in 1 .. m + 1 |-> h[i]]
      OBVIOUS
    <3> HIDE DEF h
    <3>5. h = [i \in 1 .. m + 1 |-> IF i = 1 THEN ss[i] ELSE h[i - 1] \o ss[i]]
      BY <3>3, <3>4
    <3>6. IsFlat(h, ss, m + 1)
      BY <3>5 DEF IsFlat
    <3>7. m + 1 \in 1 .. N
      BY <2>2
    <3> QED BY <3>6, <3>7
  <2> HIDE DEF S
  <2>3. \A m \in 1 .. N : m \in S
    BY <2>1, <2>2, Counting
  <2> QED BY <2>3 DEF S
<1> QED BY <1>1, <1>2

LEMMA FlattenIs ==
  ASSUME NEW ss, Len(ss) \in Nat, Len(ss) # 0
  PROVE  \E g : IsFlat(g, ss, Len(ss)) /\ FlattenSeq(ss) = g[Len(ss)]
<1> DEFINE g == CHOOSE h : IsFlat(h, ss, Len(ss))
<1>1. IsFlat(g, ss, Len(ss))
  <2>1. Len(ss) \in 1 .. Len(ss)
    OBVIOUS
  <2>2. \E h : IsFlat(h, ss, Len(ss))
    BY <2>1, FlatExists
  <2> QED BY <2>2, Zenon
<1>2. FlattenSeq(ss) = g[Len(ss)]
  BY Zenon DEF FlattenSeq, IsFlat
<1> HIDE DEF g
<1> QED BY <1>1, <1>2

\* What FlattenSeq makes of lists of members of T: they are what they were, none
\* is lost, and where no list is empty there are at least as many.
LEMMA Flattened ==
  ASSUME NEW T, NEW ss \in Seq(Seq(T)), ss # <<>>
  PROVE  LET all == FlattenSeq(ss)
         IN  /\ all \in Seq(T)
             /\ \A k \in 1 .. Len(all) : \E i \in 1 .. Len(ss) :
                  \E j \in 1 .. Len(ss[i]) : all[k] = ss[i][j]
             /\ \A i \in 1 .. Len(ss) : \A j \in 1 .. Len(ss[i]) :
                  \E k \in 1 .. Len(all) : all[k] = ss[i][j]
             /\ (\A i \in 1 .. Len(ss) : ss[i] # <<>>) => Len(all) >= Len(ss)
<1> DEFINE N == Len(ss)
<1>1. N \in Nat /\ N # 0 /\ \A i \in 1 .. N : ss[i] \in Seq(T)
  OBVIOUS
<1>2. PICK g : IsFlat(g, ss, N) /\ FlattenSeq(ss) = g[N]
  BY <1>1, FlattenIs
<1> DEFINE Good(m) ==
             /\ g[m] \in Seq(T)
             /\ \A k \in 1 .. Len(g[m]) : \E i \in 1 .. m :
                  \E j \in 1 .. Len(ss[i]) : g[m][k] = ss[i][j]
             /\ \A i \in 1 .. m : \A j \in 1 .. Len(ss[i]) :
                  \E k \in 1 .. Len(g[m]) : g[m][k] = ss[i][j]
             /\ (\A i \in 1 .. N : ss[i] # <<>>) => Len(g[m]) >= m
           S == {m \in 1 .. N : Good(m)}
<1>3. g[1] = ss[1] /\ \A m \in 1 .. N : m < N => g[m + 1] = g[m] \o ss[m + 1]
  <2>1. \A i \in 1 .. N : g[i] = IF i = 1 THEN ss[i] ELSE g[i - 1] \o ss[i]
    BY <1>1, <1>2 DEF IsFlat
  <2> HIDE DEF N
  <2>2. \A m \in 1 .. N : m < N => m + 1 \in 1 .. N /\ m + 1 # 1 /\ (m + 1) - 1 = m
    BY <1>1
  <2>3. 1 \in 1 .. N
    BY <1>1
  <2> QED BY <2>1, <2>2, <2>3
<1> HIDE DEF N
<1>4. 1 \in S
  <2>1. (\A i \in 1 .. N : ss[i] # <<>>) => Len(ss[1]) >= 1
    BY <1>1
  <2>2. Good(1)
    <3>1. /\ g[1] = ss[1] /\ ss[1] \in Seq(T)
          /\ \A i \in 1 .. 1 : i = 1
      BY <1>1, <1>3
    <3> QED BY <2>1, <3>1
  <2>3. 1 \in 1 .. N
    BY <1>1
  <2> HIDE DEF Good
  <2> QED BY <2>2, <2>3
<1>5. ASSUME NEW m \in 1 .. N, m \in S, m < N
      PROVE  m + 1 \in S
  <2> DEFINE a == g[m]
             b == ss[m + 1]
             c == g[m + 1]
  <2>1. Good(m)
    BY <1>5 DEF S
  <2>2. a \in Seq(T)
    BY <2>1
  <2> HIDE DEF S, Good
  <2>3. c = a \o b /\ a \in Seq(T) /\ b \in Seq(T) /\ m + 1 \in 1 .. N
    <3>1. m + 1 \in 1 .. N
      BY <1>1, <1>5
    <3>2. c = a \o b
      BY <1>3, <1>5
    <3> QED BY <1>1, <2>2, <3>1, <3>2
  <2>4. /\ c \in Seq(T) /\ Len(c) = Len(a) + Len(b)
        /\ \A k \in 1 .. Len(a) : c[k] = a[k]
        /\ \A k \in 1 .. Len(b) : c[Len(a) + k] = b[k]
    <3> HIDE DEF a, b, c
    <3> QED BY <2>3
  <2>5. \A k \in 1 .. Len(c) : k \in 1 .. Len(a) \/ k - Len(a) \in 1 .. Len(b)
    <3> HIDE DEF a, b, c
    <3> QED BY <2>3, <2>4
  <2>6. /\ \A k \in 1 .. Len(a) : \E i \in 1 .. m : \E j \in 1 .. Len(ss[i]) : a[k] = ss[i][j]
        /\ \A i \in 1 .. m : \A j \in 1 .. Len(ss[i]) : \E k \in 1 .. Len(a) : a[k] = ss[i][j]
        /\ (\A i \in 1 .. N : ss[i] # <<>>) => Len(a) >= m
    BY <2>1 DEF Good
  <2>7. (\A i \in 1 .. N : ss[i] # <<>>) => Len(c) >= m + 1
    <3>1. b # <<>> => Len(b) >= 1
      BY <2>3
    <3> HIDE DEF a, b, c
    <3> QED BY <2>3, <2>4, <2>6, <3>1 DEF b
  <2>8. ASSUME NEW k \in 1 .. Len(c)
        PROVE  \E i \in 1 .. m + 1 : \E j \in 1 .. Len(ss[i]) : c[k] = ss[i][j]
    <3> HIDE DEF a, c
    <3>1. CASE k \in 1 .. Len(a)
      <4>1. PICK i \in 1 .. m : \E j \in 1 .. Len(ss[i]) : a[k] = ss[i][j]
        BY <2>6, <3>1
      <4>2. c[k] = a[k]
        BY <2>4, <3>1
      <4>3. i \in 1 .. m + 1
        BY <1>1, <1>5
      <4> QED BY <4>1, <4>2, <4>3
    <3>2. CASE k - Len(a) \in 1 .. Len(b)
      <4>1. Len(a) + (k - Len(a)) = k
        BY <2>3
      <4>2. c[k] = b[k - Len(a)]
        BY <2>4, <3>2, <4>1
      <4> QED BY <3>2, <4>2
    <3> QED BY <2>5, <3>1, <3>2
  <2>9. ASSUME NEW i \in 1 .. m + 1, NEW j \in 1 .. Len(ss[i])
        PROVE  \E k \in 1 .. Len(c) : c[k] = ss[i][j]
    <3>1. CASE i = m + 1
      <4> HIDE DEF a, c
      <4>1. j \in 1 .. Len(b) /\ Len(a) + j \in 1 .. Len(c)
        BY <2>3, <2>4, <3>1
      <4>2. c[Len(a) + j] = ss[i][j]
        BY <2>4, <3>1, <4>1
      <4> QED BY <4>1, <4>2
    <3>2. CASE i # m + 1
      <4> HIDE DEF a, b, c
      <4>1. PICK k \in 1 .. Len(a) : a[k] = ss[i][j]
        BY <2>6, <3>2
      <4>2. k \in 1 .. Len(c)
        BY <2>3, <2>4
      <4> QED BY <2>4, <4>1, <4>2
    <3> QED BY <3>1, <3>2
  <2>10. Good(m + 1)
    BY <2>4, <2>7, <2>8, <2>9 DEF Good
  <2> QED BY <2>3, <2>10 DEF S
<1> HIDE DEF S
<1>6. N \in S
  <2>1. \A m \in 1 .. N : m \in S
    BY <1>1, <1>4, <1>5, Counting
  <2> QED BY <1>1, <2>1
<1>7. Good(N)
  BY <1>6 DEF S
<1> QED BY <1>2, <1>7 DEF N

-----------------------------------------------------------------------------
(* Expressions.  Those of level n are built from literals, of any level, with *)
(* a negation of one of the level below and a list of those two levels below: *)
(* what expr_transform makes of an expression is not above it.               *)

SymsRead == Tristates \cup {"y", "n"}

IsTest(e) ==
  \/ \E s \in SymsRead : e = Sym(s)
  \/ \E op \in {"=", "!="} : \E s, c : (s \in Strs => c \in Texts) /\ e = Comp(op, s, c)
IsLiteral(e) == IsTest(e) \/ \E s \in SymsRead : e = Not(Sym(s))

Node(op, es) == [op |-> op, args |-> es]
Fits(e, levels, n) ==
  \/ IsLiteral(e)
  \/ n >= 1 /\ \E x \in levels[n - 1] : e = Not(x)
  \/ n >= 2 /\ \E op \in Ops, es \in Seq(levels[n - 2]) :
       e = Node(op, es) /\ Len(es) > 1 /\ \A i \in 1 .. Len(es) : es[i].op # op
Levelled(levels) == \A n \in Nat : \A e \in levels[n] : Fits(e, levels, n)

Tree(e, n) == \E levels : Levelled(levels) /\ e \in levels[n]
Forest(es, n) == \E T : es \in Seq(T) /\ \A x \in T : Tree(x, n)
IsTree(e) == \E n \in Nat : Tree(e, n)
IsForest(es) == \E n \in Nat : Forest(es, n)

LEMMA FitsMore ==
  ASSUME NEW a, NEW b, \A n \in Nat : a[n] \subseteq b[n], NEW n \in Nat, NEW e, Fits(e, a, n)
  PROVE  Fits(e, b, n)
<1>1. CASE n >= 1 /\ \E x \in a[n - 1] : e = Not(x)
  <2>1. n - 1 \in Nat
    BY <1>1
  <2> QED BY <1>1, <2>1 DEF Fits
<1>2. CASE n >= 2 /\ \E op \in Ops, es \in Seq(a[n - 2]) :
             e = Node(op, es) /\ Len(es) > 1 /\ \A i \in 1 .. Len(es) : es[i].op # op
  <2>1. n - 2 \in Nat
    BY <1>2
  <2>2. PICK op \in Ops, es \in Seq(a[n - 2]) :
          e = Node(op, es) /\ Len(es) > 1 /\ \A i \in 1 .. Len(es) : es[i].op # op
    BY <1>2
  <2>3. es \in Seq(b[n - 2])
    BY <2>1
  <2> QED BY <1>2, <2>2, <2>3 DEF Fits
<1> QED BY <1>1, <1>2 DEF Fits

LEMMA LiteralIsTree ==
  ASSUME NEW e, IsLiteral(e), NEW n \in Nat
  PROVE  Tree(e, n)
<1> DEFINE levels == [k \in Nat |-> {e}]
<1>1. Levelled(levels) /\ e \in levels[n]
  BY DEF Levelled, Fits
<1> QED BY <1>1 DEF Tree

\* What an expression of level n is
LEMMA TreeIs ==
  ASSUME NEW n \in Nat, NEW e, Tree(e, n)
  PROVE  \/ IsLiteral(e)
         \/ n >= 1 /\ \E x : e = Not(x) /\ Tree(x, n - 1)
         \/ n >= 2 /\ \E op \in Ops : \E es :
              /\ e = Node(op, es) /\ Forest(es, n - 2)
              /\ Len(es) > 1 /\ \A i \in 1 .. Len(es) : es[i].op # op
<1>1. PICK levels : Levelled(levels) /\ e \in levels[n]
  BY DEF Tree
<1>2. Fits(e, levels, n)
  BY <1>1 DEF Levelled
<1>3. \A k \in Nat : \A x \in levels[k] : Tree(x, k)
  BY <1>1 DEF Tree
<1>4. ASSUME n >= 2, NEW op \in Ops, NEW es \in Seq(levels[n - 2]),
             e = Node(op, es), Len(es) > 1, \A i \in 1 .. Len(es) : es[i].op # op
      PROVE  Forest(es, n - 2)
  BY <1>3, <1>4 DEF Forest
<1> QED BY <1>2, <1>3, <1>4 DEF Fits

LEMMA TreeAbove ==
  ASSUME NEW n \in Nat, NEW m \in Nat, n <= m, NEW e, Tree(e, n)
  PROVE  Tree(e, m)
<1>1. PICK levels : Levelled(levels) /\ e \in levels[n]
  BY DEF Tree
<1> DEFINE d == m - n
           up == [k \in Nat |-> IF k < d THEN {} ELSE levels[k - d]]
<1>2. d \in Nat /\ m - d = n /\ ~(m < d)
  OBVIOUS
<1> HIDE DEF d
<1>3. \A k \in Nat : up[k] = IF k < d THEN {} ELSE levels[k - d]
  OBVIOUS
<1>4. ASSUME NEW k \in Nat, NEW x \in up[k]
      PROVE  Fits(x, up, k)
  <2>1. k - d \in Nat /\ x \in levels[k - d]
    BY <1>2, <1>3, <1>4
  <2>2. Fits(x, levels, k - d)
    BY <1>1, <2>1 DEF Levelled
  <2>3. k - d >= 1 => k >= 1 /\ up[k - 1] = levels[k - d - 1]
    BY <1>2, <1>3, <2>1
  <2>4. k - d >= 2 => k >= 2 /\ up[k - 2] = levels[k - d - 2]
    BY <1>2, <1>3, <2>1
  <2> HIDE DEF up
  <2> QED BY <2>2, <2>3, <2>4 DEF Fits
<1>5. e \in up[m]
  BY <1>1, <1>2, <1>3
<1> HIDE DEF up
<1> QED BY <1>4, <1>5 DEF Tree, Levelled

LEMMA NotIsTree ==
  ASSUME NEW n \in Nat, NEW x, Tree(x, n)
  PROVE  Tree(Not(x), n + 1)
<1>1. PICK levels : Levelled(levels) /\ x \in levels[n]
  BY DEF Tree
<1> DEFINE more == [k \in Nat |-> levels[k] \cup (IF k = n + 1 THEN {Not(x)} ELSE {})]
<1>2. \A k \in Nat : levels[k] \subseteq more[k]
  OBVIOUS
<1>3. ASSUME NEW k \in Nat, NEW e \in more[k]
      PROVE  Fits(e, more, k)
  <2>1. CASE e \in levels[k]
    <3>1. Fits(e, levels, k)
      BY <1>1, <2>1 DEF Levelled
    <3> HIDE DEF more
    <3> QED BY <1>2, <3>1, FitsMore
  <2>2. CASE k = n + 1 /\ e = Not(x)
    <3>1. x \in more[k - 1]
      BY <1>1, <2>2
    <3> HIDE DEF more
    <3> QED BY <2>2, <3>1 DEF Fits
  <2> QED BY <1>3, <2>1, <2>2
<1>4. Not(x) \in more[n + 1]
  OBVIOUS
<1> HIDE DEF more
<1> QED BY <1>3, <1>4 DEF Tree, Levelled

LEMMA ForestTrees ==
  ASSUME NEW n \in Nat, NEW es, Forest(es, n)
  PROVE  /\ Len(es) \in Nat /\ DOMAIN es = 1 .. Len(es)
         /\ \A i \in 1 .. Len(es) : Tree(es[i], n)
  BY DEF Forest

LEMMA ListIsTree ==
  ASSUME NEW n \in Nat, NEW op \in Ops, NEW es, Forest(es, n), Len(es) > 1,
         \A i \in 1 .. Len(es) : es[i].op # op
  PROVE  Tree(Node(op, es), n + 2)
<1> DEFINE I == 1 .. Len(es)
           Good(l, i) == Levelled(l) /\ es[i] \in l[n]
           of == [i \in I |-> CHOOSE l : Good(l, i)]
           more == [k \in Nat |-> (UNION {of[i][k] : i \in I})
                                    \cup (IF k = n + 2 THEN {Node(op, es)} ELSE {})]
<1>1. \A i \in I : Good(of[i], i)
  <2>1. \A i \in I : \E l : Good(l, i)
    BY ForestTrees DEF Tree
  <2> HIDE DEF Good
  <2> QED BY <2>1
<1>2. \A i \in I : Levelled(of[i]) /\ es[i] \in of[i][n]
  BY <1>1
<1> HIDE DEF of
<1>3. \A i \in I : \A k \in Nat : of[i][k] \subseteq more[k]
  OBVIOUS
<1>4. ASSUME NEW k \in Nat, NEW e \in more[k]
      PROVE  Fits(e, more, k)
  <2>1. ASSUME NEW i \in I, e \in of[i][k]
        PROVE  Fits(e, more, k)
    <3>1. Fits(e, of[i], k)
      BY <1>2, <2>1 DEF Levelled
    <3> HIDE DEF more
    <3> QED BY <1>3, <3>1, FitsMore
  <2>2. CASE k = n + 2 /\ e = Node(op, es)
    <3>1. n \in Nat /\ k - 2 = n
      BY <2>2
    <3>2. \A i \in I : es[i] \in more[n]
      BY <1>2, <1>3
    <3>3. es \in Seq(more[n])
      <4> HIDE DEF more
      <4> QED BY <3>2 DEF Forest
    <3> HIDE DEF more
    <3>4. es \in Seq(more[k - 2]) /\ k >= 2
      BY <2>2, <3>1, <3>3
    <3> QED BY <2>2, <3>4 DEF Fits
  <2> QED BY <1>4, <2>1, <2>2
<1>5. Node(op, es) \in more[n + 2]
  <2>1. n + 2 \in Nat /\ Node(op, es) \in {Node(op, es)}
    OBVIOUS
  <2> QED BY <2>1
<1> HIDE DEF more
<1> QED BY <1>4, <1>5 DEF Tree, Levelled

-----------------------------------------------------------------------------
(* Values.                                                                 *)

\* No tristate is m: there is no `option modules'.
NoModules == TriValues \subseteq {"y", "n"}
\* A call is a call of the function.
CallsOfValue == \A e, f : IsTree(e) => CallValue(e, f) = Value(e, f)

Holds(e, f) == Value(e, f) = 2
ListHolds(op, es, f) ==
  IF op = "and" THEN \A i \in 1 .. Len(es) : Holds(es[i], f)
  ELSE \E i \in 1 .. Len(es) : Holds(es[i], f)

LEMMA MinMax ==
  ASSUME NEW S \in SUBSET {0, 2}, S # {}
  PROVE  /\ Min(S) \in {0, 2} /\ (Min(S) = 2 <=> \A x \in S : x = 2)
         /\ Max(S) \in {0, 2} /\ (Max(S) = 2 <=> \E x \in S : x = 2)
<1>1. S \in {{0}, {2}, {0, 2}}
  OBVIOUS
<1>2. \E x \in S : \A y \in S : x =< y
  BY <1>1
<1>3. Min(S) \in S /\ \A y \in S : Min(S) =< y
  BY <1>2 DEF Min
<1>4. \E x \in S : \A y \in S : x >= y
  BY <1>1
<1>5. Max(S) \in S /\ \A y \in S : Max(S) >= y
  BY <1>4 DEF Max
<1> QED BY <1>1, <1>3, <1>5

LEMMA ReadSymbol ==
  ASSUME NoModules, NEW s \in SymsRead, NEW f \in Assignments
  PROVE  TristateOf(s, f) \in {0, 2} /\ s \notin Strs
<1>1. CASE s \in Tristates
  <2>1. StringOf(s, f) \in {"y", "n"}
    BY <1>1 DEF Tristates, Assignments, StringOf, Syms, NoModules
  <2> QED BY <1>1, <2>1, SymsAssumption DEF TristateOf, Tristates
<1>2. CASE s \in {"y", "n"}
  <2>1. s \notin Syms /\ s \in YMN
    BY <1>2, SymsAssumption DEF YMN
  <2> QED BY <1>2, <2>1, Constants DEF Syms
<1> QED BY <1>1, <1>2 DEF SymsRead

LEMMA NoString ==
  ASSUME NEW s \in SymsRead
  PROVE  s \notin Strs
<1>1. CASE s \in Tristates
  BY <1>1, SymsAssumption DEF Tristates
<1>2. CASE s \in {"y", "n"}
  BY <1>2, SymsAssumption DEF YMN, Syms
<1> QED BY <1>1, <1>2 DEF SymsRead

LEMMA TestIs ==
  ASSUME NoModules, NEW e, IsTest(e), NEW f \in Assignments
  PROVE  /\ e.op \in {"sym", "=", "!="}
         /\ Value(e, f) = TestValue(e, f) /\ Value(e, f) \in {0, 2}
<1>1. ASSUME NEW s \in SymsRead, e = Sym(s)
      PROVE  e.op = "sym" /\ TestValue(e, f) \in {0, 2}
  BY <1>1, ReadSymbol DEF Sym, TestValue
<1>2. ASSUME NEW op \in {"=", "!="}, NEW s, NEW c, e = Comp(op, s, c)
      PROVE  e.op \in {"=", "!="} /\ TestValue(e, f) \in {0, 2}
  BY <1>2 DEF Comp, TestValue
<1>3. e.op \in {"sym", "=", "!="} /\ TestValue(e, f) \in {0, 2}
  BY <1>1, <1>2 DEF IsTest
<1> QED BY <1>3 DEF Value

LEMMA NotIs ==
  ASSUME CallsOfValue, NEW x, IsTree(x), NEW f
  PROVE  Value(Not(x), f) = 2 - Value(x, f)
  BY DEF Not, Value, CallsOfValue

LEMMA ListIs ==
  ASSUME CallsOfValue, NEW op \in Ops, NEW es, IsForest(es), Len(es) > 0, NEW f,
         \A i \in 1 .. Len(es) : Value(es[i], f) \in {0, 2}
  PROVE  /\ Value(Node(op, es), f) \in {0, 2}
         /\ Holds(Node(op, es), f) <=> ListHolds(op, es, f)
<1> DEFINE e == Node(op, es)
           V == {CallValue(e.args[i], f) : i \in DOMAIN e.args}
<1>1. e.op = op /\ e.args = es
  BY DEF Node
<1> HIDE DEF e
<1>2. Len(es) \in Nat /\ DOMAIN es = 1 .. Len(es) /\ \A i \in 1 .. Len(es) : IsTree(es[i])
  BY ForestTrees DEF IsForest, IsTree
<1>3. \A i \in 1 .. Len(es) : CallValue(es[i], f) = Value(es[i], f)
  BY <1>2 DEF CallsOfValue
<1>4. V \subseteq {0, 2} /\ V # {}
  BY <1>1, <1>2, <1>3
<1>5. /\ (\A x \in V : x = 2) <=> \A i \in 1 .. Len(es) : Value(es[i], f) = 2
      /\ (\E x \in V : x = 2) <=> \E i \in 1 .. Len(es) : Value(es[i], f) = 2
  <2>1. V = {CallValue(es[i], f) : i \in 1 .. Len(es)}
    BY <1>1, <1>2
  <2> HIDE DEF V
  <2>2. /\ \A x \in V : \E i \in 1 .. Len(es) : x = Value(es[i], f)
        /\ \A i \in 1 .. Len(es) : Value(es[i], f) \in V
    BY <1>3, <2>1
  <2> QED BY <2>2
<1>6. CASE op = "and"
  <2>1. Value(e, f) = Min(V)
    BY <1>1, <1>6 DEF Value
  <2> HIDE DEF V
  <2> QED BY <1>4, <1>5, <1>6, <2>1, MinMax DEF Holds, ListHolds, e
<1>7. CASE op = "or"
  <2>1. Value(e, f) = Max(V)
    BY <1>1, <1>7 DEF Value
  <2> HIDE DEF V
  <2> QED BY <1>4, <1>5, <1>7, <2>1, MinMax DEF Holds, ListHolds, e
<1> QED BY <1>6, <1>7 DEF Ops

LEMMA LiteralValue ==
  ASSUME NoModules, CallsOfValue, NEW e, IsLiteral(e), NEW f \in Assignments
  PROVE  Value(e, f) \in {0, 2}
<1>1. CASE IsTest(e)
  BY <1>1, TestIs
<1>2. ASSUME NEW s \in SymsRead, e = Not(Sym(s))
      PROVE  Value(e, f) \in {0, 2}
  <2>1. IsTest(Sym(s))
    BY DEF IsTest
  <2>2. IsTree(Sym(s))
    BY <2>1, LiteralIsTree DEF IsLiteral, IsTree
  <2> QED BY <1>2, <2>1, <2>2, TestIs, NotIs
<1> QED BY <1>1, <1>2 DEF IsLiteral

\* Without m every expression is y or n.
LEMMA TreeValue ==
  ASSUME NoModules, CallsOfValue, NEW f \in Assignments
  PROVE  \A e : IsTree(e) => Value(e, f) \in {0, 2}
<1> DEFINE S == {n \in Nat : \A e : Tree(e, n) => Value(e, f) \in {0, 2}}
<1>1. ASSUME NEW n \in Nat, \A m \in Nat : m < n => m \in S, NEW e, Tree(e, n)
      PROVE  Value(e, f) \in {0, 2}
  <2>1. CASE IsLiteral(e)
    BY <2>1, LiteralValue
  <2>2. ASSUME n >= 1, NEW x, e = Not(x), Tree(x, n - 1)
        PROVE  Value(e, f) \in {0, 2}
    <3>1. n - 1 \in S /\ IsTree(x)
      BY <1>1, <2>2 DEF IsTree
    <3>2. Value(x, f) \in {0, 2}
      BY <2>2, <3>1
    <3> QED BY <2>2, <3>1, <3>2, NotIs
  <2>3. ASSUME n >= 2, NEW op \in Ops, NEW es, e = Node(op, es), Forest(es, n - 2), Len(es) > 1
        PROVE  Value(e, f) \in {0, 2}
    <3>1. n - 2 \in Nat /\ n - 2 \in S /\ IsForest(es)
      BY <1>1, <2>3 DEF IsForest
    <3>2. \A i \in 1 .. Len(es) : Value(es[i], f) \in {0, 2}
      BY <2>3, <3>1, ForestTrees
    <3> HIDE DEF S
    <3> QED BY <2>3, <3>1, <3>2, ListIs
  <2> QED BY <1>1, <2>1, <2>2, <2>3, TreeIs
<1>2. \A n \in Nat : (\A m \in Nat : m < n => m \in S) => n \in S
  BY <1>1
<1> HIDE DEF S
<1>3. Nat \subseteq S
  BY <1>2, AllNumbers
<1> QED BY <1>3 DEF S, IsTree

LEMMA NotHolds ==
  ASSUME NoModules, CallsOfValue, NEW x, IsTree(x), NEW f \in Assignments
  PROVE  Holds(Not(x), f) <=> ~Holds(x, f)
  BY NotIs, TreeValue DEF Holds

LEMMA NodeHolds ==
  ASSUME NoModules, CallsOfValue, NEW op \in Ops, NEW es, IsForest(es), Len(es) > 0,
         NEW f \in Assignments
  PROVE  Holds(Node(op, es), f) <=> ListHolds(op, es, f)
<1>1. \A i \in 1 .. Len(es) : Value(es[i], f) \in {0, 2}
  BY ForestTrees, TreeValue DEF IsForest, IsTree
<1> QED BY <1>1, ListIs

-----------------------------------------------------------------------------
(* The parts of an expression, and what expr_alloc_one and its like build.  *)

LEMMA ForestIs ==
  ASSUME NEW n, NEW es, NEW N \in Nat, es = [i \in 1 .. N |-> es[i]],
         \A i \in 1 .. N : Tree(es[i], n)
  PROVE  Forest(es, n) /\ Len(es) = N
<1> DEFINE T == {es[i] : i \in 1 .. N}
<1>1. es \in [1 .. N -> T]
  <2>1. \A i \in 1 .. N : es[i] \in T
    OBVIOUS
  <2> HIDE DEF T
  <2> QED BY <2>1
<1>2. es \in Seq(T) /\ Len(es) = N
  <2> HIDE DEF T
  <2> QED BY <1>1
<1>3. \A x \in T : Tree(x, n)
  OBVIOUS
<1> HIDE DEF T
<1> QED BY <1>2, <1>3 DEF Forest

LEMMA TestOp ==
  ASSUME NEW e, IsTest(e)
  PROVE  e.op \in {"sym", "=", "!="}
  BY DEF IsTest, Sym, Comp

LEMMA OpIs ==
  ASSUME NEW n \in Nat, NEW e, Tree(e, n)
  PROVE  /\ e.op \in {"sym", "=", "!=", "not"} \cup Ops
         /\ e.op \in {"sym", "=", "!="} <=> IsTest(e)
         /\ e.op = "not" =>
              /\ e = Not(e.arg)
              /\ (n >= 1 /\ Tree(e.arg, n - 1)) \/ \E s \in SymsRead : e.arg = Sym(s)
         /\ e.op \in Ops =>
              /\ e = Node(e.op, e.args) /\ n >= 2 /\ Forest(e.args, n - 2)
              /\ Len(e.args) > 1 /\ \A i \in 1 .. Len(e.args) : e.args[i].op # e.op
<1>1. CASE IsTest(e)
  BY <1>1, TestOp DEF Ops
<1>2. ASSUME NEW x, e = Not(x)
      PROVE  e.op = "not" /\ e.arg = x /\ ~IsTest(e) /\ e.op \notin Ops
  BY <1>2, TestOp DEF Not, Ops
<1>3. ASSUME NEW op \in Ops, NEW es, e = Node(op, es)
      PROVE  e.op = op /\ e.args = es /\ ~IsTest(e) /\ e.op # "not"
  BY <1>3, TestOp DEF Node, Ops
<1>4. CASE \E s \in SymsRead : e = Not(Sym(s))
  BY <1>2, <1>4
<1>5. CASE n >= 1 /\ \E x : e = Not(x) /\ Tree(x, n - 1)
  BY <1>2, <1>5
<1>6. CASE n >= 2 /\ \E op \in Ops : \E es :
              /\ e = Node(op, es) /\ Forest(es, n - 2)
              /\ Len(es) > 1 /\ \A i \in 1 .. Len(es) : es[i].op # op
  <2>1. PICK op \in Ops : \E es :
          /\ e = Node(op, es) /\ Forest(es, n - 2)
          /\ Len(es) > 1 /\ \A i \in 1 .. Len(es) : es[i].op # op
    BY <1>6
  <2>2. PICK es : /\ e = Node(op, es) /\ Forest(es, n - 2)
                  /\ Len(es) > 1 /\ \A i \in 1 .. Len(es) : es[i].op # op
    BY <2>1
  <2>3. e.op = op /\ e.args = es /\ ~IsTest(e) /\ e.op # "not"
    BY <1>3, <2>2
  <2>4. e.op \notin {"sym", "=", "!=", "not"} /\ e.op \in Ops
    BY <2>3 DEF Ops
  <2> QED BY <1>6, <2>2, <2>3, <2>4
<1> QED
  <2>1. \/ IsTest(e) \/ \E s \in SymsRead : e = Not(Sym(s))
        \/ n >= 1 /\ \E x : e = Not(x) /\ Tree(x, n - 1)
        \/ n >= 2 /\ \E op \in Ops : \E es :
             /\ e = Node(op, es) /\ Forest(es, n - 2)
             /\ Len(es) > 1 /\ \A i \in 1 .. Len(es) : es[i].op # op
    BY TreeIs DEF IsLiteral
  <2> QED BY <1>1, <1>4, <1>5, <1>6, <2>1

LEMMA ArgIsTree ==
  ASSUME NEW n \in Nat, NEW e, Tree(e, n), e.op = "not"
  PROVE  e = Not(e.arg) /\ Tree(e.arg, n)
<1>1. CASE \E s \in SymsRead : e.arg = Sym(s)
  BY <1>1, OpIs, LiteralIsTree DEF IsLiteral, IsTest
<1>2. CASE n >= 1 /\ Tree(e.arg, n - 1)
  <2>1. n - 1 \in Nat /\ n - 1 <= n
    BY <1>2
  <2> QED BY <1>2, <2>1, OpIs, TreeAbove
<1> QED BY <1>1, <1>2, OpIs

LEMMA ForestAbove ==
  ASSUME NEW n \in Nat, NEW m \in Nat, n <= m, NEW es, Forest(es, n)
  PROVE  Forest(es, m)
  BY TreeAbove DEF Forest

\* The operands of e in a list of kind op
LEMMA OperandsAre ==
  ASSUME NoModules, CallsOfValue, NEW n \in Nat, NEW op \in Ops, NEW e, Tree(e, n)
  PROVE  LET es == Operands(op, e)
         IN  /\ Forest(es, n) /\ Len(es) > 0
             /\ \A i \in 1 .. Len(es) : es[i].op # op
             /\ \A f \in Assignments : Holds(e, f) <=> ListHolds(op, es, f)
             /\ e.op = op => es = e.args /\ Len(es) > 1
             /\ e.op # op => es = <<e>>
<1>1. CASE e.op = op
  <2>1. Operands(op, e) = e.args
    BY <1>1 DEF Operands
  <2>2. /\ e = Node(op, e.args) /\ n >= 2 /\ Forest(e.args, n - 2)
        /\ Len(e.args) > 1 /\ \A i \in 1 .. Len(e.args) : e.args[i].op # op
    BY <1>1, OpIs
  <2>3. n - 2 \in Nat /\ n - 2 <= n
    BY <2>2
  <2>4. Forest(e.args, n) /\ IsForest(e.args) /\ Len(e.args) > 0
    BY <2>2, <2>3, ForestAbove, ForestTrees DEF IsForest
  <2>5. \A f \in Assignments : Holds(Node(op, e.args), f) <=> ListHolds(op, e.args, f)
    BY <2>4, NodeHolds
  <2> QED BY <1>1, <2>1, <2>2, <2>4, <2>5
<1>2. CASE e.op # op
  <2>1. Operands(op, e) = <<e>>
    BY <1>2 DEF Operands
  <2>2. Forest(<<e>>, n) /\ Len(<<e>>) = 1 /\ <<e>>[1] = e
    <3>1. <<e>> = [i \in 1 .. 1 |-> <<e>>[i]] /\ <<e>>[1] = e
      OBVIOUS
    <3>2. \A i \in 1 .. 1 : Tree(<<e>>[i], n)
      BY <3>1
    <3> QED BY <3>1, <3>2, ForestIs
  <2>3. \A f \in Assignments : Holds(e, f) <=> ListHolds(op, <<e>>, f)
    BY <2>2 DEF ListHolds
  <2> QED BY <1>2, <2>1, <2>2, <2>3
<1> QED BY <1>1, <1>2

LEMMA OfIs ==
  ASSUME NoModules, CallsOfValue, NEW n \in Nat, NEW op \in Ops, NEW es, Forest(es, n),
         Len(es) > 0
  PROVE  LET r == Of(op, es)
         IN  /\ Tree(r, n + 2)
             /\ \A f \in Assignments : Holds(r, f) <=> ListHolds(op, es, f)
             /\ Len(es) > 1 =>
                  /\ r.op = op /\ Forest(r.args, n)
                  /\ (\A i \in 1 .. Len(es) : es[i].op # op) =>
                       \A k \in 1 .. Len(r.args) : \E i \in 1 .. Len(es) : r.args[k] = es[i]
<1> DEFINE I == 1 .. Len(es)
           ss == [i \in DOMAIN es |-> Operands(op, es[i])]
           all == FlattenSeq(ss)
           U == UNION {{ss[i][j] : j \in 1 .. Len(ss[i])} : i \in I}
<1>1. Len(es) \in Nat /\ DOMAIN es = I /\ \A i \in I : Tree(es[i], n)
  BY ForestTrees
<1>2. \A i \in I : /\ ss[i] = Operands(op, es[i]) /\ Forest(ss[i], n) /\ Len(ss[i]) > 0
                   /\ \A j \in 1 .. Len(ss[i]) : ss[i][j].op # op
                   /\ \A f \in Assignments : Holds(es[i], f) <=> ListHolds(op, ss[i], f)
                   /\ es[i].op # op => ss[i] = <<es[i]>>
  <2> TAKE i \in I
  <2>1. ss[i] = Operands(op, es[i])
    BY <1>1
  <2> HIDE DEF ss
  <2> QED BY <1>1, <2>1, OperandsAre
<1>3. ss = [i \in I |-> ss[i]]
  BY <1>1
<1> HIDE DEF ss
<1>4. \A i \in I : /\ ss[i] \in Seq(U) /\ ss[i] # <<>>
                   /\ \A j \in 1 .. Len(ss[i]) : ss[i][j] \in U /\ Tree(ss[i][j], n)
  <2> TAKE i \in I
  <2>1. \A j \in 1 .. Len(ss[i]) : ss[i][j] \in U /\ Tree(ss[i][j], n)
    <3>1. \A j \in 1 .. Len(ss[i]) : ss[i][j] \in U
      OBVIOUS
    <3> HIDE DEF U
    <3> QED BY <1>2, <3>1, ForestTrees
  <2> HIDE DEF U
  <2>2. \E T : ss[i] \in Seq(T)
    BY <1>2 DEF Forest
  <2>3. ss[i] \in Seq(U)
    BY <2>1, <2>2
  <2> QED BY <1>2, <2>1, <2>3
<1>5. ss \in Seq(Seq(U)) /\ Len(ss) = Len(es) /\ ss # <<>>
  <2> HIDE DEF U
  <2>1. ss \in [I -> Seq(U)]
    BY <1>3, <1>4
  <2> QED BY <1>1, <2>1
<1>6. \A x \in U : Tree(x, n) /\ x.op # op
  <2> TAKE x \in U
  <2>1. PICK i \in I : \E j \in 1 .. Len(ss[i]) : x = ss[i][j]
    OBVIOUS
  <2> HIDE DEF U
  <2> QED BY <1>2, <1>4, <2>1
<1> HIDE DEF U
<1>7. /\ all \in Seq(U)
      /\ \A k \in 1 .. Len(all) : \E i \in I : \E j \in 1 .. Len(ss[i]) : all[k] = ss[i][j]
      /\ \A i \in I : \A j \in 1 .. Len(ss[i]) : \E k \in 1 .. Len(all) : all[k] = ss[i][j]
      /\ Len(all) >= Len(es)
  <2>1. \A i \in 1 .. Len(ss) : ss[i] # <<>>
    BY <1>4, <1>5
  <2>2. /\ all \in Seq(U)
        /\ \A k \in 1 .. Len(all) : \E i \in 1 .. Len(ss) :
             \E j \in 1 .. Len(ss[i]) : all[k] = ss[i][j]
        /\ \A i \in 1 .. Len(ss) : \A j \in 1 .. Len(ss[i]) :
             \E k \in 1 .. Len(all) : all[k] = ss[i][j]
        /\ (\A i \in 1 .. Len(ss) : ss[i] # <<>>) => Len(all) >= Len(ss)
    BY <1>5, Flattened
  <2> HIDE DEF all
  <2> QED BY <1>5, <2>1, <2>2
<1>8. Of(op, es) = IF Len(all) = 1 THEN all[1] ELSE Node(op, all)
  BY DEF Of, Node, ss
<1> HIDE DEF all
<1>9. Forest(all, n) /\ \A k \in 1 .. Len(all) : all[k].op # op
  BY <1>6, <1>7 DEF Forest
<1>10. Len(all) \in Nat /\ \A k \in 1 .. Len(all) : Tree(all[k], n)
  BY <1>6, <1>7
<1>11. \A f \in Assignments : ListHolds(op, all, f) <=> ListHolds(op, es, f)
  <2> TAKE f \in Assignments
  <2>1. \A i \in I : Holds(es[i], f) <=> ListHolds(op, ss[i], f)
    BY <1>2
  <2>2. CASE op = "and"
    <3>1. \A i \in I : Holds(es[i], f) <=> \A j \in 1 .. Len(ss[i]) : Holds(ss[i][j], f)
      BY <2>1, <2>2 DEF ListHolds
    <3>2. (\A k \in 1 .. Len(all) : Holds(all[k], f))
             <=> \A i \in I : \A j \in 1 .. Len(ss[i]) : Holds(ss[i][j], f)
      BY <1>7
    <3> QED BY <2>2, <3>1, <3>2 DEF ListHolds
  <2>3. CASE op # "and"
    <3>1. \A i \in I : Holds(es[i], f) <=> \E j \in 1 .. Len(ss[i]) : Holds(ss[i][j], f)
      BY <2>1, <2>3 DEF ListHolds
    <3>2. (\E k \in 1 .. Len(all) : Holds(all[k], f))
             <=> \E i \in I : \E j \in 1 .. Len(ss[i]) : Holds(ss[i][j], f)
      BY <1>7
    <3> QED BY <2>3, <3>1, <3>2 DEF ListHolds
  <2> QED BY <2>2, <2>3
<1>12. CASE Len(all) = 1
  <2>1. Of(op, es) = all[1] /\ Tree(all[1], n) /\ n + 2 \in Nat /\ n <= n + 2
    BY <1>10, <1>8, <1>12
  <2>2. Tree(all[1], n + 2)
    BY <2>1, TreeAbove
  <2>3. \A f \in Assignments : Holds(all[1], f) <=> ListHolds(op, all, f)
    BY <1>12 DEF ListHolds
  <2> QED BY <1>1, <1>7, <1>11, <1>12, <2>1, <2>2, <2>3
<1>13. CASE Len(all) # 1
  <2>1. Len(all) > 1 /\ Len(all) > 0
    <3> DEFINE a == Len(all)
               b == Len(es)
    <3>1. a \in Nat /\ b \in Nat /\ a >= b /\ b > 0 /\ a # 1
      BY <1>1, <1>10, <1>7, <1>13
    <3> HIDE DEF a, b
    <3>2. a > 1 /\ a > 0
      BY <3>1
    <3> QED BY <3>2 DEF a
  <2>2. Of(op, es) = Node(op, all)
    BY <1>8, <1>13
  <2>3. Tree(Node(op, all), n + 2)
    BY <1>9, <2>1, ListIsTree
  <2>4. \A f \in Assignments : Holds(Node(op, all), f) <=> ListHolds(op, all, f)
    BY <1>9, <2>1, NodeHolds DEF IsForest
  <2>5. Node(op, all).op = op /\ Node(op, all).args = all
    BY DEF Node
  <2>6. ASSUME \A i \in I : es[i].op # op, NEW k \in 1 .. Len(all)
        PROVE  \E i \in I : all[k] = es[i]
    <3>1. PICK i \in I : \E j \in 1 .. Len(ss[i]) : all[k] = ss[i][j]
      BY <1>7
    <3>2. ss[i] = <<es[i]>>
      BY <1>2, <2>6
    <3> QED BY <3>1, <3>2
  <2> QED BY <1>9, <1>11, <2>2, <2>3, <2>4, <2>5, <2>6
<1> QED BY <1>12, <1>13

-----------------------------------------------------------------------------
(* y and n.                                                                *)

CallsOfEliminateYn == \A e : IsTree(e) => CallEliminateYn(e) = EliminateYn(e)

Same(x, e) == \A f \in Assignments : Holds(x, f) <=> Holds(e, f)

LEMMA UnitIs ==
  ASSUME NoModules, NEW op \in Ops
  PROVE  /\ IsLiteral(Unit(op)) /\ IsLiteral(Zero(op))
         /\ Unit(op).op = "sym" /\ Zero(op).op = "sym"
         /\ \A f \in Assignments : Holds(Unit(op), f) <=> op = "and"
         /\ \A f \in Assignments : Holds(Zero(op), f) <=> op = "or"
<1>1. "y" \in SymsRead /\ "n" \in SymsRead /\ op \in {"and", "or"}
  BY DEF SymsRead, Ops
<1>2. IsTest(Sym("y")) /\ IsTest(Sym("n"))
  BY <1>1 DEF IsTest
<1>3. Sym("y").op = "sym" /\ Sym("n").op = "sym"
  BY DEF Sym
<1>4. \A f \in Assignments : Holds(Sym("y"), f) /\ ~Holds(Sym("n"), f)
  <2> TAKE f \in Assignments
  <2>1. Value(Sym("y"), f) = TestValue(Sym("y"), f) /\ Value(Sym("n"), f) = TestValue(Sym("n"), f)
    BY <1>2, TestIs
  <2>2. TestValue(Sym("y"), f) = 2 /\ TestValue(Sym("n"), f) = 0
    BY Constants DEF TestValue, Sym
  <2> QED BY <2>1, <2>2 DEF Holds
<1> QED BY <1>1, <1>2, <1>3, <1>4 DEF Unit, Zero, IsLiteral

LEMMA WithoutIs ==
  ASSUME NEW n \in Nat, NEW es, Forest(es, n), Len(es) > 0, NEW x
  PROVE  LET r == Without(es, x)
         IN  /\ Forest(r, n)
             /\ \A k \in 1 .. Len(r) : r[k] # x /\ \E i \in 1 .. Len(es) : r[k] = es[i]
             /\ \A i \in 1 .. Len(es) : es[i] # x => \E k \in 1 .. Len(r) : r[k] = es[i]
<1>1. PICK T : es \in Seq(T) /\ \A y \in T : Tree(y, n)
  BY DEF Forest
<1> DEFINE ss == [i \in DOMAIN es |-> IF es[i] = x THEN <<>> ELSE <<es[i]>>]
           r == FlattenSeq(ss)
<1>2. Len(es) \in Nat /\ DOMAIN es = 1 .. Len(es) /\ \A i \in 1 .. Len(es) : es[i] \in T
  BY <1>1
<1>3. \A i \in 1 .. Len(es) : /\ ss[i] = IF es[i] = x THEN <<>> ELSE <<es[i]>>
                              /\ ss[i] \in Seq(T)
  BY <1>2
<1>4. ss \in Seq(Seq(T)) /\ Len(ss) = Len(es) /\ ss # <<>>
  <2>1. ss = [i \in 1 .. Len(es) |-> ss[i]]
    BY <1>2
  <2> HIDE DEF ss
  <2>2. ss \in [1 .. Len(es) -> Seq(T)]
    BY <1>3, <2>1
  <2> QED BY <1>2, <2>2
<1>5. Without(es, x) = r
  BY DEF Without
<1> HIDE DEF ss
<1>6. /\ r \in Seq(T)
      /\ \A k \in 1 .. Len(r) : \E i \in 1 .. Len(ss) : \E j \in 1 .. Len(ss[i]) : r[k] = ss[i][j]
      /\ \A i \in 1 .. Len(ss) : \A j \in 1 .. Len(ss[i]) : \E k \in 1 .. Len(r) : r[k] = ss[i][j]
  BY <1>4, Flattened
<1> HIDE DEF r
<1>7. \A i \in 1 .. Len(es) :
        /\ \A j \in 1 .. Len(ss[i]) : ss[i][j] = es[i] /\ es[i] # x
        /\ es[i] # x => 1 \in 1 .. Len(ss[i]) /\ ss[i][1] = es[i]
  <2> TAKE i \in 1 .. Len(es)
  <2>1. CASE es[i] = x
    <3>1. ss[i] = <<>>
      BY <1>3, <2>1
    <3> QED BY <2>1, <3>1
  <2>2. CASE es[i] # x
    <3>1. ss[i] = <<es[i]>>
      BY <1>3, <2>2
    <3>2. Len(ss[i]) = 1 /\ ss[i][1] = es[i]
      BY <3>1
    <3> QED BY <2>2, <3>2
  <2> QED BY <2>1, <2>2
<1>8. Forest(r, n)
  BY <1>1, <1>6 DEF Forest
<1>9. \A k \in 1 .. Len(r) : r[k] # x /\ \E i \in 1 .. Len(es) : r[k] = es[i]
  <2> TAKE k \in 1 .. Len(r)
  <2>1. PICK i \in 1 .. Len(ss) : \E j \in 1 .. Len(ss[i]) : r[k] = ss[i][j]
    BY <1>6
  <2> QED BY <1>4, <1>7, <2>1
<1>10. \A i \in 1 .. Len(es) : es[i] # x => \E k \in 1 .. Len(r) : r[k] = es[i]
  <2> TAKE i \in 1 .. Len(es)
  <2> SUFFICES ASSUME es[i] # x PROVE \E k \in 1 .. Len(r) : r[k] = es[i]
    OBVIOUS
  <2>1. 1 \in 1 .. Len(ss[i]) /\ ss[i][1] = es[i] /\ i \in 1 .. Len(ss)
    BY <1>4, <1>7
  <2>2. \E k \in 1 .. Len(r) : r[k] = ss[i][1]
    BY <1>6, <2>1
  <2> QED BY <2>1, <2>2
<1> QED BY <1>5, <1>8, <1>9, <1>10

\* expr_eliminate_yn keeps the value of every expression.
LEMMA EliminateYnIs ==
  ASSUME NoModules, CallsOfValue, CallsOfEliminateYn
  PROVE  \A n \in Nat : \A e : Tree(e, n) => Tree(EliminateYn(e), n) /\ Same(EliminateYn(e), e)
<1> DEFINE P(n) == \A e : Tree(e, n) => Tree(EliminateYn(e), n) /\ Same(EliminateYn(e), e)
           S == {n \in Nat : P(n)}
<1>1. ASSUME NEW n \in Nat, \A m \in Nat : m < n => m \in S, NEW e, Tree(e, n)
      PROVE  Tree(EliminateYn(e), n) /\ Same(EliminateYn(e), e)
  <2>1. CASE e.op \notin Ops
    BY <1>1, <2>1 DEF EliminateYn, Same
  <2>2. CASE e.op \in Ops
    <3> DEFINE op == e.op
               N == Len(e.args)
               es == [i \in DOMAIN e.args |-> CallEliminateYn(e.args[i])]
               rest == Without(es, Unit(op))
    <3>1. /\ e = Node(op, e.args) /\ n - 2 \in Nat /\ n - 2 < n /\ Forest(e.args, n - 2)
          /\ N > 1 /\ N \in Nat /\ DOMAIN e.args = 1 .. N
          /\ \A i \in 1 .. N : Tree(e.args[i], n - 2)
      <4>1. e = Node(op, e.args) /\ n >= 2 /\ Forest(e.args, n - 2) /\ N > 1
        BY <1>1, <2>2, OpIs
      <4>2. n - 2 \in Nat /\ n - 2 < n
        BY <4>1
      <4> QED BY <4>1, <4>2, ForestTrees
    <3>2. \A f \in Assignments : Holds(e, f) <=> ListHolds(op, e.args, f)
      <4>1. IsForest(e.args) /\ N > 0
        BY <3>1 DEF IsForest
      <4>2. \A f \in Assignments : Holds(Node(op, e.args), f) <=> ListHolds(op, e.args, f)
        BY <2>2, <4>1, NodeHolds
      <4> QED BY <3>1, <4>2
    <3>3. P(n - 2)
      BY <1>1, <3>1
    <3> HIDE DEF P, S
    <3>4. \A i \in 1 .. N : Tree(es[i], n - 2) /\ Same(es[i], e.args[i])
      <4> TAKE i \in 1 .. N
      <4>1. es[i] = EliminateYn(e.args[i])
        BY <3>1 DEF CallsOfEliminateYn, IsTree
      <4> HIDE DEF es
      <4> QED BY <3>1, <3>3, <4>1 DEF P
    <3>5. Forest(es, n - 2) /\ Len(es) = N
      <4>1. es = [i \in 1 .. N |-> es[i]]
        BY <3>1
      <4> HIDE DEF es
      <4> QED BY <3>1, <3>4, <4>1, ForestIs
    <3>6. EliminateYn(e) = IF \E i \in 1 .. N : es[i] = Zero(op) THEN Zero(op)
                           ELSE IF rest = <<>> THEN Unit(op) ELSE Of(op, rest)
      <4>1. DOMAIN es = 1 .. N
        BY <3>1
      <4> QED BY <2>2, <4>1 DEF EliminateYn
    <3>7. \A f \in Assignments : ListHolds(op, es, f) <=> Holds(e, f)
      BY <3>2, <3>4, <3>5 DEF ListHolds, Same
    <3>8. /\ Forest(rest, n - 2)
          /\ \A k \in 1 .. Len(rest) : rest[k] # Unit(op) /\ \E i \in 1 .. N : rest[k] = es[i]
          /\ \A i \in 1 .. N : es[i] # Unit(op) => \E k \in 1 .. Len(rest) : rest[k] = es[i]
      <4> HIDE DEF es
      <4>1. Len(es) > 0
        BY <3>1, <3>5
      <4> QED BY <3>1, <3>5, <4>1, WithoutIs
    <3>9. IsLiteral(Unit(op)) /\ IsLiteral(Zero(op))
      BY <2>2, UnitIs
    <3>10. /\ \A f \in Assignments : Holds(Unit(op), f) <=> op = "and"
           /\ \A f \in Assignments : Holds(Zero(op), f) <=> op = "or"
           /\ op \in {"and", "or"}
      BY <2>2, UnitIs DEF Ops
    <3> HIDE DEF es, rest, op, N
    <3>11. \A f \in Assignments : ListHolds(op, rest, f) <=> Holds(e, f)
      <4> TAKE f \in Assignments
      <4>1. CASE op = "and"
        BY <3>5, <3>7, <3>8, <3>10, <4>1 DEF ListHolds
      <4>2. CASE op = "or"
        BY <3>5, <3>7, <3>8, <3>10, <4>2 DEF ListHolds
      <4> QED BY <3>10, <4>1, <4>2
    <3>12. CASE \E i \in 1 .. N : es[i] = Zero(op)
      <4>1. \A f \in Assignments : Holds(e, f) <=> Holds(Zero(op), f)
        BY <3>5, <3>7, <3>10, <3>12 DEF ListHolds
      <4>2. Tree(Zero(op), n)
        BY <3>9, LiteralIsTree
      <4> QED BY <3>6, <3>12, <4>1, <4>2 DEF Same
    <3>13. CASE ~(\E i \in 1 .. N : es[i] = Zero(op)) /\ rest = <<>>
      <4>1. Len(rest) = 0
        BY <3>13
      <4>2. \A f \in Assignments : Holds(e, f) <=> Holds(Unit(op), f)
        BY <3>10, <3>11, <4>1 DEF ListHolds
      <4>3. Tree(Unit(op), n)
        BY <3>9, LiteralIsTree
      <4> QED BY <3>6, <3>13, <4>2, <4>3 DEF Same
    <3>14. CASE ~(\E i \in 1 .. N : es[i] = Zero(op)) /\ rest # <<>>
      <4>1. Len(rest) > 0
        <5>1. \E T : rest \in Seq(T)
          BY <3>8 DEF Forest
        <5> QED BY <3>14, <5>1
      <4>2. /\ Tree(Of(op, rest), n - 2 + 2)
            /\ \A f \in Assignments : Holds(Of(op, rest), f) <=> ListHolds(op, rest, f)
        BY <3>1, <3>8, <2>2, <4>1, OfIs DEF op
      <4>3. n - 2 + 2 = n
        BY <3>1
      <4> QED BY <3>6, <3>11, <3>14, <4>2, <4>3 DEF Same
    <3> QED BY <3>12, <3>13, <3>14
  <2> QED BY <2>1, <2>2
<1>2. \A n \in Nat : (\A m \in Nat : m < n => m \in S) => n \in S
  BY <1>1
<1> HIDE DEF S
<1>3. Nat \subseteq S
  BY <1>2, AllNumbers
<1> QED BY <1>3 DEF S

-----------------------------------------------------------------------------
(* The walks that go to every operand.                                     *)

LEMMA NodeIs ==
  ASSUME NoModules, CallsOfValue, NEW n \in Nat, NEW e, Tree(e, n), e.op \in Ops
  PROVE  /\ e = Node(e.op, e.args) /\ n >= 2 /\ n - 2 \in Nat /\ n - 2 < n /\ Forest(e.args, n - 2)
         /\ Len(e.args) > 1 /\ Len(e.args) \in Nat /\ DOMAIN e.args = 1 .. Len(e.args)
         /\ \A i \in 1 .. Len(e.args) : Tree(e.args[i], n - 2)
         /\ \A f \in Assignments : Holds(e, f) <=> ListHolds(e.op, e.args, f)
<1>1. e = Node(e.op, e.args) /\ n >= 2 /\ Forest(e.args, n - 2) /\ Len(e.args) > 1
  BY OpIs
<1>2. n - 2 \in Nat /\ n - 2 < n
  BY <1>1
<1>3. /\ Len(e.args) \in Nat /\ DOMAIN e.args = 1 .. Len(e.args)
      /\ \A i \in 1 .. Len(e.args) : Tree(e.args[i], n - 2)
  BY <1>1, <1>2, ForestTrees
<1>4. \A f \in Assignments : Holds(Node(e.op, e.args), f) <=> ListHolds(e.op, e.args, f)
  <2>1. IsForest(e.args) /\ Len(e.args) > 0
    BY <1>1, <1>2, <1>3 DEF IsForest
  <2> QED BY <2>1, NodeHolds
<1> QED BY <1>1, <1>2, <1>3, <1>4

\* A list whose operands are replaced by others of the same value
LEMMA MapIs ==
  ASSUME NoModules, CallsOfValue, NEW n \in Nat, NEW e, Tree(e, n), e.op \in Ops,
         NEW es, es = [i \in DOMAIN e.args |-> es[i]],
         \A i \in 1 .. Len(e.args) : Tree(es[i], n - 2) /\ Same(es[i], e.args[i])
  PROVE  Tree(Of(e.op, es), n) /\ Same(Of(e.op, es), e) /\ Of(e.op, es).op = e.op
<1>1. /\ n - 2 \in Nat /\ n - 2 + 2 = n
      /\ Len(e.args) > 1 /\ Len(e.args) \in Nat /\ DOMAIN e.args = 1 .. Len(e.args)
      /\ \A f \in Assignments : Holds(e, f) <=> ListHolds(e.op, e.args, f)
  BY NodeIs
<1>2. Forest(es, n - 2) /\ Len(es) = Len(e.args)
  <2>1. /\ Len(e.args) \in Nat /\ es = [i \in 1 .. Len(e.args) |-> es[i]]
        /\ \A i \in 1 .. Len(e.args) : Tree(es[i], n - 2)
    BY <1>1, Zenon
  <2> QED BY <2>1, ForestIs, Zenon
<1>3. \A f \in Assignments : ListHolds(e.op, es, f) <=> ListHolds(e.op, e.args, f)
  <2>1. \A f \in Assignments : \A i \in 1 .. Len(e.args) : Holds(es[i], f) <=> Holds(e.args[i], f)
    <3>1. \A i \in 1 .. Len(e.args) : Same(es[i], e.args[i])
      OBVIOUS
    <3> QED BY <3>1 DEF Same
  <2>2. Len(es) = Len(e.args)
    BY <1>2
  <2> QED BY <2>1, <2>2, Zenon DEF ListHolds
<1>4. Len(es) > 0 /\ Len(es) > 1
  BY <1>1, <1>2
<1>5. /\ Tree(Of(e.op, es), n - 2 + 2) /\ Of(e.op, es).op = e.op
      /\ \A f \in Assignments : Holds(Of(e.op, es), f) <=> ListHolds(e.op, es, f)
  <2>1. n - 2 \in Nat
    BY <1>1
  <2> QED BY <1>2, <1>4, <2>1, OfIs
<1> QED BY <1>1, <1>3, <1>5 DEF Same

\* A test, or the negation of a symbol, has the value that the rules are about.
LEMMA ValIs ==
  ASSUME NoModules, CallsOfValue, NEW e, IsLiteral(e), NEW f \in Assignments
  PROVE  Value(e, f) = Val(e, f)
<1>1. CASE IsTest(e)
  BY <1>1, TestIs DEF Val
<1>2. ASSUME NEW s \in SymsRead, e = Not(Sym(s))
      PROVE  Value(e, f) = Val(e, f)
  <2>1. IsTest(Sym(s)) /\ IsTree(Sym(s))
    BY LiteralIsTree DEF IsTest, IsLiteral, IsTree
  <2>2. Value(e, f) = 2 - TestValue(Sym(s), f)
    BY <1>2, <2>1, TestIs, NotIs
  <2> QED BY <1>2, <2>2 DEF Val, Not
<1> QED BY <1>1, <1>2 DEF IsLiteral

LEMMA SymIs ==
  ASSUME NoModules, NEW s \in SymsRead
  PROVE  /\ IsTest(Sym(s)) /\ IsLiteral(Sym(s)) /\ IsLiteral(Not(Sym(s)))
         /\ Sym(s).op = "sym" /\ Sym(s).sym = s /\ Not(Sym(s)).op = "not"
         /\ Not(Sym(s)).arg = Sym(s)
         /\ \A f \in Assignments : Holds(Sym(s), f) <=> TristateOf(s, f) = 2
<1>1. IsTest(Sym(s)) /\ Sym(s).op = "sym" /\ Sym(s).sym = s
  BY DEF IsTest, Sym
<1>2. \A f \in Assignments : Holds(Sym(s), f) <=> TristateOf(s, f) = 2
  BY <1>1, TestIs DEF TestValue, Holds
<1> QED BY <1>1, <1>2 DEF IsLiteral, Not

LEMMA TestOfSym ==
  ASSUME NEW e, IsTest(e), e.op = "sym"
  PROVE  \E s \in SymsRead : e = Sym(s)
  BY DEF IsTest, Comp

LEMMA TestOfComp ==
  ASSUME NEW e, IsTest(e), e.op \in {"=", "!="}
  PROVE  e = Comp(e.op, e.sym, e.with) /\ (e.sym \in Strs => e.with \in Texts)
  BY DEF IsTest, Comp, Sym

LEMMA CompIs ==
  ASSUME NoModules, NEW op \in {"=", "!="}, NEW s, NEW c, s \in Strs => c \in Texts
  PROVE  /\ IsTest(Comp(op, s, c)) /\ IsLiteral(Comp(op, s, c))
         /\ Comp(op, s, c).op = op /\ Comp(op, s, c).sym = s /\ Comp(op, s, c).with = c
         /\ \A f \in Assignments :
              Holds(Comp(op, s, c), f) <=> (op = "=" <=> StringOf(s, f) = StringOf(c, f))
<1>1. IsTest(Comp(op, s, c))
  BY DEF IsTest
<1>2. Comp(op, s, c).op = op /\ Comp(op, s, c).sym = s /\ Comp(op, s, c).with = c
  BY DEF Comp
<1>3. \A f \in Assignments :
        Holds(Comp(op, s, c), f) <=> (op = "=" <=> StringOf(s, f) = StringOf(c, f))
  BY <1>1, <1>2, TestIs DEF TestValue, Holds
<1> QED BY <1>1, <1>2, <1>3 DEF IsLiteral

CallsOfTransBool == \A e : IsTree(e) => CallTransBool(e) = TransBool(e)

LEMMA TransBoolOfTest ==
  ASSUME NoModules, NEW e, IsTest(e)
  PROVE  IsTest(TransBool(e)) /\ Same(TransBool(e), e)
<1>1. e.op \in {"sym", "=", "!="}
  BY TestOp
<1>2. CASE e.op = "!=" /\ e.sym \in Tris /\ e.with = "n"
  <2>1. TransBool(e) = Sym(e.sym) /\ e = Comp("!=", e.sym, "n") /\ e.sym \in SymsRead
    BY <1>2, TestOfComp DEF TransBool, Ops, SymsRead, Tristates
  <2> DEFINE s == e.sym
  <2>2. \A f \in Assignments : Holds(Sym(s), f) <=> Holds(Comp("!=", s, "n"), f)
    <3> TAKE f \in Assignments
    <3>1. /\ Holds(Comp("!=", s, "n"), f) <=> StringOf(s, f) # StringOf("n", f)
          /\ Holds(Sym(s), f) <=> TristateOf(s, f) = 2
      BY <2>1, NoString, CompIs, SymIs
    <3>2. StringOf("n", f) = "n" /\ StringOf(s, f) \in {"y", "n"}
      <4>1. s \in Syms /\ f[s] \in {"y", "n"}
        BY <1>2 DEF Syms, Assignments, NoModules
      <4> QED BY <4>1, Constants DEF StringOf, YMN
    <3> QED BY <3>1, <3>2 DEF TristateOf
  <2> QED BY <2>1, <2>2, SymIs DEF Same
<1>3. CASE ~(e.op = "!=" /\ e.sym \in Tris /\ e.with = "n")
  BY <1>1, <1>3 DEF TransBool, Ops, Same
<1> QED BY <1>2, <1>3

\* expr_trans_bool keeps the value of every expression.
LEMMA TransBoolIs ==
  ASSUME NoModules, CallsOfValue, CallsOfTransBool
  PROVE  \A n \in Nat : \A e : Tree(e, n) => Tree(TransBool(e), n) /\ Same(TransBool(e), e)
<1> DEFINE P(n) == \A e : Tree(e, n) => Tree(TransBool(e), n) /\ Same(TransBool(e), e)
           S == {n \in Nat : P(n)}
<1>1. ASSUME NEW n \in Nat, \A m \in Nat : m < n => m \in S, NEW e, Tree(e, n)
      PROVE  Tree(TransBool(e), n) /\ Same(TransBool(e), e)
  <2>1. \A m \in Nat : m < n => P(m)
    BY <1>1
  <2> HIDE DEF P, S
  <2>2. CASE IsTest(e)
    BY <2>2, TransBoolOfTest, LiteralIsTree DEF IsLiteral
  <2>3. CASE e.op = "not"
    <3>1. e = Not(e.arg) /\ IsTree(e.arg)
      BY <1>1, <2>3, ArgIsTree DEF IsTree
    <3>2. TransBool(e) = Not(TransBool(e.arg))
      BY <2>3, <3>1 DEF TransBool, CallsOfTransBool, Ops
    <3>3. CASE \E s \in SymsRead : e.arg = Sym(s)
      <4>1. PICK s \in SymsRead : e.arg = Sym(s)
        BY <3>3
      <4>2. TransBool(e.arg) = e.arg
        BY <4>1, SymIs DEF TransBool, Ops
      <4> QED BY <1>1, <3>1, <3>2, <4>2 DEF Same
    <3>4. CASE n >= 1 /\ Tree(e.arg, n - 1)
      <4>1. n - 1 \in Nat /\ n - 1 < n /\ n - 1 + 1 = n
        BY <3>4
      <4>2. Tree(TransBool(e.arg), n - 1) /\ Same(TransBool(e.arg), e.arg)
        BY <2>1, <3>4, <4>1 DEF P
      <4>3. Tree(Not(TransBool(e.arg)), n)
        BY <4>1, <4>2, NotIsTree
      <4>4. \A f \in Assignments :
              /\ Holds(Not(TransBool(e.arg)), f) <=> ~Holds(TransBool(e.arg), f)
              /\ Holds(Not(e.arg), f) <=> ~Holds(e.arg, f)
        BY <3>1, <4>1, <4>2, NotHolds DEF IsTree
      <4> QED BY <3>1, <3>2, <4>2, <4>3, <4>4 DEF Same
    <3> QED BY <1>1, <2>3, <3>3, <3>4, OpIs
  <2>4. CASE e.op \in Ops
    <3> DEFINE es == [i \in DOMAIN e.args |-> CallTransBool(e.args[i])]
    <3>1. n - 2 \in Nat /\ n - 2 < n /\ DOMAIN e.args = 1 .. Len(e.args)
          /\ \A i \in 1 .. Len(e.args) : Tree(e.args[i], n - 2)
      BY <1>1, <2>4, NodeIs
    <3>2. \A i \in 1 .. Len(e.args) : Tree(es[i], n - 2) /\ Same(es[i], e.args[i])
      <4> TAKE i \in 1 .. Len(e.args)
      <4>1. es[i] = TransBool(e.args[i])
        BY <3>1 DEF CallsOfTransBool, IsTree
      <4> QED BY <2>1, <3>1, <4>1 DEF P
    <3>3. TransBool(e) = Of(e.op, es)
      BY <2>4, Zenon DEF TransBool, Ops
    <3>4. es = [i \in DOMAIN e.args |-> es[i]]
      OBVIOUS
    <3> HIDE DEF es
    <3> QED BY <1>1, <2>4, <3>2, <3>3, <3>4, MapIs
  <2> QED BY <1>1, <2>2, <2>3, <2>4, OpIs
<1>2. \A n \in Nat : (\A m \in Nat : m < n => m \in S) => n \in S
  BY <1>1
<1> HIDE DEF S
<1>3. Nat \subseteq S
  BY <1>2, AllNumbers
<1> QED BY <1>3 DEF S

CallsOfCompare == \A e, op : IsTree(e) => CallCompare(e, op) = Compare(e, op)

\* e = n and e != n, for an expression of level n
ComparedRight(e, n) ==
  /\ Tree(Compare(e, "="), n + 1) /\ Tree(Compare(e, "!="), n + 2)
  /\ \A f \in Assignments : /\ Holds(Compare(e, "="), f) <=> ~Holds(e, f)
                            /\ Holds(Compare(e, "!="), f) <=> Holds(e, f)

LEMMA CompareOfTest ==
  ASSUME NoModules, CallsOfValue, NEW n \in Nat, NEW e, IsTest(e)
  PROVE  /\ ComparedRight(e, n)
         /\ e.op = "sym" => IsLiteral(Compare(e, "=")) /\ IsLiteral(Compare(e, "!="))
<1>1. e.op \in {"sym", "=", "!="} /\ n + 1 \in Nat /\ n + 2 \in Nat /\ IsLiteral(e)
  BY TestOp DEF IsLiteral
<1>2. CASE e.op = "sym"
  <2>1. PICK s \in SymsRead : e = Sym(s)
    BY <1>2, TestOfSym
  <2>2. Compare(e, "=") = Comp("=", s, "n") /\ Compare(e, "!=") = Comp("!=", s, "n")
    BY <2>1, SymIs DEF Compare
  <2>3. ASSUME NEW f \in Assignments
        PROVE  /\ Holds(Comp("=", s, "n"), f) <=> ~Holds(e, f)
               /\ Holds(Comp("!=", s, "n"), f) <=> Holds(e, f)
    <3>1. /\ Holds(Comp("=", s, "n"), f) <=> StringOf(s, f) = StringOf("n", f)
          /\ Holds(Comp("!=", s, "n"), f) <=> StringOf(s, f) # StringOf("n", f)
          /\ Holds(e, f) <=> TristateOf(s, f) = 2
      BY <2>1, NoString, CompIs, SymIs
    <3>2. StringOf("n", f) = "n"
      BY Constants DEF YMN
    <3>3. StringOf(s, f) \in {"y", "n"}
      <4>1. CASE s \in Tristates
        BY <4>1 DEF Tristates, Assignments, StringOf, Syms, NoModules
      <4>2. CASE s \in {"y", "n"}
        BY <4>2, Constants DEF YMN
      <4> QED BY <4>1, <4>2 DEF SymsRead
    <3> QED BY <3>1, <3>2, <3>3 DEF TristateOf
  <2>4. IsLiteral(Comp("=", s, "n")) /\ IsLiteral(Comp("!=", s, "n"))
    BY NoString, CompIs
  <2>5. Tree(Comp("=", s, "n"), n + 1) /\ Tree(Comp("!=", s, "n"), n + 2)
    BY <1>1, <2>4, LiteralIsTree
  <2> QED BY <2>2, <2>3, <2>4, <2>5 DEF ComparedRight
<1>3. CASE e.op \in {"=", "!="}
  <2>1. Compare(e, "=") = Not(e) /\ Compare(e, "!=") = e
    BY <1>3 DEF Compare
  <2>2. Tree(e, n) /\ Tree(e, n + 2)
    BY <1>1, LiteralIsTree
  <2>3. Tree(Not(e), n + 1)
    BY <2>2, NotIsTree
  <2>4. \A f \in Assignments : Holds(Not(e), f) <=> ~Holds(e, f)
    BY <2>2, NotHolds DEF IsTree
  <2> QED BY <1>3, <2>1, <2>2, <2>3, <2>4 DEF ComparedRight
<1> QED BY <1>1, <1>2, <1>3

\* expr_trans_compare with n: e!=n is as e, e=n is as its negation.
LEMMA CompareIs ==
  ASSUME NoModules, CallsOfValue, CallsOfCompare
  PROVE  \A n \in Nat : \A e : Tree(e, n) => ComparedRight(e, n)
<1> DEFINE P(n) == \A e : Tree(e, n) => ComparedRight(e, n)
           S == {n \in Nat : P(n)}
<1>1. ASSUME NEW n \in Nat, \A m \in Nat : m < n => m \in S, NEW e, Tree(e, n)
      PROVE  ComparedRight(e, n)
  <2>1. \A m \in Nat : m < n => P(m)
    BY <1>1
  <2> HIDE DEF P, S
  <2>2. CASE IsTest(e)
    BY <2>2, CompareOfTest
  <2>3. CASE e.op = "not"
    <3>1. e = Not(e.arg) /\ IsTree(e.arg)
      BY <1>1, <2>3, ArgIsTree DEF IsTree
    <3>2. Compare(e, "=") = Compare(e.arg, "!=") /\ Compare(e, "!=") = Compare(e.arg, "=")
      BY <2>3, <3>1 DEF Compare, CallsOfCompare, Other
    <3>3. \A f \in Assignments : Holds(e, f) <=> ~Holds(e.arg, f)
      BY <3>1, NotHolds
    <3>4. CASE \E s \in SymsRead : e.arg = Sym(s)
      <4>1. IsTest(e.arg) /\ e.arg.op = "sym"
        BY <3>4, SymIs
      <4>2. /\ IsLiteral(Compare(e.arg, "=")) /\ IsLiteral(Compare(e.arg, "!="))
            /\ ComparedRight(e.arg, 0)
        BY <4>1, CompareOfTest
      <4>3. Tree(Compare(e.arg, "="), n + 2) /\ Tree(Compare(e.arg, "!="), n + 1)
        BY <4>2, LiteralIsTree
      <4> QED BY <3>2, <3>3, <4>2, <4>3 DEF ComparedRight
    <3>5. CASE n >= 1 /\ Tree(e.arg, n - 1)
      <4>1. /\ n - 1 \in Nat /\ n - 1 < n /\ n - 1 + 1 = n /\ n - 1 + 2 = n + 1
            /\ n + 2 \in Nat /\ n <= n + 2
        BY <3>5
      <4>2. ComparedRight(e.arg, n - 1)
        BY <2>1, <3>5, <4>1 DEF P
      <4>3. Tree(Compare(e.arg, "="), n) /\ Tree(Compare(e.arg, "!="), n + 1)
        BY <4>1, <4>2 DEF ComparedRight
      <4>4. Tree(Compare(e.arg, "="), n + 2)
        BY <4>1, <4>3, TreeAbove
      <4> QED BY <3>2, <3>3, <4>2, <4>3, <4>4 DEF ComparedRight
    <3> QED BY <1>1, <2>3, <3>4, <3>5, OpIs
  <2>4. CASE e.op \in Ops
    <3> DEFINE N == Len(e.args)
               other == IF e.op = "and" THEN "or" ELSE "and"
               es == [i \in DOMAIN e.args |-> CallCompare(e.args[i], "=")]
               parts == Of(other, es)
    <3>1. /\ n - 2 \in Nat /\ n - 2 < n /\ n - 1 \in Nat /\ n - 2 + 1 = n - 1 /\ n - 1 + 2 = n + 1
          /\ DOMAIN e.args = 1 .. N /\ N \in Nat /\ N > 1 /\ N > 0
          /\ \A i \in 1 .. N : Tree(e.args[i], n - 2)
          /\ \A f \in Assignments : Holds(e, f) <=> ListHolds(e.op, e.args, f)
      <4>1. n >= 2
        BY <1>1, <2>4, NodeIs
      <4> QED BY <1>1, <2>4, <4>1, NodeIs
    <3>2. other \in Ops
      BY DEF Ops
    <3>3. \A i \in 1 .. N : /\ Tree(es[i], n - 1)
                            /\ \A f \in Assignments : Holds(es[i], f) <=> ~Holds(e.args[i], f)
      <4> TAKE i \in 1 .. N
      <4>1. es[i] = Compare(e.args[i], "=")
        BY <3>1 DEF CallsOfCompare, IsTree
      <4>2. ComparedRight(e.args[i], n - 2)
        BY <2>1, <3>1 DEF P
      <4> QED BY <3>1, <4>1, <4>2 DEF ComparedRight
    <3>4. es = [i \in 1 .. N |-> es[i]]
      BY <3>1
    <3>5. Compare(e, "=") = parts /\ Compare(e, "!=") = Not(parts)
      <4>1. CASE e.op = "and"
        BY <4>1, Zenon DEF Compare
      <4>2. CASE e.op = "or"
        BY <4>2, Zenon DEF Compare
      <4> QED BY <2>4, <4>1, <4>2 DEF Ops
    <3> HIDE DEF es, N
    <3>6. Forest(es, n - 1) /\ Len(es) = N /\ Len(es) > 0
      BY <3>1, <3>3, <3>4, ForestIs
    <3>7. Tree(parts, n + 1) /\ \A f \in Assignments : Holds(parts, f) <=> ListHolds(other, es, f)
      BY <3>1, <3>2, <3>6, OfIs
    <3> HIDE DEF parts
    <3>8. \A f \in Assignments : Holds(parts, f) <=> ~Holds(e, f)
      <4> TAKE f \in Assignments
      <4>1. CASE e.op = "and"
        BY <3>1, <3>3, <3>6, <3>7, <4>1 DEF ListHolds, N
      <4>2. CASE e.op = "or"
        BY <3>1, <3>3, <3>6, <3>7, <4>2 DEF ListHolds, N
      <4> QED BY <2>4, <4>1, <4>2 DEF Ops
    <3>9. n + 1 \in Nat /\ n + 1 + 1 = n + 2
      OBVIOUS
    <3>10. Tree(Not(parts), n + 2)
      BY <3>7, <3>9, NotIsTree
    <3>11. \A f \in Assignments : Holds(Not(parts), f) <=> ~Holds(parts, f)
      BY <3>7, <3>9, NotHolds DEF IsTree
    <3> QED BY <3>5, <3>7, <3>8, <3>10, <3>11 DEF ComparedRight
  <2> QED BY <1>1, <2>2, <2>3, <2>4, OpIs
<1>2. \A n \in Nat : (\A m \in Nat : m < n => m \in S) => n \in S
  BY <1>1
<1> HIDE DEF S
<1>3. Nat \subseteq S
  BY <1>2, AllNumbers
<1> QED BY <1>3 DEF S

CallsOfTransform == \A e : IsTree(e) => CallTransform(e) = Transform(e)

\* What is left of a negation is that of a symbol.
Simple(e) == e.op = "not" => e.arg.op = "sym"

LEMMA BoolTestIs ==
  ASSUME NoModules, CallsOfValue, NEW e, IsTest(e), e.op \in {"=", "!="}, e.sym \in Bools
  PROVE  IsLiteral(BoolTest(e)) /\ Same(BoolTest(e), e) /\ Simple(BoolTest(e))
<1> DEFINE s == e.sym
<1>1. e = Comp(e.op, s, e.with) /\ s \in SymsRead
  BY TestOfComp DEF SymsRead, Tristates
<1>2. "y" \in SymsRead /\ "n" \in SymsRead
  BY DEF SymsRead
<1>3. BoolTest(e) \in {Sym(s), Not(Sym(s)), Sym("y"), Sym("n"), e}
  BY DEF BoolTest
<1>4. IsLiteral(BoolTest(e)) /\ Simple(BoolTest(e))
  BY <1>1, <1>2, <1>3, SymIs DEF Simple, IsLiteral
<1>5. CASE e.with \in YMN
  <2>1. \A f \in Assignments : Val(BoolTest(e), f) = Val(e, f)
    BY <1>1, <1>5, BoolTestKeepsValue
  <2>2. \A f \in Assignments : Value(BoolTest(e), f) = Value(e, f)
    BY <1>4, <2>1, ValIs DEF IsLiteral
  <2> QED BY <1>4, <2>2 DEF Same, Holds
<1>6. CASE e.with \notin YMN
  <2>1. BoolTest(e) = e
    BY <1>6 DEF BoolTest, YMN
  <2> QED BY <1>4, <2>1 DEF Same
<1> QED BY <1>5, <1>6

LEMMA NotM ==
  ASSUME NEW s \in SymsRead
  PROVE  Sym(s) # Sym("m")
<1>1. s # "m"
  BY SymsAssumption DEF SymsRead, Tristates, Syms, YMN
<1>2. Sym(s).sym = s /\ Sym("m").sym = "m"
  BY DEF Sym
<1> QED BY <1>1, <1>2

LEMMA TransformOfTest ==
  ASSUME NoModules, CallsOfValue, NEW e, IsTest(e)
  PROVE  /\ IsLiteral(Transform(e)) /\ Same(Transform(e), e) /\ Simple(Transform(e))
         /\ e.op = "sym" => Transform(e) = e
<1>1. e.op \in {"sym", "=", "!="} /\ IsLiteral(e) /\ Same(e, e)
  BY TestOp DEF IsLiteral, Same
<1>2. CASE e.op = "sym"
  <2>1. Transform(e) = e
    BY <1>2 DEF Transform, Ops
  <2> QED BY <1>1, <1>2, <2>1 DEF Simple
<1>3. CASE e.op # "sym"
  <2>1. Transform(e) = IF e.sym \in Bools THEN BoolTest(e) ELSE e
    BY <1>1, <1>3 DEF Transform, Ops
  <2> QED BY <1>1, <1>3, <2>1, BoolTestIs DEF Simple
<1> QED BY <1>2, <1>3

\* !(a='x') -> a!='x' and the other rules for a negation of a test
LEMMA NotOfTest ==
  ASSUME NoModules, CallsOfValue, NEW x, IsTest(x)
  PROVE  LET r == CASE x.op \in {"=", "!="} -> Comp(Other(x.op), x.sym, x.with)
                    [] x = Sym("y") -> Sym("n")
                    [] x = Sym("n") -> Sym("y")
                    [] x = Sym("m") -> Sym("m")
                    [] OTHER -> Not(x)
         IN  /\ IsLiteral(r) /\ Simple(r)
             /\ \A f \in Assignments : Holds(r, f) <=> ~Holds(x, f)
<1> DEFINE r == CASE x.op \in {"=", "!="} -> Comp(Other(x.op), x.sym, x.with)
                  [] x = Sym("y") -> Sym("n")
                  [] x = Sym("n") -> Sym("y")
                  [] x = Sym("m") -> Sym("m")
                  [] OTHER -> Not(x)
<1>1. CASE x.op \in {"=", "!="}
  <2> DEFINE c == Comp(Other(x.op), x.sym, x.with)
  <2>1. /\ x = Comp(x.op, x.sym, x.with) /\ (x.sym \in Strs => x.with \in Texts)
        /\ Other(x.op) \in {"=", "!="} /\ Other(x.op) # x.op
    BY <1>1, TestOfComp DEF Other
  <2>2. IsLiteral(c) /\ c.op # "not"
    BY <2>1, CompIs
  <2>3. \A f \in Assignments : Holds(c, f) <=> ~Holds(x, f)
    BY <1>1, <2>1, CompIs
  <2>4. x # Sym("y") /\ x # Sym("n") /\ x # Sym("m")
    BY <1>1 DEF Sym
  <2>5. r = c
    BY <1>1, <2>4
  <2> HIDE DEF r, c
  <2>6. IsLiteral(r) /\ Simple(r) /\ \A f \in Assignments : Holds(r, f) <=> ~Holds(x, f)
    BY <2>2, <2>3, <2>5 DEF Simple
  <2> QED BY <2>6 DEF r
<1>2. CASE x.op \notin {"=", "!="}
  <2>1. PICK s \in SymsRead : x = Sym(s)
    BY <1>2, TestOp, TestOfSym
  <2>2. "y" \in SymsRead /\ "n" \in SymsRead
    BY DEF SymsRead
  <2>3. \A f \in Assignments : Holds(Sym("y"), f) /\ ~Holds(Sym("n"), f)
    BY <2>2, SymIs, Constants
  <2>4. \A f \in Assignments : Holds(Not(x), f) <=> ~Holds(x, f)
    BY <2>1, SymIs, LiteralIsTree, NotHolds DEF IsTree
  <2>5. Sym("y") # Sym("n")
    <3>1. Sym("y").sym = "y" /\ Sym("n").sym = "n"
      BY DEF Sym
    <3> QED BY <3>1
  <2>6. x # Sym("m")
    BY <2>1, NotM
  <2>7. r = IF x = Sym("y") THEN Sym("n") ELSE IF x = Sym("n") THEN Sym("y") ELSE Not(x)
    BY <1>2, <2>5, <2>6
  <2> HIDE DEF r
  <2>8. IsLiteral(r) /\ Simple(r)
    BY <2>1, <2>2, <2>7, SymIs DEF Simple
  <2>9. \A f \in Assignments : Holds(r, f) <=> ~Holds(x, f)
    BY <2>3, <2>4, <2>7
  <2> QED BY <2>8, <2>9 DEF r
<1> QED BY <1>1, <1>2

\* The negation of a list: that of every operand, in a list of the other kind
LEMMA NotOfList ==
  ASSUME NoModules, CallsOfValue, NEW n \in Nat, NEW x, Tree(x, n), x.op \in Ops
  PROVE  LET other == IF x.op = "or" THEN "and" ELSE "or"
             z == Of(other, [i \in DOMAIN x.args |-> Not(x.args[i])])
         IN  /\ other \in Ops /\ Tree(z, n + 1) /\ z.op = other
             /\ \A f \in Assignments : Holds(z, f) <=> ~Holds(x, f)
             /\ \A k \in 1 .. Len(z.args) : Tree(z.args[k], n - 1)
<1> DEFINE N == Len(x.args)
           other == IF x.op = "or" THEN "and" ELSE "or"
           es == [i \in DOMAIN x.args |-> Not(x.args[i])]
           z == Of(other, es)
<1>1. /\ n - 2 \in Nat /\ n - 1 \in Nat /\ n - 2 + 1 = n - 1 /\ n - 1 + 2 = n + 1
      /\ N \in Nat /\ N > 1 /\ N > 0 /\ DOMAIN x.args = 1 .. N
      /\ \A i \in 1 .. N : Tree(x.args[i], n - 2)
      /\ \A f \in Assignments : Holds(x, f) <=> ListHolds(x.op, x.args, f)
  <2>1. /\ n >= 2 /\ N \in Nat /\ N > 1 /\ DOMAIN x.args = 1 .. N
        /\ \A i \in 1 .. N : Tree(x.args[i], n - 2)
        /\ \A f \in Assignments : Holds(x, f) <=> ListHolds(x.op, x.args, f)
    BY NodeIs
  <2> HIDE DEF N
  <2>2. n - 2 \in Nat /\ n - 1 \in Nat /\ n - 2 + 1 = n - 1 /\ n - 1 + 2 = n + 1 /\ N > 0
    BY <2>1
  <2> QED BY <2>1, <2>2
<1>2. other \in Ops
  BY DEF Ops
<1>3. \A i \in 1 .. N : /\ es[i] = Not(x.args[i]) /\ Tree(es[i], n - 1)
                        /\ \A f \in Assignments : Holds(es[i], f) <=> ~Holds(x.args[i], f)
  <2> TAKE i \in 1 .. N
  <2>1. es[i] = Not(x.args[i])
    BY <1>1
  <2>2. Tree(Not(x.args[i]), n - 1)
    BY <1>1, NotIsTree
  <2>3. IsTree(x.args[i])
    BY <1>1 DEF IsTree
  <2> HIDE DEF es
  <2> QED BY <2>1, <2>2, <2>3, NotHolds
<1>4. es = [i \in 1 .. N |-> es[i]]
  BY <1>1
<1> HIDE DEF es, N
<1>5. Forest(es, n - 1) /\ Len(es) = N /\ Len(es) > 0 /\ Len(es) > 1
  BY <1>1, <1>3, <1>4, ForestIs
<1>6. /\ Tree(z, n + 1) /\ z.op = other /\ Forest(z.args, n - 1)
      /\ \A f \in Assignments : Holds(z, f) <=> ListHolds(other, es, f)
  BY <1>1, <1>2, <1>5, OfIs
<1> HIDE DEF z
<1>7. \A k \in 1 .. Len(z.args) : Tree(z.args[k], n - 1)
  BY <1>1, <1>6, ForestTrees
<1>8. \A f \in Assignments : Holds(z, f) <=> ~Holds(x, f)
  <2> TAKE f \in Assignments
  <2>1. CASE x.op = "and"
    BY <1>1, <1>3, <1>5, <1>6, <2>1 DEF ListHolds, N
  <2>2. CASE x.op = "or"
    BY <1>1, <1>3, <1>5, <1>6, <2>2 DEF ListHolds, N
  <2> QED BY <2>1, <2>2 DEF Ops
<1> QED BY <1>2, <1>6, <1>7, <1>8 DEF z, es

\* expr_transform keeps the value of every expression.
LEMMA TransformIs ==
  ASSUME NoModules, CallsOfValue, CallsOfTransform
  PROVE  \A n \in Nat : \A e : Tree(e, n) =>
           Tree(Transform(e), n) /\ Same(Transform(e), e) /\ Simple(Transform(e))
<1> DEFINE P(n) == \A e : Tree(e, n) =>
                     Tree(Transform(e), n) /\ Same(Transform(e), e) /\ Simple(Transform(e))
           S == {n \in Nat : P(n)}
<1>1. ASSUME NEW n \in Nat, \A m \in Nat : m < n => m \in S, NEW e, Tree(e, n)
      PROVE  Tree(Transform(e), n) /\ Same(Transform(e), e) /\ Simple(Transform(e))
  <2>1. \A m \in Nat : m < n => P(m)
    BY <1>1
  <2> HIDE DEF P, S
  <2>2. CASE IsTest(e)
    BY <2>2, TransformOfTest, LiteralIsTree
  <2>3. ASSUME NEW z, Tree(z, n), z.op \in Ops
        PROVE  Tree(Transform(z), n) /\ Same(Transform(z), z) /\ Simple(Transform(z))
    <3> DEFINE es == [i \in DOMAIN z.args |-> CallTransform(z.args[i])]
    <3>1. n - 2 \in Nat /\ n - 2 < n /\ DOMAIN z.args = 1 .. Len(z.args)
          /\ \A i \in 1 .. Len(z.args) : Tree(z.args[i], n - 2)
      BY <2>3, NodeIs
    <3>2. \A i \in 1 .. Len(z.args) : Tree(es[i], n - 2) /\ Same(es[i], z.args[i])
      <4> TAKE i \in 1 .. Len(z.args)
      <4>1. es[i] = Transform(z.args[i])
        BY <3>1 DEF CallsOfTransform, IsTree
      <4> QED BY <2>1, <3>1, <4>1 DEF P
    <3>3. Transform(z) = Of(z.op, es)
      BY <2>3, Zenon DEF Transform, Ops
    <3>4. es = [i \in DOMAIN z.args |-> es[i]]
      OBVIOUS
    <3> HIDE DEF es
    <3>5. Tree(Of(z.op, es), n) /\ Same(Of(z.op, es), z) /\ Of(z.op, es).op = z.op
      BY <2>3, <3>2, <3>4, MapIs
    <3> QED BY <2>3, <3>3, <3>5 DEF Simple, Ops
  <2>4. CASE e.op = "not"
    <3> DEFINE x == Transform(e.arg)
               other == IF x.op = "or" THEN "and" ELSE "or"
               z == Of(other, [i \in DOMAIN x.args |-> Not(x.args[i])])
    <3>1. e = Not(e.arg) /\ IsTree(e.arg)
      BY <1>1, <2>4, ArgIsTree DEF IsTree
    <3>2. Transform(e) =
            CASE x.op = "not" -> CallTransform(x.arg)
              [] x.op \in {"=", "!="} -> Comp(Other(x.op), x.sym, x.with)
              [] x.op \in Ops -> CallTransform(z)
              [] x = Sym("y") -> Sym("n")
              [] x = Sym("n") -> Sym("y")
              [] x = Sym("m") -> Sym("m")
              [] OTHER -> Not(x)
      <4>1. CallTransform(e.arg) = x
        BY <3>1 DEF CallsOfTransform
      <4>2. e.op \notin Ops /\ e.op \notin {"=", "!="}
        BY <2>4 DEF Ops
      <4> HIDE DEF x
      <4> QED BY <2>4, <4>1, <4>2, Zenon DEF Transform
    <3>3. \A f \in Assignments : Holds(e, f) <=> ~Holds(e.arg, f)
      BY <3>1, NotHolds
    <3> HIDE DEF x
    <3>4. CASE IsTest(x) /\ Same(x, e.arg)
      <4> DEFINE r == CASE x.op \in {"=", "!="} -> Comp(Other(x.op), x.sym, x.with)
                        [] x = Sym("y") -> Sym("n")
                        [] x = Sym("n") -> Sym("y")
                        [] x = Sym("m") -> Sym("m")
                        [] OTHER -> Not(x)
      <4>1. IsLiteral(r) /\ Simple(r) /\ \A f \in Assignments : Holds(r, f) <=> ~Holds(x, f)
        BY <3>4, NotOfTest
      <4>2. x.op # "not" /\ x.op \notin Ops
        BY <3>4, TestOp DEF Ops
      <4>3. Transform(e) = r
        BY <3>2, <4>2
      <4> HIDE DEF r
      <4>4. Tree(r, n)
        BY <4>1, LiteralIsTree
      <4> QED BY <3>3, <3>4, <4>1, <4>3, <4>4 DEF Same
    <3>5. CASE \E s \in SymsRead : e.arg = Sym(s)
      <4>1. IsTest(e.arg) /\ e.arg.op = "sym"
        BY <3>5, SymIs
      <4>2. x = e.arg
        BY <4>1, TransformOfTest DEF x
      <4> QED BY <3>4, <4>1, <4>2 DEF Same
    <3>6. CASE n >= 1 /\ Tree(e.arg, n - 1)
      <4>1. n - 1 \in Nat /\ n - 1 < n /\ n - 1 <= n /\ n - 1 + 1 = n
        BY <3>6
      <4>2. Tree(x, n - 1) /\ Same(x, e.arg) /\ Simple(x)
        BY <2>1, <3>6, <4>1 DEF P, x
      <4>3. \A f \in Assignments : Holds(e, f) <=> ~Holds(x, f)
        BY <3>3, <4>2 DEF Same
      <4>4. CASE x.op = "not"
        <5>1. x = Not(x.arg) /\ Tree(x.arg, n - 1) /\ x.arg.op = "sym"
          BY <4>1, <4>2, <4>4, ArgIsTree DEF Simple
        <5>2. IsTest(x.arg) /\ Transform(x.arg) = x.arg /\ Simple(x.arg)
          BY <4>1, <5>1, OpIs, TransformOfTest DEF Simple
        <5>3. Transform(e) = x.arg
          <6>1. CallTransform(x.arg) = x.arg
            BY <4>1, <5>1, <5>2 DEF CallsOfTransform, IsTree
          <6>2. x.op \notin {"=", "!="} /\ x.op \notin Ops /\ x.op # "sym"
            BY <4>4 DEF Ops
          <6>3. \A s : x # Sym(s)
            BY <6>2 DEF Sym
          <6>4. Transform(e) = CallTransform(x.arg)
            BY <3>2, <4>4, <6>2, <6>3, Zenon
          <6> QED BY <6>1, <6>4
        <5>4. \A f \in Assignments : Holds(x, f) <=> ~Holds(x.arg, f)
          BY <4>1, <5>1, NotHolds DEF IsTree
        <5>5. Tree(x.arg, n)
          BY <4>1, <5>1, TreeAbove
        <5> QED BY <4>3, <5>2, <5>3, <5>4, <5>5 DEF Same
      <4>5. CASE x.op \in Ops
        <5>1. /\ other \in Ops /\ Tree(z, n) /\ z.op = other
              /\ \A f \in Assignments : Holds(z, f) <=> ~Holds(x, f)
          BY <4>1, <4>2, <4>5, NotOfList
        <5>2. Transform(e) = CallTransform(z)
          <6>1. x.op # "not" /\ x.op \notin {"=", "!="} /\ x.op # "sym"
            BY <4>5 DEF Ops
          <6>2. \A s : x # Sym(s)
            BY <6>1 DEF Sym
          <6> HIDE DEF z
          <6> QED BY <3>2, <4>5, <6>1, <6>2, Zenon
        <5> HIDE DEF z, other
        <5>3. Tree(Transform(z), n) /\ Same(Transform(z), z) /\ Simple(Transform(z))
          BY <2>3, <5>1
        <5>4. Transform(e) = Transform(z)
          BY <5>1, <5>2 DEF CallsOfTransform, IsTree
        <5> QED BY <4>3, <5>1, <5>3, <5>4 DEF Same
      <4>6. CASE x.op \notin Ops /\ x.op # "not"
        <5>1. IsTest(x)
          BY <4>1, <4>2, <4>6, OpIs
        <5> QED BY <3>4, <4>2, <5>1
      <4> QED BY <4>4, <4>5, <4>6
    <3> QED BY <1>1, <2>4, <3>5, <3>6, OpIs
  <2> QED BY <1>1, <2>2, <2>3, <2>4, OpIs
<1>2. \A n \in Nat : (\A m \in Nat : m < n => m \in S) => n \in S
  BY <1>1
<1> HIDE DEF S
<1>3. Nat \subseteq S
  BY <1>2, AllNumbers
<1> QED BY <1>3 DEF S

-----------------------------------------------------------------------------
(* Two nested loops over lists.                                            *)

\* What is left to do from <<i, j>> on ends well if it does one step further.
LEMMA NestedLoop ==
  ASSUME NEW N \in Nat, NEW M \in Nat, NEW S,
         \A j \in 1 .. M + 1 : <<N + 1, j>> \in S,
         \A i \in 1 .. N : <<i + 1, 1>> \in S => <<i, M + 1>> \in S,
         \A i \in 1 .. N, j \in 1 .. M : <<i, j + 1>> \in S => <<i, j>> \in S
  PROVE  <<1, 1>> \in S
<1> DEFINE R == {a \in 1 .. N + 1 : \A j \in 1 .. M + 1 : <<N + 2 - a, j>> \in S}
<1>1. 1 \in R
  <2>1. N + 2 - 1 = N + 1 /\ 1 \in 1 .. N + 1
    OBVIOUS
  <2> QED BY <2>1
<1>2. ASSUME NEW a \in 1 .. N + 1, a \in R, a < N + 1
      PROVE  a + 1 \in R
  <2> DEFINE i == N + 1 - a
             C == {b \in 1 .. M + 1 : <<i, M + 2 - b>> \in S}
  <2>1. i \in 1 .. N /\ i + 1 = N + 2 - a /\ i = N + 2 - (a + 1) /\ a + 1 \in 1 .. N + 1
    BY <1>2
  <2> HIDE DEF i
  <2>2. <<i + 1, 1>> \in S
    BY <1>2, <2>1
  <2>3. 1 \in C
    <3>1. M + 2 - 1 = M + 1 /\ 1 \in 1 .. M + 1 /\ <<i, M + 1>> \in S
      BY <2>1, <2>2
    <3> QED BY <3>1
  <2>4. ASSUME NEW b \in 1 .. M + 1, b \in C, b < M + 1
        PROVE  b + 1 \in C
    <3> DEFINE j == M + 1 - b
    <3>1. j \in 1 .. M /\ j + 1 = M + 2 - b /\ j = M + 2 - (b + 1) /\ b + 1 \in 1 .. M + 1
      BY <2>4
    <3> HIDE DEF j
    <3>2. <<i, j + 1>> \in S
      BY <2>4, <3>1
    <3>3. <<i, j>> \in S
      BY <2>1, <3>1, <3>2
    <3> QED BY <3>1, <3>3
  <2> HIDE DEF C
  <2>5. \A b \in 1 .. M + 1 : b \in C
    BY <2>3, <2>4, M + 1 \in Nat, Counting
  <2>6. ASSUME NEW j \in 1 .. M + 1 PROVE <<i, j>> \in S
    <3>1. M + 2 - j \in 1 .. M + 1 /\ M + 2 - (M + 2 - j) = j
      OBVIOUS
    <3>2. M + 2 - j \in C
      BY <2>5, <3>1
    <3> QED BY <3>1, <3>2 DEF C
  <2> QED BY <2>1, <2>6
<1> HIDE DEF R
<1>3. \A a \in 1 .. N + 1 : a \in R
  BY <1>1, <1>2, N + 1 \in Nat, Counting
<1>4. N + 1 \in 1 .. N + 1 /\ N + 2 - (N + 1) = 1 /\ 1 \in 1 .. M + 1
  OBVIOUS
<1> QED BY <1>3, <1>4 DEF R

\* The operands of a list but the i-th, and all of them
Rest(op, es, i, f) ==
  IF op = "and" THEN \A k \in 1 .. Len(es) : k # i => Holds(es[k], f)
  ELSE \E k \in 1 .. Len(es) : k # i /\ Holds(es[k], f)
Both(op, p, q) == IF op = "and" THEN p /\ q ELSE p \/ q

LEMMA RestIs ==
  ASSUME NEW op \in Ops, NEW es, NEW i \in 1 .. Len(es), NEW f
  PROVE  ListHolds(op, es, f) <=> Both(op, Rest(op, es, i, f), Holds(es[i], f))
<1>1. CASE op = "and"
  BY <1>1 DEF ListHolds, Rest, Both
<1>2. CASE op # "and"
  BY <1>2 DEF ListHolds, Rest, Both
<1> QED BY <1>1, <1>2

LEMMA ReplacedIs ==
  ASSUME NEW n, NEW es, Forest(es, n), NEW i \in 1 .. Len(es), NEW x, Tree(x, n)
  PROVE  LET r == ReplaceAt(es, i, x)
         IN  /\ Forest(r, n) /\ Len(r) = Len(es) /\ r[i] = x
             /\ \A k \in 1 .. Len(es) : k # i => r[k] = es[k]
             /\ \A op, f : Rest(op, r, i, f) <=> Rest(op, es, i, f)
<1> DEFINE r == ReplaceAt(es, i, x)
           N == Len(es)
<1>1. PICK T : es \in Seq(T) /\ \A y \in T : Tree(y, n)
  BY DEF Forest
<1>2. r = [es EXCEPT ![i] = x] /\ es \in Seq(T \cup {x})
  BY <1>1 DEF ReplaceAt
<1>3. N \in Nat /\ DOMAIN es = 1 .. N /\ \A k \in 1 .. N : Tree(es[k], n)
  BY <1>1
<1>4. r \in Seq(T \cup {x}) /\ Len(r) = N /\ r[i] = x /\ \A k \in 1 .. N : k # i => r[k] = es[k]
  BY <1>2, <1>3
<1>5. Forest(r, n)
  BY <1>1, <1>4 DEF Forest
<1> HIDE DEF r
<1>6. \A op, f : Rest(op, r, i, f) <=> Rest(op, es, i, f)
  BY <1>4 DEF Rest, N
<1> QED BY <1>4, <1>5, <1>6 DEF r

-----------------------------------------------------------------------------
(* What is taken out of two expressions.                                   *)

CallsOfExprEq == \A x, y : IsTree(x) /\ IsTree(y) => CallExprEq(x, y) = ExprEq(x, y)
CallsOfCancelLoop ==
  \A op, c, i, j, keep :
    IsForest(c.l1) /\ IsForest(c.l2) /\ i \in Nat \ {0} /\ j \in Nat \ {0} =>
      CallCancelLoop(op, c, i, j, keep) = CancelLoop(op, c, i, j, keep)

\* What expr_eq takes for equal has one value: for an x of level n.
EqSound(n) == \A x, y : Tree(x, n) /\ IsTree(y) /\ ExprEq(x, y) => Same(x, y)

\* The same has been taken out of l1 and l2: c.l1 and c.l2 are what is left.
TakenFrom(op, l1, l2, c, f) ==
  \E k \in BOOLEAN : /\ ListHolds(op, l1, f) <=> Both(op, ListHolds(op, c.l1, f), k)
                     /\ ListHolds(op, l2, f) <=> Both(op, ListHolds(op, c.l2, f), k)
IsLeft(op, l1, l2, c, n, m) ==
  /\ Forest(c.l1, n) /\ Len(c.l1) = Len(l1)
  /\ Forest(c.l2, m) /\ Len(c.l2) = Len(l2)
  /\ \A f \in Assignments : TakenFrom(op, l1, l2, c, f)

LEMMA NothingTaken ==
  ASSUME NEW op \in Ops, NEW n, NEW m, NEW c, Forest(c.l1, n), Forest(c.l2, m)
  PROVE  IsLeft(op, c.l1, c.l2, c, n, m)
<1>1. ASSUME NEW f \in Assignments PROVE TakenFrom(op, c.l1, c.l2, c, f)
  <2> DEFINE k == op = "and"
  <2>1. /\ ListHolds(op, c.l1, f) <=> Both(op, ListHolds(op, c.l1, f), k)
        /\ ListHolds(op, c.l2, f) <=> Both(op, ListHolds(op, c.l2, f), k)
    BY DEF Both
  <2>2. k \in BOOLEAN
    OBVIOUS
  <2> HIDE DEF k
  <2> QED BY <2>1, <2>2 DEF TakenFrom
<1> QED BY <1>1 DEF IsLeft

LEMMA MoreTaken ==
  ASSUME NEW op \in Ops, NEW n, NEW m, NEW l1, NEW l2, NEW c, NEW d,
         IsLeft(op, l1, l2, c, n, m), IsLeft(op, c.l1, c.l2, d, n, m)
  PROVE  IsLeft(op, l1, l2, d, n, m)
<1>1. ASSUME NEW f \in Assignments PROVE TakenFrom(op, l1, l2, d, f)
  <2>1. PICK k \in BOOLEAN : /\ ListHolds(op, l1, f) <=> Both(op, ListHolds(op, c.l1, f), k)
                             /\ ListHolds(op, l2, f) <=> Both(op, ListHolds(op, c.l2, f), k)
    BY DEF IsLeft, TakenFrom
  <2>2. PICK h \in BOOLEAN : /\ ListHolds(op, c.l1, f) <=> Both(op, ListHolds(op, d.l1, f), h)
                             /\ ListHolds(op, c.l2, f) <=> Both(op, ListHolds(op, d.l2, f), h)
    BY DEF IsLeft, TakenFrom
  <2> DEFINE g == Both(op, h, k)
  <2>3. /\ ListHolds(op, l1, f) <=> Both(op, ListHolds(op, d.l1, f), g)
        /\ ListHolds(op, l2, f) <=> Both(op, ListHolds(op, d.l2, f), g)
    BY <2>1, <2>2 DEF Both
  <2>4. g \in BOOLEAN
    BY DEF Both
  <2> HIDE DEF g
  <2> QED BY <2>3, <2>4 DEF TakenFrom
<1> QED BY <1>1 DEF IsLeft

LEMMA CancelPairIs ==
  ASSUME NoModules, CallsOfValue, CallsOfExprEq, NEW op \in Ops, NEW n \in Nat, NEW m \in Nat,
         NEW c, Forest(c.l1, n), Forest(c.l2, m), NEW i \in 1 .. Len(c.l1),
         NEW j \in 1 .. Len(c.l2), NEW keep, EqSound(n)
  PROVE  IsLeft(op, c.l1, c.l2, CancelPair(op, c, i, j, keep), n, m)
<1> DEFINE x == c.l1[i]
           y == c.l2[j]
           u == Unit(op)
           d == CancelPair(op, c, i, j, keep)
<1>1. Tree(x, n) /\ Tree(y, m) /\ Tree(u, n) /\ Tree(u, m)
  BY ForestTrees, UnitIs, LiteralIsTree
<1>2. CASE d = c
  BY <1>2, NothingTaken
<1>3. CASE d # c
  <2> DEFINE r1 == ReplaceAt(c.l1, i, u)
             r2 == ReplaceAt(c.l2, j, u)
  <2>1. d = [l1 |-> r1, l2 |-> r2, hit |-> TRUE] /\ CallExprEq(x, y)
    BY <1>3 DEF CancelPair
  <2>2. d.l1 = r1 /\ d.l2 = r2 /\ ExprEq(x, y)
    BY <1>1, <2>1 DEF CallsOfExprEq, IsTree
  <2>3. Same(x, y)
    BY <1>1, <2>2 DEF EqSound, IsTree
  <2>4. Forest(r1, n) /\ Len(r1) = Len(c.l1) /\ r1[i] = u
        /\ \A f : Rest(op, r1, i, f) <=> Rest(op, c.l1, i, f)
    BY <1>1, ReplacedIs
  <2>5. Forest(r2, m) /\ Len(r2) = Len(c.l2) /\ r2[j] = u
        /\ \A f : Rest(op, r2, j, f) <=> Rest(op, c.l2, j, f)
    BY <1>1, ReplacedIs
  <2> HIDE DEF r1, r2, d
  <2>6. ASSUME NEW f \in Assignments PROVE TakenFrom(op, c.l1, c.l2, d, f)
    <3>1. /\ ListHolds(op, c.l1, f) <=> Both(op, Rest(op, c.l1, i, f), Holds(x, f))
          /\ ListHolds(op, c.l2, f) <=> Both(op, Rest(op, c.l2, j, f), Holds(y, f))
      BY RestIs
    <3>2. /\ ListHolds(op, r1, f) <=> Both(op, Rest(op, r1, i, f), Holds(r1[i], f))
          /\ ListHolds(op, r2, f) <=> Both(op, Rest(op, r2, j, f), Holds(r2[j], f))
      BY <2>4, <2>5, RestIs
    <3>3. Holds(u, f) <=> op = "and"
      BY UnitIs
    <3>4. /\ ListHolds(op, r1, f) <=> Rest(op, c.l1, i, f)
          /\ ListHolds(op, r2, f) <=> Rest(op, c.l2, j, f)
      BY <2>4, <2>5, <3>2, <3>3 DEF Both
    <3>5. Holds(y, f) <=> Holds(x, f)
      BY <2>3 DEF Same
    <3>6. /\ ListHolds(op, c.l1, f) <=> Both(op, ListHolds(op, d.l1, f), Holds(x, f))
          /\ ListHolds(op, c.l2, f) <=> Both(op, ListHolds(op, d.l2, f), Holds(x, f))
      BY <2>2, <3>1, <3>4, <3>5 DEF Both
    <3>7. Holds(x, f) \in BOOLEAN
      BY DEF Holds
    <3> QED BY <3>6, <3>7 DEF TakenFrom
  <2>7. /\ Forest(d.l1, n) /\ Len(d.l1) = Len(c.l1)
        /\ Forest(d.l2, m) /\ Len(d.l2) = Len(c.l2)
    BY <2>2, <2>4, <2>5
  <2>8. IsLeft(op, c.l1, c.l2, d, n, m)
    BY <2>6, <2>7 DEF IsLeft
  <2> QED BY <2>8 DEF d
<1> QED BY <1>2, <1>3

LEMMA CancelIs ==
  ASSUME NoModules, CallsOfValue, CallsOfExprEq, CallsOfCancelLoop,
         NEW op \in Ops, NEW n \in Nat, NEW m \in Nat, NEW l1, NEW l2,
         Forest(l1, n), Forest(l2, m), NEW keep, EqSound(n)
  PROVE  IsLeft(op, l1, l2, Cancel(op, l1, l2, keep), n, m)
<1> DEFINE N == Len(l1)
           M == Len(l2)
           Begins(c) == Forest(c.l1, n) /\ Len(c.l1) = N /\ Forest(c.l2, m) /\ Len(c.l2) = M
           Ends(c, p) == IsLeft(op, c.l1, c.l2, CancelLoop(op, c, p[1], p[2], keep), n, m)
           S == {p \in Nat \X Nat : \A c : Begins(c) => Ends(c, p)}
<1>1. N \in Nat /\ M \in Nat
  BY ForestTrees
<1>2. \A c : Begins(c) => IsForest(c.l1) /\ IsForest(c.l2)
  BY DEF IsForest
<1> HIDE DEF N, M
<1>3. ASSUME NEW j \in 1 .. M + 1
      PROVE  <<N + 1, j>> \in S
  <2>1. ASSUME NEW c, Begins(c) PROVE Ends(c, <<N + 1, j>>)
    <3>1. CancelLoop(op, c, N + 1, j, keep) = c
      BY <1>1, <2>1 DEF CancelLoop
    <3>2. IsLeft(op, c.l1, c.l2, c, n, m)
      BY <2>1, NothingTaken
    <3> QED BY <3>1, <3>2
  <2> HIDE DEF Begins, Ends
  <2> QED BY <1>1, <2>1
<1>4. ASSUME NEW i \in 1 .. N, <<i + 1, 1>> \in S
      PROVE  <<i, M + 1>> \in S
  <2>1. ASSUME NEW c, Begins(c) PROVE Ends(c, <<i, M + 1>>)
    <3>1. CancelLoop(op, c, i, M + 1, keep) = CallCancelLoop(op, c, i + 1, 1, keep)
      BY <1>1, <2>1 DEF CancelLoop
    <3>2. CallCancelLoop(op, c, i + 1, 1, keep) = CancelLoop(op, c, i + 1, 1, keep)
      <4>1. i + 1 \in Nat \ {0} /\ 1 \in Nat \ {0}
        OBVIOUS
      <4> QED BY <1>2, <2>1, <4>1 DEF CallsOfCancelLoop
    <3>3. Ends(c, <<i + 1, 1>>)
      BY <1>4, <2>1
    <3> QED BY <3>1, <3>2, <3>3
  <2> HIDE DEF Begins, Ends
  <2> QED BY <1>1, <2>1
<1>5. ASSUME NEW i \in 1 .. N, NEW j \in 1 .. M, <<i, j + 1>> \in S
      PROVE  <<i, j>> \in S
  <2>1. ASSUME NEW c, Begins(c) PROVE Ends(c, <<i, j>>)
    <3> DEFINE d == CancelPair(op, c, i, j, keep)
    <3>1. CancelLoop(op, c, i, j, keep) = CallCancelLoop(op, d, i, j + 1, keep)
      BY <1>1, <2>1 DEF CancelLoop
    <3>2. IsLeft(op, c.l1, c.l2, d, n, m)
      BY <2>1, CancelPairIs
    <3> HIDE DEF d
    <3>3. Begins(d)
      BY <2>1, <3>2 DEF IsLeft
    <3>4. CallCancelLoop(op, d, i, j + 1, keep) = CancelLoop(op, d, i, j + 1, keep)
      <4>1. i \in Nat \ {0} /\ j + 1 \in Nat \ {0}
        OBVIOUS
      <4> QED BY <1>2, <3>3, <4>1 DEF CallsOfCancelLoop
    <3>5. Ends(d, <<i, j + 1>>)
      BY <1>5, <3>3
    <3>6. IsLeft(op, d.l1, d.l2, CancelLoop(op, d, i, j + 1, keep), n, m)
      BY <3>5
    <3>7. IsLeft(op, c.l1, c.l2, CancelLoop(op, d, i, j + 1, keep), n, m)
      BY <3>2, <3>6, MoreTaken
    <3> QED BY <3>1, <3>4, <3>7
  <2> HIDE DEF Begins, Ends
  <2> QED BY <1>1, <2>1
<1>6. <<1, 1>> \in S
  <2> HIDE DEF S
  <2> QED BY <1>1, <1>3, <1>4, <1>5, NestedLoop
<1> DEFINE c == [l1 |-> l1, l2 |-> l2, hit |-> FALSE]
<1>7. Begins(c) /\ c.l1 = l1 /\ c.l2 = l2
  BY DEF N, M
<1>8. Cancel(op, l1, l2, keep) = CancelLoop(op, c, 1, 1, keep)
  BY DEF Cancel
<1> HIDE DEF c
<1>9. Ends(c, <<1, 1>>)
  BY <1>6, <1>7
<1> QED BY <1>7, <1>8, <1>9

\* Where e1 and e2 differ, x1 and x2 do.
OrderKept(e1, e2, x1, x2) ==
  \A f \in Assignments :
    /\ (Holds(x1, f) => Holds(x2, f)) => (Holds(e1, f) => Holds(e2, f))
    /\ (Holds(x2, f) => Holds(x1, f)) => (Holds(e2, f) => Holds(e1, f))

LEMMA CancelAsIs ==
  ASSUME NoModules, CallsOfValue, CallsOfExprEq, CallsOfCancelLoop,
         NEW op \in Ops, NEW e1, IsTree(e1), NEW e2, IsTree(e2),
         NEW n \in Nat, Forest(Operands(op, e1), n), EqSound(n)
  PROVE  LET r == CancelAs(op, <<e1, e2>>)
         IN  /\ IsTree(r[1]) /\ IsTree(r[2]) /\ OrderKept(e1, e2, r[1], r[2])
             /\ e1.op = op /\ e2.op = op => r[1].op = op /\ r[2].op = op
<1> DEFINE l1 == Operands(op, e1)
           l2 == Operands(op, e2)
           c == Cancel(op, l1, l2, TRUE)
           r == <<Of(op, c.l1), Of(op, c.l2)>>
<1>1. CancelAs(op, <<e1, e2>>) = r
  BY DEF CancelAs
<1>2. PICK m \in Nat : Tree(e2, m)
  BY DEF IsTree
<1>3. /\ Forest(l2, m) /\ Len(l2) > 0
      /\ e2.op = op => Len(l2) > 1
      /\ \A f \in Assignments : Holds(e2, f) <=> ListHolds(op, l2, f)
  BY <1>2, OperandsAre
<1>4. /\ Len(l1) > 0
      /\ e1.op = op => Len(l1) > 1
      /\ \A f \in Assignments : Holds(e1, f) <=> ListHolds(op, l1, f)
  BY OperandsAre DEF IsTree
<1>5. IsLeft(op, l1, l2, c, n, m)
  BY <1>2, <1>3, CancelIs
<1> HIDE DEF l1, l2, c
<1>6. /\ Forest(c.l1, n) /\ Len(c.l1) = Len(l1) /\ Forest(c.l2, m) /\ Len(c.l2) = Len(l2)
      /\ \A f \in Assignments : TakenFrom(op, l1, l2, c, f)
  BY <1>5 DEF IsLeft
<1>7. /\ Len(c.l1) > 0 /\ Len(c.l2) > 0
      /\ e1.op = op => Len(c.l1) > 1
      /\ e2.op = op => Len(c.l2) > 1
  BY <1>3, <1>4, <1>6
<1>8. /\ IsTree(Of(op, c.l1))
      /\ e1.op = op => Of(op, c.l1).op = op
      /\ \A f \in Assignments : Holds(Of(op, c.l1), f) <=> ListHolds(op, c.l1, f)
  <2>1. n + 2 \in Nat
    OBVIOUS
  <2> QED BY <1>6, <1>7, <2>1, OfIs DEF IsTree
<1>9. /\ IsTree(Of(op, c.l2))
      /\ e2.op = op => Of(op, c.l2).op = op
      /\ \A f \in Assignments : Holds(Of(op, c.l2), f) <=> ListHolds(op, c.l2, f)
  <2>1. m + 2 \in Nat
    OBVIOUS
  <2> QED BY <1>6, <1>7, <2>1, OfIs DEF IsTree
<1>10. r[1] = Of(op, c.l1) /\ r[2] = Of(op, c.l2)
  OBVIOUS
<1> HIDE DEF r
<1>11. OrderKept(e1, e2, r[1], r[2])
  <2> SUFFICES ASSUME NEW f \in Assignments
               PROVE  /\ (Holds(r[1], f) => Holds(r[2], f)) => (Holds(e1, f) => Holds(e2, f))
                      /\ (Holds(r[2], f) => Holds(r[1], f)) => (Holds(e2, f) => Holds(e1, f))
    BY DEF OrderKept
  <2>1. PICK k \in BOOLEAN : /\ ListHolds(op, l1, f) <=> Both(op, ListHolds(op, c.l1, f), k)
                             /\ ListHolds(op, l2, f) <=> Both(op, ListHolds(op, c.l2, f), k)
    BY <1>6 DEF TakenFrom
  <2>2. /\ Holds(e1, f) <=> Both(op, Holds(r[1], f), k)
        /\ Holds(e2, f) <=> Both(op, Holds(r[2], f), k)
    BY <1>3, <1>4, <1>8, <1>9, <1>10, <2>1 DEF Both
  <2> QED BY <2>2 DEF Both
<1> QED BY <1>1, <1>8, <1>9, <1>10, <1>11

\* Two expressions that expr_eq takes for equal have one value.
LEMMA ExprEqIs ==
  ASSUME NoModules, CallsOfValue, CallsOfEliminateYn, CallsOfExprEq, CallsOfCancelLoop
  PROVE  \A n \in Nat : EqSound(n)
<1> DEFINE S == {n \in Nat : EqSound(n)}
<1>1. ASSUME NEW n \in Nat, \A m \in Nat : m < n => m \in S,
             NEW x, NEW y, Tree(x, n), IsTree(y), ExprEq(x, y)
      PROVE  Same(x, y)
  <2>1. \A m \in Nat : m < n => EqSound(m)
    BY <1>1
  <2> HIDE DEF S
  <2>2. x.op = y.op
    BY <1>1 DEF ExprEq
  <2>3. CASE x.op \in Ops
    <3> DEFINE op == x.op
               r == CancelAs(op, <<x, y>>)
    <3>1. SameSymbol(EliminateEq(x, y))
      <4>1. x.op # "not"
        BY <2>3 DEF Ops
      <4> QED BY <1>1, <2>3, <4>1, Zenon DEF ExprEq
    <3>2. n - 2 \in Nat /\ n - 2 < n /\ Forest(Operands(op, x), n - 2)
      <4>1. Operands(op, x) = x.args
        BY DEF Operands
      <4>2. n - 2 \in Nat /\ n - 2 < n /\ Forest(x.args, n - 2)
        BY <1>1, <2>3, NodeIs
      <4> QED BY <4>1, <4>2
    <3>3. EqSound(n - 2)
      BY <2>1, <3>2
    <3>4. IsTree(x)
      BY <1>1 DEF IsTree
    <3>5. /\ IsTree(r[1]) /\ IsTree(r[2]) /\ OrderKept(x, y, r[1], r[2])
          /\ r[1].op = op /\ r[2].op = op
      BY <1>1, <2>2, <2>3, <3>2, <3>3, <3>4, CancelAsIs
    <3>6. EliminateEq(x, y) = <<EliminateYn(r[1]), EliminateYn(r[2])>>
      <4>1. <<x, y>>[1] = x /\ <<x, y>>[2] = y
        OBVIOUS
      <4> HIDE DEF r
      <4>2. r[2].op \notin Ops \ {r[1].op}
        BY <3>5
      <4> QED BY <2>3, <4>1, <4>2 DEF EliminateEq, r
    <3> HIDE DEF r
    <3>7. EliminateYn(r[1]) = EliminateYn(r[2])
      BY <3>1, <3>6 DEF SameSymbol
    <3>8. Same(EliminateYn(r[1]), r[1]) /\ Same(EliminateYn(r[2]), r[2])
      BY <3>5, EliminateYnIs DEF IsTree
    <3> QED BY <3>5, <3>7, <3>8 DEF Same, OrderKept
  <2>4. CASE x.op = "not"
    <3>1. x = Not(x.arg) /\ y = Not(y.arg) /\ IsTree(x.arg) /\ IsTree(y.arg)
      BY <1>1, <2>2, <2>4, ArgIsTree DEF IsTree
    <3>2. ExprEq(x.arg, y.arg)
      BY <1>1, <2>4, <3>1 DEF ExprEq, CallsOfExprEq, Ops
    <3>3. Same(x.arg, y.arg)
      <4>1. CASE \E s \in SymsRead : x.arg = Sym(s)
        <5>1. x.arg = y.arg
          BY <3>2, <4>1, SymIs DEF ExprEq, Ops
        <5> QED BY <5>1 DEF Same
      <4>2. CASE n >= 1 /\ Tree(x.arg, n - 1)
        <5>1. n - 1 \in Nat /\ n - 1 < n
          BY <4>2
        <5> QED BY <2>1, <3>1, <3>2, <4>2, <5>1 DEF EqSound
      <4> QED BY <1>1, <2>4, <4>1, <4>2, OpIs
    <3>4. \A f \in Assignments : /\ Holds(x, f) <=> ~Holds(x.arg, f)
                                 /\ Holds(y, f) <=> ~Holds(y.arg, f)
      BY <3>1, NotHolds
    <3> QED BY <3>3, <3>4 DEF Same
  <2>5. CASE x.op \notin Ops /\ x.op # "not"
    <3>1. x = y
      BY <1>1, <2>5 DEF ExprEq
    <3> QED BY <3>1 DEF Same
  <2> QED BY <2>3, <2>4, <2>5
<1>2. \A n \in Nat : (\A m \in Nat : m < n => m \in S) => n \in S
  BY <1>1 DEF EqSound
<1> HIDE DEF S
<1>3. Nat \subseteq S
  BY <1>2, AllNumbers
<1> QED BY <1>3 DEF S

\* What expr_eliminate_eq leaves of two expressions differs wherever they do.
LEMMA EliminateEqIs ==
  ASSUME NoModules, CallsOfValue, CallsOfEliminateYn, CallsOfExprEq, CallsOfCancelLoop,
         NEW e1, IsTree(e1), NEW e2, IsTree(e2)
  PROVE  LET r == EliminateEq(e1, e2)
         IN  IsTree(r[1]) /\ IsTree(r[2]) /\ OrderKept(e1, e2, r[1], r[2])
<1> DEFINE First(pair) == IF pair[1].op \in Ops THEN CancelAs(pair[1].op, pair) ELSE pair
           Second(pair) ==
             IF pair[2].op \in Ops \ {pair[1].op} THEN CancelAs(pair[2].op, pair) ELSE pair
           Good(pair) == /\ pair = <<pair[1], pair[2]>>
                         /\ IsTree(pair[1]) /\ IsTree(pair[2])
                         /\ OrderKept(e1, e2, pair[1], pair[2])
           p == <<e1, e2>>
           q == First(p)
           r == Second(q)
<1>1. ASSUME NEW pair, Good(pair), NEW op \in Ops
      PROVE  Good(CancelAs(op, pair))
  <2> DEFINE x == pair[1]
             y == pair[2]
             z == CancelAs(op, pair)
  <2>1. PICK n \in Nat : Tree(x, n)
    BY <1>1 DEF IsTree
  <2>2. Forest(Operands(op, x), n) /\ EqSound(n)
    BY <2>1, OperandsAre, ExprEqIs
  <2>3. CancelAs(op, <<x, y>>) = z
    BY <1>1
  <2>4. IsTree(z[1]) /\ IsTree(z[2]) /\ OrderKept(x, y, z[1], z[2])
    BY <1>1, <2>2, <2>3, CancelAsIs
  <2>5. z = <<z[1], z[2]>>
    BY DEF CancelAs
  <2> HIDE DEF z
  <2>6. OrderKept(e1, e2, z[1], z[2])
    BY <1>1, <2>4 DEF OrderKept
  <2>7. Good(z)
    BY <2>4, <2>5, <2>6
  <2> QED BY <2>7 DEF z
<1>2. Good(p)
  <2>1. p[1] = e1 /\ p[2] = e2
    OBVIOUS
  <2>2. OrderKept(e1, e2, e1, e2)
    BY DEF OrderKept
  <2> QED BY <2>1, <2>2
<1>3. Good(q)
  <2> HIDE DEF Good, p
  <2> QED BY <1>1, <1>2
<1>4. Good(r)
  <2> HIDE DEF Good, q
  <2> QED BY <1>1, <1>3
<1>5. EliminateEq(e1, e2) = <<EliminateYn(r[1]), EliminateYn(r[2])>>
  BY DEF EliminateEq
<1> HIDE DEF r
<1>6. /\ IsTree(EliminateYn(r[1])) /\ Same(EliminateYn(r[1]), r[1])
      /\ IsTree(EliminateYn(r[2])) /\ Same(EliminateYn(r[2]), r[2])
  BY <1>4, EliminateYnIs DEF IsTree
<1>7. OrderKept(e1, e2, EliminateYn(r[1]), EliminateYn(r[2]))
  BY <1>4, <1>6 DEF OrderKept, Same
<1> QED BY <1>5, <1>6, <1>7

-----------------------------------------------------------------------------
(* Two operands become one.                                                *)

LEMMA PairOfLiterals ==
  ASSUME NEW e1, NEW e2, NEW x, NEW y, IsPair(e1, e2, x, y), IsLiteral(x), IsLiteral(y)
  PROVE  IsLiteral(e1) /\ IsLiteral(e2)
<1>1. (e1 = x /\ e2 = y) \/ (e1 = y /\ e2 = x)
  BY DEF IsPair
<1> QED BY <1>1

LEMMA JoinedTests ==
  ASSUME NoModules, NEW op \in Ops, NEW e1, NEW e2, NEW s \in Tristates,
         NEW x, x = IF op = "or" THEN JoinOr(e1, e2, s) ELSE JoinAnd(e1, e2, s), x # NoExpr
  PROVE  IsLiteral(e1) /\ IsLiteral(e2) /\ IsLiteral(x)
<1>1. s \in SymsRead /\ "y" \in SymsRead /\ "n" \in SymsRead
  BY DEF SymsRead
<1>2. /\ IsLiteral(Sym(s)) /\ IsLiteral(Not(Sym(s))) /\ IsLiteral(Sym("y")) /\ IsLiteral(Sym("n"))
      /\ \A c : IsLiteral(Comp("=", s, c)) /\ IsLiteral(Comp("!=", s, c))
  BY <1>1, NoString, SymIs, CompIs
<1>3. CASE op = "or"
  <2> DEFINE equal == Compared(e1, e2, s, "=", "=", Different)
             c == OneOf(equal)
  <2>1. x = JoinOr(e1, e2, s)
    BY <1>3
  <2>2. CASE s \in Tris /\ equal # {}
    <3>1. x = Comp("!=", s, ThirdOf(c[1], c[2]))
      BY <2>1, <2>2, SymsAssumption DEF JoinOr
    <3>2. c \in equal
      BY <2>2 DEF OneOf
    <3> HIDE DEF c
    <3>3. IsPair(e1, e2, Comp("=", s, c[1]), Comp("=", s, c[2]))
      BY <3>2 DEF Compared
    <3> QED BY <1>2, <3>1, <3>3, PairOfLiterals
  <2>3. CASE ~(s \in Tris /\ equal # {})
    <3>1. IsPair(e1, e2, Sym(s), Not(Sym(s))) /\ x = Sym("y")
      BY <2>1, <2>3 DEF JoinOr
    <3> QED BY <1>2, <3>1, PairOfLiterals
  <2> QED BY <2>2, <2>3
<1>4. CASE op = "and"
  <2> DEFINE unequal == Compared(e1, e2, s, "!=", "!=", Different)
             mixed   == Compared(e1, e2, s, "=", "!=", (YMN \cup Texts) \X (YMN \cup Texts))
             c == OneOf(mixed)
             d == OneOf(unequal)
  <2>1. \/ IsPair(e1, e2, Sym(s), Comp("=", s, "y"))  /\ x = Comp("=", s, "y")
        \/ IsPair(e1, e2, Sym(s), Comp("!=", s, "n")) /\ x = Sym(s)
        \/ IsPair(e1, e2, Sym(s), Comp("!=", s, "m")) /\ x = Comp("=", s, "y")
        \/ mixed # {} /\ x = IF c[1] = c[2] THEN Sym("n") ELSE Comp("=", s, c[1])
        \/ unequal # {} /\ x = Comp("=", s, ThirdOf(d[1], d[2]))
    <3>1. x = JoinAnd(e1, e2, s)
      BY <1>4
    <3> QED BY <3>1, AndRules
  <2>2. CASE \E k \in {"y", "n", "m"} : \E o \in {"=", "!="} :
               IsPair(e1, e2, Sym(s), Comp(o, s, k)) /\ x \in {Comp("=", s, "y"), Sym(s)}
    BY <1>2, <2>2, PairOfLiterals
  <2>3. CASE mixed # {} /\ x = IF c[1] = c[2] THEN Sym("n") ELSE Comp("=", s, c[1])
    <3>1. c \in mixed
      BY <2>3 DEF OneOf
    <3> HIDE DEF c
    <3>2. IsPair(e1, e2, Comp("=", s, c[1]), Comp("!=", s, c[2]))
      BY <3>1 DEF Compared
    <3> QED BY <1>2, <2>3, <3>2, PairOfLiterals
  <2>4. CASE unequal # {} /\ x = Comp("=", s, ThirdOf(d[1], d[2]))
    <3>1. d \in unequal
      BY <2>4 DEF OneOf
    <3> HIDE DEF d
    <3>2. IsPair(e1, e2, Comp("!=", s, d[1]), Comp("!=", s, d[2]))
      BY <3>1 DEF Compared
    <3> QED BY <1>2, <2>4, <3>2, PairOfLiterals
  <2> HIDE DEF mixed, unequal, c, d
  <2> QED BY <2>1, <2>2, <2>3, <2>4
<1> QED BY <1>3, <1>4 DEF Ops

\* The joint of two operands has the value they have together.
LEMMA JoinIs ==
  ASSUME NoModules, CallsOfValue, CallsOfEliminateYn, CallsOfExprEq, CallsOfCancelLoop,
         NEW op \in Ops, NEW n \in Nat, NEW e1, Tree(e1, n), NEW e2, IsTree(e2),
         Join(op, e1, e2) # NoExpr
  PROVE  LET x == Join(op, e1, e2)
         IN  /\ Tree(x, n)
             /\ \A f \in Assignments : Holds(x, f) <=> Both(op, Holds(e1, f), Holds(e2, f))
<1> DEFINE s == TestedFirst(e1)
           x == Join(op, e1, e2)
<1>1. CASE ExprEq(e1, e2)
  <2>1. x = e1
    BY <1>1 DEF Join
  <2>2. Same(e1, e2)
    BY <1>1, ExprEqIs DEF EqSound
  <2> QED BY <2>1, <2>2 DEF Same, Both
<1>2. CASE ~ExprEq(e1, e2)
  <2>1. x = (IF op = "or" THEN JoinOr(e1, e2, s) ELSE JoinAnd(e1, e2, s)) /\ s \in Tristates
    BY <1>2 DEF Join, SameTest, Tristates
  <2>2. x # NoExpr
    OBVIOUS
  <2> HIDE DEF x, s
  <2>3. IsLiteral(e1) /\ IsLiteral(e2) /\ IsLiteral(x)
    BY <2>1, <2>2, JoinedTests
  <2>4. ASSUME NEW f \in Assignments
        PROVE  Holds(x, f) <=> Both(op, Holds(e1, f), Holds(e2, f))
    <3>1. /\ Value(x, f) = Val(x, f) /\ Value(e1, f) = Val(e1, f) /\ Value(e2, f) = Val(e2, f)
          /\ Value(e1, f) \in {0, 2} /\ Value(e2, f) \in {0, 2}
      BY <2>3, ValIs, LiteralValue
    <3>2. CASE op = "or"
      <4>1. Val(x, f) = Larger(Val(e1, f), Val(e2, f))
        BY <2>1, <2>2, <3>2, JoinsKeepValue
      <4> QED BY <3>1, <3>2, <4>1 DEF Holds, Both, Larger
    <3>3. CASE op = "and"
      <4>1. Val(x, f) = Smaller(Val(e1, f), Val(e2, f))
        BY <2>1, <2>2, <3>3, JoinsKeepValue
      <4> QED BY <3>1, <3>3, <4>1 DEF Holds, Both, Smaller
    <3> QED BY <3>2, <3>3 DEF Ops
  <2>5. Tree(x, n)
    BY <2>3, LiteralIsTree
  <2> QED BY <2>4, <2>5 DEF x
<1> QED BY <1>1, <1>2

LEMMA NoExprIs ==
  ASSUME NEW e, IsTree(e)
  PROVE  e # NoExpr
<1>1. NoExpr.op = "none" /\ "none" \notin {"sym", "=", "!=", "not"} \cup Ops
  BY DEF NoExpr, Ops
<1>2. e.op \in {"sym", "=", "!=", "not"} \cup Ops
  BY OpIs DEF IsTree
<1> QED BY <1>1, <1>2

-----------------------------------------------------------------------------
(* The walk that joins operands.                                           *)

CallsOfDups1 == \A r : IsTree(r.e) => CallDups1(r) = Dups1(r)
CallsOfDups1Loop ==
  \A op, acc, i, j : IsForest(acc.es) /\ i \in Nat \ {0} /\ j \in Nat \ {0} =>
    CallDups1Loop(op, acc, i, j) = Dups1Loop(op, acc, i, j)

\* A list has become another one of the same value, operand for operand.
Kept(op, es, r, n) ==
  /\ Forest(r, n) /\ Len(r) = Len(es)
  /\ \A f \in Assignments : ListHolds(op, r, f) <=> ListHolds(op, es, f)

LEMMA OneKept ==
  ASSUME NEW op \in Ops, NEW n, NEW es, Forest(es, n), NEW i \in 1 .. Len(es),
         NEW x, Tree(x, n), Same(x, es[i])
  PROVE  Kept(op, es, ReplaceAt(es, i, x), n)
<1> DEFINE r == ReplaceAt(es, i, x)
<1>1. /\ Forest(r, n) /\ Len(r) = Len(es) /\ r[i] = x
      /\ \A f : Rest(op, r, i, f) <=> Rest(op, es, i, f)
  BY ReplacedIs
<1> HIDE DEF r
<1>2. ASSUME NEW f \in Assignments PROVE ListHolds(op, r, f) <=> ListHolds(op, es, f)
  <2>1. /\ ListHolds(op, r, f) <=> Both(op, Rest(op, r, i, f), Holds(r[i], f))
        /\ ListHolds(op, es, f) <=> Both(op, Rest(op, es, i, f), Holds(es[i], f))
    BY <1>1, RestIs
  <2>2. Holds(r[i], f) <=> Holds(es[i], f)
    BY <1>1 DEF Same
  <2> QED BY <1>1, <2>1, <2>2 DEF Both
<1>3. Kept(op, es, r, n)
  BY <1>1, <1>2 DEF Kept
<1> QED BY <1>3 DEF r

LEMMA TwoKept ==
  ASSUME NoModules, NEW op \in Ops, NEW n \in Nat, NEW es, Forest(es, n),
         NEW i \in 1 .. Len(es), NEW j \in 1 .. Len(es), i # j, NEW x, Tree(x, n),
         \A f \in Assignments : Holds(x, f) <=> Both(op, Holds(es[i], f), Holds(es[j], f))
  PROVE  Kept(op, es, ReplaceAt(ReplaceAt(es, i, Unit(op)), j, x), n)
<1> DEFINE u == Unit(op)
           q == ReplaceAt(es, i, u)
           r == ReplaceAt(q, j, x)
<1>1. Tree(u, n) /\ \A f \in Assignments : Holds(u, f) <=> op = "and"
  BY UnitIs, LiteralIsTree
<1> HIDE DEF u
<1>2. /\ Forest(q, n) /\ Len(q) = Len(es) /\ q[i] = u
      /\ \A k \in 1 .. Len(es) : k # i => q[k] = es[k]
  BY <1>1, ReplacedIs
<1> HIDE DEF q
<1>3. /\ Forest(r, n) /\ Len(r) = Len(es) /\ r[j] = x
      /\ \A k \in 1 .. Len(es) : k # j => r[k] = q[k]
  BY <1>2, ReplacedIs
<1> HIDE DEF r
<1>4. r[i] = u /\ r[j] = x /\ \A k \in 1 .. Len(es) : k \notin {i, j} => r[k] = es[k]
  BY <1>2, <1>3
<1>5. ASSUME NEW f \in Assignments PROVE ListHolds(op, r, f) <=> ListHolds(op, es, f)
  <2>1. CASE op = "and"
    BY <1>1, <1>3, <1>4, <2>1 DEF ListHolds, Both
  <2>2. CASE op = "or"
    BY <1>1, <1>3, <1>4, <2>2 DEF ListHolds, Both
  <2> QED BY <2>1, <2>2 DEF Ops
<1>6. Kept(op, es, r, n)
  BY <1>3, <1>5 DEF Kept
<1> QED BY <1>6 DEF r, q, u

LEMMA KeptAgain ==
  ASSUME NEW op, NEW es, NEW q, NEW r, NEW n, Kept(op, es, q, n), Kept(op, q, r, n)
  PROVE  Kept(op, es, r, n)
  BY DEF Kept

Dups1Sound(n) ==
  \A r : Tree(r.e, n) => Tree(Dups1(r).e, n) /\ Same(Dups1(r).e, r.e)

LEMMA Dups1PairIs ==
  ASSUME NoModules, CallsOfValue, CallsOfEliminateYn, CallsOfExprEq, CallsOfCancelLoop,
         CallsOfDups1, NEW op \in Ops, NEW n \in Nat, Dups1Sound(n),
         NEW acc, Forest(acc.es, n), NEW i \in 1 .. Len(acc.es), NEW j \in 1 .. Len(acc.es)
  PROVE  Kept(op, acc.es, Dups1Pair(op, acc, i, j).es, n)
<1> DEFINE es == acc.es
           r == [e |-> es[i], hit |-> acc.hit]
           in == CallDups1(r)
           x == Join(op, in.e, es[j])
           d == Dups1Pair(op, acc, i, j)
<1>1. Tree(es[i], n) /\ Tree(es[j], n) /\ r.e = es[i]
  BY ForestTrees
<1>2. Tree(in.e, n) /\ Same(in.e, es[i])
  <2>1. in = Dups1(r)
    BY <1>1 DEF CallsOfDups1, IsTree
  <2> HIDE DEF in, r
  <2> QED BY <1>1, <2>1 DEF Dups1Sound
<1>3. d = IF i = j THEN acc
          ELSE IF x = NoExpr THEN [es |-> ReplaceAt(es, i, in.e), hit |-> in.hit]
          ELSE [es |-> ReplaceAt(ReplaceAt(es, i, Unit(op)), j, x), hit |-> TRUE]
  BY DEF Dups1Pair
<1> HIDE DEF d, in
<1>4. CASE i = j
  BY <1>3, <1>4 DEF Kept, d
<1>5. CASE i # j /\ x = NoExpr
  <2>1. d.es = ReplaceAt(es, i, in.e)
    BY <1>3, <1>5
  <2>2. Kept(op, es, ReplaceAt(es, i, in.e), n)
    BY <1>2, OneKept
  <2> QED BY <2>1, <2>2 DEF d
<1>6. CASE i # j /\ x # NoExpr
  <2>1. d.es = ReplaceAt(ReplaceAt(es, i, Unit(op)), j, x)
    BY <1>3, <1>6
  <2>2. Tree(x, n) /\ \A f \in Assignments : Holds(x, f) <=> Both(op, Holds(in.e, f), Holds(es[j], f))
    BY <1>1, <1>2, <1>6, JoinIs DEF IsTree
  <2> HIDE DEF x
  <2>3. \A f \in Assignments : Holds(x, f) <=> Both(op, Holds(es[i], f), Holds(es[j], f))
    BY <1>2, <2>2 DEF Same, Both
  <2>4. Kept(op, es, ReplaceAt(ReplaceAt(es, i, Unit(op)), j, x), n)
    BY <1>6, <2>2, <2>3, TwoKept
  <2> QED BY <2>1, <2>4 DEF d
<1> QED BY <1>4, <1>5, <1>6

LEMMA Dups1LoopIs ==
  ASSUME NoModules, CallsOfValue, CallsOfEliminateYn, CallsOfExprEq, CallsOfCancelLoop,
         CallsOfDups1, CallsOfDups1Loop, NEW op \in Ops, NEW n \in Nat, Dups1Sound(n),
         NEW acc, Forest(acc.es, n)
  PROVE  Kept(op, acc.es, Dups1Loop(op, acc, 1, 1).es, n)
<1> DEFINE N == Len(acc.es)
           Begins(c) == Forest(c.es, n) /\ Len(c.es) = N
           Ends(c, p) == Kept(op, c.es, Dups1Loop(op, c, p[1], p[2]).es, n)
           S == {p \in Nat \X Nat : \A c : Begins(c) => Ends(c, p)}
<1>1. N \in Nat
  BY ForestTrees
<1>2. \A c : Begins(c) => IsForest(c.es)
  BY DEF IsForest
<1> HIDE DEF N
<1>3. ASSUME NEW j \in 1 .. N + 1
      PROVE  <<N + 1, j>> \in S
  <2>1. ASSUME NEW c, Begins(c) PROVE Ends(c, <<N + 1, j>>)
    <3>1. Dups1Loop(op, c, N + 1, j) = c
      BY <1>1, <2>1 DEF Dups1Loop
    <3> QED BY <2>1, <3>1 DEF Kept
  <2> HIDE DEF Begins, Ends
  <2> QED BY <1>1, <2>1
<1>4. ASSUME NEW i \in 1 .. N, <<i + 1, 1>> \in S
      PROVE  <<i, N + 1>> \in S
  <2>1. ASSUME NEW c, Begins(c) PROVE Ends(c, <<i, N + 1>>)
    <3>1. Dups1Loop(op, c, i, N + 1) = CallDups1Loop(op, c, i + 1, 1)
      BY <1>1, <2>1 DEF Dups1Loop
    <3>2. CallDups1Loop(op, c, i + 1, 1) = Dups1Loop(op, c, i + 1, 1)
      <4>1. i + 1 \in Nat \ {0} /\ 1 \in Nat \ {0}
        OBVIOUS
      <4> QED BY <1>2, <2>1, <4>1 DEF CallsOfDups1Loop
    <3>3. Ends(c, <<i + 1, 1>>)
      BY <1>4, <2>1
    <3> QED BY <3>1, <3>2, <3>3
  <2> HIDE DEF Begins, Ends
  <2> QED BY <1>1, <2>1
<1>5. ASSUME NEW i \in 1 .. N, NEW j \in 1 .. N, <<i, j + 1>> \in S
      PROVE  <<i, j>> \in S
  <2>1. ASSUME NEW c, Begins(c) PROVE Ends(c, <<i, j>>)
    <3> DEFINE d == Dups1Pair(op, c, i, j)
    <3>1. Dups1Loop(op, c, i, j) = CallDups1Loop(op, d, i, j + 1)
      BY <1>1, <2>1 DEF Dups1Loop
    <3>2. Kept(op, c.es, d.es, n)
      BY <2>1, Dups1PairIs
    <3> HIDE DEF d
    <3>3. Begins(d)
      BY <2>1, <3>2 DEF Kept
    <3>4. CallDups1Loop(op, d, i, j + 1) = Dups1Loop(op, d, i, j + 1)
      <4>1. i \in Nat \ {0} /\ j + 1 \in Nat \ {0}
        OBVIOUS
      <4> QED BY <1>2, <3>3, <4>1 DEF CallsOfDups1Loop
    <3>5. Ends(d, <<i, j + 1>>)
      BY <1>5, <3>3
    <3>6. Kept(op, d.es, Dups1Loop(op, d, i, j + 1).es, n)
      BY <3>5
    <3>7. Kept(op, c.es, Dups1Loop(op, d, i, j + 1).es, n)
      BY <3>2, <3>6, KeptAgain
    <3> QED BY <3>1, <3>4, <3>7
  <2> HIDE DEF Begins, Ends
  <2> QED BY <1>1, <2>1
<1>6. <<1, 1>> \in S
  <2> HIDE DEF S
  <2> QED BY <1>1, <1>3, <1>4, <1>5, NestedLoop
<1>7. Begins(acc)
  BY DEF N
<1>8. Ends(acc, <<1, 1>>)
  BY <1>6, <1>7
<1> QED BY <1>8

\* A list that is built anew from operands that have the value it had
LEMMA BuiltAnew ==
  ASSUME NoModules, CallsOfValue, NEW n \in Nat, NEW e, Tree(e, n), e.op \in Ops,
         NEW es, Kept(e.op, e.args, es, n - 2)
  PROVE  Tree(Of(e.op, es), n) /\ Same(Of(e.op, es), e)
<1>1. /\ n - 2 \in Nat /\ n - 2 + 2 = n /\ Len(e.args) > 1
      /\ \A f \in Assignments : Holds(e, f) <=> ListHolds(e.op, e.args, f)
  BY NodeIs
<1>2. Forest(es, n - 2) /\ Len(es) = Len(e.args)
      /\ \A f \in Assignments : ListHolds(e.op, es, f) <=> ListHolds(e.op, e.args, f)
  BY DEF Kept
<1>3. Len(es) > 0
  BY <1>1, <1>2
<1>4. /\ Tree(Of(e.op, es), n - 2 + 2)
      /\ \A f \in Assignments : Holds(Of(e.op, es), f) <=> ListHolds(e.op, es, f)
  BY <1>1, <1>2, <1>3, OfIs
<1> QED BY <1>1, <1>2, <1>4 DEF Same

\* expr_eliminate_dups1 keeps the value of every expression.
LEMMA Dups1Is ==
  ASSUME NoModules, CallsOfValue, CallsOfEliminateYn, CallsOfExprEq, CallsOfCancelLoop,
         CallsOfDups1, CallsOfDups1Loop
  PROVE  \A n \in Nat : Dups1Sound(n)
<1> DEFINE S == {n \in Nat : Dups1Sound(n)}
<1>1. ASSUME NEW n \in Nat, \A m \in Nat : m < n => m \in S, NEW r, Tree(r.e, n)
      PROVE  Tree(Dups1(r).e, n) /\ Same(Dups1(r).e, r.e)
  <2>1. CASE r.e.op \notin Ops
    <3>1. Dups1(r) = r
      BY <2>1 DEF Dups1
    <3> QED BY <1>1, <3>1 DEF Same
  <2>2. CASE r.e.op \in Ops
    <3> DEFINE op == r.e.op
               acc == [es |-> r.e.args, hit |-> r.hit]
               d == Dups1Loop(op, acc, 1, 1)
    <3>1. n - 2 \in Nat /\ n - 2 < n /\ Forest(r.e.args, n - 2)
      BY <1>1, <2>2, NodeIs
    <3>2. Dups1Sound(n - 2)
      BY <1>1, <3>1
    <3>3. acc.es = r.e.args
      OBVIOUS
    <3>4. Dups1(r) = [e |-> Of(op, d.es), hit |-> d.hit]
      BY <2>2 DEF Dups1
    <3> HIDE DEF acc, S
    <3>5. Kept(op, r.e.args, d.es, n - 2)
      BY <2>2, <3>1, <3>2, <3>3, Dups1LoopIs
    <3> HIDE DEF d
    <3>6. Tree(Of(op, d.es), n) /\ Same(Of(op, d.es), r.e)
      BY <1>1, <2>2, <3>5, BuiltAnew
    <3> QED BY <3>4, <3>6
  <2> QED BY <2>1, <2>2
<1>2. \A n \in Nat : (\A m \in Nat : m < n => m \in S) => n \in S
  BY <1>1 DEF Dups1Sound
<1> HIDE DEF S
<1>3. Nat \subseteq S
  BY <1>2, AllNumbers
<1> QED BY <1>3 DEF S

-----------------------------------------------------------------------------
(* The walk that finds the negation of an operand.                         *)

\* Where e has the value that decides a list of kind op, x has the other one.
LEMMA RefutesIs ==
  ASSUME NoModules, CallsOfValue, CallsOfEliminateYn, CallsOfExprEq, CallsOfCancelLoop,
         CallsOfTransform, NEW op \in Ops, NEW x, IsTree(x), NEW e, IsTree(e),
         Refutes(op, x, e), NEW f \in Assignments
  PROVE  IF op = "and" THEN Holds(e, f) => ~Holds(x, f) ELSE ~Holds(e, f) => Holds(x, f)
<1> DEFINE neg == Transform(Not(x))
           l1 == Operands(op, neg)
           l2 == Operands(op, e)
           c == Cancel(op, l1, l2, FALSE)
<1>1. IsTree(neg) /\ (Holds(neg, f) <=> ~Holds(x, f))
  <2>1. PICK n \in Nat : Tree(x, n)
    BY DEF IsTree
  <2>2. Tree(Not(x), n + 1) /\ n + 1 \in Nat
    BY <2>1, NotIsTree
  <2>3. Tree(neg, n + 1) /\ Same(neg, Not(x))
    BY <2>2, TransformIs
  <2>4. Holds(Not(x), f) <=> ~Holds(x, f)
    BY NotHolds
  <2> QED BY <2>2, <2>3, <2>4 DEF IsTree, Same
<1>2. (IF c.hit THEN EliminateYn(Of(op, c.l1)) ELSE neg) = Unit(op)
  BY DEF Refutes
<1> HIDE DEF neg
<1>3. Holds(Unit(op), f) <=> op = "and"
  BY UnitIs
<1>4. CASE ~c.hit
  <2>1. neg = Unit(op)
    BY <1>2, <1>4
  <2> QED BY <1>1, <1>3, <2>1
<1>5. CASE c.hit
  <2>1. PICK n \in Nat : Tree(neg, n)
    BY <1>1 DEF IsTree
  <2>2. PICK m \in Nat : Tree(e, m)
    BY DEF IsTree
  <2>3. Forest(l1, n) /\ Len(l1) > 0 /\ (Holds(neg, f) <=> ListHolds(op, l1, f))
    BY <2>1, OperandsAre
  <2>4. Forest(l2, m) /\ (Holds(e, f) <=> ListHolds(op, l2, f))
    BY <2>2, OperandsAre
  <2>5. EqSound(n)
    BY ExprEqIs
  <2>6. IsLeft(op, l1, l2, c, n, m)
    BY <2>3, <2>4, <2>5, CancelIs
  <2> HIDE DEF l1, l2, c
  <2>7. Forest(c.l1, n) /\ Len(c.l1) > 0 /\ TakenFrom(op, l1, l2, c, f)
    BY <2>3, <2>6 DEF IsLeft
  <2>8. /\ Tree(Of(op, c.l1), n + 2) /\ n + 2 \in Nat
        /\ Holds(Of(op, c.l1), f) <=> ListHolds(op, c.l1, f)
    BY <2>7, OfIs
  <2>9. Holds(EliminateYn(Of(op, c.l1)), f) <=> Holds(Of(op, c.l1), f)
    BY <2>8, EliminateYnIs DEF Same
  <2>10. ListHolds(op, c.l1, f) <=> op = "and"
    BY <1>2, <1>3, <1>5, <2>8, <2>9
  <2>11. PICK k \in BOOLEAN : /\ ListHolds(op, l1, f) <=> Both(op, ListHolds(op, c.l1, f), k)
                              /\ ListHolds(op, l2, f) <=> Both(op, ListHolds(op, c.l2, f), k)
    BY <2>7 DEF TakenFrom
  <2> QED BY <1>1, <2>3, <2>4, <2>10, <2>11 DEF Both
<1> QED BY <1>4, <1>5

CallsOfDups2 == \A r : IsTree(r.e) => CallDups2(r) = Dups2(r)
CallsOfDups2Loop ==
  \A op, acc, i, j : IsForest(acc.es) /\ i \in Nat \ {0} /\ j \in Nat \ {0} =>
    CallDups2Loop(op, acc, i, j) = Dups2Loop(op, acc, i, j)

Dups2Sound(n) ==
  \A r : Tree(r.e, n) => Tree(Dups2(r).e, n) /\ Same(Dups2(r).e, r.e)

\* (FOO || BAR) && (!FOO && !BAR) -> n
LEMMA RefutedIs ==
  ASSUME NoModules, CallsOfValue, CallsOfEliminateYn, CallsOfExprEq, CallsOfCancelLoop,
         CallsOfTransform, NEW op \in Ops, NEW n \in Nat, NEW es, Forest(es, n),
         NEW i \in 1 .. Len(es), NEW j \in 1 .. Len(es) + 1,
         Refutes(op, es[i], IF j > Len(es) THEN Of(op, es) ELSE es[j])
  PROVE  Kept(op, es, ReplaceAt(es, i, Zero(op)), n)
<1> DEFINE N == Len(es)
           e == IF j > N THEN Of(op, es) ELSE es[j]
           r == ReplaceAt(es, i, Zero(op))
<1>1. N \in Nat /\ N > 0 /\ n + 2 \in Nat /\ \A k \in 1 .. N : Tree(es[k], n)
  BY ForestTrees
<1>2. /\ IsTree(e)
      /\ \A f \in Assignments :
           IF op = "and" THEN ListHolds(op, es, f) => Holds(e, f)
           ELSE Holds(e, f) => ListHolds(op, es, f)
  <2>1. CASE j > N
    <3>1. e = Of(op, es)
      BY <2>1
    <3>2. /\ Tree(Of(op, es), n + 2)
          /\ \A f \in Assignments : Holds(Of(op, es), f) <=> ListHolds(op, es, f)
      BY <1>1, OfIs
    <3> HIDE DEF e
    <3> QED BY <1>1, <3>1, <3>2 DEF IsTree
  <2>2. CASE ~(j > N)
    <3>1. e = es[j] /\ j \in 1 .. N
      BY <1>1, <2>2
    <3> HIDE DEF e
    <3>2. IsTree(e)
      BY <1>1, <3>1 DEF IsTree
    <3> QED BY <3>1, <3>2 DEF ListHolds, N
  <2> QED BY <2>1, <2>2
<1>3. Refutes(op, es[i], e)
  OBVIOUS
<1>4. IsTree(es[i])
  BY <1>1 DEF IsTree
<1>5. Tree(Zero(op), n) /\ \A f \in Assignments : Holds(Zero(op), f) <=> op = "or"
  BY UnitIs, LiteralIsTree
<1>6. Forest(r, n) /\ Len(r) = N /\ r[i] = Zero(op)
  BY <1>5, ReplacedIs
<1> HIDE DEF e, r
<1>7. ASSUME NEW f \in Assignments PROVE ListHolds(op, r, f) <=> ListHolds(op, es, f)
  <2>1. CASE op = "and"
    <3>1. Holds(e, f) => ~Holds(es[i], f)
      BY <1>2, <1>3, <1>4, <2>1, RefutesIs
    <3>2. ListHolds(op, es, f) => Holds(e, f) /\ Holds(es[i], f)
      BY <1>2, <2>1 DEF ListHolds
    <3>3. ~ListHolds(op, r, f)
      BY <1>5, <1>6, <2>1 DEF ListHolds, N
    <3> QED BY <3>1, <3>2, <3>3
  <2>2. CASE op = "or"
    <3>1. ~Holds(e, f) => Holds(es[i], f)
      BY <1>2, <1>3, <1>4, <2>2, RefutesIs
    <3>2. Holds(e, f) \/ Holds(es[i], f) => ListHolds(op, es, f)
      BY <1>2, <2>2 DEF ListHolds
    <3>3. ListHolds(op, r, f)
      BY <1>5, <1>6, <2>2 DEF ListHolds, N
    <3> QED BY <3>1, <3>2, <3>3
  <2> QED BY <2>1, <2>2 DEF Ops
<1>8. Kept(op, es, r, n)
  BY <1>6, <1>7 DEF Kept, N
<1> QED BY <1>8 DEF r

LEMMA Dups2PairIs ==
  ASSUME NoModules, CallsOfValue, CallsOfEliminateYn, CallsOfExprEq, CallsOfCancelLoop,
         CallsOfTransform, CallsOfDups2, NEW op \in Ops, NEW n \in Nat, Dups2Sound(n),
         NEW acc, Forest(acc.es, n), NEW i \in 1 .. Len(acc.es), NEW j \in 1 .. Len(acc.es) + 1
  PROVE  Kept(op, acc.es, Dups2Pair(op, acc, i, j).es, n)
<1> DEFINE r == [e |-> acc.es[i], hit |-> acc.hit]
           in == CallDups2(r)
           es == ReplaceAt(acc.es, i, in.e)
           e == IF j > Len(es) THEN Of(op, es) ELSE es[j]
           d == Dups2Pair(op, acc, i, j)
<1>1. Tree(acc.es[i], n) /\ r.e = acc.es[i]
  BY ForestTrees
<1>2. Tree(in.e, n) /\ Same(in.e, acc.es[i])
  <2>1. in = Dups2(r)
    BY <1>1 DEF CallsOfDups2, IsTree
  <2> HIDE DEF in, r
  <2> QED BY <1>1, <2>1 DEF Dups2Sound
<1>3. \/ d = acc
      \/ Refutes(op, in.e, e) /\ d = [es |-> ReplaceAt(es, i, Zero(op)), hit |-> TRUE]
      \/ d = [es |-> es, hit |-> in.hit]
  BY DEF Dups2Pair
<1> HIDE DEF d, in
<1>4. Kept(op, acc.es, es, n) /\ es[i] = in.e
  BY <1>2, OneKept, ReplacedIs
<1> HIDE DEF es
<1>5. CASE d = acc
  BY <1>5 DEF Kept, d
<1>6. CASE Refutes(op, in.e, e) /\ d = [es |-> ReplaceAt(es, i, Zero(op)), hit |-> TRUE]
  <2>1. Forest(es, n) /\ i \in 1 .. Len(es) /\ j \in 1 .. Len(es) + 1 /\ Refutes(op, es[i], e)
    BY <1>4, <1>6 DEF Kept
  <2>2. Kept(op, es, ReplaceAt(es, i, Zero(op)), n)
    BY <2>1, RefutedIs
  <2>3. Kept(op, acc.es, ReplaceAt(es, i, Zero(op)), n)
    BY <1>4, <2>2, KeptAgain
  <2>4. d.es = ReplaceAt(es, i, Zero(op))
    BY <1>6
  <2> QED BY <2>3, <2>4 DEF d
<1>7. CASE d = [es |-> es, hit |-> in.hit]
  <2>1. d.es = es
    BY <1>7
  <2> QED BY <1>4, <2>1 DEF d
<1> QED BY <1>3, <1>5, <1>6, <1>7

LEMMA Dups2LoopIs ==
  ASSUME NoModules, CallsOfValue, CallsOfEliminateYn, CallsOfExprEq, CallsOfCancelLoop,
         CallsOfTransform, CallsOfDups2, CallsOfDups2Loop, NEW op \in Ops, NEW n \in Nat, Dups2Sound(n),
         NEW acc, Forest(acc.es, n)
  PROVE  Kept(op, acc.es, Dups2Loop(op, acc, 1, 1).es, n)
<1> DEFINE N == Len(acc.es)
           Begins(c) == Forest(c.es, n) /\ Len(c.es) = N
           Ends(c, p) == Kept(op, c.es, Dups2Loop(op, c, p[1], p[2]).es, n)
           S == {p \in Nat \X Nat : \A c : Begins(c) => Ends(c, p)}
<1>1. N \in Nat
  BY ForestTrees
<1>2. \A c : Begins(c) => IsForest(c.es)
  BY DEF IsForest
<1> HIDE DEF N
<1>3. ASSUME NEW j \in 1 .. N + 1 + 1
      PROVE  <<N + 1, j>> \in S
  <2>1. ASSUME NEW c, Begins(c) PROVE Ends(c, <<N + 1, j>>)
    <3>1. Dups2Loop(op, c, N + 1, j) = c
      BY <1>1, <2>1 DEF Dups2Loop
    <3> QED BY <2>1, <3>1 DEF Kept
  <2> HIDE DEF Begins, Ends
  <2> QED BY <1>1, <2>1
<1>4. ASSUME NEW i \in 1 .. N, <<i + 1, 1>> \in S
      PROVE  <<i, N + 1 + 1>> \in S
  <2>1. ASSUME NEW c, Begins(c) PROVE Ends(c, <<i, N + 1 + 1>>)
    <3>1. Dups2Loop(op, c, i, N + 1 + 1) = CallDups2Loop(op, c, i + 1, 1)
      BY <1>1, <2>1 DEF Dups2Loop
    <3>2. CallDups2Loop(op, c, i + 1, 1) = Dups2Loop(op, c, i + 1, 1)
      <4>1. i + 1 \in Nat \ {0} /\ 1 \in Nat \ {0}
        OBVIOUS
      <4> QED BY <1>2, <2>1, <4>1 DEF CallsOfDups2Loop
    <3>3. Ends(c, <<i + 1, 1>>)
      BY <1>4, <2>1
    <3> QED BY <3>1, <3>2, <3>3
  <2> HIDE DEF Begins, Ends
  <2> QED BY <1>1, <2>1
<1>5. ASSUME NEW i \in 1 .. N, NEW j \in 1 .. N + 1, <<i, j + 1>> \in S
      PROVE  <<i, j>> \in S
  <2>1. ASSUME NEW c, Begins(c) PROVE Ends(c, <<i, j>>)
    <3> DEFINE d == Dups2Pair(op, c, i, j)
    <3>1. Dups2Loop(op, c, i, j) = CallDups2Loop(op, d, i, j + 1)
      BY <1>1, <2>1 DEF Dups2Loop
    <3>2. Kept(op, c.es, d.es, n)
      BY <2>1, Dups2PairIs
    <3> HIDE DEF d
    <3>3. Begins(d)
      BY <2>1, <3>2 DEF Kept
    <3>4. CallDups2Loop(op, d, i, j + 1) = Dups2Loop(op, d, i, j + 1)
      <4>1. i \in Nat \ {0} /\ j + 1 \in Nat \ {0}
        OBVIOUS
      <4> QED BY <1>2, <3>3, <4>1 DEF CallsOfDups2Loop
    <3>5. Ends(d, <<i, j + 1>>)
      BY <1>5, <3>3
    <3>6. Kept(op, d.es, Dups2Loop(op, d, i, j + 1).es, n)
      BY <3>5
    <3>7. Kept(op, c.es, Dups2Loop(op, d, i, j + 1).es, n)
      BY <3>2, <3>6, KeptAgain
    <3> QED BY <3>1, <3>4, <3>7
  <2> HIDE DEF Begins, Ends
  <2> QED BY <1>1, <2>1
<1>6. <<1, 1>> \in S
  <2> HIDE DEF S
  <2>1. N + 1 \in Nat
    BY <1>1
  <2> QED BY <1>1, <1>3, <1>4, <1>5, <2>1, NestedLoop
<1>7. Begins(acc)
  BY DEF N
<1>8. Ends(acc, <<1, 1>>)
  BY <1>6, <1>7
<1> QED BY <1>8

\* expr_eliminate_dups2 keeps the value of every expression.
LEMMA Dups2Is ==
  ASSUME NoModules, CallsOfValue, CallsOfEliminateYn, CallsOfExprEq, CallsOfCancelLoop,
         CallsOfTransform, CallsOfDups2, CallsOfDups2Loop
  PROVE  \A n \in Nat : Dups2Sound(n)
<1> DEFINE S == {n \in Nat : Dups2Sound(n)}
<1>1. ASSUME NEW n \in Nat, \A m \in Nat : m < n => m \in S, NEW r, Tree(r.e, n)
      PROVE  Tree(Dups2(r).e, n) /\ Same(Dups2(r).e, r.e)
  <2>1. CASE r.e.op \notin Ops
    <3>1. Dups2(r) = r
      BY <2>1 DEF Dups2
    <3> QED BY <1>1, <3>1 DEF Same
  <2>2. CASE r.e.op \in Ops
    <3> DEFINE op == r.e.op
               acc == [es |-> r.e.args, hit |-> r.hit]
               d == Dups2Loop(op, acc, 1, 1)
    <3>1. n - 2 \in Nat /\ n - 2 < n /\ Forest(r.e.args, n - 2)
      BY <1>1, <2>2, NodeIs
    <3>2. Dups2Sound(n - 2)
      BY <1>1, <3>1
    <3>3. acc.es = r.e.args
      OBVIOUS
    <3>4. Dups2(r) = [e |-> Of(op, d.es), hit |-> d.hit]
      BY <2>2 DEF Dups2
    <3> HIDE DEF acc, S
    <3>5. Kept(op, r.e.args, d.es, n - 2)
      BY <2>2, <3>1, <3>2, <3>3, Dups2LoopIs
    <3> HIDE DEF d
    <3>6. Tree(Of(op, d.es), n) /\ Same(Of(op, d.es), r.e)
      BY <1>1, <2>2, <3>5, BuiltAnew
    <3> QED BY <3>4, <3>6
  <2> QED BY <2>1, <2>2
<1>2. \A n \in Nat : (\A m \in Nat : m < n => m \in S) => n \in S
  BY <1>1 DEF Dups2Sound
<1> HIDE DEF S
<1>3. Nat \subseteq S
  BY <1>2, AllNumbers
<1> QED BY <1>3 DEF S
=============================================================================
