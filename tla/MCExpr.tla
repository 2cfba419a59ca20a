------------------------------- MODULE MCExpr -------------------------------
(* Constants of Expr for TLC.                                              *)
EXTENDS Expr

CONSTANTS ba, bb, tri, str, text1, text2

Literals ==
  {Sym(ba), Sym(tri), Sym("n"), Comp("=", ba, "n"), Comp("!=", ba, "m"), Comp("=", str, text1)}
    \cup {Comp(op, tri, c) : op \in {"=", "!="}, c \in YMN}
Negated == {Not(l) : l \in {Sym(ba), Sym(tri), Comp("=", tri, "m")}}
TwoOf(S) == {Of(op, <<l, k>>) : op \in Ops, l \in S, k \in S}

\* depends on of the upper level: two tests, or the negation of two.
Upper == TwoOf(Literals \cup Negated) \cup {Not(e) : e \in TwoOf(Literals)}
\* Of the lower level: tests that share symbols, both ways round.
Lower ==
  {Sym(ba), Comp("!=", tri, "n"), Comp("=", str, text1),
   Of("or", <<Sym(ba), Sym(bb)>>), Not(Of("or", <<Sym(bb), Sym(ba)>>)),
   Of("or", <<Sym(bb), Of("and", <<Sym(ba), Sym(tri)>>)>>),
   Of("and", <<Of("or", <<Sym(ba), Sym(tri)>>), Not(Sym(tri))>>)}
SomePrompts == {NoExpr, Of("or", <<Sym(tri), Not(Sym(ba))>>)}
SomeOwners == {ba, tri, Nobody}
SomeDeps == <<Upper, Lower>>
SomeNextDeps == <<Lower, {}>>

\* The calls of Expr.  Each of these is a LET, and no more: TLC's coverage does not
\* look into it, and would follow the functions that call each other without end.
RunValue(e, f) == LET r == Value(e, f) IN r
RunEliminateYn(e) == LET r == EliminateYn(e) IN r
RunExprEq(e1, e2) == LET r == ExprEq(e1, e2) IN r
RunCancelLoop(op, c, i, j, keep) == LET r == CancelLoop(op, c, i, j, keep) IN r
RunTransform(e) == LET r == Transform(e) IN r
RunDups1(x) == LET r == Dups1(x) IN r
RunDups1Loop(op, acc, i, j) == LET r == Dups1Loop(op, acc, i, j) IN r
RunDups2(x) == LET r == Dups2(x) IN r
RunDups2Loop(op, acc, i, j) == LET r == Dups2Loop(op, acc, i, j) IN r
RunEliminateDups(e) == LET r == EliminateDups(e) IN r
RunTransBool(e) == LET r == TransBool(e) IN r
RunCompare(e, op) == LET r == Compare(e, op) IN r
RunContainsSymbol(e, s) == LET r == ContainsSymbol(e, s) IN r
RunIsExpr(e) == LET r == IsExpr(e) IN r
=============================================================================
