-------------------------------- MODULE Expr --------------------------------
(***************************************************************************)
(* The dependency expressions of support/kconfig: how expr.c rewrites them *)
(* and what menu_finalize makes of the `depends on' and `if' of a menu and *)
(* the menus above it.  Kconfig takes these expressions for what they mean; *)
(* here they are what the program holds.                                   *)
(*                                                                         *)
(* E_AND and E_OR are binary in the program, but every walk goes through   *)
(* nested nodes of one type to what lies below: "and" and "or" have a list *)
(* of at least two operands, none of them with the same op.  The walks     *)
(* change expressions in place while they run over pairs of operands: two   *)
(* nested loops, from the list to the list.                                *)
(*                                                                         *)
(* A function of expr.c that calls itself does it through a constant:       *)
(* CallValue is Value, one call further down, and so on.  Expr.cfg says so  *)
(* (CallValue <- RunValue, which MCExpr defines as Value); to the proofs it *)
(* is an assumption, for the expressions that the function is called with.  *)
(***************************************************************************)
EXTENDS ExprTests, SequencesExt, FiniteSetsExt

CONSTANTS
  CallValue(_, _), CallEliminateYn(_), CallExprEq(_, _), CallCancelLoop(_, _, _, _, _),
  CallTransform(_), CallDups1(_), CallDups1Loop(_, _, _, _), CallDups2(_),
  CallDups2Loop(_, _, _, _), CallEliminateDups(_), CallTransBool(_), CallCompare(_, _),
  CallContainsSymbol(_, _), CallIsExpr(_)

CONSTANTS
  Owners,     \* bound: the symbols of entries
  Deps,       \* bound: sequence of sets, what depends on may say at each level
  NextDeps,   \* bound: sequence of sets, what that of the following entry may say
  Prompts     \* bound: what the if of a prompt may say

Ops == {"and", "or"}

ASSUME EntryAssumption ==
  /\ Owners \subseteq Syms \cup {Nobody}
  /\ Len(Deps) \in Nat \ {0} /\ Len(NextDeps) = Len(Deps)

-----------------------------------------------------------------------------
(* Expressions and their values.                                           *)

Operands(op, e) == IF e.op = op THEN e.args ELSE <<e>>
Of(op, es) ==
  LET all == FlattenSeq([i \in DOMAIN es |-> Operands(op, es[i])])
  IN  IF Len(all) = 1 THEN all[1] ELSE [op |-> op, args |-> all]
AndUnchecked(e1, e2) ==   \* mutant: NULL is looked for on one side only
  IF e1 = NoExpr THEN e2 ELSE Of("and", <<e1, e2>>)
And(e1, e2) ==
  IF e1 = NoExpr THEN e2 ELSE IF e2 = NoExpr THEN e1 ELSE Of("and", <<e1, e2>>)

Unit(op) == Sym(IF op = "and" THEN "y" ELSE "n")
Zero(op) == Sym(IF op = "and" THEN "n" ELSE "y")
Other(op) == IF op = "=" THEN "!=" ELSE "="
IsYes(e) == e \in {NoExpr, Sym("y")}

Value(e, f) ==
  CASE e.op = "none" -> 2
    [] e.op = "and"  -> Min({CallValue(e.args[i], f) : i \in DOMAIN e.args})
    [] e.op = "or"   -> Max({CallValue(e.args[i], f) : i \in DOMAIN e.args})
    [] e.op = "not"  -> 2 - CallValue(e.arg, f)
    [] OTHER         -> TestValue(e, f)
Meaning(e) == [f \in Assignments |-> Value(e, f)]

-----------------------------------------------------------------------------
(* Equality, and what can be taken out of two expressions.                 *)

Without(es, x) ==
  FlattenSeq([i \in DOMAIN es |-> IF es[i] = x THEN <<>> ELSE <<es[i]>>])

\* y and n below `and' and `or'
EliminateYn(e) ==
  LET es   == [i \in DOMAIN e.args |-> CallEliminateYn(e.args[i])]
      rest == Without(es, Unit(e.op))
  IN  IF e.op \notin Ops THEN e
      ELSE IF \E i \in DOMAIN es : es[i] = Zero(e.op) THEN Zero(e.op)
      ELSE IF rest = <<>> THEN Unit(e.op)
      ELSE Of(e.op, rest)

\* Equal operands of both lists become the unit; a constant stays if `keep'.
CancelPair(op, c, i, j, keep) ==
  LET x == c.l1[i]
      y == c.l2[j]
  IN  IF (keep /\ x = y /\ x \in {Sym("y"), Sym("n")}) \/ ~CallExprEq(x, y) THEN c
      ELSE [l1 |-> ReplaceAt(c.l1, i, Unit(op)), l2 |-> ReplaceAt(c.l2, j, Unit(op)),
            hit |-> TRUE]
CancelLoop(op, c, i, j, keep) ==
  IF i > Len(c.l1) THEN c
  ELSE IF j > Len(c.l2) THEN CallCancelLoop(op, c, i + 1, 1, keep)
  ELSE CallCancelLoop(op, CancelPair(op, c, i, j, keep), i, j + 1, keep)
Cancel(op, l1, l2, keep) ==
  CancelLoop(op, [l1 |-> l1, l2 |-> l2, hit |-> FALSE], 1, 1, keep)

\* expr_eliminate_eq: what is left of both
CancelAs(op, pair) ==
  LET Left(c) == <<Of(op, c.l1), Of(op, c.l2)>>
  IN  Left(Cancel(op, Operands(op, pair[1]), Operands(op, pair[2]), TRUE))
EliminateEq(e1, e2) ==
  LET First(pair) == IF pair[1].op \in Ops THEN CancelAs(pair[1].op, pair) ELSE pair
      Second(pair) ==
        IF pair[2].op \in Ops \ {pair[1].op} THEN CancelAs(pair[2].op, pair) ELSE pair
      Left(pair) == <<EliminateYn(pair[1]), EliminateYn(pair[2])>>
  IN  Left(Second(First(<<e1, e2>>)))

SameSymbol(pair) == pair[1].op = "sym" /\ pair[1] = pair[2]
ExprEq(e1, e2) ==
  /\ e1.op = e2.op
  /\ CASE e1.op \in Ops  -> SameSymbol(EliminateEq(e1, e2))
       [] e1.op = "not"  -> CallExprEq(e1.arg, e2.arg)
       [] OTHER          -> e1 = e2

-----------------------------------------------------------------------------
(* expr_transform.                                                         *)

Transform(e) ==
  CASE e.op \in Ops -> Of(e.op, [i \in DOMAIN e.args |-> CallTransform(e.args[i])])
    [] e.op \in {"=", "!="} -> IF e.sym \in Bools THEN BoolTest(e) ELSE e
    [] e.op = "not" ->
         LET x == CallTransform(e.arg)
         IN  CASE x.op = "not" -> CallTransform(x.arg)
               [] x.op \in {"=", "!="} -> Comp(Other(x.op), x.sym, x.with)
               [] x.op \in Ops ->
                    CallTransform(Of(IF x.op = "or" THEN "and" ELSE "or",
                                 [i \in DOMAIN x.args |-> Not(x.args[i])]))
               [] x = Sym("y") -> Sym("n")
               [] x = Sym("n") -> Sym("y")
               [] x = Sym("m") -> Sym("m")
               [] OTHER -> Not(x)
    [] OTHER -> e

-----------------------------------------------------------------------------
(* expr_eliminate_dups.                                                    *)

Join(op, e1, e2) ==
  LET s == TestedFirst(e1)
  IN  IF ExprEq(e1, e2) THEN e1
      ELSE IF ~SameTest(e1, e2, s) THEN NoExpr
      ELSE IF op = "or" THEN JoinOr(e1, e2, s) ELSE JoinAnd(e1, e2, s)

\* Join every operand with every other one, below `and' and `or' too; `hit' is
\* trans_count # 0.
Dups1Pair(op, acc, i, j) ==
  LET in == CallDups1([e |-> acc.es[i], hit |-> acc.hit])
      x  == Join(op, in.e, acc.es[j])
  IN  IF i = j THEN acc
      ELSE IF x = NoExpr THEN [es |-> ReplaceAt(acc.es, i, in.e), hit |-> in.hit]
      ELSE [es |-> ReplaceAt(ReplaceAt(acc.es, i, Unit(op)), j, x), hit |-> TRUE]
Dups1Loop(op, acc, i, j) ==
  IF i > Len(acc.es) THEN acc
  ELSE IF j > Len(acc.es) THEN CallDups1Loop(op, acc, i + 1, 1)
  ELSE CallDups1Loop(op, Dups1Pair(op, acc, i, j), i, j + 1)
Dups1(r) ==
  LET Built(acc) == [e |-> Of(r.e.op, acc.es), hit |-> acc.hit]
  IN  IF r.e.op \notin Ops THEN r
      ELSE Built(Dups1Loop(r.e.op, [es |-> r.e.args, hit |-> r.hit], 1, 1))

\* (FOO || BAR) && (!FOO && !BAR) -> n, (FOO && BAR) || (!FOO || !BAR) -> y:
\* all of the negation of an operand is found in another one, or in all of e.
Refutes(op, x, e) ==
  LET Rest(neg, c) == IF c.hit THEN EliminateYn(Of(op, c.l1)) ELSE neg
      Gone(neg) == Rest(neg, Cancel(op, Operands(op, neg), Operands(op, e), FALSE)) = Unit(op)
  IN  Gone(Transform(Not(x)))
Dups2Pair(op, acc, i, j) ==
  LET in == CallDups2([e |-> acc.es[i], hit |-> acc.hit])
      es == ReplaceAt(acc.es, i, in.e)
  IN  IF i = j \/ acc.es[i].op \notin Ops THEN acc
      ELSE IF in.e.op \in Ops
              /\ Refutes(op, in.e, IF j > Len(es) THEN Of(op, es) ELSE es[j])
        THEN [es |-> ReplaceAt(es, i, Zero(op)), hit |-> TRUE]
      ELSE [es |-> es, hit |-> in.hit]
Dups2Loop(op, acc, i, j) ==
  IF i > Len(acc.es) THEN acc
  ELSE IF j > Len(acc.es) + 1 THEN CallDups2Loop(op, acc, i + 1, 1)
  ELSE CallDups2Loop(op, Dups2Pair(op, acc, i, j), i, j + 1)
Dups2(r) ==
  LET Built(acc) == [e |-> Of(r.e.op, acc.es), hit |-> acc.hit]
  IN  IF r.e.op \notin Ops THEN r
      ELSE Built(Dups2Loop(r.e.op, [es |-> r.e.args, hit |-> r.hit], 1, 1))

\* One round, and again while it changes anything
Round(e) == Dups2(Dups1([e |-> e, hit |-> FALSE]))
EliminateDups(e) ==
  LET Again(r) == IF r.hit THEN CallEliminateDups(EliminateYn(r.e)) ELSE r.e
  IN  Again(Round(e))

-----------------------------------------------------------------------------
(* The other rewritings.                                                   *)

\* For a symbol that is not tristate: FOO!=n -> FOO
TransBool(e) ==
  CASE e.op \in Ops -> Of(e.op, [i \in DOMAIN e.args |-> CallTransBool(e.args[i])])
    [] e.op = "not" -> Not(CallTransBool(e.arg))
    [] e.op = "!=" /\ e.sym \in Tris /\ e.with = "n" -> Sym(e.sym)
    [] OTHER -> e

\* expr_trans_compare with symbol_no: e = n, e != n
Compare(e, op) ==
  LET Neg(x) == IF op = "!=" THEN Not(x) ELSE x
      Parts(to) == Of(to, [i \in DOMAIN e.args |-> CallCompare(e.args[i], "=")])
  IN  CASE e.op = "none" -> Neg(Sym("n"))
        [] e.op = "and"  -> Neg(Parts("or"))
        [] e.op = "or"   -> Neg(Parts("and"))
        [] e.op = "not"  -> CallCompare(e.arg, Other(op))
        [] e.op = "sym"  -> Comp(op, e.sym, "n")
        [] OTHER         -> IF op = "=" THEN Not(e) ELSE e

ContainsSymbol(e, s) ==
  CASE e.op \in Ops -> \E i \in DOMAIN e.args : CallContainsSymbol(e.args[i], s)
    [] e.op = "not" -> CallContainsSymbol(e.arg, s)
    [] e.op = "sym" -> e.sym = s
    [] e.op \in {"=", "!="} -> s \in {e.sym, e.with}
    [] OTHER -> FALSE

DependsSymbolAnyhow(e, s) ==   \* mutant: the walk goes through || too
  \E op \in Ops : \E i \in DOMAIN Operands(op, e) : DependsConjunct(Operands(op, e)[i], s)
DependsSymbol(e, s) ==
  \E i \in DOMAIN Operands("and", e) : DependsConjunct(Operands("and", e)[i], s)

-----------------------------------------------------------------------------
(* menu_finalize.                                                          *)

VARIABLES
  above,     \* parentdep of the menu, and what it should mean
  level,     \* how deep the menu is
  entry,     \* an entry of it
  follower   \* the entry after it, and whether it became a child of the first

vars == <<above, level, entry, follower>>

NoEntry == [sym |-> Nobody, shown |-> NoExpr, is |-> "none"]

\* The dependency of a menu entry below `up', and the visibility of its prompt.
\* `means' and `seen' are what has been written down for them, untouched.
Finalized(up, s, d, p) ==
  LET Means == [f \in Assignments |-> Min({up.means[f], Value(d, f)})]
      Shown(x) == IF s \in Bools \cup Strs THEN TransBool(x) ELSE x
      Entry(dep, means) ==
        [is    |-> "entry",
         sym   |-> s,
         dep   |-> dep,
         shown |-> Shown(EliminateDups(And(dep, Transform(p)))),
         means |-> means,
         seen  |-> [f \in Assignments |-> Min({means[f], Value(p, f)})]]
  IN  Entry(EliminateDups(And(up.dep, Transform(d))), Means)

\* Is what follows a config symbol part of its submenu?
InSubmenu(s, base, e) ==
  /\ ContainsSymbol(e, s)
  /\ \/ DependsSymbol(e, s)
     \/ LET Shown(x) == EliminateDups(Transform(Compare(x, "!=")))
        IN  IsYes(EliminateEq(Shown(e), Shown(base))[2])

Open(s, d, p) ==
  /\ entry = NoEntry
  /\ entry' = Finalized(above, s, d, p)
  /\ UNCHANGED <<above, level, follower>>

Follow(s, d, p) ==
  /\ entry # NoEntry /\ entry.sym # Nobody /\ follower = NoEntry
  /\ LET Placed(next) ==
           [next EXCEPT !.is = IF InSubmenu(entry.sym, entry.shown, next.shown)
                                 THEN "child" ELSE "sibling"]
     IN  follower' = Placed(Finalized(above, s, d, p))
  /\ UNCHANGED <<above, level, entry>>

\* What is inside a menu depends on what its prompt does.
Descend ==
  /\ entry # NoEntry /\ entry.sym = Nobody /\ level < Len(Deps)
  /\ above' = [dep |-> entry.shown, means |-> entry.seen]
  /\ level' = level + 1 /\ entry' = NoEntry
  /\ UNCHANGED follower

Init ==
  /\ above = [dep |-> NoExpr, means |-> [f \in Assignments |-> 2]]
  /\ level = 1 /\ entry = NoEntry /\ follower = NoEntry

Next ==
  \/ \E s \in Owners, d \in Deps[level], p \in Prompts : Open(s, d, p)
  \/ \E s \in Owners, d \in NextDeps[level], p \in Prompts : Follow(s, d, p)
  \/ Descend

Spec == Init /\ [][Next]_vars

-----------------------------------------------------------------------------
(* Properties.                                                             *)

\* The lists have two operands or more, and none is NULL or a list of the same kind.
IsExpr(e) ==
  \/ e.op \in {"none", "sym", "=", "!="}
  \/ e.op = "not" /\ CallIsExpr(e.arg)
  \/ e.op \in Ops /\ Len(e.args) > 1
       /\ \A i \in DOMAIN e.args : e.args[i].op \notin {e.op, "none"} /\ CallIsExpr(e.args[i])
TypeOK ==
  /\ level \in 1 .. Len(Deps)
  /\ IsExpr(above.dep)
  /\ \A x \in {entry, follower} \ {NoEntry} :
       x.sym \in Syms \cup {Nobody} /\ IsExpr(x.dep) /\ IsExpr(x.shown)

\* However deep an entry is, what menu_finalize has made of its dependencies and
\* of those of the menus above it has the value of the conjunction that the
\* Kconfig files write down, for all values of the symbols: no rewriting of
\* expr.c, and no sequence of them, changes what can be seen or selected.
MeaningKept ==
  /\ Meaning(above.dep) = above.means
  /\ \A x \in {entry, follower} \ {NoEntry} :
       Meaning(x.dep) = x.means /\ Meaning(x.shown) = x.seen

\* An entry is moved under a symbol only if it cannot be seen without it: the
\* symbol is not n, or its prompt can be seen.
ChildNeedsParent ==
  follower # NoEntry /\ follower.is = "child" =>
    \A f \in Assignments :
      follower.seen[f] # 0 => TristateOf(entry.sym, f) # 0 \/ entry.seen[f] # 0
=============================================================================
