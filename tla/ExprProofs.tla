----------------------------- MODULE ExprProofs -----------------------------
(***************************************************************************)
(* The theorems about Expr: the rounds of expr_eliminate_dups come to an    *)
(* end and keep the value, and so does all that menu_finalize does; what    *)
(* menu_finalize moves under a symbol cannot be seen while the symbol is n. *)
(***************************************************************************)
EXTENDS RewriteProofs

-----------------------------------------------------------------------------
(* The rounds.                                                             *)

CallsOfEliminateDups == \A e : IsTree(e) => CallEliminateDups(e) = EliminateDups(e)

\* The rounds from e on come to an end (expr_eliminate_dups runs while a round
\* counts a change).
RoundsEnd(e) ==
  \E n \in Nat : \E run :
    /\ run[0] = e /\ ~Round(run[n]).hit
    /\ \A k \in Nat : k < n => Round(run[k]).hit /\ run[k + 1] = EliminateYn(Round(run[k]).e)

\* All that is assumed of the calls of expr.c to itself: what a function calls is
\* the function, for every expression that it can be called with.
Calls ==
  /\ CallsOfValue /\ CallsOfEliminateYn /\ CallsOfExprEq /\ CallsOfCancelLoop
  /\ CallsOfTransform /\ CallsOfDups1 /\ CallsOfDups1Loop /\ CallsOfDups2 /\ CallsOfDups2Loop
  /\ CallsOfEliminateDups /\ CallsOfTransBool /\ CallsOfCompare

LEMMA RoundIs ==
  ASSUME NoModules, Calls, NEW n \in Nat, NEW e, Tree(e, n)
  PROVE  Tree(Round(e).e, n) /\ Same(Round(e).e, e)
<1> DEFINE r == [e |-> e, hit |-> FALSE]
           q == Dups1(r)
<1>1. r.e = e
  OBVIOUS
<1> HIDE DEF r
<1>2. Tree(q.e, n) /\ Same(q.e, e)
  BY <1>1, Dups1Is DEF Calls, Dups1Sound
<1> HIDE DEF q
<1>3. Tree(Dups2(q).e, n) /\ Same(Dups2(q).e, q.e)
  BY <1>2, Dups2Is DEF Calls, Dups2Sound
<1>4. Round(e) = Dups2(q)
  BY DEF Round, q, r
<1> QED BY <1>2, <1>3, <1>4 DEF Same

-----------------------------------------------------------------------------
(* The weight of an expression: how many operands that are neither y nor n *)
(* it has, through all its lists.  A round that changes anything takes one  *)
(* away, so the rounds of expr_eliminate_dups come to an end.               *)

IsConst(e) == e \in {Sym("y"), Sym("n")}

\* The weights of the operands of es, added up one after the other, are at most k.
Marks(s, es, k, R) ==
  /\ (\E T : es \in Seq(T)) /\ s[0] = 0 /\ s[Len(es)] <= k
  /\ \A i \in 1 .. Len(es) :
       /\ s[i - 1] \in Int /\ s[i] \in Int /\ s[i] - s[i - 1] \in Nat
       /\ <<es[i], s[i] - s[i - 1]>> \in R
Weighed(e, k, R) ==
  IF e.op \in Ops THEN \E s : Marks(s, e.args, k, R) ELSE IsConst(e) \/ k >= 1
WeighedIn(R) == \A e, k : <<e, k>> \in R => k \in Nat /\ Weighed(e, k, R)

\* The weight of e is at most k; that of a list of expressions is.
AtMost(e, k) == \E R : <<e, k>> \in R /\ WeighedIn(R)
MarkedBy(s, es, k) ==
  /\ s[0] = 0 /\ s[Len(es)] <= k
  /\ \A i \in 1 .. Len(es) :
       /\ s[i - 1] \in Int /\ s[i] \in Int /\ s[i] - s[i - 1] \in Nat
       /\ AtMost(es[i], s[i] - s[i - 1])
Laden(es, k) == k \in Nat /\ (\E T : es \in Seq(T)) /\ \E s : MarkedBy(s, es, k)

LEMMA AtMostUnfolds ==
  ASSUME NEW e, NEW k, AtMost(e, k)
  PROVE  /\ k \in Nat
         /\ e.op \in Ops => Laden(e.args, k)
         /\ e.op \notin Ops => IsConst(e) \/ k >= 1
<1>1. PICK R : <<e, k>> \in R /\ WeighedIn(R)
  BY DEF AtMost
<1>2. k \in Nat /\ Weighed(e, k, R)
  BY <1>1 DEF WeighedIn
<1>3. CASE e.op \in Ops
  <2>1. PICK s : Marks(s, e.args, k, R)
    BY <1>2, <1>3 DEF Weighed
  <2>2. \A i \in 1 .. Len(e.args) : AtMost(e.args[i], s[i] - s[i - 1])
    BY <1>1, <2>1 DEF Marks, AtMost
  <2>3. MarkedBy(s, e.args, k)
    BY <2>1, <2>2 DEF Marks, MarkedBy
  <2> QED BY <1>2, <1>3, <2>1, <2>3 DEF Laden, Marks
<1>4. CASE e.op \notin Ops
  BY <1>2, <1>4 DEF Weighed
<1> QED BY <1>2, <1>3, <1>4

LEMMA LightIs ==
  ASSUME NEW e, e.op \notin Ops, NEW k \in Nat, IsConst(e) \/ k >= 1
  PROVE  AtMost(e, k)
<1> DEFINE R == {<<e, k>>}
<1>1. WeighedIn(R)
  <2>1. \A x, a : <<x, a>> \in R => x = e /\ a = k
    OBVIOUS
  <2> HIDE DEF R
  <2> QED BY <2>1 DEF WeighedIn, Weighed
<1> QED BY <1>1 DEF AtMost

LEMMA WeighedMore ==
  ASSUME NEW R, NEW Q, R \subseteq Q, NEW e, NEW k, Weighed(e, k, R)
  PROVE  Weighed(e, k, Q)
<1>1. CASE e.op \in Ops
  <2>1. PICK s : Marks(s, e.args, k, R)
    BY <1>1 DEF Weighed
  <2>2. Marks(s, e.args, k, Q)
    BY <2>1 DEF Marks
  <2> QED BY <1>1, <2>2 DEF Weighed
<1>2. CASE e.op \notin Ops
  BY <1>2 DEF Weighed
<1> QED BY <1>1, <1>2

LEMMA ListAtMost ==
  ASSUME NEW e, e.op \in Ops, NEW k, Laden(e.args, k)
  PROVE  AtMost(e, k)
<1> DEFINE N == Len(e.args)
<1>1. PICK s : MarkedBy(s, e.args, k)
  BY DEF Laden
<1> DEFINE Whole(R, i) == <<e.args[i], s[i] - s[i - 1]>> \in R /\ WeighedIn(R)
           W(i) == CHOOSE R : Whole(R, i)
           Q == {<<e, k>>} \cup UNION {W(i) : i \in 1 .. N}
<1>2. \A i \in 1 .. N : Whole(W(i), i)
  <2> TAKE i \in 1 .. N
  <2>1. AtMost(e.args[i], s[i] - s[i - 1])
    BY <1>1 DEF MarkedBy
  <2>2. \E R : Whole(R, i)
    BY <2>1 DEF AtMost
  <2> HIDE DEF Whole
  <2> QED BY <2>2
<1>3. \A i \in 1 .. N : W(i) \subseteq Q
  OBVIOUS
<1>4. <<e, k>> \in Q
  OBVIOUS
<1>5. \A x, a : <<x, a>> \in Q => (x = e /\ a = k) \/ \E i \in 1 .. N : <<x, a>> \in W(i)
  OBVIOUS
<1> HIDE DEF W, Q
<1>6. Marks(s, e.args, k, Q)
  <2>1. \A i \in 1 .. N : <<e.args[i], s[i] - s[i - 1]>> \in Q
    BY <1>2, <1>3
  <2> QED BY <1>1, <2>1 DEF MarkedBy, Marks, Laden
<1>7. ASSUME NEW x, NEW a, <<x, a>> \in Q
      PROVE  a \in Nat /\ Weighed(x, a, Q)
  <2>1. CASE x = e /\ a = k
    BY <1>6, <2>1 DEF Weighed, Laden
  <2>2. CASE \E i \in 1 .. N : <<x, a>> \in W(i)
    <3>1. PICK i \in 1 .. N : <<x, a>> \in W(i)
      BY <2>2
    <3>2. a \in Nat /\ Weighed(x, a, W(i))
      BY <1>2, <3>1 DEF WeighedIn
    <3> QED BY <1>3, <3>2, WeighedMore
  <2> QED BY <1>5, <1>7, <2>1, <2>2
<1> QED BY <1>4, <1>7 DEF AtMost, WeighedIn

LEMMA MarksRise ==
  ASSUME NEW es, NEW k, Laden(es, k), NEW s, MarkedBy(s, es, k)
  PROVE  /\ Len(es) \in Nat
         /\ \A i \in 1 .. Len(es) : 0 <= s[i - 1] /\ s[i - 1] <= s[i] /\ s[i] <= s[Len(es)]
<1> DEFINE N == Len(es)
           Up(m) == \A t \in 0 .. m : s[t] \in Int /\ 0 <= s[t] /\ s[t] <= s[m]
           S == {m \in 1 .. N : Up(m)}
<1>1. N \in Nat
  BY DEF Laden
<1> HIDE DEF N
<1>2. /\ s[0] = 0
      /\ \A i \in 1 .. N : s[i - 1] \in Int /\ s[i] \in Int /\ s[i - 1] <= s[i]
  BY DEF MarkedBy, N
<1>3. CASE N = 0
  BY <1>3 DEF N
<1>4. CASE N # 0
  <2>1. 1 \in S
    <3>1. 1 \in 1 .. N /\ 1 - 1 = 0 /\ \A t \in 0 .. 1 : t = 0 \/ t = 1
      BY <1>1, <1>4
    <3>2. s[0] \in Int /\ s[1] \in Int /\ s[0] <= s[1]
      BY <1>2, <3>1
    <3> QED BY <1>2, <3>1, <3>2
  <2>2. ASSUME NEW m \in 1 .. N, m \in S, m < N
        PROVE  m + 1 \in S
    <3>1. m + 1 \in 1 .. N /\ m + 1 - 1 = m
      BY <1>1, <2>2
    <3>2. s[m] \in Int /\ s[m + 1] \in Int /\ s[m] <= s[m + 1]
      BY <1>2, <3>1
    <3>3. \A t \in 0 .. m + 1 : t \in 0 .. m \/ t = m + 1
      OBVIOUS
    <3>4. m \in 0 .. m /\ 0 <= s[m]
      BY <2>2
    <3>5. Up(m + 1)
      <4> TAKE t \in 0 .. m + 1
      <4>1. CASE t \in 0 .. m
        BY <2>2, <3>2, <4>1
      <4>2. CASE t = m + 1
        BY <3>2, <3>4, <4>2
      <4> QED BY <3>3, <4>1, <4>2
    <3> QED BY <3>1, <3>5
  <2> HIDE DEF S
  <2>3. \A m \in 1 .. N : m \in S
    BY <1>1, <2>1, <2>2, Counting
  <2>4. Up(N)
    <3>1. N \in 1 .. N
      BY <1>1, <1>4
    <3> QED BY <2>3, <3>1 DEF S
  <2>5. ASSUME NEW i \in 1 .. N
        PROVE  0 <= s[i - 1] /\ s[i - 1] <= s[i] /\ s[i] <= s[N]
    <3>1. i - 1 \in 0 .. N /\ i \in 0 .. N
      BY <1>1
    <3> QED BY <1>2, <2>4, <3>1
  <2> QED BY <1>1, <2>5 DEF N
<1> QED BY <1>3, <1>4, <1>1 DEF N

LEMMA LadenMore ==
  ASSUME NEW es, NEW k, Laden(es, k), NEW m \in Nat, k <= m
  PROVE  Laden(es, m)
<1>1. PICK s : MarkedBy(s, es, k)
  BY DEF Laden
<1>2. s[Len(es)] \in Int
  <2>1. Len(es) \in Nat
    BY DEF Laden
  <2>2. CASE Len(es) = 0
    BY <1>1, <2>2 DEF MarkedBy
  <2>3. CASE Len(es) # 0
    <3>1. Len(es) \in 1 .. Len(es)
      BY <2>1, <2>3
    <3> QED BY <1>1, <3>1 DEF MarkedBy
  <2> QED BY <2>2, <2>3
<1>3. k \in Nat /\ s[Len(es)] <= m
  BY <1>1, <1>2 DEF Laden, MarkedBy
<1>4. MarkedBy(s, es, m)
  BY <1>1, <1>3 DEF MarkedBy
<1> QED BY <1>4 DEF Laden

LEMMA AtMostMore ==
  ASSUME NEW e, NEW k, AtMost(e, k), NEW m \in Nat, k <= m
  PROVE  AtMost(e, m)
<1>1. CASE e.op \in Ops
  BY <1>1, AtMostUnfolds, LadenMore, ListAtMost
<1>2. CASE e.op \notin Ops
  <2>1. IsConst(e) \/ m >= 1
    BY <1>2, AtMostUnfolds
  <2> QED BY <1>2, <2>1, LightIs
<1> QED BY <1>1, <1>2

LEMMA NoneLaden ==
  ASSUME NEW k \in Nat
  PROVE  Laden(<<>>, k)
<1> DEFINE s == [t \in {0} |-> 0]
<1>1. Len(<<>>) = 0 /\ <<>> \in Seq({}) /\ s[0] = 0
  OBVIOUS
<1> HIDE DEF s
<1>2. MarkedBy(s, <<>>, k)
  BY <1>1 DEF MarkedBy
<1> QED BY <1>1, <1>2 DEF Laden

LEMMA OneLaden ==
  ASSUME NEW x, NEW k, AtMost(x, k)
  PROVE  Laden(<<x>>, k)
<1> DEFINE s == [t \in {0, 1} |-> IF t = 0 THEN 0 ELSE k]
           es == <<x>>
<1>1. Len(es) = 1 /\ es \in Seq({x}) /\ es[1] = x /\ s[0] = 0 /\ s[1] = k /\ k \in Nat
  BY AtMostUnfolds
<1> HIDE DEF s, es
<1>2. \A i \in 1 .. 1 : i = 1 /\ i - 1 = 0
  OBVIOUS
<1>3. k - 0 = k /\ k <= k
  BY <1>1
<1>4. MarkedBy(s, es, k)
  BY <1>1, <1>2, <1>3 DEF MarkedBy
<1>5. Laden(es, k)
  BY <1>1, <1>4 DEF Laden
<1> QED BY <1>5 DEF es

LEMMA BothLaden ==
  ASSUME NEW u, NEW a, Laden(u, a), NEW v, NEW b, Laden(v, b)
  PROVE  Laden(u \o v, a + b)
<1>1. PICK p : MarkedBy(p, u, a)
  BY DEF Laden
<1>2. PICK q : MarkedBy(q, v, b)
  BY DEF Laden
<1> DEFINE L == Len(u)
           M == Len(v)
           w == u \o v
           s == [t \in 0 .. L + M |-> IF t <= L THEN p[t] ELSE p[L] + q[t - L]]
<1>3. /\ L \in Nat /\ M \in Nat /\ a \in Nat /\ b \in Nat /\ Len(w) = L + M
      /\ \A i \in 1 .. L : w[i] = u[i]
      /\ \A i \in 1 .. M : w[L + i] = v[i]
      /\ \E T : w \in Seq(T)
  <2>1. PICK T : u \in Seq(T)
    BY DEF Laden
  <2>2. PICK V : v \in Seq(V)
    BY DEF Laden
  <2>3. u \in Seq(T \cup V) /\ v \in Seq(T \cup V)
    BY <2>1, <2>2
  <2>4. w \in Seq(T \cup V)
    BY <2>3
  <2>5. Len(w) = L + M /\ L \in Nat /\ M \in Nat
    BY <2>3
  <2>6. \A i \in 1 .. L : w[i] = u[i]
    BY <2>3
  <2>7. ASSUME NEW i \in 1 .. M PROVE w[L + i] = v[i]
    <3>1. L + i \in 1 .. L + M /\ ~(L + i <= L) /\ L + i - L = i
      BY <2>5
    <3> QED BY <2>3, <3>1
  <2> QED BY <2>4, <2>5, <2>6, <2>7 DEF Laden
<1>4. /\ p[0] = 0 /\ p[L] <= a
      /\ \A i \in 1 .. L : /\ p[i - 1] \in Int /\ p[i] \in Int /\ p[i] - p[i - 1] \in Nat
                           /\ AtMost(u[i], p[i] - p[i - 1])
  BY <1>1 DEF MarkedBy
<1>5. /\ q[0] = 0 /\ q[M] <= b
      /\ \A i \in 1 .. M : /\ q[i - 1] \in Int /\ q[i] \in Int /\ q[i] - q[i - 1] \in Nat
                           /\ AtMost(v[i], q[i] - q[i - 1])
  BY <1>2 DEF MarkedBy
<1> HIDE DEF w, L, M
<1>6. p[L] \in Int /\ q[M] \in Int
  <2>1. L = 0 \/ L \in 1 .. L
    BY <1>3
  <2>2. M = 0 \/ M \in 1 .. M
    BY <1>3
  <2> QED BY <1>4, <1>5, <2>1, <2>2
<1>7. /\ \A t \in 0 .. L : s[t] = p[t]
      /\ \A t \in 0 .. M : s[L + t] = p[L] + q[t]
  <2>1. \A t \in 0 .. L : s[t] = p[t]
    BY <1>3
  <2>2. ASSUME NEW t \in 0 .. M PROVE s[L + t] = p[L] + q[t]
    <3>1. CASE t = 0
      BY <1>3, <1>5, <1>6, <2>1, <3>1
    <3>2. CASE t # 0
      <4>1. L + t \in 0 .. L + M /\ ~(L + t <= L) /\ L + t - L = t
        BY <1>3, <3>2
      <4>2. \A z \in 0 .. L + M : s[z] = IF z <= L THEN p[z] ELSE p[L] + q[z - L]
        OBVIOUS
      <4> HIDE DEF s
      <4>3. ASSUME NEW z, z = L + t PROVE s[z] = p[L] + q[t]
        <5>1. z - L = t /\ z \in 0 .. L + M /\ ~(z <= L)
          BY <1>3, <4>1, <4>3
        <5>2. s[z] = p[L] + q[z - L]
          BY <4>2, <5>1
        <5> QED BY <5>1, <5>2
      <4> QED BY <4>3
    <3> QED BY <3>1, <3>2
  <2> QED BY <2>1, <2>2
<1> HIDE DEF s
<1>8. s[0] = 0 /\ s[L + M] <= a + b
  <2>1. 0 \in 0 .. L /\ M \in 0 .. M
    BY <1>3
  <2>2. s[0] = 0 /\ s[L + M] = p[L] + q[M]
    BY <1>4, <1>7, <2>1
  <2> QED BY <1>3, <1>4, <1>5, <1>6, <2>2
<1>9. ASSUME NEW i \in 1 .. L + M
      PROVE  /\ s[i - 1] \in Int /\ s[i] \in Int /\ s[i] - s[i - 1] \in Nat
             /\ AtMost(w[i], s[i] - s[i - 1])
  <2>1. CASE i <= L
    <3>1. i \in 1 .. L /\ i \in 0 .. L /\ i - 1 \in 0 .. L
      BY <1>3, <2>1
    <3>2. s[i] = p[i] /\ s[i - 1] = p[i - 1] /\ w[i] = u[i]
      BY <1>3, <1>7, <3>1
    <3> QED BY <1>4, <3>1, <3>2
  <2>2. CASE ~(i <= L)
    <3> DEFINE t == i - L
    <3>1. /\ t \in 1 .. M /\ t \in 0 .. M /\ t - 1 \in 0 .. M
          /\ i = L + t /\ i - 1 = L + (t - 1)
      BY <1>3, <2>2
    <3> HIDE DEF t
    <3>2. s[i] = p[L] + q[t] /\ s[i - 1] = p[L] + q[t - 1] /\ w[i] = v[t]
      BY <1>3, <1>7, <3>1
    <3>3. q[t] \in Int /\ q[t - 1] \in Int /\ q[t] - q[t - 1] \in Nat /\ AtMost(v[t], q[t] - q[t - 1])
      BY <1>5, <3>1
    <3>4. s[i] - s[i - 1] = q[t] - q[t - 1] /\ s[i] \in Int /\ s[i - 1] \in Int
      BY <1>6, <3>2, <3>3
    <3> QED BY <3>2, <3>3, <3>4
  <2> QED BY <2>1, <2>2
<1>10. MarkedBy(s, w, a + b)
  BY <1>3, <1>8, <1>9 DEF MarkedBy
<1>11. Laden(w, a + b)
  BY <1>3, <1>10 DEF Laden
<1> QED BY <1>11 DEF w

\* Lists of lists, put together
LEMMA FlatLaden ==
  ASSUME NEW ss, Len(ss) \in Nat, Len(ss) # 0, NEW k \in Nat, NEW s,
         s[0] = 0, s[Len(ss)] <= k,
         \A i \in 1 .. Len(ss) :
           s[i - 1] \in Int /\ s[i] \in Int /\ Laden(ss[i], s[i] - s[i - 1])
  PROVE  Laden(FlattenSeq(ss), k)
<1> DEFINE N == Len(ss)
<1>1. PICK g : IsFlat(g, ss, N) /\ FlattenSeq(ss) = g[N]
  BY FlattenIs
<1> DEFINE S == {m \in 1 .. N : Laden(g[m], s[m])}
<1>2. /\ N \in Nat /\ N # 0
      /\ \A i \in 1 .. N : g[i] = IF i = 1 THEN ss[i] ELSE g[i - 1] \o ss[i]
  BY <1>1 DEF IsFlat
<1> HIDE DEF N
<1>3. 1 \in S
  <2>1. 1 \in 1 .. N /\ 1 - 1 = 0
    BY <1>2
  <2>2. g[1] = ss[1] /\ Laden(ss[1], s[1] - s[0]) /\ s[1] \in Int
    BY <1>2, <2>1 DEF N
  <2>3. s[1] - s[0] = s[1]
    BY <2>2
  <2> QED BY <2>1, <2>2, <2>3
<1>4. ASSUME NEW m \in 1 .. N, m \in S, m < N
      PROVE  m + 1 \in S
  <2>1. m + 1 \in 1 .. N /\ m + 1 - 1 = m /\ m + 1 # 1
    BY <1>2, <1>4
  <2>2. g[m + 1] = g[m] \o ss[m + 1]
    <3>1. ASSUME NEW t, t = m + 1 PROVE g[t] = g[m] \o ss[t]
      <4>1. t \in 1 .. N /\ t # 1 /\ t - 1 = m
        BY <2>1, <3>1
      <4>2. g[t] = g[t - 1] \o ss[t]
        BY <1>2, <4>1
      <4> QED BY <4>1, <4>2
    <3> QED BY <3>1
  <2>3. s[m] \in Int /\ s[m + 1] \in Int /\ Laden(ss[m + 1], s[m + 1] - s[m])
    BY <2>1 DEF N
  <2>4. Laden(g[m] \o ss[m + 1], s[m] + (s[m + 1] - s[m]))
    BY <1>4, <2>3, BothLaden
  <2>5. s[m] + (s[m + 1] - s[m]) = s[m + 1]
    BY <2>3
  <2> QED BY <2>1, <2>2, <2>4, <2>5
<1> HIDE DEF S
<1>5. \A m \in 1 .. N : m \in S
  BY <1>2, <1>3, <1>4, Counting
<1>6. N \in 1 .. N
  BY <1>2
<1>7. Laden(g[N], s[N]) /\ s[N] <= k
  BY <1>5, <1>6 DEF S, N
<1> QED BY <1>1, <1>7, LadenMore DEF N

\* One operand is replaced.
LEMMA ReplacedLaden ==
  ASSUME NEW es, NEW k, Laden(es, k), NEW i \in 1 .. Len(es)
  PROVE  \E a \in 0 .. k :
           /\ AtMost(es[i], a)
           /\ \A b \in Nat : \A x : AtMost(x, b) => Laden(ReplaceAt(es, i, x), k - a + b)
<1> DEFINE N == Len(es)
<1>1. PICK s : MarkedBy(s, es, k)
  BY DEF Laden
<1>2. PICK T : es \in Seq(T)
  BY DEF Laden
<1> DEFINE a == s[i] - s[i - 1]
<1>3. N \in Nat /\ k \in Nat /\ i \in 1 .. N
  BY DEF Laden
<1>4. /\ s[0] = 0 /\ s[N] <= k
      /\ \A t \in 1 .. N : /\ s[t - 1] \in Int /\ s[t] \in Int /\ s[t] - s[t - 1] \in Nat
                           /\ AtMost(es[t], s[t] - s[t - 1])
  BY <1>1 DEF MarkedBy
<1>5. 0 <= s[i - 1] /\ s[i - 1] <= s[i] /\ s[i] <= s[N]
  BY <1>1, MarksRise
<1>6. s[N] \in Int
  <2>1. N \in 1 .. N
    BY <1>3
  <2> QED BY <1>4, <2>1
<1>7. a \in Nat /\ a \in 0 .. k /\ AtMost(es[i], a)
  BY <1>3, <1>4, <1>5, <1>6
<1>8. ASSUME NEW b \in Nat, NEW x, AtMost(x, b)
      PROVE  Laden(ReplaceAt(es, i, x), k - a + b)
  <2> DEFINE r == ReplaceAt(es, i, x)
             q == [t \in 0 .. N |-> IF t < i THEN s[t] ELSE s[t] - a + b]
  <2>1. r = [es EXCEPT ![i] = x] /\ es \in Seq(T \cup {x})
    BY <1>2 DEF ReplaceAt
  <2>2. /\ r \in Seq(T \cup {x}) /\ Len(r) = N /\ r[i] = x
        /\ \A t \in 1 .. N : t # i => r[t] = es[t]
    BY <1>3, <2>1
  <2> HIDE DEF r, a
  <2>3. \A t \in 0 .. N : q[t] = IF t < i THEN s[t] ELSE s[t] - a + b
    OBVIOUS
  <2> HIDE DEF q, N
  <2>4. q[0] = 0 /\ q[N] <= k - a + b /\ k - a + b \in Nat
    <3>1. 0 \in 0 .. N /\ N \in 0 .. N /\ 0 < i /\ ~(N < i)
      BY <1>3
    <3>2. q[0] = s[0] /\ q[N] = s[N] - a + b
      BY <2>3, <3>1
    <3> QED BY <1>3, <1>4, <1>6, <1>7, <3>2
  <2>5. ASSUME NEW t \in 1 .. N
        PROVE  /\ q[t - 1] \in Int /\ q[t] \in Int /\ q[t] - q[t - 1] \in Nat
               /\ AtMost(r[t], q[t] - q[t - 1])
    <3>1. t \in 0 .. N /\ t - 1 \in 0 .. N
      BY <1>3
    <3>2. /\ s[t - 1] \in Int /\ s[t] \in Int /\ s[t] - s[t - 1] \in Nat
          /\ AtMost(es[t], s[t] - s[t - 1])
      BY <1>4
    <3>3. CASE t < i
      <4>1. q[t] = s[t] /\ q[t - 1] = s[t - 1] /\ r[t] = es[t]
        <5>1. t - 1 < i /\ t # i
          BY <1>3, <3>3
        <5> QED BY <2>2, <2>3, <3>1, <3>3, <5>1
      <4> QED BY <3>2, <4>1
    <3>4. CASE t = i
      <4>1. q[t] = s[t] - a + b /\ q[t - 1] = s[t - 1] /\ r[t] = x
        <5>1. t - 1 < i /\ ~(t < i)
          BY <1>3, <3>4
        <5> QED BY <2>2, <2>3, <3>1, <3>4, <5>1
      <4>2. s[t] - a = s[t - 1]
        BY <1>7, <3>2, <3>4 DEF a
      <4>3. q[t] = s[t - 1] + b /\ s[t - 1] \in Int
        BY <3>2, <4>1, <4>2
      <4>4. q[t] - q[t - 1] = b /\ q[t] \in Int /\ q[t - 1] \in Int
        BY <4>1, <4>3
      <4> QED BY <1>8, <4>1, <4>4
    <3>5. CASE t > i
      <4>1. q[t] = s[t] - a + b /\ q[t - 1] = s[t - 1] - a + b /\ r[t] = es[t]
        <5>1. ~(t - 1 < i) /\ ~(t < i) /\ t # i
          BY <1>3, <3>5
        <5>2. r[t] = es[t]
          BY <2>2, <5>1
        <5> QED BY <2>3, <3>1, <5>1, <5>2, Zenon
      <4>2. q[t] - q[t - 1] = s[t] - s[t - 1] /\ q[t] \in Int /\ q[t - 1] \in Int
        <5>1. a \in Int /\ b \in Int /\ s[t] \in Int /\ s[t - 1] \in Int
          BY <1>7, <3>2
        <5>2. \A u, v \in Int : (u - a + b) - (v - a + b) = u - v /\ u - a + b \in Int
          BY <5>1
        <5>3. q[t] - q[t - 1] = (s[t] - a + b) - (s[t - 1] - a + b)
          BY <4>1, Zenon
        <5> QED BY <4>1, <5>1, <5>2, <5>3, Zenon
      <4> QED BY <3>2, <4>1, <4>2
    <3> QED BY <1>3, <3>3, <3>4, <3>5
  <2>6. MarkedBy(q, r, k - a + b)
    BY <2>2, <2>4, <2>5 DEF MarkedBy
  <2>7. Laden(r, k - a + b)
    BY <2>2, <2>4, <2>6 DEF Laden
  <2> QED BY <2>7 DEF r
<1> HIDE DEF a
<1> QED BY <1>7, <1>8

\* Each operand is replaced by one that does not weigh more.
LEMMA MapLaden ==
  ASSUME NEW es, NEW k, Laden(es, k), NEW r, \E T : r \in Seq(T), Len(r) = Len(es),
         \A i \in 1 .. Len(es) : \A a : AtMost(es[i], a) => AtMost(r[i], a)
  PROVE  Laden(r, k)
<1>1. PICK s : MarkedBy(s, es, k)
  BY DEF Laden
<1>2. MarkedBy(s, r, k)
  BY <1>1 DEF MarkedBy
<1> QED BY <1>2 DEF Laden

LEMMA PartOfLaden ==
  ASSUME NEW es, NEW k, Laden(es, k), NEW i \in 1 .. Len(es)
  PROVE  AtMost(es[i], k)
<1>1. PICK a \in 0 .. k : AtMost(es[i], a)
  BY ReplacedLaden
<1>2. a <= k /\ k \in Nat
  BY <1>1 DEF Laden
<1> QED BY <1>1, <1>2, AtMostMore

\* Every expression has a weight.
LEMMA ListWeighs ==
  ASSUME NEW N \in Nat, NEW es, es \in Seq({es[i] : i \in 1 .. N}), Len(es) = N,
         \A i \in 1 .. N : \E k : AtMost(es[i], k)
  PROVE  \E k : Laden(es, k)
<1> DEFINE y == Sym("y")
           First(m) == [t \in 1 .. N |-> IF t < m THEN es[t] ELSE y]
           S == {m \in 1 .. N + 1 : \E k : Laden(First(m), k)}
           T == {es[i] : i \in 1 .. N} \cup {y}
<1>1. \A t \in 1 .. N : es[t] \in T
  OBVIOUS
<1>2. y \in T
  OBVIOUS
<1> HIDE DEF T
<1>3. ASSUME NEW m \in 1 .. N + 1
      PROVE  First(m) \in Seq(T) /\ Len(First(m)) = N
  <2>1. First(m) \in [1 .. N -> T]
    BY <1>1, <1>2
  <2> HIDE DEF First
  <2> QED BY <2>1
<1>4. 1 \in S
  <2> DEFINE s == [t \in 0 .. N |-> 0]
             r == First(1)
  <2>1. 1 \in 1 .. N + 1 /\ \A t \in 1 .. N : r[t] = y
    OBVIOUS
  <2>2. AtMost(y, 0)
    <3>1. y.op \notin Ops /\ IsConst(y)
      BY DEF Sym, Ops, IsConst
    <3> QED BY <3>1, LightIs
  <2>3. \A t \in 0 .. N : s[t] = 0
    OBVIOUS
  <2>4. r \in Seq(T) /\ Len(r) = N
    BY <1>3, <2>1
  <2> HIDE DEF s, r, y
  <2>5. s[0] = 0 /\ s[N] = 0 /\ \A t \in 1 .. N : s[t - 1] = 0 /\ s[t] = 0
    <3>1. 0 \in 0 .. N /\ N \in 0 .. N /\ \A t \in 1 .. N : t - 1 \in 0 .. N /\ t \in 0 .. N
      OBVIOUS
    <3> QED BY <2>3, <3>1
  <2>6. 0 - 0 = 0
    OBVIOUS
  <2>7. MarkedBy(s, r, 0)
    BY <2>1, <2>2, <2>4, <2>5, <2>6 DEF MarkedBy
  <2>8. Laden(r, 0)
    BY <2>4, <2>7 DEF Laden
  <2> QED BY <2>1, <2>8 DEF r
<1>5. ASSUME NEW m \in 1 .. N + 1, m \in S, m < N + 1
      PROVE  m + 1 \in S
  <2>1. m \in 1 .. N /\ m + 1 \in 1 .. N + 1
    BY <1>5
  <2>2. PICK k : Laden(First(m), k)
    BY <1>5
  <2>3. PICK b : AtMost(es[m], b)
    BY <2>1
  <2>4. b \in Nat
    BY <2>3, AtMostUnfolds
  <2>5. m \in 1 .. Len(First(m))
    BY <1>3, <2>1
  <2>6. PICK a \in 0 .. k : \A c \in Nat : \A x : AtMost(x, c) => Laden(ReplaceAt(First(m), m, x), k - a + c)
    <3> HIDE DEF First
    <3> QED BY <2>2, <2>5, ReplacedLaden
  <2>7. Laden(ReplaceAt(First(m), m, es[m]), k - a + b)
    BY <2>3, <2>4, <2>6
  <2>8. ReplaceAt(First(m), m, es[m]) = First(m + 1)
    <3>1. \A t \in 1 .. N : t < m + 1 <=> t < m \/ t = m
      BY <2>1
    <3> QED BY <2>1, <3>1 DEF ReplaceAt
  <2> HIDE DEF First
  <2>9. Laden(First(m + 1), k - a + b)
    BY <2>7, <2>8
  <2> QED BY <2>1, <2>9
<1>6. N + 1 \in S
  <2> HIDE DEF S
  <2>1. N + 1 \in Nat /\ N + 1 \in 1 .. N + 1
    OBVIOUS
  <2> QED BY <1>4, <1>5, <2>1, Counting
<1>7. First(N + 1) = es
  <2>1. es = [t \in 1 .. N |-> es[t]] /\ \A t \in 1 .. N : t < N + 1
    OBVIOUS
  <2> QED BY <2>1
<1> HIDE DEF First
<1> QED BY <1>6, <1>7

LEMMA TreeWeighs ==
  \A n \in Nat : \A e : Tree(e, n) => \E k : AtMost(e, k)
<1> DEFINE P(n) == \A e : Tree(e, n) => \E k : AtMost(e, k)
           S == {n \in Nat : P(n)}
<1>1. ASSUME NEW n \in Nat, \A m \in Nat : m < n => m \in S, NEW e, Tree(e, n)
      PROVE  \E k : AtMost(e, k)
  <2>1. CASE e.op \notin Ops
    BY <2>1, LightIs, 1 \in Nat, 1 >= 1
  <2>2. CASE e.op \in Ops
    <3> DEFINE es == e.args
               N == Len(es)
    <3>1. n >= 2 /\ Forest(es, n - 2)
      BY <1>1, <2>2, OpIs
    <3>2. n - 2 \in Nat /\ n - 2 < n
      BY <3>1
    <3>3. N \in Nat /\ DOMAIN es = 1 .. N /\ \A i \in 1 .. N : Tree(es[i], n - 2)
      BY <3>1, <3>2, ForestTrees
    <3>4. P(n - 2)
      BY <1>1, <3>2
    <3>5. \A i \in 1 .. N : \E k : AtMost(es[i], k)
      BY <3>3, <3>4
    <3>6. es \in Seq({es[i] : i \in 1 .. N})
      <4>1. PICK T : es \in Seq(T)
        BY <3>1 DEF Forest
      <4> DEFINE U == {es[i] : i \in 1 .. N}
      <4>2. \A i \in 1 .. N : es[i] \in U
        OBVIOUS
      <4> HIDE DEF U
      <4>3. es \in [1 .. N -> U]
        BY <4>1, <4>2
      <4> QED BY <3>3, <4>3 DEF U
    <3> HIDE DEF P, S
    <3>7. \E k : Laden(es, k)
      BY <3>3, <3>5, <3>6, ListWeighs
    <3> QED BY <2>2, <3>7, ListAtMost
  <2> QED BY <2>1, <2>2
<1>2. \A n \in Nat : (\A m \in Nat : m < n => m \in S) => n \in S
  BY <1>1
<1> HIDE DEF S
<1>3. Nat \subseteq S
  BY <1>2, AllNumbers
<1> QED BY <1>3 DEF S

\* A list that is put together weighs what its parts do.
LEMMA OfLaden ==
  ASSUME NEW op \in Ops, NEW es, NEW k, Laden(es, k), Len(es) > 0
  PROVE  AtMost(Of(op, es), k)
<1> DEFINE N == Len(es)
           ss == [i \in DOMAIN es |-> Operands(op, es[i])]
           all == FlattenSeq(ss)
<1>1. PICK s : MarkedBy(s, es, k)
  BY DEF Laden
<1>2. N \in Nat /\ N # 0 /\ DOMAIN es = 1 .. N /\ k \in Nat
  BY DEF Laden
<1>3. ss = [i \in 1 .. N |-> ss[i]] /\ \A i \in 1 .. N : ss[i] = Operands(op, es[i])
  BY <1>2
<1>4. Len(ss) = N
  <2> HIDE DEF ss
  <2> QED BY <1>2, <1>3
<1>5. \A i \in 1 .. N : s[i - 1] \in Int /\ s[i] \in Int /\ Laden(ss[i], s[i] - s[i - 1])
  <2> TAKE i \in 1 .. N
  <2> DEFINE a == s[i] - s[i - 1]
  <2>1. s[i - 1] \in Int /\ s[i] \in Int /\ AtMost(es[i], a)
    BY <1>1 DEF MarkedBy
  <2> HIDE DEF a
  <2>2. Laden(Operands(op, es[i]), a)
    <3>1. CASE es[i].op = op
      BY <2>1, <3>1, AtMostUnfolds DEF Operands
    <3>2. CASE es[i].op # op
      BY <2>1, <3>2, OneLaden DEF Operands
    <3> QED BY <3>1, <3>2
  <2> QED BY <1>3, <2>1, <2>2 DEF a
<1>6. Of(op, es) = IF Len(all) = 1 THEN all[1] ELSE [op |-> op, args |-> all]
  BY DEF Of
<1>7. s[0] = 0 /\ s[N] <= k
  BY <1>1 DEF MarkedBy
<1> HIDE DEF ss, N
<1>8. Laden(all, k)
  BY <1>2, <1>4, <1>5, <1>7, FlatLaden
<1> HIDE DEF all
<1>9. CASE Len(all) = 1
  <2>1. 1 \in 1 .. Len(all)
    BY <1>9
  <2> QED BY <1>6, <1>8, <1>9, <2>1, PartOfLaden
<1>10. CASE Len(all) # 1
  <2> DEFINE e == [op |-> op, args |-> all]
  <2>1. e.op = op /\ e.args = all
    OBVIOUS
  <2> HIDE DEF e
  <2>2. AtMost(e, k)
    BY <1>8, <2>1, ListAtMost
  <2> QED BY <1>6, <1>10, <2>2 DEF e
<1> QED BY <1>9, <1>10

\* No list in e, through all its lists, has y or n for an operand.
CleanIn(e, T) == e.op \in Ops => \A i \in DOMAIN e.args : e.args[i] \in T /\ ~IsConst(e.args[i])
Clean(e) == \E T : e \in T /\ \A x \in T : CleanIn(x, T)
Neat(es) == \A i \in DOMAIN es : Clean(es[i]) /\ ~IsConst(es[i])

LEMMA CleanUnfolds ==
  ASSUME NEW e, Clean(e), e.op \in Ops
  PROVE  Neat(e.args)
<1>1. PICK T : e \in T /\ \A x \in T : CleanIn(x, T)
  BY DEF Clean
<1>2. ASSUME NEW i \in DOMAIN e.args PROVE Clean(e.args[i]) /\ ~IsConst(e.args[i])
  <2>1. e.args[i] \in T /\ ~IsConst(e.args[i])
    BY <1>1 DEF CleanIn
  <2> QED BY <1>1, <2>1 DEF Clean
<1> QED BY <1>2 DEF Neat

LEMMA CleanFolds ==
  ASSUME NEW e, e.op \in Ops => Neat(e.args)
  PROVE  Clean(e)
<1>1. CASE e.op \notin Ops
  <2>1. e \in {e} /\ \A x \in {e} : CleanIn(x, {e})
    BY <1>1 DEF CleanIn
  <2> QED BY <2>1 DEF Clean
<1>2. CASE e.op \in Ops
  <2> DEFINE D == DOMAIN e.args
             Whole(T, i) == e.args[i] \in T /\ \A x \in T : CleanIn(x, T)
             W(i) == CHOOSE T : Whole(T, i)
             Q == {e} \cup UNION {W(i) : i \in D}
  <2>1. \A i \in D : Whole(W(i), i)
    <3> TAKE i \in D
    <3>1. \E T : Whole(T, i)
      BY <1>2 DEF Neat, Clean
    <3> HIDE DEF Whole
    <3> QED BY <3>1
  <2>2. /\ \A i \in D : W(i) \subseteq Q
        /\ e \in Q /\ \A x \in Q : x = e \/ \E i \in D : x \in W(i)
    OBVIOUS
  <2> HIDE DEF W, Q
  <2>3. ASSUME NEW x \in Q PROVE CleanIn(x, Q)
    <3>1. CASE x = e
      <4>1. \A i \in D : e.args[i] \in Q /\ ~IsConst(e.args[i])
        BY <1>2, <2>1, <2>2 DEF Neat
      <4> QED BY <3>1, <4>1 DEF CleanIn
    <3>2. CASE \E i \in D : x \in W(i)
      <4>1. PICK i \in D : x \in W(i)
        BY <3>2
      <4>2. CleanIn(x, W(i)) /\ W(i) \subseteq Q
        BY <2>1, <2>2, <4>1
      <4> QED BY <4>2 DEF CleanIn
    <3> QED BY <2>2, <3>1, <3>2
  <2> QED BY <2>2, <2>3 DEF Clean
<1> QED BY <1>1, <1>2

\* What has no y and n is not weightless.
LEMMA CleanWeighs ==
  \A n \in Nat : \A e : Tree(e, n) /\ Clean(e) /\ ~IsConst(e) => \A k : AtMost(e, k) => k >= 1
<1> DEFINE P(n) == \A e : Tree(e, n) /\ Clean(e) /\ ~IsConst(e) =>
                     \A k : AtMost(e, k) => k >= 1
           S == {n \in Nat : P(n)}
<1>1. ASSUME NEW n \in Nat, \A m \in Nat : m < n => m \in S, NEW e, Tree(e, n), Clean(e),
             ~IsConst(e), NEW k, AtMost(e, k)
      PROVE  k >= 1
  <2>1. CASE e.op \notin Ops
    BY <1>1, <2>1, AtMostUnfolds
  <2>2. CASE e.op \in Ops
    <3>1. n >= 2 /\ Forest(e.args, n - 2) /\ Len(e.args) > 1
      BY <1>1, <2>2, OpIs
    <3>2. n - 2 \in Nat /\ n - 2 < n
      BY <3>1
    <3>3. /\ Len(e.args) \in Nat /\ DOMAIN e.args = 1 .. Len(e.args)
          /\ \A i \in 1 .. Len(e.args) : Tree(e.args[i], n - 2)
      BY <3>1, <3>2, ForestTrees
    <3>4. 1 \in 1 .. Len(e.args)
      BY <3>1, <3>3
    <3>5. P(n - 2)
      BY <1>1, <3>2
    <3>6. AtMost(e.args[1], k)
      BY <1>1, <2>2, <3>4, AtMostUnfolds, PartOfLaden
    <3>7. Clean(e.args[1]) /\ ~IsConst(e.args[1])
      BY <1>1, <2>2, <3>3, <3>4, CleanUnfolds DEF Neat
    <3> QED BY <3>3, <3>4, <3>5, <3>6, <3>7
  <2> QED BY <2>1, <2>2
<1>2. \A n \in Nat : (\A m \in Nat : m < n => m \in S) => n \in S
  BY <1>1
<1> HIDE DEF S
<1>3. Nat \subseteq S
  BY <1>2, AllNumbers
<1> QED BY <1>3 DEF S

LEMMA ListIsNoConst ==
  ASSUME NEW e, e.op \in Ops
  PROVE  ~IsConst(e)
  BY DEF IsConst, Sym, Ops

\* A neat list stays one when it is put together.
LEMMA OfClean ==
  ASSUME NEW n \in Nat, NEW op \in Ops, NEW es, Forest(es, n), Len(es) > 0, Neat(es)
  PROVE  Clean(Of(op, es)) /\ ~IsConst(Of(op, es))
<1> DEFINE N == Len(es)
           ss == [i \in DOMAIN es |-> Operands(op, es[i])]
           all == FlattenSeq(ss)
           U == UNION {{ss[i][j] : j \in 1 .. Len(ss[i])} : i \in 1 .. N}
<1>1. N \in Nat /\ N # 0 /\ DOMAIN es = 1 .. N /\ \A i \in 1 .. N : Tree(es[i], n)
  BY ForestTrees
<1>2. ss = [i \in 1 .. N |-> ss[i]] /\ \A i \in 1 .. N : ss[i] = Operands(op, es[i])
  BY <1>1
<1> HIDE DEF N
<1>3. ASSUME NEW i \in 1 .. N
      PROVE  Neat(ss[i]) /\ (\E T : ss[i] \in Seq(T)) /\ ss[i] # <<>>
  <2>1. Clean(es[i]) /\ ~IsConst(es[i])
    BY <1>1 DEF Neat
  <2>2. CASE es[i].op = op
    <3>1. ss[i] = es[i].args
      BY <1>2, <2>2 DEF Operands
    <3>2. Neat(es[i].args)
      BY <2>1, <2>2, CleanUnfolds
    <3>3. n >= 2 /\ Forest(es[i].args, n - 2) /\ Len(es[i].args) > 1
      BY <1>1, <2>2, OpIs
    <3>4. \E T : es[i].args \in Seq(T)
      BY <3>3 DEF Forest
    <3>5. es[i].args # <<>>
      BY <3>3, Len(<<>>) = 0
    <3> QED BY <3>1, <3>2, <3>4, <3>5
  <2>3. CASE es[i].op # op
    <3>1. ss[i] = <<es[i]>>
      BY <1>2, <2>3 DEF Operands
    <3>2. Neat(<<es[i]>>)
      <4>1. \A j \in DOMAIN <<es[i]>> : <<es[i]>>[j] = es[i]
        OBVIOUS
      <4> QED BY <2>1, <4>1 DEF Neat
    <3>3. <<es[i]>> \in Seq({es[i]}) /\ <<es[i]>> # <<>>
      OBVIOUS
    <3> QED BY <3>1, <3>2, <3>3
  <2> QED BY <2>2, <2>3
<1>4. Of(op, es) = IF Len(all) = 1 THEN all[1] ELSE [op |-> op, args |-> all]
  BY DEF Of
<1> HIDE DEF ss
<1>5. ss \in Seq(Seq(U)) /\ Len(ss) = N /\ ss # <<>>
  <2>1. ASSUME NEW i \in 1 .. N PROVE ss[i] \in Seq(U)
    <3>1. PICK T : ss[i] \in Seq(T)
      BY <1>3
    <3>2. \A j \in 1 .. Len(ss[i]) : ss[i][j] \in U
      OBVIOUS
    <3> HIDE DEF U
    <3>3. ss[i] \in [1 .. Len(ss[i]) -> U] /\ Len(ss[i]) \in Nat
      BY <3>1, <3>2
    <3> QED BY <3>3
  <2> HIDE DEF U
  <2>2. ss \in [1 .. N -> Seq(U)]
    BY <1>2, <2>1
  <2> QED BY <1>1, <2>2
<1> HIDE DEF U
<1>6. /\ all \in Seq(U)
      /\ \A k \in 1 .. Len(all) : \E i \in 1 .. Len(ss) : \E j \in 1 .. Len(ss[i]) : all[k] = ss[i][j]
      /\ (\A i \in 1 .. Len(ss) : ss[i] # <<>>) => Len(all) >= Len(ss)
  BY <1>5, Flattened
<1> HIDE DEF all
<1>7. Neat(all)
  <2>1. ASSUME NEW k \in 1 .. Len(all) PROVE Clean(all[k]) /\ ~IsConst(all[k])
    <3>1. PICK i \in 1 .. N : \E j \in 1 .. Len(ss[i]) : all[k] = ss[i][j]
      BY <1>5, <1>6
    <3>2. PICK j \in 1 .. Len(ss[i]) : all[k] = ss[i][j]
      BY <3>1
    <3>3. j \in DOMAIN ss[i]
      BY <1>3
    <3> QED BY <1>3, <3>2, <3>3 DEF Neat
  <2>2. DOMAIN all = 1 .. Len(all)
    BY <1>6
  <2> QED BY <2>1, <2>2 DEF Neat
<1>8. CASE Len(all) = 1
  <2>1. 1 \in DOMAIN all
    BY <1>6, <1>8
  <2> QED BY <1>4, <1>7, <1>8, <2>1 DEF Neat
<1>9. CASE Len(all) # 1
  <2> DEFINE e == [op |-> op, args |-> all]
  <2>1. e.op = op /\ e.args = all
    OBVIOUS
  <2> HIDE DEF e
  <2>2. Clean(e) /\ ~IsConst(e)
    BY <1>7, <2>1, CleanFolds, ListIsNoConst
  <2> QED BY <1>4, <1>9, <2>2 DEF e
<1> QED BY <1>8, <1>9

LEMMA WithoutLaden ==
  ASSUME NEW es, NEW k, Laden(es, k), Len(es) > 0, NEW x
  PROVE  Laden(Without(es, x), k)
<1> DEFINE N == Len(es)
           ss == [i \in DOMAIN es |-> IF es[i] = x THEN <<>> ELSE <<es[i]>>]
<1>1. PICK s : MarkedBy(s, es, k)
  BY DEF Laden
<1>2. N \in Nat /\ N # 0 /\ DOMAIN es = 1 .. N /\ k \in Nat
  BY DEF Laden
<1>3. /\ ss = [i \in 1 .. N |-> ss[i]]
      /\ \A i \in 1 .. N : ss[i] = IF es[i] = x THEN <<>> ELSE <<es[i]>>
  BY <1>2
<1>4. Len(ss) = N
  <2> HIDE DEF ss
  <2> QED BY <1>2, <1>3
<1>5. Without(es, x) = FlattenSeq(ss)
  BY DEF Without
<1> HIDE DEF ss
<1>6. s[0] = 0 /\ s[N] <= k
  BY <1>1 DEF MarkedBy
<1>7. \A i \in 1 .. N : s[i - 1] \in Int /\ s[i] \in Int /\ Laden(ss[i], s[i] - s[i - 1])
  <2> TAKE i \in 1 .. N
  <2> DEFINE a == s[i] - s[i - 1]
  <2>1. s[i - 1] \in Int /\ s[i] \in Int /\ a \in Nat /\ AtMost(es[i], a)
    BY <1>1 DEF MarkedBy
  <2> HIDE DEF a
  <2>2. Laden(ss[i], a)
    <3>1. CASE es[i] = x
      BY <1>3, <2>1, <3>1, NoneLaden
    <3>2. CASE es[i] # x
      BY <1>3, <2>1, <3>2, OneLaden
    <3> QED BY <3>1, <3>2
  <2> QED BY <2>1, <2>2 DEF a
<1> HIDE DEF N
<1> QED BY <1>2, <1>4, <1>5, <1>6, <1>7, FlatLaden

\* expr_eliminate_yn takes y and n out, and no more is there than before.
Settled(e, x) == Clean(x) /\ \A k : AtMost(e, k) => AtMost(x, k)

LEMMA EliminateYnSettles ==
  ASSUME NoModules, CallsOfValue, CallsOfEliminateYn
  PROVE  \A n \in Nat : \A e : Tree(e, n) => Settled(e, EliminateYn(e))
<1> DEFINE P(n) == \A e : Tree(e, n) => Settled(e, EliminateYn(e))
           S == {n \in Nat : P(n)}
<1>1. ASSUME NEW n \in Nat, \A m \in Nat : m < n => m \in S, NEW e, Tree(e, n)
      PROVE  Settled(e, EliminateYn(e))
  <2>1. CASE e.op \notin Ops
    <3>1. EliminateYn(e) = e
      BY <2>1 DEF EliminateYn
    <3> QED BY <2>1, <3>1, CleanFolds DEF Settled
  <2>2. CASE e.op \in Ops
    <3> DEFINE op == e.op
               N == Len(e.args)
               es == [i \in DOMAIN e.args |-> CallEliminateYn(e.args[i])]
               rest == Without(es, Unit(op))
    <3>1. /\ n - 2 \in Nat /\ n - 2 < n /\ N > 1 /\ N \in Nat /\ DOMAIN e.args = 1 .. N
          /\ \A i \in 1 .. N : Tree(e.args[i], n - 2)
      BY <1>1, <2>2, NodeIs
    <3>2. P(n - 2)
      BY <1>1, <3>1
    <3> HIDE DEF P, S
    <3>3. \A i \in 1 .. N : Settled(e.args[i], es[i]) /\ Tree(es[i], n - 2)
      <4> TAKE i \in 1 .. N
      <4>1. es[i] = EliminateYn(e.args[i])
        BY <3>1 DEF CallsOfEliminateYn, IsTree
      <4> HIDE DEF es
      <4>2. Tree(EliminateYn(e.args[i]), n - 2)
        BY <3>1, EliminateYnIs
      <4> QED BY <3>1, <3>2, <4>1, <4>2 DEF P
    <3>4. Forest(es, n - 2) /\ Len(es) = N /\ DOMAIN es = 1 .. N
      <4>1. es = [i \in 1 .. N |-> es[i]]
        BY <3>1
      <4> HIDE DEF es
      <4> QED BY <3>1, <3>3, <4>1, ForestIs, ForestTrees
    <3>5. EliminateYn(e) = IF \E i \in 1 .. N : es[i] = Zero(op) THEN Zero(op)
                           ELSE IF rest = <<>> THEN Unit(op) ELSE Of(op, rest)
      BY <2>2, <3>4 DEF EliminateYn
    <3>6. \A k : AtMost(e, k) => Laden(es, k) /\ Laden(rest, k)
      <4> TAKE k
      <4> SUFFICES ASSUME AtMost(e, k) PROVE Laden(es, k) /\ Laden(rest, k)
        OBVIOUS
      <4>1. Laden(e.args, k)
        BY <2>2, AtMostUnfolds
      <4>2. \E T : es \in Seq(T)
        BY <3>4 DEF Forest
      <4> HIDE DEF es, rest
      <4>3. Laden(es, k)
        BY <3>3, <3>4, <4>1, <4>2, MapLaden DEF Settled, N
      <4>4. Laden(Without(es, Unit(op)), k)
        BY <3>1, <3>4, <4>3, WithoutLaden
      <4> QED BY <4>3, <4>4 DEF rest
    <3>7. /\ Unit(op).op \notin Ops /\ Zero(op).op \notin Ops
          /\ IsConst(Unit(op)) /\ IsConst(Zero(op))
          /\ \A x : IsConst(x) => x = Unit(op) \/ x = Zero(op)
      BY <2>2 DEF Unit, Zero, IsConst, Sym, Ops
    <3>8. \A x : IsConst(x) /\ x.op \notin Ops => Settled(e, x)
      BY AtMostUnfolds, LightIs, CleanFolds DEF Settled
    <3>9. CASE \E i \in 1 .. N : es[i] = Zero(op)
      <4> HIDE DEF es, rest
      <4> QED BY <3>5, <3>7, <3>8, <3>9
    <3>10. CASE ~(\E i \in 1 .. N : es[i] = Zero(op)) /\ rest = <<>>
      <4> HIDE DEF es, rest
      <4> QED BY <3>5, <3>7, <3>8, <3>10
    <3>11. CASE ~(\E i \in 1 .. N : es[i] = Zero(op)) /\ rest # <<>>
      <4> HIDE DEF es
      <4>1. /\ Forest(rest, n - 2)
            /\ \A k \in 1 .. Len(rest) : rest[k] # Unit(op) /\ \E i \in 1 .. N : rest[k] = es[i]
        BY <3>1, <3>4, WithoutIs
      <4> HIDE DEF rest
      <4>2. Len(rest) > 0 /\ DOMAIN rest = 1 .. Len(rest)
        <5>1. \E T : rest \in Seq(T)
          BY <4>1 DEF Forest
        <5> QED BY <3>11, <5>1
      <4>3. Neat(rest)
        BY <3>3, <3>7, <3>11, <4>1, <4>2 DEF Neat, Settled
      <4>4. Clean(Of(op, rest))
        BY <2>2, <3>1, <4>1, <4>2, <4>3, OfClean
      <4>5. \A k : AtMost(e, k) => AtMost(Of(op, rest), k)
        BY <2>2, <3>6, <4>2, OfLaden
      <4> QED BY <3>5, <3>11, <4>4, <4>5 DEF Settled
    <3> QED BY <3>9, <3>10, <3>11
  <2> QED BY <2>1, <2>2
<1>2. \A n \in Nat : (\A m \in Nat : m < n => m \in S) => n \in S
  BY <1>1
<1> HIDE DEF S
<1>3. Nat \subseteq S
  BY <1>2, AllNumbers
<1> QED BY <1>3 DEF S

-----------------------------------------------------------------------------
(* What a walk takes away.                                                 *)

\* From e, and trans_count so far, a walk has come to x: nothing weighs more, and
\* where there was no y or n it has changed nothing or counted a change and taken
\* an operand away.
Lighter(e, h, x, g) ==
  /\ e.op \in Ops => x.op \in Ops
  /\ e.op \notin Ops => x = e
  /\ \A k : AtMost(e, k) => AtMost(x, k)
  /\ h = TRUE => g = TRUE
  /\ Clean(e) => \/ g = h /\ Clean(x)
                 \/ g = TRUE /\ \A k : AtMost(e, k) => k - 1 \in Nat /\ AtMost(x, k - 1)

\* The same for the operands of a list
ListLighter(es, h, r, g) ==
  /\ \A k : Laden(es, k) => Laden(r, k)
  /\ h = TRUE => g = TRUE
  /\ Neat(es) => \/ g = h /\ Neat(r)
                 \/ g = TRUE /\ \A k : Laden(es, k) => k - 1 \in Nat /\ Laden(r, k - 1)

LEMMA SameLighter ==
  ASSUME NEW es, NEW h
  PROVE  ListLighter(es, h, es, h)
  BY DEF ListLighter

LEMMA LighterAgain ==
  ASSUME NEW es, NEW h, NEW q, NEW g, NEW r, NEW f,
         ListLighter(es, h, q, g), ListLighter(q, g, r, f)
  PROVE  ListLighter(es, h, r, f)
<1>1. (\A k : Laden(es, k) => Laden(r, k)) /\ (h = TRUE => f = TRUE)
  BY DEF ListLighter
<1>2. ASSUME Neat(es)
      PROVE  \/ f = h /\ Neat(r)
             \/ f = TRUE /\ \A k : Laden(es, k) => k - 1 \in Nat /\ Laden(r, k - 1)
  <2>1. CASE g = h /\ Neat(q)
    BY <2>1 DEF ListLighter
  <2>2. CASE g = TRUE /\ \A k : Laden(es, k) => k - 1 \in Nat /\ Laden(q, k - 1)
    BY <2>2 DEF ListLighter
  <2> QED BY <1>2, <2>1, <2>2 DEF ListLighter
<1> QED BY <1>1, <1>2 DEF ListLighter

LEMMA NeatReplaced ==
  ASSUME NEW es, NEW i \in DOMAIN es, Neat(es), NEW x, Clean(x), ~IsConst(x)
  PROVE  Neat(ReplaceAt(es, i, x))
<1> DEFINE r == ReplaceAt(es, i, x)
<1>1. DOMAIN r = DOMAIN es /\ r[i] = x /\ \A k \in DOMAIN es : k # i => r[k] = es[k]
  BY DEF ReplaceAt
<1> HIDE DEF r
<1>2. Neat(r)
  BY <1>1 DEF Neat
<1> QED BY <1>2 DEF r

\* A walk over one operand
LEMMA OneLighter ==
  ASSUME NEW es, NEW h, NEW i \in DOMAIN es, \E T : es \in Seq(T),
         NEW x, NEW g, Lighter(es[i], h, x, g)
  PROVE  ListLighter(es, h, ReplaceAt(es, i, x), g)
<1> DEFINE r == ReplaceAt(es, i, x)
<1>1. i \in 1 .. Len(es)
  OBVIOUS
<1>2. ASSUME NEW k, Laden(es, k) PROVE Laden(r, k)
  <2>1. PICK a \in 0 .. k : /\ AtMost(es[i], a)
                            /\ \A b \in Nat : \A y : AtMost(y, b) => Laden(ReplaceAt(es, i, y), k - a + b)
    BY <1>1, <1>2, ReplacedLaden
  <2>2. AtMost(x, a) /\ a \in Nat /\ k \in Nat
    BY <1>2, <2>1 DEF Lighter, Laden
  <2>3. Laden(r, k - a + a)
    BY <2>1, <2>2
  <2>4. k - a + a = k
    BY <2>2
  <2> QED BY <2>3, <2>4
<1>3. ASSUME Neat(es), Clean(x), g = h PROVE Neat(r)
  <2>1. ~IsConst(es[i])
    BY <1>3 DEF Neat
  <2>2. ~IsConst(x)
    BY <2>1, ListIsNoConst DEF Lighter
  <2> QED BY <1>3, <2>2, NeatReplaced
<1>4. ASSUME \A k : AtMost(es[i], k) => k - 1 \in Nat /\ AtMost(x, k - 1), NEW k, Laden(es, k)
      PROVE  k - 1 \in Nat /\ Laden(r, k - 1)
  <2>1. PICK a \in 0 .. k : /\ AtMost(es[i], a)
                            /\ \A b \in Nat : \A y : AtMost(y, b) => Laden(ReplaceAt(es, i, y), k - a + b)
    BY <1>1, <1>4, ReplacedLaden
  <2>2. AtMost(x, a - 1) /\ a - 1 \in Nat /\ k \in Nat /\ a \in Nat /\ a <= k
    BY <1>4, <2>1 DEF Laden
  <2>3. Laden(r, k - a + (a - 1))
    BY <2>1, <2>2
  <2>4. k - a + (a - 1) = k - 1 /\ k - 1 \in Nat
    BY <2>2
  <2> QED BY <2>3, <2>4
<1> HIDE DEF r
<1>5. Neat(es) => Clean(es[i])
  BY DEF Neat
<1>6. ListLighter(es, h, r, g)
  BY <1>2, <1>3, <1>4, <1>5 DEF Lighter, ListLighter
<1> QED BY <1>6 DEF r

\* One operand becomes y or n.
LEMMA DroppedLighter ==
  ASSUME NEW n \in Nat, NEW es, Forest(es, n), NEW i \in 1 .. Len(es), NEW h,
         NEW c, IsConst(c)
  PROVE  ListLighter(es, h, ReplaceAt(es, i, c), TRUE)
<1> DEFINE r == ReplaceAt(es, i, c)
<1>1. AtMost(c, 0)
  <2>1. c.op \notin Ops
    BY DEF IsConst, Sym, Ops
  <2> QED BY <2>1, LightIs
<1>2. Tree(es[i], n) /\ DOMAIN es = 1 .. Len(es)
  BY ForestTrees
<1>3. ASSUME NEW k, Laden(es, k)
      PROVE  Laden(r, k) /\ (Neat(es) => k - 1 \in Nat /\ Laden(r, k - 1))
  <2>1. PICK a \in 0 .. k : /\ AtMost(es[i], a)
                            /\ \A b \in Nat : \A y : AtMost(y, b) => Laden(ReplaceAt(es, i, y), k - a + b)
    BY <1>3, ReplacedLaden
  <2>2. a \in Nat /\ k \in Nat /\ a <= k
    BY <1>3, <2>1 DEF Laden
  <2>3. Laden(r, k - a + 0)
    BY <1>1, <2>1
  <2>4. k - a + 0 \in Nat /\ k - a + 0 <= k
    BY <2>2
  <2>5. Laden(r, k)
    BY <2>2, <2>3, <2>4, LadenMore
  <2>6. ASSUME Neat(es) PROVE k - 1 \in Nat /\ Laden(r, k - 1)
    <3>1. a >= 1
      BY <1>2, <2>1, <2>6, CleanWeighs DEF Neat
    <3>2. k - 1 \in Nat /\ k - a + 0 <= k - 1
      BY <2>2, <3>1
    <3> QED BY <2>3, <2>4, <3>2, LadenMore
  <2> QED BY <2>5, <2>6
<1> HIDE DEF r
<1>4. ListLighter(es, h, r, TRUE)
  BY <1>3 DEF ListLighter
<1> QED BY <1>4 DEF r

\* Two operands become one.
LEMMA JoinedLighter ==
  ASSUME NoModules, NEW op \in Ops, NEW n \in Nat, NEW es, Forest(es, n),
         NEW i \in 1 .. Len(es), NEW j \in 1 .. Len(es), i # j, NEW h,
         Join(op, es[i], es[j]) # NoExpr
  PROVE  ListLighter(es, h, ReplaceAt(ReplaceAt(es, i, Unit(op)), j, Join(op, es[i], es[j])), TRUE)
<1> DEFINE x == Join(op, es[i], es[j])
           u == Unit(op)
           q == ReplaceAt(es, i, u)
           r == ReplaceAt(q, j, x)
<1>1. Tree(es[j], n) /\ DOMAIN es = 1 .. Len(es)
  BY ForestTrees
<1>2. AtMost(u, 0)
  <2>1. u.op \notin Ops /\ IsConst(u)
    BY DEF Unit, IsConst, Sym, Ops
  <2> HIDE DEF u
  <2> QED BY <2>1, LightIs
<1>3. ASSUME NEW a, AtMost(es[i], a)
      PROVE  \E b \in Nat : b <= a /\ AtMost(x, b)
  <2>1. a \in Nat
    BY <1>3, AtMostUnfolds
  <2>2. CASE ExprEq(es[i], es[j])
    <3>1. x = es[i]
      BY <2>2 DEF Join
    <3> QED BY <1>3, <2>1, <3>1
  <2>3. CASE ~ExprEq(es[i], es[j])
    <3> DEFINE s == TestedFirst(es[i])
    <3>1. x = (IF op = "or" THEN JoinOr(es[i], es[j], s) ELSE JoinAnd(es[i], es[j], s))
          /\ s \in Tristates
      BY <2>3 DEF Join, SameTest, Tristates
    <3>2. IsLiteral(x)
      <4>1. x # NoExpr
        OBVIOUS
      <4> HIDE DEF x, s
      <4> QED BY <3>1, <4>1, JoinedTests
    <3>3. x.op \notin Ops
      <4> HIDE DEF x
      <4> QED BY <3>2, TestOp DEF IsLiteral, Not, Ops
    <3>4. s \notin {Nobody, "y", "n"}
      <4> HIDE DEF s
      <4> QED BY <3>1, SymsAssumption DEF Tristates, Syms, YMN
    <3>5. es[i].op \notin Ops /\ ~IsConst(es[i])
      <4>1. CASE es[i].op \in Ops
        <5>1. es[i].op \notin {"not", "sym", "=", "!="}
          BY <4>1 DEF Ops
        <5>2. s = Nobody
          BY <5>1 DEF TestedFirst
        <5> QED BY <3>4, <5>2
      <4>2. CASE IsConst(es[i])
        <5>1. s \in {"y", "n"}
          BY <4>2 DEF IsConst, TestedFirst, Sym
        <5> QED BY <3>4, <5>1
      <4> QED BY <4>1, <4>2
    <3>6. 1 <= a
      BY <1>3, <2>1, <3>5, AtMostUnfolds
    <3> HIDE DEF x
    <3>7. AtMost(x, 1)
      BY <3>3, LightIs
    <3> QED BY <3>6, <3>7
  <2> QED BY <2>2, <2>3
<1> HIDE DEF x, u
<1>4. Len(q) = Len(es) /\ q[j] = es[j]
  <2>1. \E T : es \in Seq(T)
    BY DEF Forest
  <2> QED BY <2>1 DEF ReplaceAt
<1>5. ASSUME NEW k, Laden(es, k)
      PROVE  Laden(r, k) /\ (Neat(es) => k - 1 \in Nat /\ Laden(r, k - 1))
  <2>1. PICK a \in 0 .. k : /\ AtMost(es[i], a)
                            /\ \A b \in Nat : \A y : AtMost(y, b) => Laden(ReplaceAt(es, i, y), k - a + b)
    BY <1>5, ReplacedLaden
  <2> DEFINE m == k - a + 0
  <2>2. Laden(q, m) /\ j \in 1 .. Len(q)
    BY <1>2, <1>4, <2>1
  <2> HIDE DEF q, m
  <2>3. PICK c \in 0 .. m : /\ AtMost(q[j], c)
                            /\ \A b \in Nat : \A y : AtMost(y, b) => Laden(ReplaceAt(q, j, y), m - c + b)
    BY <2>2, ReplacedLaden
  <2>4. PICK b \in Nat : b <= a /\ AtMost(x, b)
    BY <1>3, <2>1
  <2>5. Laden(r, m - c + b)
    BY <2>3, <2>4
  <2>6. k \in Nat /\ a \in Nat /\ a <= k /\ c \in Nat /\ c <= m /\ m = k - a
    <3>1. k \in Nat
      BY <1>5 DEF Laden
    <3>2. a \in Nat /\ a <= k
      BY <2>1
    <3>3. m = k - a
      BY <3>1, <3>2 DEF m
    <3>4. c \in Nat /\ c <= m
      BY <2>3
    <3> QED BY <3>1, <3>2, <3>3, <3>4
  <2>7. m - c + b \in Nat /\ m - c + b <= k
    BY <2>4, <2>6
  <2>8. Laden(r, k)
    BY <2>5, <2>6, <2>7, LadenMore
  <2>9. ASSUME Neat(es) PROVE k - 1 \in Nat /\ Laden(r, k - 1)
    <3>1. Clean(es[j]) /\ ~IsConst(es[j])
      BY <1>1, <2>9 DEF Neat
    <3>2. c >= 1
      BY <1>1, <1>4, <2>3, <3>1, CleanWeighs
    <3>3. k - 1 \in Nat /\ m - c + b <= k - 1
      BY <2>4, <2>6, <3>2
    <3> QED BY <2>5, <2>7, <3>3, LadenMore
  <2> QED BY <2>8, <2>9
<1> HIDE DEF r
<1>6. ListLighter(es, h, r, TRUE)
  BY <1>5 DEF ListLighter
<1> QED BY <1>6 DEF r, q, x, u

\* expr_eliminate_dups1, for two operands
Dups1Light(n) ==
  \A r : Tree(r.e, n) => Lighter(r.e, r.hit, Dups1(r).e, Dups1(r).hit)

LEMMA Dups1PairLighter ==
  ASSUME NoModules, CallsOfValue, CallsOfEliminateYn, CallsOfExprEq, CallsOfCancelLoop,
         CallsOfDups1, NEW op \in Ops, NEW n \in Nat, Dups1Sound(n), Dups1Light(n),
         NEW acc, Forest(acc.es, n), NEW i \in 1 .. Len(acc.es), NEW j \in 1 .. Len(acc.es)
  PROVE  LET d == Dups1Pair(op, acc, i, j)
         IN  ListLighter(acc.es, acc.hit, d.es, d.hit)
<1> DEFINE es == acc.es
           r == [e |-> es[i], hit |-> acc.hit]
           in == CallDups1(r)
           q == ReplaceAt(es, i, in.e)
           x == Join(op, in.e, es[j])
           d == Dups1Pair(op, acc, i, j)
<1>1. /\ Tree(es[i], n) /\ Tree(es[j], n) /\ r.e = es[i] /\ r.hit = acc.hit
      /\ i \in DOMAIN es /\ \E T : es \in Seq(T)
  BY ForestTrees DEF Forest
<1>2. Lighter(es[i], acc.hit, in.e, in.hit) /\ Tree(in.e, n)
  <2>1. in = Dups1(r)
    BY <1>1 DEF CallsOfDups1, IsTree
  <2> HIDE DEF in, r
  <2> QED BY <1>1, <2>1 DEF Dups1Light, Dups1Sound
<1>3. d = IF i = j THEN acc
          ELSE IF x = NoExpr THEN [es |-> q, hit |-> in.hit]
          ELSE [es |-> ReplaceAt(ReplaceAt(es, i, Unit(op)), j, x), hit |-> TRUE]
  BY DEF Dups1Pair
<1> HIDE DEF d, in
<1>4. ListLighter(es, acc.hit, q, in.hit)
  BY <1>1, <1>2, OneLighter
<1>5. CASE i = j
  BY <1>3, <1>5, SameLighter DEF d
<1>6. CASE i # j /\ x = NoExpr
  <2>1. d.es = q /\ d.hit = in.hit
    BY <1>3, <1>6
  <2> QED BY <1>4, <2>1 DEF d
<1>7. CASE i # j /\ x # NoExpr
  <2>1. d.es = ReplaceAt(ReplaceAt(es, i, Unit(op)), j, x) /\ d.hit = TRUE
    BY <1>3, <1>7
  <2>2. /\ Forest(q, n) /\ Len(q) = Len(es) /\ q[i] = in.e
        /\ \A k \in 1 .. Len(es) : k # i => q[k] = es[k]
    BY <1>2, ReplacedIs
  <2>3. ReplaceAt(q, i, Unit(op)) = ReplaceAt(es, i, Unit(op))
    BY <1>1 DEF ReplaceAt
  <2> HIDE DEF q
  <2>4. Join(op, q[i], q[j]) = x
    BY <1>7, <2>2
  <2>5. ListLighter(q, in.hit, ReplaceAt(ReplaceAt(q, i, Unit(op)), j, Join(op, q[i], q[j])), TRUE)
    <3> HIDE DEF x
    <3>1. Join(op, q[i], q[j]) # NoExpr /\ i \in 1 .. Len(q) /\ j \in 1 .. Len(q)
      BY <1>7, <2>2, <2>4
    <3> QED BY <1>7, <2>2, <3>1, JoinedLighter
  <2>6. ListLighter(q, in.hit, d.es, d.hit)
    BY <2>1, <2>3, <2>4, <2>5
  <2> QED BY <1>4, <2>6, LighterAgain DEF d
<1> QED BY <1>5, <1>6, <1>7

LEMMA Dups1LoopLighter ==
  ASSUME NoModules, CallsOfValue, CallsOfEliminateYn, CallsOfExprEq, CallsOfCancelLoop,
         CallsOfDups1, CallsOfDups1Loop, NEW op \in Ops, NEW n \in Nat, Dups1Sound(n),
         Dups1Light(n), NEW acc, Forest(acc.es, n)
  PROVE  LET d == Dups1Loop(op, acc, 1, 1)
         IN  ListLighter(acc.es, acc.hit, d.es, d.hit)
<1> DEFINE N == Len(acc.es)
           Begins(c) == Forest(c.es, n) /\ Len(c.es) = N
           Ended(c, d) == ListLighter(c.es, c.hit, d.es, d.hit)
           Right(c, p) == Ended(c, Dups1Loop(op, c, p[1], p[2]))
           S == {p \in Nat \X Nat : \A c : Begins(c) => Right(c, p)}
<1>1. N \in Nat
  BY ForestTrees
<1>2. \A c : Begins(c) => IsForest(c.es)
  BY DEF IsForest
<1> HIDE DEF N
<1>3. ASSUME NEW j \in 1 .. N + 1
      PROVE  <<N + 1, j>> \in S
  <2>1. ASSUME NEW c, Begins(c) PROVE Right(c, <<N + 1, j>>)
    <3>1. Dups1Loop(op, c, N + 1, j) = c
      BY <1>1, <2>1 DEF Dups1Loop
    <3>2. Ended(c, c)
      BY SameLighter
    <3> HIDE DEF Ended
    <3> QED BY <3>1, <3>2
  <2> HIDE DEF Begins, Right
  <2> QED BY <1>1, <2>1
<1>4. ASSUME NEW i \in 1 .. N, <<i + 1, 1>> \in S
      PROVE  <<i, N + 1>> \in S
  <2>1. ASSUME NEW c, Begins(c) PROVE Right(c, <<i, N + 1>>)
    <3>1. Dups1Loop(op, c, i, N + 1) = CallDups1Loop(op, c, i + 1, 1)
      BY <1>1, <2>1 DEF Dups1Loop
    <3>2. CallDups1Loop(op, c, i + 1, 1) = Dups1Loop(op, c, i + 1, 1)
      <4>1. i + 1 \in Nat \ {0} /\ 1 \in Nat \ {0}
        OBVIOUS
      <4> QED BY <1>2, <2>1, <4>1 DEF CallsOfDups1Loop
    <3> HIDE DEF Ended
    <3>3. Right(c, <<i + 1, 1>>)
      BY <1>4, <2>1
    <3> QED BY <3>1, <3>2, <3>3
  <2> HIDE DEF Begins, Right
  <2> QED BY <1>1, <2>1
<1>5. ASSUME NEW i \in 1 .. N, NEW j \in 1 .. N, <<i, j + 1>> \in S
      PROVE  <<i, j>> \in S
  <2>1. ASSUME NEW c, Begins(c) PROVE Right(c, <<i, j>>)
    <3> DEFINE d == Dups1Pair(op, c, i, j)
               l == Dups1Loop(op, d, i, j + 1)
    <3>1. Dups1Loop(op, c, i, j) = CallDups1Loop(op, d, i, j + 1)
      BY <1>1, <2>1 DEF Dups1Loop
    <3>2. Kept(op, c.es, d.es, n) /\ Ended(c, d)
      BY <2>1, Dups1PairIs, Dups1PairLighter
    <3> HIDE DEF d, Ended
    <3>3. Begins(d)
      BY <2>1, <3>2 DEF Kept
    <3>4. CallDups1Loop(op, d, i, j + 1) = l
      <4>1. i \in Nat \ {0} /\ j + 1 \in Nat \ {0}
        OBVIOUS
      <4> QED BY <1>2, <3>3, <4>1 DEF CallsOfDups1Loop
    <3>5. Right(d, <<i, j + 1>>)
      BY <1>5, <3>3
    <3>6. Ended(d, l)
      BY <3>5
    <3> HIDE DEF l
    <3>7. Ended(c, l)
      BY <3>2, <3>6, LighterAgain DEF Ended
    <3> QED BY <3>1, <3>4, <3>7
  <2> HIDE DEF Begins, Right
  <2> QED BY <1>1, <2>1
<1>6. <<1, 1>> \in S
  <2> HIDE DEF S
  <2>1. N \in Nat
    BY <1>1
  <2> QED BY <1>1, <1>3, <1>4, <1>5, <2>1, NestedLoop
<1>7. Begins(acc)
  BY DEF N
<1>8. Right(acc, <<1, 1>>)
  <2> HIDE DEF Right, Begins
  <2> QED BY <1>6, <1>7
<1> QED BY <1>8

\* A list that is built anew from fewer operands
LEMMA BuiltLighter ==
  ASSUME NoModules, CallsOfValue, NEW n \in Nat, NEW e, Tree(e, n), e.op \in Ops,
         NEW es, Kept(e.op, e.args, es, n - 2), NEW h, NEW g, ListLighter(e.args, h, es, g)
  PROVE  Lighter(e, h, Of(e.op, es), g)
<1> DEFINE op == e.op
           x == Of(op, es)
<1>1. n - 2 \in Nat /\ Len(e.args) > 1 /\ op \in Ops
  BY NodeIs
<1>2. Forest(es, n - 2) /\ Len(es) > 1 /\ Len(es) > 0
  BY <1>1 DEF Kept
<1>3. x.op = op
  BY <1>1, <1>2, OfIs
<1>4. Neat(es) => Clean(x)
  BY <1>1, <1>2, OfClean
<1>5. \A k : Laden(es, k) => AtMost(x, k)
  BY <1>1, <1>2, OfLaden
<1>6. \A k : AtMost(e, k) => Laden(e.args, k)
  BY AtMostUnfolds
<1>7. Clean(e) => Neat(e.args)
  BY CleanUnfolds
<1> HIDE DEF x, op
<1>8. Lighter(e, h, x, g)
  BY <1>1, <1>3, <1>4, <1>5, <1>6, <1>7 DEF Lighter, ListLighter, op
<1> QED BY <1>8 DEF x, op

\* expr_eliminate_dups1 takes an operand away whenever it counts a change.
LEMMA Dups1Lighter ==
  ASSUME NoModules, CallsOfValue, CallsOfEliminateYn, CallsOfExprEq, CallsOfCancelLoop,
         CallsOfDups1, CallsOfDups1Loop
  PROVE  \A n \in Nat : Dups1Light(n)
<1> DEFINE S == {n \in Nat : Dups1Light(n)}
<1>1. ASSUME NEW n \in Nat, \A m \in Nat : m < n => m \in S, NEW r, Tree(r.e, n)
      PROVE  Lighter(r.e, r.hit, Dups1(r).e, Dups1(r).hit)
  <2>1. CASE r.e.op \notin Ops
    <3>1. Dups1(r) = r
      BY <2>1 DEF Dups1
    <3> QED BY <2>1, <3>1 DEF Lighter
  <2>2. CASE r.e.op \in Ops
    <3> DEFINE op == r.e.op
               acc == [es |-> r.e.args, hit |-> r.hit]
               d == Dups1Loop(op, acc, 1, 1)
    <3>1. n - 2 \in Nat /\ n - 2 < n /\ Forest(r.e.args, n - 2)
      BY <1>1, <2>2, NodeIs
    <3>2. Dups1Sound(n - 2) /\ Dups1Light(n - 2)
      BY <1>1, <3>1, Dups1Is
    <3>3. acc.es = r.e.args /\ acc.hit = r.hit
      OBVIOUS
    <3>4. Dups1(r) = [e |-> Of(op, d.es), hit |-> d.hit]
      BY <2>2 DEF Dups1
    <3> HIDE DEF acc, S
    <3>5. Kept(op, r.e.args, d.es, n - 2) /\ ListLighter(r.e.args, r.hit, d.es, d.hit)
      BY <2>2, <3>1, <3>2, <3>3, Dups1LoopIs, Dups1LoopLighter
    <3> HIDE DEF d
    <3>6. Lighter(r.e, r.hit, Of(op, d.es), d.hit)
      BY <1>1, <2>2, <3>5, BuiltLighter
    <3> QED BY <3>4, <3>6
  <2> QED BY <2>1, <2>2
<1>2. \A n \in Nat : (\A m \in Nat : m < n => m \in S) => n \in S
  BY <1>1 DEF Dups1Light
<1> HIDE DEF S
<1>3. Nat \subseteq S
  BY <1>2, AllNumbers
<1> QED BY <1>3 DEF S

\* expr_eliminate_dups2, for two operands
Dups2Light(n) ==
  \A r : Tree(r.e, n) => Lighter(r.e, r.hit, Dups2(r).e, Dups2(r).hit)

LEMMA Dups2PairLighter ==
  ASSUME NoModules, CallsOfValue, CallsOfEliminateYn, CallsOfExprEq, CallsOfCancelLoop,
         CallsOfTransform, CallsOfDups2, NEW op \in Ops, NEW n \in Nat, Dups2Sound(n),
         Dups2Light(n), NEW acc, Forest(acc.es, n), NEW i \in 1 .. Len(acc.es),
         NEW j \in 1 .. Len(acc.es) + 1
  PROVE  LET d == Dups2Pair(op, acc, i, j)
         IN  ListLighter(acc.es, acc.hit, d.es, d.hit)
<1> DEFINE r == [e |-> acc.es[i], hit |-> acc.hit]
           in == CallDups2(r)
           es == ReplaceAt(acc.es, i, in.e)
           d == Dups2Pair(op, acc, i, j)
<1>1. /\ Tree(acc.es[i], n) /\ r.e = acc.es[i] /\ r.hit = acc.hit
      /\ i \in DOMAIN acc.es /\ \E T : acc.es \in Seq(T)
  BY ForestTrees DEF Forest
<1>2. Lighter(acc.es[i], acc.hit, in.e, in.hit) /\ Tree(in.e, n)
  <2>1. in = Dups2(r)
    BY <1>1 DEF CallsOfDups2, IsTree
  <2> HIDE DEF in, r
  <2> QED BY <1>1, <2>1 DEF Dups2Light, Dups2Sound
<1>3. \/ d = acc
      \/ d = [es |-> ReplaceAt(es, i, Zero(op)), hit |-> TRUE]
      \/ d = [es |-> es, hit |-> in.hit]
  BY DEF Dups2Pair
<1> HIDE DEF d, in
<1>4. ListLighter(acc.es, acc.hit, es, in.hit)
  BY <1>1, <1>2, OneLighter
<1>5. Forest(es, n) /\ i \in 1 .. Len(es)
  BY <1>2, ReplacedIs
<1> HIDE DEF es
<1>6. CASE d = acc
  BY <1>6, SameLighter DEF d
<1>7. CASE d = [es |-> ReplaceAt(es, i, Zero(op)), hit |-> TRUE]
  <2>1. d.es = ReplaceAt(es, i, Zero(op)) /\ d.hit = TRUE
    BY <1>7
  <2>2. IsConst(Zero(op))
    BY DEF IsConst, Zero
  <2>3. ListLighter(es, in.hit, ReplaceAt(es, i, Zero(op)), TRUE)
    BY <1>5, <2>2, DroppedLighter
  <2>4. ListLighter(es, in.hit, d.es, d.hit)
    BY <2>1, <2>3
  <2> QED BY <1>4, <2>4, LighterAgain DEF d
<1>8. CASE d = [es |-> es, hit |-> in.hit]
  <2>1. d.es = es /\ d.hit = in.hit
    BY <1>8
  <2> QED BY <1>4, <2>1 DEF d
<1> QED BY <1>3, <1>6, <1>7, <1>8

LEMMA Dups2LoopLighter ==
  ASSUME NoModules, CallsOfValue, CallsOfEliminateYn, CallsOfExprEq, CallsOfCancelLoop,
         CallsOfTransform, CallsOfDups2, CallsOfDups2Loop, NEW op \in Ops, NEW n \in Nat, Dups2Sound(n),
         Dups2Light(n), NEW acc, Forest(acc.es, n)
  PROVE  LET d == Dups2Loop(op, acc, 1, 1)
         IN  ListLighter(acc.es, acc.hit, d.es, d.hit)
<1> DEFINE N == Len(acc.es)
           Begins(c) == Forest(c.es, n) /\ Len(c.es) = N
           Ended(c, d) == ListLighter(c.es, c.hit, d.es, d.hit)
           Right(c, p) == Ended(c, Dups2Loop(op, c, p[1], p[2]))
           S == {p \in Nat \X Nat : \A c : Begins(c) => Right(c, p)}
<1>1. N \in Nat
  BY ForestTrees
<1>2. \A c : Begins(c) => IsForest(c.es)
  BY DEF IsForest
<1> HIDE DEF N
<1>3. ASSUME NEW j \in 1 .. (N + 1) + 1
      PROVE  <<N + 1, j>> \in S
  <2>1. ASSUME NEW c, Begins(c) PROVE Right(c, <<N + 1, j>>)
    <3>1. Dups2Loop(op, c, N + 1, j) = c
      BY <1>1, <2>1 DEF Dups2Loop
    <3>2. Ended(c, c)
      BY SameLighter
    <3> HIDE DEF Ended
    <3> QED BY <3>1, <3>2
  <2> HIDE DEF Begins, Right
  <2> QED BY <1>1, <2>1
<1>4. ASSUME NEW i \in 1 .. N, <<i + 1, 1>> \in S
      PROVE  <<i, (N + 1) + 1>> \in S
  <2>1. ASSUME NEW c, Begins(c) PROVE Right(c, <<i, (N + 1) + 1>>)
    <3>1. Dups2Loop(op, c, i, (N + 1) + 1) = CallDups2Loop(op, c, i + 1, 1)
      BY <1>1, <2>1 DEF Dups2Loop
    <3>2. CallDups2Loop(op, c, i + 1, 1) = Dups2Loop(op, c, i + 1, 1)
      <4>1. i + 1 \in Nat \ {0} /\ 1 \in Nat \ {0}
        OBVIOUS
      <4> QED BY <1>2, <2>1, <4>1 DEF CallsOfDups2Loop
    <3> HIDE DEF Ended
    <3>3. Right(c, <<i + 1, 1>>)
      BY <1>4, <2>1
    <3> QED BY <3>1, <3>2, <3>3
  <2> HIDE DEF Begins, Right
  <2> QED BY <1>1, <2>1
<1>5. ASSUME NEW i \in 1 .. N, NEW j \in 1 .. (N + 1), <<i, j + 1>> \in S
      PROVE  <<i, j>> \in S
  <2>1. ASSUME NEW c, Begins(c) PROVE Right(c, <<i, j>>)
    <3> DEFINE d == Dups2Pair(op, c, i, j)
               l == Dups2Loop(op, d, i, j + 1)
    <3>1. Dups2Loop(op, c, i, j) = CallDups2Loop(op, d, i, j + 1)
      BY <1>1, <2>1 DEF Dups2Loop
    <3>2. Kept(op, c.es, d.es, n) /\ Ended(c, d)
      BY <2>1, Dups2PairIs, Dups2PairLighter
    <3> HIDE DEF d, Ended
    <3>3. Begins(d)
      BY <2>1, <3>2 DEF Kept
    <3>4. CallDups2Loop(op, d, i, j + 1) = l
      <4>1. i \in Nat \ {0} /\ j + 1 \in Nat \ {0}
        OBVIOUS
      <4> QED BY <1>2, <3>3, <4>1 DEF CallsOfDups2Loop
    <3>5. Right(d, <<i, j + 1>>)
      BY <1>5, <3>3
    <3>6. Ended(d, l)
      BY <3>5
    <3> HIDE DEF l
    <3>7. Ended(c, l)
      BY <3>2, <3>6, LighterAgain DEF Ended
    <3> QED BY <3>1, <3>4, <3>7
  <2> HIDE DEF Begins, Right
  <2> QED BY <1>1, <2>1
<1>6. <<1, 1>> \in S
  <2> HIDE DEF S
  <2>1. (N + 1) \in Nat
    BY <1>1
  <2> QED BY <1>1, <1>3, <1>4, <1>5, <2>1, NestedLoop
<1>7. Begins(acc)
  BY DEF N
<1>8. Right(acc, <<1, 1>>)
  <2> HIDE DEF Right, Begins
  <2> QED BY <1>6, <1>7
<1> QED BY <1>8

\* expr_eliminate_dups2 takes an operand away whenever it counts a change.
LEMMA Dups2Lighter ==
  ASSUME NoModules, CallsOfValue, CallsOfEliminateYn, CallsOfExprEq, CallsOfCancelLoop,
         CallsOfTransform, CallsOfDups2, CallsOfDups2Loop
  PROVE  \A n \in Nat : Dups2Light(n)
<1> DEFINE S == {n \in Nat : Dups2Light(n)}
<1>1. ASSUME NEW n \in Nat, \A m \in Nat : m < n => m \in S, NEW r, Tree(r.e, n)
      PROVE  Lighter(r.e, r.hit, Dups2(r).e, Dups2(r).hit)
  <2>1. CASE r.e.op \notin Ops
    <3>1. Dups2(r) = r
      BY <2>1 DEF Dups2
    <3> QED BY <2>1, <3>1 DEF Lighter
  <2>2. CASE r.e.op \in Ops
    <3> DEFINE op == r.e.op
               acc == [es |-> r.e.args, hit |-> r.hit]
               d == Dups2Loop(op, acc, 1, 1)
    <3>1. n - 2 \in Nat /\ n - 2 < n /\ Forest(r.e.args, n - 2)
      BY <1>1, <2>2, NodeIs
    <3>2. Dups2Sound(n - 2) /\ Dups2Light(n - 2)
      BY <1>1, <3>1, Dups2Is
    <3>3. acc.es = r.e.args /\ acc.hit = r.hit
      OBVIOUS
    <3>4. Dups2(r) = [e |-> Of(op, d.es), hit |-> d.hit]
      BY <2>2 DEF Dups2
    <3> HIDE DEF acc, S
    <3>5. Kept(op, r.e.args, d.es, n - 2) /\ ListLighter(r.e.args, r.hit, d.es, d.hit)
      BY <2>2, <3>1, <3>2, <3>3, Dups2LoopIs, Dups2LoopLighter
    <3> HIDE DEF d
    <3>6. Lighter(r.e, r.hit, Of(op, d.es), d.hit)
      BY <1>1, <2>2, <3>5, BuiltLighter
    <3> QED BY <3>4, <3>6
  <2> QED BY <2>1, <2>2
<1>2. \A n \in Nat : (\A m \in Nat : m < n => m \in S) => n \in S
  BY <1>1 DEF Dups2Light
<1> HIDE DEF S
<1>3. Nat \subseteq S
  BY <1>2, AllNumbers
<1> QED BY <1>3 DEF S

-----------------------------------------------------------------------------
(* The rounds come to an end.                                              *)

LEMMA RoundTakes ==
  ASSUME NoModules, Calls, NEW n \in Nat, NEW e, Tree(e, n), Clean(e), Round(e).hit,
         NEW k, AtMost(e, k)
  PROVE  k - 1 \in Nat /\ AtMost(Round(e).e, k - 1)
<1> DEFINE r == [e |-> e, hit |-> FALSE]
           q == Dups1(r)
           t == Dups2(q)
<1>1. r.e = e /\ r.hit = FALSE
  OBVIOUS
<1> HIDE DEF r
<1>2. Tree(q.e, n) /\ Lighter(e, FALSE, q.e, q.hit)
  BY <1>1, Dups1Is, Dups1Lighter DEF Calls, Dups1Sound, Dups1Light
<1> HIDE DEF q
<1>3. Lighter(q.e, q.hit, t.e, t.hit)
  BY <1>2, Dups2Lighter DEF Calls, Dups2Light
<1>4. Round(e) = t
  BY DEF Round, t, q, r
<1> HIDE DEF t
<1>5. t.hit # FALSE
  BY <1>4
<1>6. CASE q.hit = FALSE /\ Clean(q.e)
  <2>1. AtMost(q.e, k)
    BY <1>2 DEF Lighter
  <2> QED BY <1>3, <1>4, <1>5, <1>6, <2>1 DEF Lighter
<1>7. CASE \A a : AtMost(e, a) => a - 1 \in Nat /\ AtMost(q.e, a - 1)
  BY <1>3, <1>4, <1>7 DEF Lighter
<1> QED BY <1>2, <1>6, <1>7 DEF Lighter

LEMMA OneRoundMore ==
  ASSUME NEW e, Round(e).hit, RoundsEnd(EliminateYn(Round(e).e))
  PROVE  RoundsEnd(e)
<1> DEFINE x == EliminateYn(Round(e).e)
<1>1. PICK n \in Nat : \E run :
        /\ run[0] = x /\ ~Round(run[n]).hit
        /\ \A k \in Nat : k < n => Round(run[k]).hit /\ run[k + 1] = EliminateYn(Round(run[k]).e)
  BY DEF RoundsEnd
<1>2. PICK run :
        /\ run[0] = x /\ ~Round(run[n]).hit
        /\ \A k \in Nat : k < n => Round(run[k]).hit /\ run[k + 1] = EliminateYn(Round(run[k]).e)
  BY <1>1
<1> DEFINE long == [t \in Nat |-> IF t = 0 THEN e ELSE run[t - 1]]
<1>3. long[0] = e /\ \A t \in Nat : long[t + 1] = run[t]
  <2>1. ASSUME NEW t \in Nat PROVE long[t + 1] = run[t]
    <3>1. t + 1 \in Nat /\ t + 1 # 0 /\ t + 1 - 1 = t
      OBVIOUS
    <3> QED BY <3>1
  <2> QED BY <2>1
<1> HIDE DEF x, long
<1>4. ASSUME NEW k \in Nat, k < n + 1
      PROVE  Round(long[k]).hit /\ long[k + 1] = EliminateYn(Round(long[k]).e)
  <2>1. CASE k = 0
    <3>1. long[0 + 1] = run[0]
      BY <1>3
    <3> QED BY <1>2, <1>3, <2>1, <3>1 DEF x
  <2>2. CASE k # 0
    <3> DEFINE t == k - 1
    <3>1. t \in Nat /\ t + 1 = k /\ t < n
      BY <1>4, <2>2
    <3> HIDE DEF t
    <3>2. long[k] = run[t] /\ long[k + 1] = run[t + 1]
      BY <1>3, <3>1
    <3> QED BY <1>2, <3>1, <3>2
  <2> QED BY <2>1, <2>2
<1>5. n + 1 \in Nat /\ long[n + 1] = run[n]
  BY <1>3
<1> QED BY <1>2, <1>3, <1>4, <1>5 DEF RoundsEnd

LEMMA NoRoundMore ==
  ASSUME NEW e, ~Round(e).hit
  PROVE  RoundsEnd(e)
<1> DEFINE run == [t \in {0} |-> e]
<1>1. run[0] = e
  OBVIOUS
<1> HIDE DEF run
<1>2. 0 \in Nat /\ \A k \in Nat : ~(k < 0)
  OBVIOUS
<1> QED BY <1>1, <1>2 DEF RoundsEnd

\* Whatever the expression is, the loop of expr_eliminate_dups comes to its end: a
\* round that counts a change has joined two operands or made one a constant,
\* which expr_eliminate_yn takes out before the next round (expr.c:617-639).
THEOREM RoundsAreFinite ==
  ASSUME NoModules, Calls, NEW e, IsTree(e)
  PROVE  RoundsEnd(e)
<1> DEFINE After(x) == EliminateYn(Round(x).e)
<1>1. ASSUME NEW x, IsTree(x)
      PROVE  /\ IsTree(After(x)) /\ Clean(After(x))
             /\ \A k : AtMost(Round(x).e, k) => AtMost(After(x), k)
  <2>1. PICK n \in Nat : Tree(x, n)
    BY <1>1 DEF IsTree
  <2>2. Tree(Round(x).e, n)
    BY <2>1, RoundIs
  <2>3. Tree(After(x), n)
    BY <2>2, EliminateYnIs DEF Calls
  <2>4. Settled(Round(x).e, After(x))
    BY <2>2, EliminateYnSettles DEF Calls
  <2> QED BY <2>3, <2>4 DEF IsTree, Settled
<1> HIDE DEF After
<1> DEFINE P(k) == \A x : IsTree(x) /\ Clean(x) /\ AtMost(x, k) => RoundsEnd(x)
           S == {k \in Nat : P(k)}
<1>2. ASSUME NEW k \in Nat, \A m \in Nat : m < k => m \in S,
             NEW x, IsTree(x), Clean(x), AtMost(x, k)
      PROVE  RoundsEnd(x)
  <2>1. CASE ~Round(x).hit
    BY <2>1, NoRoundMore
  <2>2. CASE Round(x).hit
    <3>1. k - 1 \in Nat /\ AtMost(Round(x).e, k - 1)
      BY <1>2, <2>2, RoundTakes DEF IsTree
    <3>2. P(k - 1)
      BY <1>2, <3>1, k - 1 < k
    <3>3. RoundsEnd(After(x))
      BY <1>1, <1>2, <3>1, <3>2
    <3> QED BY <2>2, <3>3, OneRoundMore DEF After
  <2> QED BY <2>1, <2>2
<1>3. \A k \in Nat : P(k)
  <2>1. \A k \in Nat : (\A m \in Nat : m < k => m \in S) => k \in S
    BY <1>2
  <2> HIDE DEF S
  <2>2. Nat \subseteq S
    BY <2>1, AllNumbers
  <2> QED BY <2>2 DEF S
<1> HIDE DEF P
<1>4. CASE ~Round(e).hit
  BY <1>4, NoRoundMore
<1>5. CASE Round(e).hit
  <2>1. IsTree(After(e)) /\ Clean(After(e))
    BY <1>1
  <2>2. PICK k : AtMost(After(e), k)
    BY <2>1, TreeWeighs DEF IsTree
  <2>3. k \in Nat
    BY <2>2, AtMostUnfolds
  <2>4. RoundsEnd(After(e))
    BY <1>3, <2>1, <2>2, <2>3 DEF P
  <2> QED BY <1>5, <2>4, OneRoundMore DEF After
<1> QED BY <1>4, <1>5

\* expr_eliminate_dups keeps the value of every expression.
LEMMA EliminateDupsIs ==
  ASSUME NoModules, Calls, NEW n \in Nat, NEW e, Tree(e, n)
  PROVE  Tree(EliminateDups(e), n) /\ Same(EliminateDups(e), e)
<1>1. PICK last \in Nat : \E run :
        /\ run[0] = e /\ ~Round(run[last]).hit
        /\ \A k \in Nat : k < last =>
             Round(run[k]).hit /\ run[k + 1] = EliminateYn(Round(run[k]).e)
  <2>1. RoundsEnd(e)
    BY RoundsAreFinite DEF IsTree
  <2> QED BY <2>1 DEF RoundsEnd
<1>2. PICK run :
        /\ run[0] = e /\ ~Round(run[last]).hit
        /\ \A k \in Nat : k < last =>
             Round(run[k]).hit /\ run[k + 1] = EliminateYn(Round(run[k]).e)
  BY <1>1
<1> DEFINE Good(x) == Tree(EliminateDups(x), n) /\ Same(EliminateDups(x), x)
           Whole(k) == Tree(run[k], n)
           S == {k \in Nat : k <= last => Whole(k)}
           R == {k \in Nat : k <= last => Good(run[last - k])}
<1>3. ASSUME NEW x, Tree(x, n)
      PROVE  /\ Tree(EliminateYn(Round(x).e), n) /\ Same(EliminateYn(Round(x).e), x)
             /\ Tree(Round(x).e, n) /\ Same(Round(x).e, x)
  <2>1. Tree(Round(x).e, n) /\ Same(Round(x).e, x)
    BY <1>3, RoundIs
  <2>2. Tree(EliminateYn(Round(x).e), n) /\ Same(EliminateYn(Round(x).e), Round(x).e)
    BY <2>1, EliminateYnIs DEF Calls
  <2> QED BY <2>1, <2>2 DEF Same
<1>4. \A k \in Nat : k <= last => Whole(k)
  <2>1. ASSUME NEW k \in Nat, \A m \in Nat : m < k => m \in S, k <= last
        PROVE  Whole(k)
    <3>1. CASE k = 0
      BY <1>2, <3>1
    <3>2. CASE k # 0
      <4>1. k - 1 \in Nat /\ k - 1 < k /\ k - 1 < last /\ k - 1 + 1 = k
        BY <2>1, <3>2
      <4>2. Tree(run[k - 1], n)
        BY <2>1, <4>1
      <4>3. run[k] = EliminateYn(Round(run[k - 1]).e)
        BY <1>2, <4>1
      <4> QED BY <1>3, <4>2, <4>3
    <3> QED BY <3>1, <3>2
  <2> HIDE DEF Whole
  <2>2. \A k \in Nat : (\A m \in Nat : m < k => m \in S) => k \in S
    BY <2>1
  <2> HIDE DEF S
  <2>3. Nat \subseteq S
    BY <2>2, AllNumbers
  <2> QED BY <2>3 DEF S
<1>5. \A k \in Nat : k <= last => Good(run[last - k])
  <2>1. ASSUME NEW k \in Nat, \A m \in Nat : m < k => m \in R, k <= last
        PROVE  Good(run[last - k])
    <3> DEFINE x == run[last - k]
    <3>1. Tree(x, n)
      BY <1>4, <2>1
    <3>2. CASE k = 0
      <4>1. x = run[last]
        BY <3>2
      <4> HIDE DEF x
      <4>2. EliminateDups(x) = Round(x).e
        BY <1>2, <4>1 DEF EliminateDups
      <4>3. Good(x)
        BY <1>3, <3>1, <4>2
      <4> QED BY <4>3 DEF x
    <3>3. CASE k # 0
      <4> DEFINE y == run[last - k + 1]
      <4>1. /\ last - k \in Nat /\ last - k < last
            /\ k - 1 \in Nat /\ k - 1 < k /\ k - 1 <= last /\ last - (k - 1) = last - k + 1
        BY <2>1, <3>3
      <4>2. Round(x).hit /\ y = EliminateYn(Round(x).e)
        BY <1>2, <4>1
      <4>3. Good(y)
        BY <2>1, <4>1
      <4> HIDE DEF x, y
      <4>4. Tree(y, n) /\ Same(y, x)
        BY <1>3, <3>1, <4>2
      <4>5. EliminateDups(x) = CallEliminateDups(y)
        BY <4>2 DEF EliminateDups
      <4>6. EliminateDups(x) = EliminateDups(y)
        BY <4>4, <4>5 DEF Calls, CallsOfEliminateDups, IsTree
      <4>7. Good(x)
        BY <4>3, <4>4, <4>6 DEF Same
      <4> QED BY <4>7 DEF x
    <3> QED BY <3>2, <3>3
  <2> HIDE DEF Good
  <2>2. \A k \in Nat : (\A m \in Nat : m < k => m \in R) => k \in R
    BY <2>1
  <2> HIDE DEF R
  <2>3. Nat \subseteq R
    BY <2>2, AllNumbers
  <2> QED BY <2>3 DEF R
<1>6. Good(run[last - last])
  BY <1>5
<1> QED BY <1>2, <1>6

-----------------------------------------------------------------------------
(* What menu_finalize makes of it.                                         *)

\* What an entry may say: nothing is said by NULL, which is y.
IsPart(e) == e = NoExpr \/ IsTree(e)

LEMMA NoExprValue ==
  /\ NoExpr.op = "none" /\ NoExpr.op \notin Ops
  /\ \A f : Value(NoExpr, f) = 2 /\ Holds(NoExpr, f)
  BY DEF NoExpr, Value, Ops, Holds

LEMMA PartValue ==
  ASSUME NoModules, Calls, NEW e, IsPart(e), NEW f \in Assignments
  PROVE  Value(e, f) \in {0, 2}
  BY NoExprValue, TreeValue DEF IsPart, Calls

LEMMA PartTransform ==
  ASSUME NoModules, Calls, NEW e, IsPart(e)
  PROVE  IsPart(Transform(e)) /\ Same(Transform(e), e)
<1>1. CASE e = NoExpr
  <2>1. Transform(e) = e
    BY <1>1, NoExprValue DEF Transform
  <2> QED BY <1>1, <2>1 DEF IsPart, Same
<1>2. CASE IsTree(e)
  BY <1>2, TransformIs DEF Calls, IsTree, IsPart
<1> QED BY <1>1, <1>2 DEF IsPart

LEMMA PartTransBool ==
  ASSUME NoModules, Calls, NEW e, IsPart(e)
  PROVE  IsPart(TransBool(e)) /\ Same(TransBool(e), e)
<1>1. CASE e = NoExpr
  <2>1. TransBool(e) = e
    BY <1>1, NoExprValue DEF TransBool
  <2> QED BY <1>1, <2>1 DEF IsPart, Same
<1>2. CASE IsTree(e)
  BY <1>2, TransBoolIs DEF Calls, IsTree, IsPart
<1> QED BY <1>1, <1>2 DEF IsPart

LEMMA PartEliminateDups ==
  ASSUME NoModules, Calls, NEW e, IsPart(e)
  PROVE  IsPart(EliminateDups(e)) /\ Same(EliminateDups(e), e)
<1>1. CASE e = NoExpr
  <2> DEFINE r == [e |-> e, hit |-> FALSE]
  <2>1. r.e.op \notin Ops /\ r.hit = FALSE /\ r.e = e
    BY <1>1, NoExprValue
  <2> HIDE DEF r
  <2>2. Dups1(r) = r /\ Dups2(r) = r
    BY <2>1 DEF Dups1, Dups2
  <2>3. Round(e) = r
    BY <2>2 DEF Round, r
  <2>4. EliminateDups(e) = e
    BY <2>1, <2>3 DEF EliminateDups
  <2> QED BY <1>1, <2>4 DEF IsPart, Same
<1>2. CASE IsTree(e)
  BY <1>2, EliminateDupsIs DEF IsTree, IsPart
<1> QED BY <1>1, <1>2 DEF IsPart

LEMMA PartAnd ==
  ASSUME NoModules, Calls, NEW x, IsPart(x), NEW y, IsPart(y)
  PROVE  /\ IsPart(And(x, y))
         /\ \A f \in Assignments : Holds(And(x, y), f) <=> Holds(x, f) /\ Holds(y, f)
<1>1. CASE x = NoExpr
  BY <1>1, NoExprValue DEF And
<1>2. CASE x # NoExpr /\ y = NoExpr
  BY <1>2, NoExprValue DEF And
<1>3. CASE x # NoExpr /\ y # NoExpr
  <2> DEFINE es == <<x, y>>
  <2>1. And(x, y) = Of("and", es)
    BY <1>3 DEF And
  <2>2. PICK n \in Nat : Tree(x, n)
    BY <1>3 DEF IsPart, IsTree
  <2>3. PICK m \in Nat : Tree(y, m)
    BY <1>3 DEF IsPart, IsTree
  <2>4. Tree(x, n + m) /\ Tree(y, n + m) /\ n + m \in Nat
    BY <2>2, <2>3, n <= n + m, m <= n + m, n + m \in Nat, TreeAbove
  <2>5. es = [i \in 1 .. 2 |-> es[i]] /\ es[1] = x /\ es[2] = y
    OBVIOUS
  <2> HIDE DEF es
  <2>6. Forest(es, n + m) /\ Len(es) = 2
    <3>1. \A i \in 1 .. 2 : Tree(es[i], n + m)
      BY <2>4, <2>5
    <3> QED BY <2>5, <3>1, ForestIs
  <2>7. /\ Tree(Of("and", es), n + m + 2) /\ n + m + 2 \in Nat
        /\ \A f \in Assignments : Holds(Of("and", es), f) <=> ListHolds("and", es, f)
    <3>1. "and" \in Ops /\ Len(es) > 0 /\ n + m + 2 \in Nat
      BY <2>4, <2>6 DEF Ops
    <3> QED BY <2>4, <2>6, <3>1, OfIs DEF Calls
  <2>8. 1 .. Len(es) = {1, 2}
    BY <2>6
  <2>9. \A f : ListHolds("and", es, f) <=> Holds(x, f) /\ Holds(y, f)
    BY <2>5, <2>8 DEF ListHolds
  <2> QED BY <2>1, <2>7, <2>9 DEF IsPart, IsTree
<1> QED BY <1>1, <1>2, <1>3

\* What an entry has been made of, and the value it was to have
Finished(x) ==
  /\ x.is # "none" /\ x.sym \in Syms \cup {Nobody}
  /\ IsPart(x.dep) /\ Meaning(x.dep) = x.means
  /\ IsPart(x.shown) /\ Meaning(x.shown) = x.seen

LEMMA MeaningIs ==
  ASSUME NoModules, Calls, NEW e, IsPart(e), NEW m, m = [f \in Assignments |-> m[f]],
         \A f \in Assignments : m[f] \in {0, 2} /\ (Holds(e, f) <=> m[f] = 2)
  PROVE  Meaning(e) = m
<1>1. \A f \in Assignments : Value(e, f) = m[f]
  BY PartValue DEF Holds
<1> QED BY <1>1 DEF Meaning

LEMMA MinIs ==
  ASSUME NEW a \in {0, 2}, NEW b \in {0, 2}
  PROVE  Min({a, b}) \in {0, 2} /\ (Min({a, b}) = 2 <=> a = 2 /\ b = 2)
<1>1. {a, b} \in SUBSET {0, 2} /\ {a, b} # {}
  OBVIOUS
<1> QED BY <1>1, MinMax

LEMMA FinalizedIs ==
  ASSUME NoModules, Calls, NEW up, IsPart(up.dep), Meaning(up.dep) = up.means,
         NEW s \in Syms \cup {Nobody}, NEW d, IsPart(d), NEW p, IsPart(p)
  PROVE  LET x == Finalized(up, s, d, p)
         IN  /\ Finished(x) /\ x.sym = s
             /\ x = [is |-> "entry", sym |-> x.sym, dep |-> x.dep, shown |-> x.shown,
                     means |-> x.means, seen |-> x.seen]
<1> DEFINE x == Finalized(up, s, d, p)
           dep == EliminateDups(And(up.dep, Transform(d)))
           all == EliminateDups(And(dep, Transform(p)))
           shown == IF s \in Bools \cup Strs THEN TransBool(all) ELSE all
           means == [f \in Assignments |-> Min({up.means[f], Value(d, f)})]
           seen == [f \in Assignments |-> Min({means[f], Value(p, f)})]
<1>1. x = [is |-> "entry", sym |-> s, dep |-> dep, shown |-> shown, means |-> means, seen |-> seen]
  BY DEF Finalized
<1>2. /\ IsPart(dep)
      /\ \A f \in Assignments : Holds(dep, f) <=> Holds(up.dep, f) /\ Holds(d, f)
  <2>1. IsPart(Transform(d)) /\ Same(Transform(d), d)
    BY PartTransform
  <2>2. /\ IsPart(And(up.dep, Transform(d)))
        /\ \A f \in Assignments :
             Holds(And(up.dep, Transform(d)), f) <=> Holds(up.dep, f) /\ Holds(Transform(d), f)
    BY <2>1, PartAnd
  <2>3. IsPart(dep) /\ Same(dep, And(up.dep, Transform(d)))
    BY <2>2, PartEliminateDups
  <2> QED BY <2>1, <2>2, <2>3 DEF Same
<1> HIDE DEF dep
<1>3. /\ IsPart(all)
      /\ \A f \in Assignments : Holds(all, f) <=> Holds(dep, f) /\ Holds(p, f)
  <2>1. IsPart(Transform(p)) /\ Same(Transform(p), p)
    BY PartTransform
  <2>2. /\ IsPart(And(dep, Transform(p)))
        /\ \A f \in Assignments :
             Holds(And(dep, Transform(p)), f) <=> Holds(dep, f) /\ Holds(Transform(p), f)
    BY <1>2, <2>1, PartAnd
  <2>3. IsPart(all) /\ Same(all, And(dep, Transform(p)))
    BY <2>2, PartEliminateDups
  <2> QED BY <2>1, <2>2, <2>3 DEF Same
<1> HIDE DEF all
<1>4. IsPart(shown) /\ \A f \in Assignments : Holds(shown, f) <=> Holds(dep, f) /\ Holds(p, f)
  BY <1>3, PartTransBool DEF Same
<1> HIDE DEF shown
<1>5. \A f \in Assignments :
        /\ up.means[f] \in {0, 2} /\ (up.means[f] = 2 <=> Holds(up.dep, f))
        /\ Value(d, f) \in {0, 2} /\ Value(p, f) \in {0, 2}
  <2> TAKE f \in Assignments
  <2>1. up.means[f] = Value(up.dep, f)
    BY DEF Meaning
  <2> QED BY <2>1, PartValue DEF Holds
<1>6. \A f \in Assignments : means[f] \in {0, 2} /\ (Holds(dep, f) <=> means[f] = 2)
  BY <1>2, <1>5, MinIs DEF Holds
<1>7. means = [f \in Assignments |-> means[f]]
  OBVIOUS
<1>8. seen = [f \in Assignments |-> seen[f]] /\ \A f \in Assignments : seen[f] = Min({means[f], Value(p, f)})
  OBVIOUS
<1> HIDE DEF means, seen
<1>9. \A f \in Assignments : seen[f] \in {0, 2} /\ (Holds(shown, f) <=> seen[f] = 2)
  BY <1>4, <1>5, <1>6, <1>8, MinIs DEF Holds
<1>10. Meaning(dep) = means /\ Meaning(shown) = seen
  BY <1>2, <1>4, <1>6, <1>7, <1>8, <1>9, MeaningIs
<1>11. /\ x.is = "entry" /\ x.sym = s /\ x.dep = dep /\ x.shown = shown
       /\ x.means = means /\ x.seen = seen
  BY <1>1
<1> HIDE DEF x
<1>12. Finished(x) /\ x.sym = s
  BY <1>2, <1>4, <1>10, <1>11 DEF Finished
<1>13. x = [is |-> "entry", sym |-> x.sym, dep |-> x.dep, shown |-> x.shown,
            means |-> x.means, seen |-> x.seen]
  BY <1>1, <1>11
<1> QED BY <1>12, <1>13 DEF x

-----------------------------------------------------------------------------
(* The menu.                                                               *)

CallsOfIsExpr == \A e : IsTree(e) => CallIsExpr(e) = IsExpr(e)

LEMMA TreeIsExpr ==
  ASSUME CallsOfIsExpr
  PROVE  \A n \in Nat : \A e : Tree(e, n) => IsExpr(e)
<1> DEFINE P(n) == \A e : Tree(e, n) => IsExpr(e)
           S == {n \in Nat : P(n)}
<1>1. ASSUME NEW n \in Nat, \A m \in Nat : m < n => m \in S, NEW e, Tree(e, n)
      PROVE  IsExpr(e)
  <2>1. \A m \in Nat : m < n => P(m)
    BY <1>1
  <2> HIDE DEF P, S
  <2>2. CASE IsTest(e)
    BY <2>2, TestOp DEF IsExpr
  <2>3. CASE e.op = "not"
    <3>1. CASE \E s \in SymsRead : e.arg = Sym(s)
      <4>1. PICK s \in SymsRead : e.arg = Sym(s)
        BY <3>1
      <4>2. IsTest(e.arg) /\ e.arg.op = "sym"
        BY <4>1, TestOp DEF IsTest, Sym
      <4>3. IsTree(e.arg)
        BY <1>1, <2>3, ArgIsTree DEF IsTree
      <4>4. IsExpr(e.arg)
        BY <4>2 DEF IsExpr
      <4> QED BY <2>3, <4>3, <4>4 DEF IsExpr, CallsOfIsExpr
    <3>2. CASE n >= 1 /\ Tree(e.arg, n - 1)
      <4>1. n - 1 \in Nat /\ n - 1 < n
        BY <3>2
      <4>2. IsExpr(e.arg) /\ IsTree(e.arg)
        BY <2>1, <3>2, <4>1 DEF P, IsTree
      <4> QED BY <2>3, <4>2 DEF IsExpr, CallsOfIsExpr
    <3> QED BY <1>1, <2>3, <3>1, <3>2, OpIs
  <2>4. CASE e.op \in Ops
    <3>1. n >= 2 /\ Forest(e.args, n - 2)
      BY <1>1, <2>4, OpIs
    <3>2. Len(e.args) > 1 /\ \A i \in 1 .. Len(e.args) : e.args[i].op # e.op
      BY <1>1, <2>4, OpIs
    <3>3. n - 2 \in Nat /\ n - 2 < n
      BY <3>1
    <3>4. DOMAIN e.args = 1 .. Len(e.args) /\ \A i \in 1 .. Len(e.args) : Tree(e.args[i], n - 2)
      BY <3>1, <3>3, ForestTrees
    <3>5. \A i \in DOMAIN e.args : e.args[i].op \notin {e.op, "none"} /\ CallIsExpr(e.args[i])
      <4> TAKE i \in DOMAIN e.args
      <4>1. Tree(e.args[i], n - 2) /\ e.args[i].op # e.op
        BY <3>2, <3>4
      <4>2. IsExpr(e.args[i]) /\ IsTree(e.args[i])
        BY <2>1, <3>3, <4>1 DEF P, IsTree
      <4>3. e.args[i].op # "none"
        BY <3>3, <4>1, OpIs DEF Ops
      <4> QED BY <4>1, <4>2, <4>3 DEF CallsOfIsExpr
    <3> QED BY <2>4, <3>2, <3>5 DEF IsExpr
  <2> QED BY <1>1, <2>2, <2>3, <2>4, OpIs
<1>2. \A n \in Nat : (\A m \in Nat : m < n => m \in S) => n \in S
  BY <1>1
<1> HIDE DEF S
<1>3. Nat \subseteq S
  BY <1>2, AllNumbers
<1> QED BY <1>3 DEF S

LEMMA PartIsExpr ==
  ASSUME CallsOfIsExpr, NEW e, IsPart(e)
  PROVE  IsExpr(e)
<1>1. CASE e = NoExpr
  BY <1>1 DEF NoExpr, IsExpr
<1>2. CASE IsTree(e)
  BY <1>2, TreeIsExpr DEF IsTree
<1> QED BY <1>1, <1>2 DEF IsPart

\* What expr_depends_symbol finds cannot be seen while the symbol is n.
LEMMA DependsIs ==
  ASSUME NoModules, Calls, NEW e, IsTree(e), NEW s \in Syms, DependsSymbol(e, s),
         NEW f \in Assignments, Holds(e, f)
  PROVE  TristateOf(s, f) # 0
<1> DEFINE es == Operands("and", e)
<1>1. PICK n \in Nat : Tree(e, n)
  BY DEF IsTree
<1>2. "and" \in Ops
  BY DEF Ops
<1>3. Forest(es, n) /\ ListHolds("and", es, f)
  BY <1>1, <1>2, OperandsAre DEF Calls
<1>4. DOMAIN es = 1 .. Len(es) /\ \A i \in 1 .. Len(es) : Tree(es[i], n)
  BY <1>3, ForestTrees
<1>5. PICK i \in 1 .. Len(es) : DependsConjunct(es[i], s)
  BY <1>4 DEF DependsSymbol
<1> DEFINE x == es[i]
<1>6. Tree(x, n) /\ Holds(x, f) /\ DependsConjunct(x, s)
  BY <1>3, <1>4, <1>5 DEF ListHolds
<1> HIDE DEF x
<1>7. x.op \in {"sym", "=", "!="}
  BY <1>6 DEF DependsConjunct, Sym, Comp
<1>8. IsTest(x)
  BY <1>6, <1>7, OpIs
<1>9. s \notin Strs
  <2>1. CASE x = Sym(s)
    <3>1. x.op = "sym" /\ x.sym = s
      BY <2>1 DEF Sym
    <3>2. PICK t \in SymsRead : x = Sym(t)
      BY <1>8, <3>1, TestOfSym
    <3>3. s = t
      BY <3>1, <3>2 DEF Sym
    <3> QED BY <3>3, NoString
  <2>2. ASSUME NEW op \in {"=", "!="}, NEW c \in YMN, x = Comp(op, s, c)
        PROVE  s \notin Strs
    <3>1. x.op = op /\ x.sym = s /\ x.with = c
      BY <2>2 DEF Comp
    <3> QED BY <1>8, <3>1, TestOfComp, SymsAssumption
  <2> QED BY <1>6, <2>1, <2>2 DEF DependsConjunct, YMN
<1>10. s \in Tristates
  BY <1>9 DEF Syms, Tristates
<1>11. Val(x, f) # 0
  <2>1. IsLiteral(x)
    BY <1>8 DEF IsLiteral
  <2>2. Value(x, f) = 2
    BY <1>6 DEF Holds
  <2>3. Val(x, f) = 2
    BY <2>1, <2>2, ValIs DEF Calls
  <2> QED BY <2>3
<1> QED BY <1>6, <1>10, <1>11, ConjunctNeedsSymbol

\* What menu_finalize compares: e!=n, simplified
LEMMA ShownIs ==
  ASSUME NoModules, Calls, NEW e, IsPart(e)
  PROVE  LET x == EliminateDups(Transform(Compare(e, "!=")))
         IN  IsTree(x) /\ Same(x, e)
<1> DEFINE c == Compare(e, "!=")
<1>1. IsTree(c) /\ Same(c, e)
  <2>1. CASE e = NoExpr
    <3>1. c = Not(Sym("n"))
      BY <2>1, NoExprValue DEF Compare, NoExpr
    <3>2. "n" \in SymsRead
      BY DEF SymsRead
    <3>3. IsLiteral(c) /\ IsTree(Sym("n"))
      BY <3>1, <3>2, SymIs, LiteralIsTree DEF IsTree
    <3>4. IsTree(c)
      BY <3>3, LiteralIsTree DEF IsTree
    <3>5. \A f \in Assignments : Holds(c, f)
      <4>1. \A f \in Assignments : TristateOf("n", f) # 2
        BY Constants DEF TristateOf, YMN
      <4> QED BY <3>1, <3>2, <3>3, <4>1, SymIs, NotHolds DEF Calls
    <3> QED BY <2>1, <3>4, <3>5, NoExprValue DEF Same
  <2>2. CASE IsTree(e)
    <3>1. PICK n \in Nat : Tree(e, n)
      BY <2>2 DEF IsTree
    <3>2. ComparedRight(e, n) /\ n + 2 \in Nat
      BY <3>1, CompareIs DEF Calls
    <3> QED BY <3>2 DEF ComparedRight, IsTree, Same
  <2> QED BY <2>1, <2>2 DEF IsPart
<1> HIDE DEF c
<1>2. IsTree(Transform(c)) /\ Same(Transform(c), c)
  BY <1>1, TransformIs DEF Calls, IsTree
<1>3. IsTree(EliminateDups(Transform(c))) /\ Same(EliminateDups(Transform(c)), Transform(c))
  BY <1>2, EliminateDupsIs DEF IsTree
<1>4. Same(EliminateDups(Transform(c)), e)
  BY <1>1, <1>2, <1>3 DEF Same
<1> QED BY <1>3, <1>4 DEF c

\* An entry is moved under a symbol only if what it needs is more.
LEMMA InSubmenuIs ==
  ASSUME NoModules, Calls, NEW s \in Syms, NEW base, IsPart(base), NEW e, IsPart(e),
         InSubmenu(s, base, e), NEW f \in Assignments, Holds(e, f)
  PROVE  TristateOf(s, f) # 0 \/ Holds(base, f)
<1>1. e # NoExpr
  <2>1. ~ContainsSymbol(NoExpr, s)
    BY NoExprValue DEF ContainsSymbol, NoExpr
  <2> QED BY <2>1 DEF InSubmenu
<1>2. CASE DependsSymbol(e, s)
  BY <1>1, <1>2, DependsIs DEF IsPart
<1>3. CASE ~DependsSymbol(e, s)
  <2> DEFINE x == EliminateDups(Transform(Compare(e, "!=")))
             y == EliminateDups(Transform(Compare(base, "!=")))
             r == EliminateEq(x, y)
  <2>1. IsYes(r[2])
    BY <1>3 DEF InSubmenu
  <2>2. IsTree(x) /\ Same(x, e) /\ IsTree(y) /\ Same(y, base)
    BY ShownIs
  <2> HIDE DEF x, y
  <2>3. IsTree(r[1]) /\ IsTree(r[2]) /\ OrderKept(x, y, r[1], r[2])
    BY <2>2, EliminateEqIs DEF Calls
  <2> HIDE DEF r
  <2>4. r[2] = Sym("y")
    <3>1. NoExpr.op \notin {"sym", "=", "!=", "not"} \cup Ops
      BY DEF NoExpr, Ops
    <3>2. r[2] # NoExpr
      BY <2>3, <3>1, OpIs DEF IsTree
    <3> QED BY <2>1, <3>2 DEF IsYes
  <2>5. Holds(r[2], f)
    <3>1. "y" \in SymsRead /\ TristateOf("y", f) = 2
      BY Constants DEF SymsRead, TristateOf, YMN
    <3> QED BY <2>4, <3>1, SymIs
  <2>6. Holds(x, f) => Holds(y, f)
    BY <2>3, <2>5 DEF OrderKept
  <2> QED BY <2>2, <2>6 DEF Same
<1> QED BY <1>2, <1>3

-----------------------------------------------------------------------------
(* The invariant.                                                          *)

\* What the Kconfig files say: nothing, or an expression whose tests are those of
\* IsTest.
Inputs ==
  /\ \A l \in 1 .. Len(Deps) : \A d \in Deps[l] \cup NextDeps[l] : IsPart(d)
  /\ \A p \in Prompts : IsPart(p)

Hypotheses == NoModules /\ Calls /\ CallsOfIsExpr /\ Inputs

AboveRight == IsPart(above.dep) /\ Meaning(above.dep) = above.means
EntriesRight == \A x \in {entry, follower} \ {NoEntry} : Finished(x)
EntryFirst == follower # NoEntry => entry # NoEntry /\ entry.sym \in Syms
IInv ==
  /\ level \in 1 .. Len(Deps)
  /\ AboveRight /\ EntriesRight /\ EntryFirst /\ ChildNeedsParent

LEMMA NoEntryIs ==
  \A x : Finished(x) => x # NoEntry
  BY DEF Finished, NoEntry

LEMMA SeenIs ==
  ASSUME Hypotheses, NEW x, Finished(x), NEW f \in Assignments
  PROVE  Holds(x.shown, f) <=> x.seen[f] # 0
<1>1. x.seen[f] = Value(x.shown, f)
  BY DEF Finished, Meaning
<1>2. Value(x.shown, f) \in {0, 2}
  BY PartValue DEF Finished, Hypotheses
<1> QED BY <1>1, <1>2 DEF Holds

LEMMA InitIInv ==
  ASSUME Hypotheses, Init
  PROVE  IInv
<1>1. level \in 1 .. Len(Deps)
  BY EntryAssumption DEF Init
<1>2. AboveRight
  <2>1. \A f : Value(NoExpr, f) = 2
    BY NoExprValue
  <2> QED BY <2>1 DEF Init, AboveRight, IsPart, Meaning
<1>3. EntriesRight /\ EntryFirst /\ ChildNeedsParent
  BY DEF Init, EntriesRight, EntryFirst, ChildNeedsParent
<1> QED BY <1>1, <1>2, <1>3 DEF IInv

LEMMA OpenIInv ==
  ASSUME Hypotheses, IInv, NEW s \in Owners, NEW d \in Deps[level], NEW p \in Prompts,
         Open(s, d, p)
  PROVE  IInv'
<1> DEFINE x == Finalized(above, s, d, p)
<1>1. /\ level \in 1 .. Len(Deps) /\ AboveRight /\ EntryFirst
      /\ entry = NoEntry /\ entry' = x
      /\ above' = above /\ level' = level /\ follower' = follower
  BY DEF IInv, Open
<1>2. s \in Syms \cup {Nobody} /\ IsPart(d) /\ IsPart(p)
  BY <1>1, EntryAssumption DEF Hypotheses, Inputs
<1>3. Finished(x)
  <2>1. NoModules /\ Calls /\ IsPart(above.dep) /\ Meaning(above.dep) = above.means
    BY <1>1 DEF Hypotheses, AboveRight
  <2> QED BY <1>2, <2>1, FinalizedIs
<1> HIDE DEF x
<1>4. follower' = NoEntry
  BY <1>1 DEF EntryFirst
<1>5. AboveRight'
  BY <1>1 DEF AboveRight, Meaning
<1>6. EntriesRight'
  BY <1>1, <1>3, <1>4 DEF EntriesRight
<1>7. EntryFirst' /\ ChildNeedsParent'
  BY <1>4 DEF EntryFirst, ChildNeedsParent
<1> QED BY <1>1, <1>5, <1>6, <1>7 DEF IInv

LEMMA FollowIInv ==
  ASSUME Hypotheses, IInv, NEW s \in Owners, NEW d \in NextDeps[level], NEW p \in Prompts,
         Follow(s, d, p)
  PROVE  IInv'
<1> DEFINE x == Finalized(above, s, d, p)
           is == IF InSubmenu(entry.sym, entry.shown, x.shown) THEN "child" ELSE "sibling"
           y == [x EXCEPT !.is = is]
<1>1. /\ level \in 1 .. Len(Deps) /\ AboveRight /\ EntriesRight
      /\ entry # NoEntry /\ entry.sym # Nobody /\ follower = NoEntry /\ follower' = y
      /\ above' = above /\ level' = level /\ entry' = entry
  BY DEF IInv, Follow
<1>2. s \in Syms \cup {Nobody} /\ IsPart(d) /\ IsPart(p)
  BY <1>1, EntryAssumption DEF Hypotheses, Inputs
<1>3. /\ Finished(x)
      /\ x = [is |-> "entry", sym |-> x.sym, dep |-> x.dep, shown |-> x.shown,
              means |-> x.means, seen |-> x.seen]
  <2>1. NoModules /\ Calls /\ IsPart(above.dep) /\ Meaning(above.dep) = above.means
    BY <1>1 DEF Hypotheses, AboveRight
  <2> QED BY <1>2, <2>1, FinalizedIs
<1> HIDE DEF x
<1>4. is \in {"child", "sibling"}
  OBVIOUS
<1>5. is = "child" => InSubmenu(entry.sym, entry.shown, x.shown)
  OBVIOUS
<1> HIDE DEF is
<1>6. /\ y.is = is /\ y.sym = x.sym /\ y.dep = x.dep /\ y.shown = x.shown
      /\ y.means = x.means /\ y.seen = x.seen
  BY <1>3
<1> HIDE DEF y
<1>7. Finished(y)
  BY <1>3, <1>4, <1>6 DEF Finished
<1>8. Finished(entry)
  BY <1>1 DEF EntriesRight
<1>9. entry.sym \in Syms
  BY <1>1, <1>8 DEF Finished
<1>10. AboveRight'
  BY <1>1 DEF AboveRight, Meaning
<1>11. EntriesRight'
  BY <1>1, <1>7, <1>8 DEF EntriesRight
<1>12. EntryFirst'
  BY <1>1, <1>9 DEF EntryFirst
<1>13. ASSUME is = "child", NEW f \in Assignments, y.seen[f] # 0
       PROVE  TristateOf(entry.sym, f) # 0 \/ entry.seen[f] # 0
  <2>1. InSubmenu(entry.sym, entry.shown, y.shown)
    BY <1>5, <1>6, <1>13
  <2>2. Holds(y.shown, f) /\ IsPart(y.shown) /\ IsPart(entry.shown)
    BY <1>7, <1>8, <1>13, SeenIs DEF Finished
  <2>3. TristateOf(entry.sym, f) # 0 \/ Holds(entry.shown, f)
    BY <1>9, <2>1, <2>2, InSubmenuIs DEF Hypotheses
  <2> QED BY <1>8, <2>3, SeenIs
<1>14. ChildNeedsParent'
  BY <1>1, <1>6, <1>13 DEF ChildNeedsParent
<1> QED BY <1>1, <1>10, <1>11, <1>12, <1>14 DEF IInv

LEMMA DescendIInv ==
  ASSUME Hypotheses, IInv, Descend
  PROVE  IInv'
<1>1. /\ level \in 1 .. Len(Deps) /\ EntriesRight /\ EntryFirst
      /\ entry # NoEntry /\ entry.sym = Nobody /\ level < Len(Deps)
      /\ above' = [dep |-> entry.shown, means |-> entry.seen]
      /\ level' = level + 1 /\ entry' = NoEntry /\ follower' = follower
  BY DEF IInv, Descend
<1>2. Nobody \notin Syms
  BY SymsAssumption
<1>3. follower' = NoEntry
  BY <1>1, <1>2 DEF EntryFirst
<1>4. Finished(entry)
  BY <1>1 DEF EntriesRight
<1>5. level' \in 1 .. Len(Deps)
  BY <1>1, EntryAssumption
<1>6. AboveRight'
  BY <1>1, <1>4 DEF Finished, AboveRight, Meaning
<1>7. EntriesRight' /\ EntryFirst' /\ ChildNeedsParent'
  BY <1>1, <1>3 DEF EntriesRight, EntryFirst, ChildNeedsParent
<1> QED BY <1>5, <1>6, <1>7 DEF IInv

LEMMA IInvHolds ==
  ASSUME Hypotheses
  PROVE  Spec => []IInv
<1>1. Init => IInv
  BY InitIInv
<1>2. IInv /\ [Next]_vars => IInv'
  <2> SUFFICES ASSUME IInv, [Next]_vars
               PROVE  IInv'
    OBVIOUS
  <2>1. CASE \E s \in Owners, d \in Deps[level], p \in Prompts : Open(s, d, p)
    BY <2>1, OpenIInv
  <2>2. CASE \E s \in Owners, d \in NextDeps[level], p \in Prompts : Follow(s, d, p)
    BY <2>2, FollowIInv
  <2>3. CASE Descend
    BY <2>3, DescendIInv
  <2>4. CASE UNCHANGED vars
    BY <2>4 DEF vars, IInv, AboveRight, EntriesRight, EntryFirst, ChildNeedsParent, Meaning
  <2> QED BY <2>1, <2>2, <2>3, <2>4 DEF Next
<1> QED BY <1>1, <1>2, PTL DEF Spec

-----------------------------------------------------------------------------
(* Theorems.                                                               *)

\* What becomes of an expression is one, and has its value whatever the values of
\* the symbols are.
Keeps(x, e) == IsTree(x) /\ Meaning(x) = Meaning(e)

LEMMA SameMeaning ==
  ASSUME NoModules, Calls, NEW e, IsTree(e), NEW x, IsTree(x), Same(x, e)
  PROVE  Meaning(x) = Meaning(e)
<1>1. ASSUME NEW f \in Assignments
      PROVE  Value(x, f) = Value(e, f)
  <2>1. Value(x, f) \in {0, 2} /\ Value(e, f) \in {0, 2}
    BY TreeValue DEF Calls
  <2> QED BY <2>1 DEF Same, Holds
<1> QED BY <1>1 DEF Meaning

\* expr_eliminate_yn, which takes y and n out of && and ||, keeps the value
\* (expr.c:236-317).
THEOREM EliminateYnKeepsMeaning ==
  ASSUME NoModules, Calls, NEW e, IsTree(e)
  PROVE  Keeps(EliminateYn(e), e)
<1>1. IsTree(EliminateYn(e)) /\ Same(EliminateYn(e), e)
  BY EliminateYnIs DEF Calls, IsTree
<1> QED BY <1>1, SameMeaning DEF Keeps

\* expr_transform, which pushes ! down to the tests and replaces comparisons of
\* bools, keeps the value of every expression (expr.c:641-776).
THEOREM TransformKeepsMeaning ==
  ASSUME NoModules, Calls, NEW e, IsTree(e)
  PROVE  Keeps(Transform(e), e)
<1>1. IsTree(Transform(e)) /\ Same(Transform(e), e)
  BY TransformIs DEF Calls, IsTree
<1> QED BY <1>1, SameMeaning DEF Keeps

\* expr_trans_bool, for the entry of a bool, keeps the value (expr.c:322-346).
THEOREM TransBoolKeepsMeaning ==
  ASSUME NoModules, Calls, NEW e, IsTree(e)
  PROVE  Keeps(TransBool(e), e)
<1>1. IsTree(TransBool(e)) /\ Same(TransBool(e), e)
  BY TransBoolIs DEF Calls, IsTree
<1> QED BY <1>1, SameMeaning DEF Keeps

\* expr_eliminate_dups, whose rounds join the operands of a list two by two, find
\* the negations of one another and take y and n out again until nothing changes,
\* returns an expression of the same value (expr.c:509-639).
THEOREM EliminateDupsKeepsMeaning ==
  ASSUME NoModules, Calls, NEW e, IsTree(e)
  PROVE  Keeps(EliminateDups(e), e)
<1>1. IsTree(EliminateDups(e)) /\ Same(EliminateDups(e), e)
  BY EliminateDupsIs DEF IsTree
<1> QED BY <1>1, SameMeaning DEF Keeps

\* What expr_trans_compare makes of e!=n and e=n: an expression that is y where e
\* is not n, and one that is y where e is n (expr.c:882-941).
THEOREM CompareMeansCompare ==
  ASSUME NoModules, Calls, NEW e, IsTree(e)
  PROVE  /\ Keeps(Compare(e, "!="), e) /\ IsTree(Compare(e, "="))
         /\ \A f \in Assignments : Value(Compare(e, "="), f) = 2 - Value(e, f)
<1>1. PICK n \in Nat : Tree(e, n)
  BY DEF IsTree
<1>2. ComparedRight(e, n) /\ n + 1 \in Nat /\ n + 2 \in Nat
  BY <1>1, CompareIs DEF Calls
<1>3. IsTree(Compare(e, "=")) /\ IsTree(Compare(e, "!=")) /\ Same(Compare(e, "!="), e)
  BY <1>2 DEF ComparedRight, IsTree, Same
<1>4. ASSUME NEW f \in Assignments
      PROVE  Value(Compare(e, "="), f) = 2 - Value(e, f)
  <2>1. Value(Compare(e, "="), f) \in {0, 2} /\ Value(e, f) \in {0, 2}
    BY <1>3, TreeValue DEF Calls
  <2>2. Holds(Compare(e, "="), f) <=> ~Holds(e, f)
    BY <1>2 DEF ComparedRight
  <2> QED BY <2>1, <2>2 DEF Holds
<1> QED BY <1>3, <1>4, SameMeaning DEF Keeps

\* Two expressions that expr_eq takes for equal, although their operands come in
\* another order or are there twice, have one value (expr.c:194-234).
THEOREM EqualsHaveOneMeaning ==
  ASSUME NoModules, Calls, NEW e1, IsTree(e1), NEW e2, IsTree(e2), ExprEq(e1, e2)
  PROVE  Meaning(e1) = Meaning(e2)
<1>1. Same(e1, e2)
  BY ExprEqIs DEF Calls, EqSound, IsTree
<1> QED BY <1>1, SameMeaning

\* Where expr_eliminate_eq has taken out of two expressions what both have and y
\* is left of the second, the first implies the second: menu_finalize moves an
\* entry under another for this (expr.c:169-189, menu.c:322-341).
THEOREM NothingLeftIsImplied ==
  ASSUME NoModules, Calls, NEW e1, IsTree(e1), NEW e2, IsTree(e2),
         EliminateEq(e1, e2)[2] = Sym("y")
  PROVE  \A f \in Assignments : Value(e1, f) <= Value(e2, f)
<1> DEFINE r == EliminateEq(e1, e2)
<1>1. OrderKept(e1, e2, r[1], r[2])
  BY EliminateEqIs DEF Calls
<1>2. \A f \in Assignments : Holds(r[2], f)
  <2>1. "y" \in SymsRead /\ \A f : TristateOf("y", f) = 2
    BY Constants DEF SymsRead, TristateOf, YMN
  <2> HIDE DEF r
  <2>2. r[2] = Sym("y")
    BY DEF r
  <2> QED BY <2>1, <2>2, SymIs
<1> HIDE DEF r
<1>3. ASSUME NEW f \in Assignments
      PROVE  Value(e1, f) <= Value(e2, f)
  <2>1. Holds(e1, f) => Holds(e2, f)
    BY <1>1, <1>2 DEF OrderKept
  <2>2. Value(e1, f) \in {0, 2} /\ Value(e2, f) \in {0, 2}
    BY TreeValue DEF Calls
  <2> QED BY <2>1, <2>2 DEF Holds
<1> QED BY <1>3

\* menu_finalize goes on only with expressions that the functions of expr.c are
\* made for: every && and || has two operands or more, none of its own type.
THEOREM ExprTypeCorrect ==
  ASSUME Hypotheses
  PROVE  Spec => []TypeOK
<1>1. IInv => TypeOK
  <2> SUFFICES ASSUME IInv PROVE TypeOK
    OBVIOUS
  <2>1. level \in 1 .. Len(Deps) /\ IsExpr(above.dep)
    BY PartIsExpr DEF IInv, AboveRight, Hypotheses
  <2>2. ASSUME NEW x \in {entry, follower} \ {NoEntry}
        PROVE  x.sym \in Syms \cup {Nobody} /\ IsExpr(x.dep) /\ IsExpr(x.shown)
    <3>1. Finished(x)
      BY DEF IInv, EntriesRight
    <3> QED BY <3>1, PartIsExpr DEF Finished, Hypotheses
  <2> QED BY <2>1, <2>2 DEF TypeOK
<1> QED BY <1>1, IInvHolds, PTL

\* What menu_finalize has made of the dependencies and the prompt of an entry,
\* through all the menus above it, has the value of the conjunction that the
\* Kconfig files write down (menu.c:289-318).
THEOREM ExprMeaningKept ==
  ASSUME Hypotheses
  PROVE  Spec => []MeaningKept
<1>1. IInv => MeaningKept
  BY DEF IInv, AboveRight, EntriesRight, Finished, MeaningKept
<1> QED BY <1>1, IInvHolds, PTL

\* What menu_finalize moves under a symbol cannot be seen while the symbol is n and
\* cannot be seen itself (menu.c:322-346).
THEOREM ExprChildNeedsParent ==
  ASSUME Hypotheses
  PROVE  Spec => []ChildNeedsParent
<1>1. IInv => ChildNeedsParent
  BY DEF IInv
<1> QED BY <1>1, IInvHolds, PTL
=============================================================================
