---------------------------- MODULE StoreProofs ----------------------------
(***************************************************************************)
(* Proofs about the write path of one project, for every set of sessions,  *)
(* requests, slots, paths and tasks.                                       *)
(*                                                                         *)
(* The first part is about FileStore: working tree, log and HEAD stay in   *)
(* step, and what was acknowledged is never lost, whoever writes, scans,   *)
(* sweeps, recovers or crashes.  The second is about Sessions: the same    *)
(* under the handlers that call the write path, and what the notification  *)
(* center owes its subscribers.  A step of the clients is a step of the    *)
(* write path as the first part knows it (CoreStep), so its invariants     *)
(* carry over.                                                             *)
(***************************************************************************)
EXTENDS Sessions, FiniteSetTheorems, NaturalsInduction,
        SequenceTheorems, WellFoundedInduction, TLAPS

----------------------------------------------------------------------------
(* Natural numbers *)

\* A non-empty set of naturals has a least element.
LEMMA LeastNat ==
  ASSUME NEW S \in SUBSET Nat, S # {}
  PROVE  \E m \in S : \A n \in S : m <= n
<1>1. IsWellFoundedOn(OpToRel(<, Nat), Nat)
  BY NatLessThanWellFounded
<1>2. PICK m \in S : \A n \in S : ~(<<n, m>> \in OpToRel(<, Nat))
  BY <1>1, WFMin
<1>3. \A n \in S : ~(n < m)
  BY <1>2 DEF OpToRel
<1> QED BY <1>3

----------------------------------------------------------------------------
(* The tree once the log has drained *)

LogEntry ==
  {e \in [op : {"write", "delete", "move"}, path : Path, from : Path, content : File] :
     /\ e.op = "delete" <=> e.content = NoFile
     /\ e.op = "move" => e.path # e.from}

\* What an entry leaves at each path.
LEMMA Applied ==
  ASSUME NEW t \in Tree, NEW e \in LogEntry
  PROVE  /\ Apply(t, e) \in Tree
         /\ \A p \in Path :
              Apply(t, e)[p] = IF p = e.path THEN e.content
                               ELSE IF e.op = "move" /\ p = e.from THEN NoFile ELSE t[p]
<1>1. e.path \in Path /\ e.from \in Path /\ e.content \in File /\ NoFile \in File
  BY DEF LogEntry, File
<1>2. CASE e.op = "write"
  BY <1>1, <1>2 DEF Apply, Tree
<1>3. CASE e.op = "delete"
  <2>1. e.content = NoFile
    BY <1>3 DEF LogEntry
  <2> QED BY <1>1, <1>3, <2>1 DEF Apply, Tree
<1>4. CASE e.op = "move"
  BY <1>1, <1>4 DEF Apply, Tree
<1>5. e.op \in {"write", "delete", "move"}
  BY DEF LogEntry
<1> QED BY <1>2, <1>3, <1>4, <1>5

\* The trees on the way from base through the first n entries of w.
Unfolds(f, base, w, n) == f = [k \in 0..n |-> IF k = 0 THEN base ELSE Apply(f[k - 1], w[k])]
DrainedOf(base, w) == (CHOOSE f : Unfolds(f, base, w, Len(w)))[Len(w)]

LEMMA DrainedIs == Drained = DrainedOf(head, wal)
BY DEF Drained, DrainedOf, Unfolds

LEMMA UnfoldingExists ==
  ASSUME NEW base, NEW w, NEW n \in Nat
  PROVE  \E f : Unfolds(f, base, w, n)
<1> DEFINE S == {m \in Nat : ~ \E f : Unfolds(f, base, w, m)}
<1> SUFFICES ASSUME S # {} PROVE FALSE
  OBVIOUS
<1>1. PICK m \in S : \A k \in S : m <= k
  BY LeastNat
<1>2. m \in Nat /\ ~ \E f : Unfolds(f, base, w, m)
  OBVIOUS
<1>3. CASE m = 0
  <2> DEFINE f == [k \in 0..0 |-> base]
  <2>1. Unfolds(f, base, w, 0)
    BY DEF Unfolds
  <2> QED BY <1>2, <1>3, <2>1
<1>4. CASE m # 0
  <2>1. m - 1 \in Nat /\ m - 1 \notin S
    BY <1>1, <1>2, <1>4
  <2>2. PICK g : Unfolds(g, base, w, m - 1)
    BY <2>1
  <2> DEFINE f == [k \in 0..m |-> IF k = m THEN Apply(g[m - 1], w[m]) ELSE g[k]]
  <2>3. \A k \in 0..(m - 1) : f[k] = g[k] /\ k # m /\ k \in 0..m
    BY <1>2
  <2>4. f[m] = Apply(f[m - 1], w[m])
    BY <1>2, <2>1, <2>3
  <2>5. \A k \in 0..(m - 1) : g[k] = IF k = 0 THEN base ELSE Apply(g[k - 1], w[k])
    BY <2>2 DEF Unfolds
  <2>6. ASSUME NEW k \in 0..m PROVE f[k] = IF k = 0 THEN base ELSE Apply(f[k - 1], w[k])
    <3>1. CASE k = m
      BY <1>4, <2>4, <3>1
    <3>2. CASE k # m
      <4>1. k \in 0..(m - 1) /\ (k # 0 => k - 1 \in 0..(m - 1))
        BY <1>2, <3>2
      <4> HIDE DEF f
      <4> QED BY <2>3, <2>5, <4>1
    <3> QED BY <3>1, <3>2
  <2>7. f = [k \in 0..m |-> f[k]]
    OBVIOUS
  <2> HIDE DEF f
  <2>8. Unfolds(f, base, w, m)
    BY <2>6, <2>7 DEF Unfolds
  <2> QED BY <1>2, <2>8
<1> QED BY <1>3, <1>4

LEMMA UnfoldingStep ==
  ASSUME NEW f, NEW base, NEW w, NEW n \in Nat, Unfolds(f, base, w, n)
  PROVE  /\ f[0] = base
         /\ \A k \in 1..n : f[k] = Apply(f[k - 1], w[k])
BY DEF Unfolds

\* Two unfoldings of the same entries, the second d entries behind the first.
LEMMA UnfoldingShift ==
  ASSUME NEW d \in Nat, NEW n \in Nat, NEW a \in Nat, NEW b \in Nat, n <= b, n + d <= a,
         NEW f, NEW base, NEW w, Unfolds(f, base, w, a),
         NEW g, NEW i, NEW v, Unfolds(g, i, v, b),
         i = f[d], \A k \in 1..n : v[k] = w[k + d]
  PROVE  g[n] = f[n + d]
<1> DEFINE S == {m \in Nat : m <= n /\ g[m] # f[m + d]}
<1> SUFFICES ASSUME S # {} PROVE FALSE
  OBVIOUS
<1>1. PICK m \in S : \A k \in S : m <= k
  BY LeastNat
<1>2. m \in Nat /\ m <= n /\ g[m] # f[m + d]
  OBVIOUS
<1>3. m # 0
  BY <1>2, UnfoldingStep
<1>4. m - 1 \in Nat /\ m - 1 <= n /\ m - 1 \notin S
  BY <1>1, <1>2, <1>3
<1>5. g[m - 1] = f[(m - 1) + d]
  BY <1>4
<1>6. m \in 1..n /\ m \in 1..b /\ m + d \in 1..a /\ (m - 1) + d = (m + d) - 1
  BY <1>2, <1>3
<1>7. g[m] = Apply(g[m - 1], v[m]) /\ f[m + d] = Apply(f[(m + d) - 1], w[m + d])
  BY <1>6, UnfoldingStep
<1>8. v[m] = w[m + d]
  BY <1>6
<1> QED BY <1>2, <1>5, <1>6, <1>7, <1>8

LEMMA DrainedUnfolds ==
  ASSUME NEW base, NEW w, Len(w) \in Nat
  PROVE  \E f : Unfolds(f, base, w, Len(w)) /\ DrainedOf(base, w) = f[Len(w)]
<1>1. \E f : Unfolds(f, base, w, Len(w))
  BY UnfoldingExists
<1> DEFINE t == CHOOSE f : Unfolds(f, base, w, Len(w))
<1>2. Unfolds(t, base, w, Len(w))
  BY <1>1
<1>3. DrainedOf(base, w) = t[Len(w)]
  BY DEF DrainedOf
<1> QED BY <1>2, <1>3

LEMMA DrainedEmpty ==
  ASSUME NEW base PROVE DrainedOf(base, <<>>) = base
<1>1. Len(<<>>) = 0
  OBVIOUS
<1>2. PICK f : Unfolds(f, base, <<>>, 0) /\ DrainedOf(base, <<>>) = f[0]
  BY <1>1, DrainedUnfolds
<1> QED BY <1>2, UnfoldingStep

\* One more entry in the log.
LEMMA DrainedAppend ==
  ASSUME NEW base, NEW w \in Seq(LogEntry), NEW e \in LogEntry
  PROVE  DrainedOf(base, Append(w, e)) = Apply(DrainedOf(base, w), e)
<1> DEFINE n == Len(w)
           v == Append(w, e)
<1>1. n \in Nat /\ Len(v) = n + 1 /\ v[n + 1] = e /\ \A k \in 1..n : v[k] = w[k]
  OBVIOUS
<1>2. PICK f : Unfolds(f, base, w, n) /\ DrainedOf(base, w) = f[n]
  BY <1>1, DrainedUnfolds
<1> HIDE DEF n, v
<1>3. PICK g : Unfolds(g, base, v, n + 1) /\ DrainedOf(base, v) = g[n + 1]
  <2>1. Len(v) \in Nat
    BY <1>1
  <2>2. \E g : Unfolds(g, base, v, Len(v)) /\ DrainedOf(base, v) = g[Len(v)]
    BY <2>1, DrainedUnfolds
  <2> QED BY <1>1, <2>2
<1>4. n + 1 \in Nat /\ n <= n + 1 /\ n + 0 <= n /\ n + 0 = n /\ n + 1 \in 1..(n + 1) /\ (n + 1) - 1 = n
  BY <1>1
<1>5. f[0] = base
  BY <1>1, <1>2, UnfoldingStep
<1>6. \A k \in 1..n : v[k] = w[k + 0]
  BY <1>1
<1>7. g[n] = f[n + 0]
  BY <1>1, <1>2, <1>3, <1>4, <1>5, <1>6, UnfoldingShift
<1>8. g[n + 1] = Apply(g[(n + 1) - 1], v[n + 1])
  BY <1>3, <1>4, UnfoldingStep
<1> QED BY <1>1, <1>2, <1>3, <1>4, <1>7, <1>8 DEF v

\* The oldest entry reaches HEAD.
LEMMA DrainedTail ==
  ASSUME NEW base, NEW w \in Seq(LogEntry), w # <<>>
  PROVE  DrainedOf(Apply(base, Head(w)), Tail(w)) = DrainedOf(base, w)
<1> DEFINE n == Len(w) - 1
           v == Tail(w)
           i == Apply(base, Head(w))
<1>1. n \in Nat /\ Len(w) = n + 1 /\ Len(v) = n /\ Head(w) = w[1] /\ \A k \in 1..n : v[k] = w[k + 1]
  OBVIOUS
<1>2. PICK f : Unfolds(f, base, w, Len(w)) /\ DrainedOf(base, w) = f[Len(w)]
  BY <1>1, DrainedUnfolds
<1>3. PICK g : Unfolds(g, i, v, Len(v)) /\ DrainedOf(i, v) = g[Len(v)]
  BY <1>1, DrainedUnfolds
<1> HIDE DEF n, v
<1>4. n + 1 \in Nat /\ n <= n /\ n + 1 <= n + 1 /\ 1 \in 1..(n + 1) /\ 1 - 1 = 0 /\ 1 \in Nat
  BY <1>1
<1>5. i = f[1]
  BY <1>1, <1>2, <1>4, UnfoldingStep
<1> HIDE DEF i
<1>6. g[n] = f[n + 1]
  BY <1>1, <1>2, <1>3, <1>4, <1>5, UnfoldingShift
<1> QED BY <1>1, <1>2, <1>3, <1>6 DEF i, v

LEMMA DrainedType ==
  ASSUME NEW base \in Tree, NEW w \in Seq(LogEntry)
  PROVE  DrainedOf(base, w) \in Tree
<1>1. Len(w) \in Nat /\ \A k \in 1..Len(w) : w[k] \in LogEntry
  OBVIOUS
<1>2. PICK f : Unfolds(f, base, w, Len(w)) /\ DrainedOf(base, w) = f[Len(w)]
  BY <1>1, DrainedUnfolds
<1> DEFINE S == {m \in Nat : m <= Len(w) /\ f[m] \notin Tree}
<1>3. SUFFICES ASSUME S # {} PROVE FALSE
  BY <1>1, <1>2
<1>4. PICK m \in S : \A k \in S : m <= k
  BY <1>3, LeastNat
<1>5. m # 0
  BY <1>1, <1>2, UnfoldingStep
<1>6. m \in 1..Len(w) /\ m - 1 \in Nat /\ m - 1 <= Len(w) /\ m - 1 \notin S
  BY <1>1, <1>4, <1>5
<1>7. f[m - 1] \in Tree /\ w[m] \in LogEntry /\ f[m] = Apply(f[m - 1], w[m])
  BY <1>1, <1>2, <1>6, UnfoldingStep
<1> QED BY <1>7, Applied

\* A path that no entry touches is as it is in HEAD, and may change there alone.
LEMMA DrainedOutside ==
  ASSUME NEW base \in Tree, NEW i \in Tree, NEW w \in Seq(LogEntry), NEW p \in Path, NEW c \in File,
         i[p] = c, \A q \in Path \ {p} : i[q] = base[q],
         \A k \in DOMAIN w : p \notin {w[k].path, w[k].from}
  PROVE  /\ DrainedOf(base, w)[p] = base[p]
         /\ DrainedOf(i, w)[p] = c
         /\ \A q \in Path \ {p} : DrainedOf(i, w)[q] = DrainedOf(base, w)[q]
<1> DEFINE n == Len(w)
<1>1. n \in Nat /\ DOMAIN w = 1..n /\ \A k \in 1..n : w[k] \in LogEntry
  OBVIOUS
<1>2. PICK f : Unfolds(f, base, w, n) /\ DrainedOf(base, w) = f[n]
  BY <1>1, DrainedUnfolds
<1>3. PICK g : Unfolds(g, i, w, n) /\ DrainedOf(i, w) = g[n]
  BY <1>1, DrainedUnfolds
<1>4. i \in Tree /\ i[p] = c /\ \A q \in Path \ {p} : i[q] = base[q]
  OBVIOUS
<1> HIDE DEF n
<1> DEFINE Good(m) == /\ f[m] \in Tree /\ g[m] \in Tree /\ f[m][p] = base[p] /\ g[m][p] = c
                      /\ \A q \in Path \ {p} : g[m][q] = f[m][q]
           S == {m \in Nat : m <= n /\ ~Good(m)}
<1>5. S = {}
  <2> SUFFICES ASSUME S # {} PROVE FALSE
    OBVIOUS
  <2>1. PICK m \in S : \A k \in S : m <= k
    BY LeastNat
  <2>2. m \in Nat /\ m <= n /\ ~Good(m)
    OBVIOUS
  <2>3. m # 0
    BY <1>1, <1>2, <1>3, <1>4, <2>2, UnfoldingStep
  <2>4. m \in 1..n /\ m - 1 \in Nat /\ m - 1 <= n /\ m - 1 \notin S
    BY <1>1, <2>1, <2>2, <2>3
  <2>5. Good(m - 1)
    BY <2>4
  <2>6. f[m] = Apply(f[m - 1], w[m]) /\ g[m] = Apply(g[m - 1], w[m])
    <3>1. f[m] = Apply(f[m - 1], w[m])
      BY <1>1, <1>2, <2>4, UnfoldingStep
    <3>2. g[m] = Apply(g[m - 1], w[m])
      BY SMTT(60), <1>1, <1>3, <2>4, UnfoldingStep
    <3> QED BY <3>1, <3>2
  <2>7. w[m] \in LogEntry /\ p # w[m].path /\ p # w[m].from
    BY <1>1, <2>4
  <2>8. f[m] \in Tree /\ \A q \in Path :
          f[m][q] = IF q = w[m].path THEN w[m].content
                    ELSE IF w[m].op = "move" /\ q = w[m].from THEN NoFile ELSE f[m - 1][q]
    <3>1. f[m - 1] \in Tree /\ w[m] \in LogEntry
      BY <2>5, <2>7
    <3>2. Apply(f[m - 1], w[m]) \in Tree
      BY <3>1, Applied
    <3>3. \A q \in Path :
            Apply(f[m - 1], w[m])[q] = IF q = w[m].path THEN w[m].content
              ELSE IF w[m].op = "move" /\ q = w[m].from THEN NoFile ELSE f[m - 1][q]
      BY <3>1, Applied
    <3> QED BY <2>6, <3>2, <3>3
  <2>9. g[m] \in Tree /\ \A q \in Path :
          g[m][q] = IF q = w[m].path THEN w[m].content
                    ELSE IF w[m].op = "move" /\ q = w[m].from THEN NoFile ELSE g[m - 1][q]
    <3>1. g[m - 1] \in Tree /\ w[m] \in LogEntry
      BY <2>5, <2>7
    <3>2. Apply(g[m - 1], w[m]) \in Tree
      BY <3>1, Applied
    <3>3. \A q \in Path :
            Apply(g[m - 1], w[m])[q] = IF q = w[m].path THEN w[m].content
              ELSE IF w[m].op = "move" /\ q = w[m].from THEN NoFile ELSE g[m - 1][q]
      BY <3>1, Applied
    <3> QED BY <2>6, <3>2, <3>3
  <2>10. f[m][p] = base[p] /\ g[m][p] = c
    BY <2>5, <2>7, <2>8, <2>9
  <2>11. \A q \in Path \ {p} : g[m][q] = f[m][q]
    BY <2>5, <2>8, <2>9
  <2>12. Good(m)
    BY <2>8, <2>9, <2>10, <2>11
  <2> QED BY <2>2, <2>12
<1>6. Good(n)
  BY <1>1, <1>5
<1> QED BY <1>2, <1>3, <1>6

----------------------------------------------------------------------------
(* The steps of an operation *)

\* What may be left of each operation's plan.
Rest(op) ==
  CASE op \in {"write", "append"} ->
         {<<"put", "log", "own">>, <<"log", "own">>, <<"own">>, <<>>}
    [] op = "delete" ->
         {<<"disown", "log", "remove">>, <<"log", "remove">>, <<"remove">>, <<>>}
    [] op = "move" ->
         {<<"put", "remove", "disown", "own", "log">>, <<"remove", "disown", "own", "log">>,
          <<"disown", "own", "log">>, <<"own", "log">>, <<"log">>, <<>>}
\* ... as sets of steps.
Stages(op) ==
  CASE op \in {"write", "append"} -> {{"put", "log", "own"}, {"log", "own"}, {"own"}, {}}
    [] op = "delete" -> {{"disown", "log", "remove"}, {"log", "remove"}, {"remove"}, {}}
    [] op = "move" ->
         {{"put", "remove", "disown", "own", "log"}, {"remove", "disown", "own", "log"},
          {"disown", "own", "log"}, {"own", "log"}, {"log"}, {}}

LEMMA Lists ==
  /\ Elements(<<>>) = {}
  /\ \A a : Elements(<<a>>) = {a}
  /\ \A a, b : Elements(<<a, b>>) = {a, b}
  /\ \A a, b, c : Elements(<<a, b, c>>) = {a, b, c}
  /\ \A a, b, c, d : Elements(<<a, b, c, d>>) = {a, b, c, d}
  /\ \A a, b, c, d, e : Elements(<<a, b, c, d, e>>) = {a, b, c, d, e}
BY DEF Elements

LEMMA Tails ==
  /\ \A a : <<a>> # <<>> /\ Head(<<a>>) = a /\ Tail(<<a>>) = <<>>
  /\ \A a, b : Head(<<a, b>>) = a /\ Tail(<<a, b>>) = <<b>>
  /\ \A a, b, c : Head(<<a, b, c>>) = a /\ Tail(<<a, b, c>>) = <<b, c>>
  /\ \A a, b, c, d : Head(<<a, b, c, d>>) = a /\ Tail(<<a, b, c, d>>) = <<b, c, d>>
  /\ \A a, b, c, d, e : Head(<<a, b, c, d, e>>) = a /\ Tail(<<a, b, c, d, e>>) = <<b, c, d, e>>
OBVIOUS

LEMMA PlanIsRest ==
  ASSUME NEW op \in CallOp
  PROVE  Plan(op) \in Rest(op)
<1>1. CASE op \in {"write", "append"}
  BY <1>1 DEF Plan, Rest
<1>2. CASE op = "delete"
  BY <1>2 DEF Plan, Rest
<1>3. CASE op = "move"
  BY <1>3 DEF Plan, Rest
<1> QED BY <1>1, <1>2, <1>3 DEF CallOp

LEMMA RestStages ==
  ASSUME NEW op \in CallOp, NEW s \in Rest(op)
  PROVE  s \in Seq(Step) /\ Elements(s) \in Stages(op)
<1>1. CASE op \in {"write", "append"}
  <2>1. CASE s = <<"put", "log", "own">>
    BY <1>1, <2>1, Lists DEF Stages, Step
  <2>2. CASE s = <<"log", "own">>
    BY <1>1, <2>2, Lists DEF Stages, Step
  <2>3. CASE s = <<"own">>
    BY <1>1, <2>3, Lists DEF Stages, Step
  <2>4. CASE s = <<>>
    BY <1>1, <2>4, Lists DEF Stages, Step
  <2> QED BY <1>1, <2>1, <2>2, <2>3, <2>4 DEF Rest
<1>2. CASE op = "delete"
  <2>1. CASE s = <<"disown", "log", "remove">>
    BY <1>2, <2>1, Lists DEF Stages, Step
  <2>2. CASE s = <<"log", "remove">>
    BY <1>2, <2>2, Lists DEF Stages, Step
  <2>3. CASE s = <<"remove">>
    BY <1>2, <2>3, Lists DEF Stages, Step
  <2>4. CASE s = <<>>
    BY <1>2, <2>4, Lists DEF Stages, Step
  <2> QED BY <1>2, <2>1, <2>2, <2>3, <2>4 DEF Rest
<1>3. CASE op = "move"
  <2>1. CASE s = <<"put", "remove", "disown", "own", "log">>
    BY <1>3, <2>1, Lists DEF Stages, Step
  <2>2. CASE s = <<"remove", "disown", "own", "log">>
    BY <1>3, <2>2, Lists DEF Stages, Step
  <2>3. CASE s = <<"disown", "own", "log">>
    BY <1>3, <2>3, Lists DEF Stages, Step
  <2>4. CASE s = <<"own", "log">>
    BY <1>3, <2>4, Lists DEF Stages, Step
  <2>5. CASE s = <<"log">>
    BY <1>3, <2>5, Lists DEF Stages, Step
  <2>6. CASE s = <<>>
    BY <1>3, <2>6, Lists DEF Stages, Step
  <2> QED BY <1>3, <2>1, <2>2, <2>3, <2>4, <2>5, <2>6 DEF Rest
<1> QED BY <1>1, <1>2, <1>3 DEF CallOp

LEMMA RestTail ==
  ASSUME NEW op \in CallOp, NEW s \in Rest(op), s # <<>>
  PROVE  Tail(s) \in Rest(op) /\ Head(s) \in Elements(s) /\ Elements(Tail(s)) = Elements(s) \ {Head(s)}
<1>1. CASE op \in {"write", "append"}
  <2>1. CASE s = <<"put", "log", "own">>
    BY <1>1, <2>1, Lists, Tails DEF Rest
  <2>2. CASE s = <<"log", "own">>
    BY <1>1, <2>2, Lists, Tails DEF Rest
  <2>3. CASE s = <<"own">>
    BY <1>1, <2>3, Lists, Tails DEF Rest
  <2> QED BY <1>1, <2>1, <2>2, <2>3 DEF Rest
<1>2. CASE op = "delete"
  <2>1. CASE s = <<"disown", "log", "remove">>
    BY <1>2, <2>1, Lists, Tails DEF Rest
  <2>2. CASE s = <<"log", "remove">>
    BY <1>2, <2>2, Lists, Tails DEF Rest
  <2>3. CASE s = <<"remove">>
    BY <1>2, <2>3, Lists, Tails DEF Rest
  <2> QED BY <1>2, <2>1, <2>2, <2>3 DEF Rest
<1>3. CASE op = "move"
  <2>1. CASE s = <<"put", "remove", "disown", "own", "log">>
    BY <1>3, <2>1, Lists, Tails DEF Rest
  <2>2. CASE s = <<"remove", "disown", "own", "log">>
    BY <1>3, <2>2, Lists, Tails DEF Rest
  <2>3. CASE s = <<"disown", "own", "log">>
    BY <1>3, <2>3, Lists, Tails DEF Rest
  <2>4. CASE s = <<"own", "log">>
    BY <1>3, <2>4, Lists, Tails DEF Rest
  <2>5. CASE s = <<"log">>
    BY <1>3, <2>5, Lists, Tails DEF Rest
  <2> QED BY <1>3, <2>1, <2>2, <2>3, <2>4, <2>5 DEF Rest
<1> QED BY <1>1, <1>2, <1>3 DEF CallOp


----------------------------------------------------------------------------
(* Steps, of the write path and of everything that runs besides it *)

CallType == {c \in [op : CallOp, path : Path, from : Path, content : Content,
                    ifMatch : Content \cup {None}] : c.op = "move" => c.path # c.from}
ToDo(t) == Elements(tk[t].todo)

\* A handler calls the store.
Starts(t) ==
  /\ tk[t].pc = "idle"
  /\ \E c \in CallType : tk' = [tk EXCEPT ![t] = Called(c)]
  /\ UNCHANGED <<diskVars, catVars, state, scan, ghostVars, faults, crashes>>
Rests == UNCHANGED <<diskVars, catVars, state, tk, scan, ghostVars, faults, crashes>>
CoreStep ==
  \/ \E t \in Task : Starts(t) \/ TaskStep(t) \/ StepFails(t)
  \/ CommitOldest \/ Restart \/ Rests
OutsideStep == \E p \in Path, f \in File : OutsideEdit(p, f) \/ OutsideCommit(p, f)
ScanStep ==
  (\E a \in Actor : DetectDrift(a)) \/ (\E k \in Scans : BeginPass(k)) \/ Pass \/ OutsideStep

LEMMA CallsTyped == Call \subseteq CallType
BY FileStoreAssumption DEF CallType

LEMMA StepsAre ==
  ASSUME [Next]_vars PROVE CoreStep \/ ScanStep
<1>1. ASSUME NEW t \in Task, NEW c \in Call, Begin(t, c) PROVE Starts(t)
  BY <1>1, CallsTyped DEF Begin, Starts
<1>2. CASE UNCHANGED vars
  BY <1>2 DEF vars, countVars, CoreStep, Rests
<1> QED BY <1>1, <1>2 DEF Next, CoreStep, ScanStep, OutsideStep

\* What the other invariants need of a step of the write path: no task enters or leaves
\* its critical section and nothing it works on changes, ...
Quiet ==
  /\ UNCHANGED <<diskVars, ghostVars>>
  /\ \A t \in Task : IF InCrit(t) THEN tk'[t] = tk[t] ELSE tk'[t].pc # "crit"
Alone(t) == \A u \in Task \ {t} : tk'[u] = tk[u]
\* ... one enters it, ...
Enters(t) ==
  /\ Alone(t) /\ ~InCrit(t) /\ tk[t].call \in CallType /\ Free(t)
  /\ UNCHANGED <<diskVars, ghostVars, catVars>>
  /\ LET c == tk[t].call  cur == tree[c.path]  src == tree[c.from] IN
       /\ Accepts(c, cur, src)
       /\ tk'[t].pc = "crit" /\ tk'[t].call = c /\ tk'[t].todo = Plan(c.op)
       /\ tk'[t].cur = cur /\ tk'[t].new = NewContent(c, cur, src)
\* ... takes the next step of its plan, ...
Takes(t, s) ==
  /\ Alone(t) /\ InCrit(t) /\ s \in ToDo(t)
  /\ tk'[t].pc = "crit" /\ tk'[t].call = tk[t].call
  /\ tk'[t].cur = tk[t].cur /\ tk'[t].new = tk[t].new
  /\ Elements(tk'[t].todo) = ToDo(t) \ {s}
  /\ tk'[t].todo \in Rest(tk[t].call.op)
\* ... or leaves it.
Ends(t) == Alone(t) /\ InCrit(t) /\ tk'[t] = Idle

----------------------------------------------------------------------------
(* Tasks, passes and data are what they should be *)

TaskType ==
  [pc : TaskPC, call : CallType \cup {NoCall}, todo : Seq(Step), cur : File, new : File]
ScanType ==
  [pc : ScanPC, kind : PassKind, base : Tree, left : SUBSET Path, bad : SUBSET Path,
   stale : BOOLEAN, past : SUBSET (Path \X Content)]

CritShape(t) ==
  /\ tk[t].todo \in Rest(tk[t].call.op)
  /\ tk[t].call.op = "delete" <=> tk[t].new = NoFile
TasksInv ==
  /\ tk \in [Task -> TaskType]
  /\ \A t \in Task : tk[t].pc # "idle" => tk[t].call \in CallType
  /\ \A t \in Task : InCrit(t) => CritShape(t)
\* The locks: calls in their critical sections have no path in common.
Exclusive ==
  \A t, u \in Task :
    t # u /\ InCrit(t) /\ InCrit(u) => Paths(tk[t].call) \cap Paths(tk[u].call) = {}
\* A task is in DetectDrift only from checkWritable; the scanner runs the passes it may.
Allowed(s) ==
  s.pc # "off" => /\ s.kind \in Scans
                  /\ s.pc \in {"adopt", "adopted"} => s.kind = "repair"
                  /\ s.pc \in {"restore", "clean"} => s.kind = "restore"
                  /\ s.pc = "sweep" => s.kind = "sweep"
ScansInv ==
  /\ scan \in [Actor -> ScanType]
  /\ \A t \in Task : scan[t].pc # "off" => tk[t].pc = "rescan"
  /\ Allowed(scan[Scanner])
DiskInv ==
  /\ tree \in Tree /\ head \in Tree /\ acked \in Tree /\ wal \in Seq(LogEntry)
  /\ recorded \subseteq Path \X Content /\ lostfound \subseteq Path \X Content
  /\ torn \subseteq Path /\ born \in BOOLEAN
CatalogInv ==
  /\ catalog \in Tree /\ registered \in BOOLEAN /\ state \in {"healthy", "corrupted", "dangerous"}
ShapeInv == TasksInv /\ Exclusive /\ ScansInv /\ DiskInv /\ CatalogInv

LEMMA Types ==
  /\ NoFile \in File /\ Content \subseteq File /\ EmptyTree \in Tree
  /\ Idle \in TaskType /\ Idle.pc = "idle" /\ NoScan \in ScanType /\ NoScan.pc = "off"
  /\ \A c \in CallType : Called(c) \in TaskType /\ Called(c).pc = "check" /\ Called(c).call = c
<1>1. NoFile \in File /\ Content \subseteq File
  BY DEF File
<1>2. EmptyTree \in Tree
  BY <1>1 DEF EmptyTree, Tree
<1>3. Idle \in TaskType /\ Idle.pc = "idle"
  BY <1>1 DEF Idle, TaskType, TaskPC
<1>4. NoScan \in ScanType /\ NoScan.pc = "off"
  BY <1>2 DEF NoScan, ScanType, ScanPC, PassKind
<1>5. \A c \in CallType : Called(c) \in TaskType /\ Called(c).pc = "check" /\ Called(c).call = c
  BY <1>3 DEF Called, Idle, TaskType, TaskPC
<1> QED BY <1>1, <1>2, <1>3, <1>4, <1>5

\* What a call writes is a file, or nothing if it deletes.
LEMMA NewContentType ==
  ASSUME NEW c \in CallType, NEW cur \in File, NEW src \in File, Accepts(c, cur, src)
  PROVE  /\ NewContent(c, cur, src) \in File
         /\ c.op = "delete" <=> NewContent(c, cur, src) = NoFile
<1>1. c.content \in Content /\ NoFile \notin Content /\ c.op \in CallOp
  BY FileStoreAssumption DEF CallType
<1>2. CASE c.op = "write"
  BY <1>1, <1>2 DEF NewContent, File
<1>3. CASE c.op = "append"
  <2>1. cur # NoFile /\ NewContent(c, cur, src) = cur \cup c.content
    BY <1>3 DEF Accepts, NewContent, Etag
  <2>2. cur \cup c.content \in Content
    BY <1>1, <2>1 DEF Content, File
  <2> QED BY <1>1, <1>3, <2>1, <2>2 DEF File
<1>4. CASE c.op = "delete"
  BY <1>4 DEF NewContent, File
<1>5. CASE c.op = "move"
  BY <1>5 DEF NewContent, Accepts
<1> QED BY <1>1, <1>2, <1>3, <1>4, <1>5 DEF CallOp

LEMMA DoesTakes ==
  ASSUME TasksInv, NEW t \in Task, NEW s, Does(t, s)
  PROVE  Takes(t, s) /\ tk' \in [Task -> TaskType]
<1>1. tk[t] \in TaskType /\ InCrit(t) /\ tk[t].call \in CallType /\ CritShape(t)
  BY DEF TasksInv, Does, InCrit
<1>2. tk[t].call.op \in CallOp /\ tk[t].todo \in Rest(tk[t].call.op) /\ tk[t].todo # <<>>
  BY <1>1 DEF Does, CritShape, CallType
<1>3. /\ Tail(tk[t].todo) \in Rest(tk[t].call.op)
      /\ s \in ToDo(t) /\ Elements(Tail(tk[t].todo)) = ToDo(t) \ {s}
  BY <1>2, RestTail DEF Does, ToDo
<1>4. tk' = [tk EXCEPT ![t].todo = Tail(@)] /\ tk \in [Task -> TaskType]
  BY DEF Does, TasksInv
<1>5. /\ Alone(t) /\ tk'[t].pc = "crit" /\ tk'[t].call = tk[t].call
      /\ tk'[t].cur = tk[t].cur /\ tk'[t].new = tk[t].new /\ tk'[t].todo = Tail(tk[t].todo)
  BY <1>1, <1>4 DEF Alone, TaskType, InCrit
<1>6. Tail(tk[t].todo) \in Seq(Step)
  BY <1>2, <1>3, RestStages
<1>7. tk' \in [Task -> TaskType]
  BY <1>1, <1>4, <1>6 DEF TaskType
<1> QED BY <1>1, <1>3, <1>5, <1>7 DEF Takes

\* The critical sections keep their shape and stay apart.
LEMMA QuietKeeps ==
  ASSUME TasksInv, Exclusive, Quiet
  PROVE  (\A t \in Task : InCrit(t)' => CritShape(t)') /\ Exclusive'
<1>1. \A t \in Task : InCrit(t)' => InCrit(t) /\ tk'[t] = tk[t]
  BY DEF Quiet, InCrit
<1>2. \A t \in Task : InCrit(t)' => CritShape(t)'
  BY <1>1 DEF TasksInv, CritShape
<1> QED BY <1>1, <1>2 DEF Exclusive

LEMMA EntersKeeps ==
  ASSUME TasksInv, Exclusive, DiskInv, NEW t \in Task, Enters(t)
  PROVE  (\A u \in Task : InCrit(u)' => CritShape(u)') /\ Exclusive' /\ tk'[t].new \in File
<1> DEFINE c == tk[t].call
<1>1. c \in CallType /\ c.op \in CallOp /\ c.path \in Path /\ c.from \in Path
  BY DEF Enters, CallType
<1>2. tree[c.path] \in File /\ tree[c.from] \in File
  BY <1>1 DEF DiskInv, Tree
<1>3. /\ tk'[t].call = c /\ tk'[t].todo = Plan(c.op)
      /\ tk'[t].new = NewContent(c, tree[c.path], tree[c.from])
      /\ Accepts(c, tree[c.path], tree[c.from])
  BY DEF Enters
<1>4. tk'[t].new \in File /\ CritShape(t)'
  BY <1>1, <1>2, <1>3, PlanIsRest, NewContentType DEF CritShape
<1>5. ASSUME NEW u \in Task, u # t, InCrit(u)'
      PROVE  tk'[u] = tk[u] /\ InCrit(u) /\ CritShape(u)' /\ Paths(tk[u].call) \cap Paths(c) = {}
  <2>1. tk'[u] = tk[u]
    BY <1>5 DEF Enters, Alone
  <2>2. InCrit(u) /\ CritShape(u)'
    BY <1>5, <2>1 DEF InCrit, TasksInv, CritShape
  <2>3. \A p \in Paths(c) : p \notin Paths(tk[u].call)
    BY <2>2 DEF Enters, Free, Locked
  <2> QED BY <2>1, <2>2, <2>3
<1>6. Exclusive'
  <2> SUFFICES ASSUME NEW u \in Task, NEW v \in Task, u # v, InCrit(u)', InCrit(v)'
               PROVE  Paths(tk'[u].call) \cap Paths(tk'[v].call) = {}
    BY DEF Exclusive
  <2>1. CASE u = t
    BY <1>3, <1>5, <2>1
  <2>2. CASE v = t
    BY <1>3, <1>5, <2>2
  <2>3. CASE u # t /\ v # t
    BY <1>5, <2>3 DEF Exclusive
  <2> QED BY <2>1, <2>2, <2>3
<1> QED BY <1>4, <1>5, <1>6

LEMMA TakesKeeps ==
  ASSUME TasksInv, Exclusive, NEW t \in Task, NEW s, Takes(t, s)
  PROVE  (\A u \in Task : InCrit(u)' => CritShape(u)') /\ Exclusive'
<1>1. \A u \in Task : InCrit(u)' => InCrit(u) /\ tk'[u].call = tk[u].call /\ tk'[u].new = tk[u].new
  BY DEF Takes, Alone, InCrit
<1>2. \A u \in Task : InCrit(u)' => tk'[u].todo \in Rest(tk[u].call.op)
  BY <1>1 DEF Takes, Alone, TasksInv, CritShape
<1>3. \A u \in Task : InCrit(u)' => CritShape(u)'
  BY <1>1, <1>2 DEF TasksInv, CritShape
<1> QED BY <1>1, <1>3 DEF Exclusive

LEMMA EndsKeeps ==
  ASSUME TasksInv, Exclusive, NEW t \in Task, Ends(t)
  PROVE  (\A u \in Task : InCrit(u)' => CritShape(u)') /\ Exclusive'
<1>1. \A u \in Task : InCrit(u)' => InCrit(u) /\ tk'[u] = tk[u]
  BY Types DEF Ends, Alone, InCrit
<1>2. \A u \in Task : InCrit(u)' => CritShape(u)'
  BY <1>1 DEF TasksInv, CritShape
<1> QED BY <1>1, <1>2 DEF Exclusive

\* The steps of a task, by what they do to it.
CallsTypedIn(f) == \A t \in Task : f[t].pc # "idle" => f[t].call \in CallType

LEMMA GateQuiet ==
  ASSUME TasksInv, NEW t \in Task, Starts(t) \/ Admit(t) \/ Refuse(t) \/ LazyRescan(t)
  PROVE  /\ Quiet /\ UNCHANGED catVars /\ tk' \in [Task -> TaskType] /\ CallsTypedIn(tk')
         /\ Alone(t) /\ ~InCrit(t)
<1>1. tk \in [Task -> TaskType] /\ tk[t] \in TaskType /\ CallsTypedIn(tk)
  BY DEF TasksInv, CallsTypedIn
<1>2. ASSUME NEW new \in TaskType, tk' = [tk EXCEPT ![t] = new], ~InCrit(t), new.pc # "crit",
             new.pc # "idle" => new.call \in CallType, UNCHANGED <<diskVars, ghostVars>>
      PROVE  Quiet /\ tk' \in [Task -> TaskType] /\ CallsTypedIn(tk') /\ Alone(t)
  <2>1. tk' \in [Task -> TaskType] /\ tk'[t] = new /\ Alone(t)
    BY <1>1, <1>2 DEF Alone
  <2>2. CallsTypedIn(tk')
    BY <1>1, <1>2, <2>1 DEF CallsTypedIn, Alone
  <2> QED BY <1>2, <2>1, <2>2 DEF Quiet, Alone, InCrit
<1>3. CASE Starts(t)
  <2>1. PICK c \in CallType : tk' = [tk EXCEPT ![t] = Called(c)]
    BY <1>3 DEF Starts
  <2>2. ~InCrit(t) /\ UNCHANGED <<diskVars, ghostVars, catVars>>
    BY <1>3 DEF Starts, InCrit
  <2> QED BY <1>2, <2>1, <2>2, Types
<1>4. CASE Admit(t)
  <2> DEFINE new == [tk[t] EXCEPT !.pc = "lock"]
  <2>1. tk' = [tk EXCEPT ![t] = new] /\ UNCHANGED <<diskVars, ghostVars, catVars>>
    BY <1>4 DEF Admit
  <2>2. ~InCrit(t) /\ tk[t].pc # "idle"
    BY <1>4 DEF Admit, InCrit
  <2>3. new \in TaskType /\ new.pc = "lock" /\ new.call \in CallType
    BY <1>1, <2>2 DEF TaskType, TaskPC, CallsTypedIn
  <2> HIDE DEF new
  <2> QED BY <1>2, <2>1, <2>2, <2>3
<1>5. CASE Refuse(t)
  <2>1. tk' = [tk EXCEPT ![t] = Idle] /\ UNCHANGED <<diskVars, ghostVars, catVars>>
    BY <1>5 DEF Refuse
  <2>2. ~InCrit(t)
    BY <1>5 DEF Refuse, InCrit
  <2> QED BY <1>2, <2>1, <2>2, Types
<1>6. CASE LazyRescan(t)
  <2> DEFINE new == [tk[t] EXCEPT !.pc = "rescan"]
  <2>1. tk' = [tk EXCEPT ![t] = new] /\ UNCHANGED <<diskVars, ghostVars, catVars>>
    BY <1>6 DEF LazyRescan
  <2>2. ~InCrit(t) /\ tk[t].pc # "idle"
    BY <1>6 DEF LazyRescan, InCrit
  <2>3. new \in TaskType /\ new.pc = "rescan" /\ new.call \in CallType
    BY <1>1, <2>2 DEF TaskType, TaskPC, CallsTypedIn
  <2> HIDE DEF new
  <2> QED BY <1>2, <2>1, <2>2, <2>3
<1> QED BY <1>3, <1>4, <1>5, <1>6

LEMMA EnterEffect ==
  ASSUME TasksInv, DiskInv, NEW t \in Task, Enter(t)
  PROVE  /\ Enters(t) \/ (Quiet /\ UNCHANGED catVars)
         /\ tk' \in [Task -> TaskType] /\ CallsTypedIn(tk') /\ Alone(t) /\ tk[t].pc = "lock"
<1> DEFINE c == tk[t].call  cur == tree[c.path]  src == tree[c.from]
<1>1. tk \in [Task -> TaskType] /\ tk[t] \in TaskType /\ CallsTypedIn(tk) /\ tk[t].pc = "lock"
  BY DEF TasksInv, CallsTypedIn, Enter
<1>2. c \in CallType /\ c.path \in Path /\ c.from \in Path /\ c.op \in CallOp
  BY <1>1 DEF CallsTypedIn, CallType
<1>3. cur \in File /\ src \in File
  BY <1>2 DEF DiskInv, Tree
<1>4. UNCHANGED <<diskVars, ghostVars, catVars>> /\ Free(t) /\ ~InCrit(t)
  BY <1>1 DEF Enter, InCrit
<1>5. CASE Accepts(c, cur, src)
  <2> DEFINE new == [tk[t] EXCEPT !.pc = "crit", !.todo = Plan(c.op), !.cur = cur,
                                  !.new = NewContent(c, cur, src)]
  <2>1. tk' = [tk EXCEPT ![t] = new]
    BY <1>5 DEF Enter
  <2>2. Plan(c.op) \in Seq(Step) /\ NewContent(c, cur, src) \in File
    BY <1>2, <1>3, <1>5, PlanIsRest, RestStages, NewContentType
  <2>3. new \in TaskType /\ new.pc = "crit" /\ new.call = c /\ new.todo = Plan(c.op)
        /\ new.cur = cur /\ new.new = NewContent(c, cur, src)
    BY <1>1, <1>3, <2>2 DEF TaskType, TaskPC
  <2> HIDE DEF new
  <2>4. tk' \in [Task -> TaskType] /\ tk'[t] = new /\ Alone(t)
    BY <1>1, <2>1, <2>3 DEF Alone
  <2>5. CallsTypedIn(tk')
    BY <1>1, <1>2, <2>3, <2>4 DEF CallsTypedIn, Alone
  <2>6. Enters(t)
    BY <1>2, <1>4, <1>5, <2>3, <2>4 DEF Enters
  <2> QED BY <1>1, <2>4, <2>5, <2>6
<1>6. CASE ~Accepts(c, cur, src)
  <2>1. tk' = [tk EXCEPT ![t] = Idle]
    BY <1>6 DEF Enter
  <2>2. tk' \in [Task -> TaskType] /\ tk'[t] = Idle /\ Alone(t)
    BY <1>1, <2>1, Types DEF Alone
  <2>3. CallsTypedIn(tk')
    BY <1>1, <2>2, Types DEF CallsTypedIn, Alone
  <2>4. Quiet
    BY <1>4, <2>2, Types DEF Quiet, Alone, InCrit
  <2> QED BY <1>1, <1>4, <2>2, <2>3, <2>4
<1> QED BY <1>5, <1>6

LEMMA EndEffect ==
  ASSUME TasksInv, NEW t \in Task, Return(t) \/ StepFails(t)
  PROVE  Ends(t) /\ tk' \in [Task -> TaskType] /\ CallsTypedIn(tk')
<1>1. tk \in [Task -> TaskType] /\ CallsTypedIn(tk) /\ InCrit(t) /\ tk' = [tk EXCEPT ![t] = Idle]
  BY DEF TasksInv, CallsTypedIn, Return, StepFails
<1>2. tk' \in [Task -> TaskType] /\ tk'[t] = Idle /\ Alone(t)
  BY <1>1, Types DEF Alone
<1> QED BY <1>1, <1>2, Types DEF CallsTypedIn, Alone, Ends

LEMMA TaskEffects ==
  ASSUME TasksInv, DiskInv, NEW t \in Task, Starts(t) \/ TaskStep(t) \/ StepFails(t)
  PROVE  \/ Quiet /\ UNCHANGED catVars
         \/ Enters(t)
         \/ Put(t) /\ Takes(t, "put")
         \/ Remove(t) /\ Takes(t, "remove")
         \/ Log(t) /\ Takes(t, "log")
         \/ Own(t) /\ Takes(t, "own")
         \/ Disown(t) /\ Takes(t, "disown")
         \/ Return(t) /\ Ends(t)
         \/ StepFails(t) /\ Ends(t)
<1>1. CASE Put(t)
  BY <1>1, DoesTakes DEF Put
<1>2. CASE Remove(t)
  BY <1>2, DoesTakes DEF Remove
<1>3. CASE Log(t)
  BY <1>3, DoesTakes DEF Log
<1>4. CASE Own(t)
  BY <1>4, DoesTakes DEF Own, CatalogStep
<1>5. CASE Disown(t)
  BY <1>5, DoesTakes DEF Disown, CatalogStep
<1> QED BY <1>1, <1>2, <1>3, <1>4, <1>5, GateQuiet, EnterEffect, EndEffect DEF TaskStep

\* The same for what the step leaves unsaid there.
LEMMA TaskTyped ==
  ASSUME TasksInv, DiskInv, NEW t \in Task, Starts(t) \/ TaskStep(t) \/ StepFails(t)
  PROVE  tk' \in [Task -> TaskType] /\ CallsTypedIn(tk') /\ Alone(t)
<1>1. ASSUME NEW s, Does(t, s) PROVE tk' \in [Task -> TaskType] /\ CallsTypedIn(tk') /\ Alone(t)
  <2>1. Takes(t, s) /\ tk' \in [Task -> TaskType]
    BY <1>1, DoesTakes
  <2>2. CallsTypedIn(tk')
    BY <2>1 DEF Takes, Alone, CallsTypedIn, TasksInv, InCrit
  <2> QED BY <2>1, <2>2 DEF Takes
<1>2. CASE Put(t) \/ Remove(t) \/ Log(t) \/ Own(t) \/ Disown(t)
  BY <1>1, <1>2 DEF Put, Remove, Log, Own, Disown, CatalogStep
<1>3. CASE Return(t) \/ StepFails(t)
  BY <1>3, EndEffect DEF Ends
<1> QED BY <1>2, <1>3, GateQuiet, EnterEffect DEF TaskStep

LEMMA CoreTasks ==
  ASSUME TasksInv, Exclusive, DiskInv, CoreStep
  PROVE  TasksInv' /\ Exclusive'
<1>1. CASE \E t \in Task : Starts(t) \/ TaskStep(t) \/ StepFails(t)
  <2>1. PICK t \in Task : Starts(t) \/ TaskStep(t) \/ StepFails(t)
    BY <1>1
  <2>2. tk' \in [Task -> TaskType] /\ CallsTypedIn(tk')
    BY <2>1, TaskTyped
  <2>3. (\A u \in Task : InCrit(u)' => CritShape(u)') /\ Exclusive'
    BY <2>1, TaskEffects, QuietKeeps, EntersKeeps, TakesKeeps, EndsKeeps
  <2> QED BY <2>2, <2>3 DEF TasksInv, CallsTypedIn
<1>2. CASE CommitOldest \/ Rests
  BY <1>2 DEF CommitOldest, Rests, TasksInv, Exclusive, InCrit, CritShape
<1>3. CASE Restart
  <2>1. tk' = [t \in Task |-> Idle]
    BY <1>3 DEF Restart
  <2> QED BY <2>1, Types DEF TasksInv, Exclusive, InCrit
<1> QED BY <1>1, <1>2, <1>3 DEF CoreStep

\* A run of DetectDrift, or of a recovery, goes on or begins.
LEMMA ScanChange ==
  ASSUME ScansInv, NEW a \in Actor, NEW new \in ScanType, scan' = [scan EXCEPT ![a] = new],
         \A u \in Task : u # a => tk'[u] = tk[u],
         a \in Task /\ new.pc # "off" => tk'[a].pc = "rescan",
         a = Scanner => Allowed(new)
  PROVE  ScansInv'
<1>1. Scanner \in Actor /\ Scanner \notin Task /\ Task \subseteq Actor
  BY FileStoreAssumption DEF Actor
<1>2. scan' \in [Actor -> ScanType] /\ scan'[a] = new /\ \A b \in Actor : b # a => scan'[b] = scan[b]
  BY DEF ScansInv
<1>3. Allowed(scan'[Scanner])
  BY <1>1, <1>2 DEF ScansInv
<1>4. \A t \in Task : scan'[t].pc # "off" => tk'[t].pc = "rescan"
  BY <1>1, <1>2 DEF ScansInv
<1> QED BY <1>2, <1>3, <1>4 DEF ScansInv, Allowed

LEMMA CoreScans ==
  ASSUME TasksInv, ScansInv, DiskInv, CoreStep
  PROVE  ScansInv'
<1>1. ASSUME NEW t \in Task, Starts(t) \/ TaskStep(t) \/ StepFails(t) PROVE ScansInv'
  <2>1. Alone(t)
    BY <1>1, TaskTyped
  <2>2. CASE LazyRescan(t)
    <3> DEFINE new == [scan[t] EXCEPT !.pc = "open"]
    <3>1. t \in Actor /\ t # Scanner /\ scan[t] \in ScanType
      BY FileStoreAssumption DEF ScansInv, Actor
    <3>2. scan' = [scan EXCEPT ![t] = new]
      BY <2>2 DEF LazyRescan, GotoScan
    <3>3. new \in ScanType
      BY <3>1 DEF ScanType, ScanPC
    <3>4. tk'[t].pc = "rescan"
      BY <2>2 DEF LazyRescan, TasksInv, TaskType
    <3>5. \A u \in Task : u # t => tk'[u] = tk[u]
      BY <2>1 DEF Alone
    <3> HIDE DEF new
    <3> QED BY <3>1, <3>2, <3>3, <3>4, <3>5, ScanChange
  <2>3. CASE ~LazyRescan(t)
    <3>1. scan' = scan /\ tk[t].pc # "rescan"
      BY <1>1, <2>3 DEF Starts, TaskStep, StepFails, Admit, Refuse, Enter, Put, Remove, Log, Own, Disown,
        CatalogStep, Return, Does, InCrit
    <3> QED BY SMTT(60), <2>1, <3>1 DEF ScansInv, Alone
  <2> QED BY <2>2, <2>3
<1>2. CASE CommitOldest \/ Rests
  BY <1>2 DEF CommitOldest, Rests, ScansInv
<1>3. CASE Restart
  <2>1. scan' = [a \in Actor |-> NoScan] /\ Scanner \in Actor /\ Task \subseteq Actor
    BY <1>3 DEF Restart, Actor
  <2>2. NoScan \in ScanType /\ NoScan.pc = "off"
    BY Types
  <2> QED BY <2>1, <2>2 DEF ScansInv, Allowed
<1> QED BY <1>1, <1>2, <1>3 DEF CoreStep

----------------------------------------------------------------------------
(* The data *)

\* What a call leaves behind, in any tree its entry is applied to.
LEMMA EntryIs ==
  ASSUME TasksInv, NEW t \in Task, InCrit(t)
  PROVE  /\ Entry(t) \in LogEntry
         /\ Entry(t).path = tk[t].call.path /\ Entry(t).content = tk[t].new
         /\ Entry(t).op = "delete" <=> tk[t].call.op = "delete"
         /\ \A f \in Tree : /\ Apply(f, Entry(t)) \in Tree
                            /\ \A p \in Path : Apply(f, Entry(t))[p] =
                                 IF p \in Paths(tk[t].call) THEN Leaves(t, p) ELSE f[p]
<1> DEFINE c == tk[t].call  e == Entry(t)
<1>1. tk[t] \in TaskType /\ c \in CallType /\ CritShape(t)
  BY DEF TasksInv, InCrit
<1>2. c.op \in CallOp /\ c.path \in Path /\ c.from \in Path /\ (c.op = "move" => c.path # c.from)
  BY <1>1 DEF CallType
<1>3. /\ e.path = c.path /\ e.from = c.from /\ e.content = tk[t].new
      /\ e.op = IF c.op = "append" THEN "write" ELSE c.op
      /\ e = [op |-> e.op, path |-> e.path, from |-> e.from, content |-> e.content]
  BY DEF Entry
<1>4. e.op \in {"write", "delete", "move"} /\ (e.op = "delete" <=> c.op = "delete")
      /\ (e.op = "move" <=> c.op = "move")
  BY <1>2, <1>3 DEF CallOp
<1>5. tk[t].new \in File /\ (c.op = "delete" <=> tk[t].new = NoFile)
  BY <1>1 DEF TaskType, CritShape
<1> HIDE DEF e
<1>6. e \in LogEntry
  BY <1>2, <1>3, <1>4, <1>5 DEF LogEntry
<1>7. \A f \in Tree : Apply(f, e) \in Tree
  BY <1>6, Applied
<1>8. ASSUME NEW f \in Tree, NEW p \in Path
      PROVE  Apply(f, e)[p] = IF p \in Paths(c) THEN Leaves(t, p) ELSE f[p]
  <2>1. Apply(f, e)[p] = IF p = e.path THEN e.content
                         ELSE IF e.op = "move" /\ p = e.from THEN NoFile ELSE f[p]
    BY <1>6, Applied
  <2>2. p \in Paths(c) <=> p = c.path \/ (c.op = "move" /\ p = c.from)
    BY DEF Paths
  <2> QED BY <1>3, <1>4, <2>1, <2>2 DEF Leaves
<1> QED BY <1>3, <1>4, <1>6, <1>7, <1>8 DEF e

LEMMA PairsTyped ==
  ASSUME NEW f \in Tree
  PROVE  /\ Pairs(f) \subseteq Path \X Content
         /\ \A p \in Path : f[p] # NoFile => <<p, f[p]>> \in Pairs(f)
         /\ \A x \in Pairs(f) : \E p \in Path : f[p] # NoFile /\ x = <<p, f[p]>>
BY DEF Pairs, Tree, File

LEMMA LoggedTyped ==
  ASSUME wal \in Seq(LogEntry)
  PROVE  /\ Logged \subseteq Path \X Content
         /\ \A i \in DOMAIN wal : wal[i].op # "delete" => <<wal[i].path, wal[i].content>> \in Logged
<1>1. \A i \in DOMAIN wal : wal[i] \in LogEntry
  OBVIOUS
<1>2. \A i \in DOMAIN wal : wal[i].op # "delete" => wal[i].path \in Path /\ wal[i].content \in Content
  BY <1>1 DEF LogEntry, File
<1> QED BY <1>2 DEF Logged

\* The log gains an entry, or loses its oldest to HEAD's history.
LEMMA LoggedAppend ==
  ASSUME NEW e \in LogEntry, wal \in Seq(LogEntry), wal' = Append(wal, e)
  PROVE  /\ Logged \subseteq Logged'
         /\ e.op # "delete" => <<e.path, e.content>> \in Logged'
<1>1. /\ wal' \in Seq(LogEntry) /\ Len(wal) + 1 \in DOMAIN wal' /\ wal'[Len(wal) + 1] = e
      /\ \A i \in DOMAIN wal : i \in DOMAIN wal' /\ wal'[i] = wal[i]
  OBVIOUS
<1> QED BY <1>1 DEF Logged

LEMMA LoggedTail ==
  ASSUME wal \in Seq(LogEntry), head \in Tree, CommitOldest
  PROVE  /\ head' \in Tree /\ wal' \in Seq(LogEntry)
         /\ recorded \cup Logged \subseteq recorded' \cup Logged'
<1> DEFINE e == Head(wal)
<1>1. wal # <<>> /\ head' = Apply(head, e) /\ wal' = Tail(wal) /\ recorded' = recorded \cup Pairs(head')
  BY DEF CommitOldest
<1>2. e \in LogEntry /\ wal' \in Seq(LogEntry) /\ e = wal[1]
  BY <1>1
<1>3. head' \in Tree /\ head'[e.path] = e.content /\ e.path \in Path
  BY <1>1, <1>2, Applied DEF LogEntry
<1>4. e.op # "delete" => <<e.path, e.content>> \in recorded'
  <2>1. e.op # "delete" => e.content # NoFile
    BY <1>2 DEF LogEntry
  <2> QED BY <1>1, <1>3, <2>1 DEF Pairs
<1>5. ASSUME NEW i \in DOMAIN wal, wal[i].op # "delete"
      PROVE  <<wal[i].path, wal[i].content>> \in recorded' \cup Logged'
  <2>1. CASE i = 1
    BY <1>2, <1>4, <1>5, <2>1
  <2>2. CASE i # 1
    <3>1. i - 1 \in DOMAIN wal' /\ wal'[i - 1] = wal[i]
      BY <1>1, <2>2
    <3> QED BY <1>5, <3>1 DEF Logged
  <2> QED BY <2>1, <2>2
<1>6. \A x \in Logged : \E i \in DOMAIN wal : wal[i].op # "delete" /\ x = <<wal[i].path, wal[i].content>>
  BY DEF Logged
<1> QED BY <1>1, <1>2, <1>3, <1>5, <1>6

LEMMA CoreDisk ==
  ASSUME TasksInv, DiskInv, CoreStep
  PROVE  DiskInv'
<1>1. ASSUME UNCHANGED <<diskVars, ghostVars>> PROVE DiskInv'
  BY <1>1 DEF DiskInv, diskVars, ghostVars
<1>2. ASSUME NEW t \in Task, Starts(t) \/ TaskStep(t) \/ StepFails(t) PROVE DiskInv'
  <2>1. ASSUME InCrit(t)
        PROVE  tk[t].new \in File /\ tk[t].call.path \in Path /\ Victim(tk[t].call) \in Path
    BY <2>1 DEF TasksInv, TaskType, CallType, InCrit, Victim
  <2>2. CASE Put(t)
    <3>1. InCrit(t) /\ tree' = [tree EXCEPT ![tk[t].call.path] = tk[t].new]
      BY <2>2 DEF Put, Does
    <3>2. tree' \in Tree
      BY <2>1, <3>1 DEF DiskInv, Tree
    <3> QED BY <2>2, <3>2 DEF Put, DiskInv, ghostVars, Does
  <2>3. CASE Remove(t)
    <3>1. InCrit(t) /\ tree' = [tree EXCEPT ![Victim(tk[t].call)] = NoFile]
      BY <2>3 DEF Remove, Does
    <3>2. tree' \in Tree
      BY <2>1, <3>1, Types DEF DiskInv, Tree
    <3> QED BY <2>3, <3>2 DEF Remove, DiskInv, ghostVars, Does
  <2>4. CASE Log(t)
    <3>1. InCrit(t) /\ wal' = Append(wal, Entry(t)) /\ Entry(t) \in LogEntry
      BY <2>4, EntryIs DEF Log, Does
    <3>2. wal' \in Seq(LogEntry)
      BY <3>1 DEF DiskInv
    <3> QED BY <2>4, <3>2 DEF Log, DiskInv, ghostVars, Does
  <2>5. CASE Own(t) \/ Disown(t)
    BY <1>1, <2>5 DEF Own, Disown, CatalogStep
  <2>6. CASE Return(t)
    <3>1. acked' \in Tree
      BY <2>6, EntryIs DEF Return, DiskInv
    <3> QED BY <2>6, <3>1 DEF Return, DiskInv, diskVars
  <2>7. CASE StepFails(t)
    <3>1. HalfPaths(t) \subseteq Path
      BY <2>7 DEF HalfPaths, Paths, StepFails, TasksInv, CallType, InCrit
    <3> QED BY <2>7, <3>1 DEF StepFails, DiskInv, diskVars
  <2> QED BY <1>1, <1>2, <2>2, <2>3, <2>4, <2>5, <2>6, <2>7, TaskEffects DEF Quiet, Enters
<1>3. CASE CommitOldest
  <2>1. head' \in Tree /\ wal' \in Seq(LogEntry)
    BY <1>3, LoggedTail DEF DiskInv
  <2>2. recorded' \subseteq Path \X Content
    BY <1>3, <2>1, PairsTyped DEF CommitOldest, DiskInv
  <2>3. born' \in BOOLEAN
    BY <1>3 DEF CommitOldest, DiskInv
  <2> QED BY <1>3, <2>1, <2>2, <2>3 DEF CommitOldest, DiskInv, ghostVars
<1>4. CASE Restart
  <2>1. tree' = tree /\ lostfound' = lostfound /\ wal' = <<>> /\ head' = Drained
    BY <1>4 DEF Restart
  <2>2. head' \in Tree
    BY <2>1, DrainedIs, DrainedType DEF DiskInv
  <2>3. recorded' \subseteq Path \X Content
    <3>1. recorded' = recorded \cup Pairs(head) \cup Logged
      BY <1>4 DEF Restart
    <3> QED BY <3>1, PairsTyped, LoggedTyped DEF DiskInv
  <2>4. born' \in BOOLEAN
    BY <1>4 DEF Restart, DiskInv
  <2>5. torn' \subseteq Path
    <3>1. \A t \in Task : HalfPaths(t) \subseteq Path
      BY DEF HalfPaths, Paths, Half, TasksInv, CallType, InCrit
    <3> QED BY <1>4, <3>1 DEF Restart, DiskInv
  <2>6. acked' \in Tree
    <3>1. \A t \in Task, p \in Path : Whole(t) => Leaves(t, p) \in File
      BY Types DEF Whole, Leaves, TasksInv, TaskType
    <3>2. ASSUME NEW p \in Path
          PROVE  (IF \E t \in Task : Whole(t) /\ p \in Paths(tk[t].call)
                  THEN Leaves(CHOOSE t \in Task : Whole(t) /\ p \in Paths(tk[t].call), p)
                  ELSE acked[p]) \in File
      <4>1. CASE \E t \in Task : Whole(t) /\ p \in Paths(tk[t].call)
        <5> DEFINE u == CHOOSE t \in Task : Whole(t) /\ p \in Paths(tk[t].call)
        <5>1. u \in Task /\ Whole(u)
          BY <4>1
        <5> HIDE DEF u
        <5>2. Leaves(u, p) \in File
          BY <3>1, <5>1
        <5> QED BY <4>1, <5>2 DEF u
      <4>2. CASE ~ \E t \in Task : Whole(t) /\ p \in Paths(tk[t].call)
        BY <4>2 DEF DiskInv, Tree
      <4> QED BY <4>1, <4>2
    <3> QED BY <1>4, <3>2 DEF Restart, Tree
  <2>7. wal' \in Seq(LogEntry)
    BY <2>1
  <2> QED BY <2>1, <2>2, <2>3, <2>4, <2>5, <2>6, <2>7 DEF DiskInv
<1>5. CASE Rests
  BY <1>1, <1>5 DEF Rests
<1> QED BY <1>2, <1>3, <1>4, <1>5 DEF CoreStep

LEMMA CoreCatalog ==
  ASSUME TasksInv, DiskInv, CatalogInv, CoreStep
  PROVE  CatalogInv'
<1>1. ASSUME UNCHANGED <<catVars, state>> PROVE CatalogInv'
  BY <1>1 DEF CatalogInv, catVars
<1>2. ASSUME NEW t \in Task, Starts(t) \/ TaskStep(t) \/ StepFails(t) PROVE CatalogInv'
  <2>1. CASE Own(t) \/ Disown(t)
    <3>1. tk[t].new \in File /\ tk[t].call.path \in Path /\ Victim(tk[t].call) \in Path /\ NoFile \in File
      BY <2>1, Types DEF Own, Disown, CatalogStep, Does, TasksInv, TaskType, CallType, InCrit, Victim
    <3>2. catalog' \in {catalog, [catalog EXCEPT ![tk[t].call.path] = tk[t].new],
                        [catalog EXCEPT ![Victim(tk[t].call)] = NoFile]}
      BY <2>1 DEF Own, Disown, CatalogStep
    <3>3. catalog' \in Tree
      BY <3>1, <3>2 DEF CatalogInv, Tree
    <3> QED BY <2>1, <3>3 DEF Own, Disown, CatalogStep, CatalogInv
  <2>2. CASE ~(Own(t) \/ Disown(t))
    BY <1>1, <1>2, <2>2 DEF Starts, TaskStep, Admit, Refuse, LazyRescan, Enter, Put, Remove, Log, Return,
      StepFails
  <2> QED BY <2>1, <2>2
<1>3. CASE CommitOldest \/ Rests
  BY <1>1, <1>3 DEF CommitOldest, Rests
<1>4. CASE Restart
  <2>1. head' \in Tree
    BY <1>4, DrainedIs, DrainedType DEF Restart, DiskInv
  <2>2. [p \in Path |-> IF head'[p] # NoFile THEN tree[p] ELSE NoFile] \in Tree
    BY Types DEF DiskInv, Tree
  <2>3. catalog' \in {catalog, [p \in Path |-> IF head'[p] # NoFile THEN tree[p] ELSE NoFile]}
        /\ state' \in {"healthy", "corrupted"} /\ registered' = TRUE
    BY <1>4 DEF Restart
  <2> QED BY <2>2, <2>3 DEF CatalogInv
<1> QED BY <1>2, <1>3, <1>4 DEF CoreStep

LEMMA CoreShape ==
  ASSUME ShapeInv, CoreStep PROVE ShapeInv'
BY CoreTasks, CoreScans, CoreDisk, CoreCatalog DEF ShapeInv

----------------------------------------------------------------------------
(* Passes and outside changes *)

\* A pass judges, and touches neither data nor critical sections.
LEMMA JudgedKeeps ==
  ASSUME TasksInv, ScansInv, NEW a \in Actor, scan[a].pc # "off", Judged(a),
         UNCHANGED <<diskVars, ghostVars>>
  PROVE  Quiet /\ tk' \in [Task -> TaskType] /\ CallsTypedIn(tk') /\ ScansInv'
<1>1. scan' = [scan EXCEPT ![a] = NoScan] /\ NoScan \in ScanType /\ NoScan.pc = "off"
  BY Types DEF Judged
<1>2. tk \in [Task -> TaskType] /\ CallsTypedIn(tk)
  BY DEF TasksInv, CallsTypedIn
<1>3. CASE a \in Task
  <2> DEFINE new == [tk[a] EXCEPT !.pc = "recheck"]
  <2>1. tk' = [tk EXCEPT ![a] = new] /\ tk[a].pc = "rescan"
    BY <1>3 DEF Judged, ScansInv
  <2>2. new \in TaskType /\ new.pc = "recheck" /\ new.call = tk[a].call
    BY <1>2, <1>3 DEF TaskType, TaskPC
  <2> HIDE DEF new
  <2>3. tk' \in [Task -> TaskType] /\ tk'[a] = new /\ \A u \in Task : u # a => tk'[u] = tk[u]
    BY <1>2, <1>3, <2>1, <2>2
  <2>4. CallsTypedIn(tk')
    BY <1>2, <1>3, <2>1, <2>2, <2>3 DEF CallsTypedIn
  <2>5. Quiet
    BY <2>1, <2>2, <2>3 DEF Quiet, InCrit
  <2>6. ScansInv'
    BY <1>1, <2>3, ScanChange DEF Allowed
  <2> QED BY <2>3, <2>4, <2>5, <2>6
<1>4. CASE a \notin Task
  <2>1. tk' = tk
    BY <1>4 DEF Judged
  <2>2. ScansInv'
    BY <1>1, <1>4, <2>1, ScanChange DEF Allowed
  <2> QED BY <1>2, <2>1, <2>2 DEF Quiet, InCrit
<1> QED BY <1>3, <1>4

\* The pass of a goes on to new.
LEMMA GoesOn ==
  ASSUME TasksInv, ScansInv, NEW a \in Actor, NEW new \in ScanType, scan' = [scan EXCEPT ![a] = new],
         a \in Task => scan[a].pc # "off", a = Scanner => Allowed(new), UNCHANGED tk
  PROVE  TasksInv' /\ ScansInv'
<1>1. a \in Task => tk'[a].pc = "rescan"
  BY DEF ScansInv
<1>2. ScansInv'
  BY <1>1, ScanChange
<1>3. TasksInv'
  BY DEF TasksInv, InCrit, CritShape
<1> QED BY <1>2, <1>3

LEMMA DriftKeeps ==
  ASSUME ShapeInv, NEW a \in Actor, DetectDrift(a)
  PROVE  Quiet /\ ShapeInv'
<1> USE DEF ShapeInv
<1>1. scan[a] \in ScanType /\ tk \in [Task -> TaskType] /\ CallsTypedIn(tk)
      /\ Scanner \in Actor /\ (a = Scanner => Allowed(scan[a]))
  BY DEF ScansInv, TasksInv, CallsTypedIn, Actor
<1>2. ASSUME Quiet, TasksInv' , ScansInv', CatalogInv' PROVE Quiet /\ ShapeInv'
  <2>1. Exclusive'
    BY <1>2, QuietKeeps
  <2>2. DiskInv'
    BY <1>2 DEF Quiet, DiskInv, diskVars, ghostVars
  <2> QED BY <1>2, <2>1, <2>2
<1>3. ASSUME NEW new \in ScanType, scan' = [scan EXCEPT ![a] = new], scan[a].pc # "off",
             a = Scanner => Allowed(new), UNCHANGED <<diskVars, ghostVars, tk>>, CatalogInv'
      PROVE  Quiet /\ ShapeInv'
  <2>1. TasksInv' /\ ScansInv'
    BY <1>3, GoesOn
  <2>2. Quiet
    BY <1>3 DEF Quiet, InCrit
  <2> QED BY <1>2, <1>3, <2>1, <2>2
<1>4. ASSUME scan[a].pc # "off", Judged(a), UNCHANGED <<diskVars, ghostVars>>, CatalogInv'
      PROVE  Quiet /\ ShapeInv'
  <2>1. Quiet /\ tk' \in [Task -> TaskType] /\ CallsTypedIn(tk') /\ ScansInv'
    BY <1>4, JudgedKeeps
  <2>2. TasksInv'
    BY <2>1, QuietKeeps DEF TasksInv, CallsTypedIn
  <2> QED BY <1>2, <1>4, <2>1, <2>2
<1>5. ASSUME UNCHANGED <<catVars, state>> PROVE CatalogInv'
  BY <1>5 DEF CatalogInv, catVars
<1>6. catalog \in Tree /\ tree \in Tree /\ registered \in BOOLEAN
  BY DEF CatalogInv, DiskInv
<1>7. CASE HandleClosed(a)
  <2>1. CatalogInv'
    BY <1>7 DEF HandleClosed, CatalogInv, catVars
  <2> QED BY <1>4, <1>7, <2>1 DEF HandleClosed
<1>8. CASE VerifyInvariant(a)
  <2> DEFINE new == [scan[a] EXCEPT !.pc = "verify", !.base = catalog,
                                    !.left = {p \in Path : catalog[p] # NoFile}]
  <2>1. scan' = [scan EXCEPT ![a] = new] /\ scan[a].pc = "open"
    BY <1>8 DEF VerifyInvariant
  <2>2. new \in ScanType /\ new.pc = "verify" /\ new.kind = scan[a].kind
    BY ZenonT(60), <1>1, <1>6 DEF ScanType, ScanPC
  <2> HIDE DEF new
  <2>3. a = Scanner => Allowed(new)
    BY <1>1, <2>1, <2>2 DEF Allowed
  <2>4. UNCHANGED <<diskVars, ghostVars, tk, catVars, state>>
    BY <1>8 DEF VerifyInvariant
  <2> QED BY <1>3, <1>5, <2>1, <2>2, <2>3, <2>4
<1>9. CASE \E p \in Path : VerifyFile(a, p)
  <2>0. PICK p \in Path : VerifyFile(a, p)
    BY <1>9
  <2> DEFINE new == [scan[a] EXCEPT !.left = @ \ {p},
                                    !.bad = IF tree[p] = scan[a].base[p] THEN @ ELSE @ \cup {p}]
  <2>1. scan' = [scan EXCEPT ![a] = new] /\ scan[a].pc = "verify"
    BY <2>0 DEF VerifyFile
  <2>2. new \in ScanType /\ new.pc = "verify" /\ new.kind = scan[a].kind
    BY <1>1, <2>1 DEF ScanType
  <2> HIDE DEF new
  <2>3. a = Scanner => Allowed(new)
    BY <1>1, <2>1, <2>2 DEF Allowed
  <2>4. UNCHANGED <<diskVars, ghostVars, tk, catVars, state>>
    BY <2>0 DEF VerifyFile
  <2> QED BY <1>3, <1>5, <2>1, <2>2, <2>3, <2>4
<1>10. CASE VerifyEnd(a)
  <2> DEFINE pc == IF scan[a].bad # {} /\ Clean THEN "rebuild" ELSE "walk"
             new == [scan[a] EXCEPT !.base = EmptyTree, !.pc = pc]
  <2>1. scan' = [scan EXCEPT ![a] = new] /\ scan[a].pc = "verify"
    BY <1>10 DEF VerifyEnd
  <2>2. pc \in {"rebuild", "walk"}
    OBVIOUS
  <2> HIDE DEF pc
  <2>3. new \in ScanType /\ new.pc = pc /\ new.kind = scan[a].kind
    BY <1>1, <2>2, Types DEF ScanType, ScanPC
  <2> HIDE DEF new
  <2>4. a = Scanner => Allowed(new)
    BY <1>1, <2>1, <2>2, <2>3 DEF Allowed
  <2>5. UNCHANGED <<diskVars, ghostVars, tk, catVars, state>>
    BY <1>10 DEF VerifyEnd
  <2> QED BY <1>3, <1>5, <2>1, <2>2, <2>3, <2>4, <2>5
<1>11. CASE Rebuild(a)
  <2> DEFINE mine == [scan[a] EXCEPT !.pc = "fill", !.bad = {}, !.left = {p \in Path : head[p] # NoFile}]
             other(b) == [scan[b] EXCEPT !.stale = scan[b].pc # "off"]
  <2>1. scan' = [b \in Actor |-> IF b = a THEN mine ELSE other(b)] /\ scan[a].pc = "rebuild"
        /\ UNCHANGED <<diskVars, ghostVars, tk, state>> /\ catalog' = EmptyTree /\ registered' = FALSE
    BY ZenonT(60), <1>11 DEF Rebuild
  <2>2. mine \in ScanType /\ mine.pc = "fill" /\ mine.kind = scan[a].kind
    BY ZenonT(60), <1>1 DEF ScanType, ScanPC
  <2>3. \A b \in Actor : other(b) \in ScanType /\ other(b).pc = scan[b].pc /\ other(b).kind = scan[b].kind
    BY ZenonT(60) DEF ScansInv, ScanType
  <2> HIDE DEF mine, other
  <2>4. scan' \in [Actor -> ScanType]
    BY <2>1, <2>2, <2>3
  <2>5. Allowed(scan'[Scanner])
    BY <1>1, <2>1, <2>2, <2>3 DEF Allowed, ScansInv
  <2>6. Task \subseteq Actor
    BY DEF Actor
  <2>7. ASSUME NEW t \in Task, scan'[t].pc # "off" PROVE tk'[t].pc = "rescan"
    <3>1. scan[t].pc # "off"
      BY <2>1, <2>2, <2>3, <2>6, <2>7
    <3> QED BY <2>1, <3>1 DEF ScansInv
  <2>8. CatalogInv'
    BY <2>1, Types DEF CatalogInv
  <2>9. Quiet /\ TasksInv'
    BY <2>1 DEF Quiet, TasksInv, InCrit, CritShape
  <2>10. ScansInv'
    BY <2>4, <2>5, <2>7 DEF ScansInv, Allowed
  <2> QED BY <1>2, <2>8, <2>9, <2>10
<1>12. CASE \E p \in Path : RebuildFile(a, p)
  <2>0. PICK p \in Path : RebuildFile(a, p)
    BY <1>12
  <2> DEFINE new == [scan[a] EXCEPT !.left = @ \ {p},
                                    !.bad = IF tree[p] = NoFile THEN @ \cup {p} ELSE @]
  <2>1. scan' = [scan EXCEPT ![a] = new] /\ scan[a].pc = "fill"
    BY <2>0 DEF RebuildFile
  <2>2. new \in ScanType /\ new.pc = "fill" /\ new.kind = scan[a].kind
    BY <1>1, <2>1 DEF ScanType
  <2> HIDE DEF new
  <2>3. a = Scanner => Allowed(new)
    BY <1>1, <2>1, <2>2 DEF Allowed
  <2>4. UNCHANGED <<diskVars, ghostVars, tk, registered, state>> /\ catalog' = [catalog EXCEPT ![p] = tree[p]]
    BY <2>0 DEF RebuildFile
  <2>5. CatalogInv'
    BY <1>6, <2>4 DEF CatalogInv, Tree
  <2> QED BY <1>3, <2>1, <2>2, <2>3, <2>4, <2>5
<1>13. CASE Register(a)
  <2>1. UNCHANGED <<diskVars, ghostVars, tk, catalog>> /\ registered' = TRUE /\ scan[a].pc = "fill"
        /\ state' \in {"healthy", "corrupted", state}
    BY <1>13 DEF Register
  <2>2. CatalogInv'
    BY <2>1 DEF CatalogInv
  <2>3. CASE scan[a].kind \in {"repair", "restore"}
    <3>1. scan' = [scan EXCEPT ![a] = NoScan]
      BY <1>13, <2>3 DEF Register
    <3> QED BY <1>3, <2>1, <2>2, <3>1, Types DEF Allowed
  <2>4. CASE scan[a].kind \notin {"repair", "restore"}
    <3> DEFINE new == [scan[a] EXCEPT !.pc = "walk", !.bad = {}, !.stale = FALSE]
    <3>1. scan' = [scan EXCEPT ![a] = new]
      BY <1>13, <2>4 DEF Register
    <3>2. new \in ScanType /\ new.pc = "walk" /\ new.kind = scan[a].kind
      BY <1>1 DEF ScanType, ScanPC
    <3> HIDE DEF new
    <3>3. a = Scanner => Allowed(new)
      BY <1>1, <2>1, <3>2 DEF Allowed
    <3> QED BY <1>3, <2>1, <2>2, <3>1, <3>2, <3>3
  <2> QED BY <2>3, <2>4
<1>14. CASE Walk(a)
  <2> DEFINE new == [scan[a] EXCEPT !.pc = "verdict", !.left = {p \in Path : tree[p] # NoFile}]
  <2>1. scan' = [scan EXCEPT ![a] = new] /\ scan[a].pc = "walk"
    BY <1>14 DEF Walk
  <2>2. new \in ScanType /\ new.pc = "verdict" /\ new.kind = scan[a].kind
    BY ZenonT(60), <1>1 DEF ScanType, ScanPC
  <2> HIDE DEF new
  <2>3. a = Scanner => Allowed(new)
    BY <1>1, <2>1, <2>2 DEF Allowed
  <2>4. UNCHANGED <<diskVars, ghostVars, tk, catVars, state>>
    BY <1>14 DEF Walk
  <2> QED BY <1>3, <1>5, <2>1, <2>2, <2>3, <2>4
<1>15. CASE Verdict(a)
  <2>1. UNCHANGED <<diskVars, ghostVars, catVars>> /\ scan[a].pc = "verdict"
        /\ state' \in {"healthy", "corrupted"}
    BY <1>15 DEF Verdict
  <2>2. CatalogInv'
    BY <2>1 DEF CatalogInv, catVars
  <2>3. CASE scan[a].kind = "sweep" /\ scan[a].bad = {}
    <3> DEFINE new == [scan[a] EXCEPT !.pc = "sweep", !.left = IF scan[a].stale THEN {}
                                              ELSE {p \in @ : catalog[p] = NoFile}]
    <3>1. scan' = [scan EXCEPT ![a] = new] /\ tk' = tk
      BY <1>15, <2>3 DEF Verdict
    <3>2. new \in ScanType /\ new.pc = "sweep" /\ new.kind = scan[a].kind
      BY ZenonT(60), <1>1 DEF ScanType, ScanPC
    <3> HIDE DEF new
    <3>3. a = Scanner => Allowed(new)
      BY <1>1, <2>1, <2>3, <3>2 DEF Allowed
    <3> QED BY <1>3, <2>1, <2>2, <3>1, <3>2, <3>3
  <2>4. CASE ~(scan[a].kind = "sweep" /\ scan[a].bad = {})
    <3>1. Judged(a)
      BY <1>15, <2>4 DEF Verdict
    <3> QED BY <1>4, <2>1, <2>2, <3>1
  <2> QED BY <2>3, <2>4
<1> QED BY <1>7, <1>8, <1>9, <1>10, <1>11, <1>12, <1>13, <1>14, <1>15 DEF DetectDrift

LEMMA PassKeeps ==
  ASSUME ShapeInv, (\E k \in Scans : BeginPass(k)) \/ Pass \/ OutsideStep
  PROVE  ShapeInv'
<1> USE DEF ShapeInv
<1> DEFINE s == scan[Scanner]
<1>1. Scanner \in Actor /\ Scanner \notin Task /\ s \in ScanType /\ Allowed(s) /\ Scans \subseteq PassKind
  BY SMTT(60), FileStoreAssumption DEF Actor, ScansInv
<1>2. UNCHANGED <<catVars, state, tk>>
  BY ZenonT(60) DEF BeginPass, Pass, SweepFile, SweepEnd, Adopt, AdoptCommit, RestoreTree, RestoreClean,
    OutsideStep, OutsideEdit, OutsideCommit
<1>3. TasksInv' /\ Exclusive' /\ CatalogInv'
  BY <1>2 DEF TasksInv, InCrit, CritShape, Exclusive, CatalogInv, catVars
<1>4. ASSUME NEW new \in ScanType, scan' = [scan EXCEPT ![Scanner] = new], Allowed(new) PROVE ScansInv'
  BY <1>1, <1>2, <1>4, ScanChange
<1>5. ASSUME UNCHANGED <<diskVars, ghostVars>> PROVE DiskInv'
  BY <1>5 DEF DiskInv, diskVars, ghostVars
<1>6. tree \in Tree /\ head \in Tree /\ torn \subseteq Path /\ NoFile \in File
      /\ recorded \subseteq Path \X Content
  BY Types DEF DiskInv
<1>7. ASSUME NEW k \in Scans, BeginPass(k) PROVE ShapeInv'
  <2> DEFINE pc == CASE k = "repair" -> IF born THEN "adopt" ELSE "rebuild"
                     [] k = "restore" -> "restore"
                     [] OTHER -> "open"
             new == [NoScan EXCEPT !.kind = k, !.pc = pc, !.base = IF k = "restore" THEN head ELSE EmptyTree]
  <2>1. scan' = [scan EXCEPT ![Scanner] = new] /\ UNCHANGED <<diskVars, ghostVars>>
    BY ZenonT(60), <1>7 DEF BeginPass
  <2>2. /\ pc \in {"adopt", "rebuild", "restore", "open"}
        /\ pc = "adopt" => k = "repair"
        /\ pc = "restore" => k = "restore"
    OBVIOUS
  <2> HIDE DEF pc
  <2>3. new \in ScanType /\ new.pc = pc /\ new.kind = k
    BY <1>1, <1>6, <2>2, Types DEF NoScan, ScanType, ScanPC
  <2> HIDE DEF new
  <2>4. Allowed(new)
    BY <2>2, <2>3 DEF Allowed
  <2> QED BY <1>3, <1>4, <1>5, <2>1, <2>3, <2>4
<1>8. CASE \E p \in Path : SweepFile(p)
  <2>0. PICK p \in Path : SweepFile(p)
    BY <1>8
  <2> DEFINE new == [s EXCEPT !.left = @ \ {p}]
  <2>1. /\ scan' = [scan EXCEPT ![Scanner] = new] /\ s.pc = "sweep"
        /\ tree' = [tree EXCEPT ![p] = NoFile]
        /\ lostfound' = IF tree[p] = NoFile \/ p \in Disposable THEN lostfound
                        ELSE lostfound \cup {<<p, tree[p]>>}
        /\ UNCHANGED <<wal, head, born, recorded, ghostVars>>
    BY <2>0 DEF SweepFile
  <2>2. new \in ScanType /\ Allowed(new)
    BY <1>1 DEF ScanType, Allowed
  <2>3. tree' \in Tree
    BY <1>6, <2>1 DEF Tree
  <2>4. lostfound' \subseteq Path \X Content
    BY <1>6, <2>1 DEF DiskInv, Tree, File
  <2>5. DiskInv'
    BY <2>1, <2>3, <2>4 DEF DiskInv, ghostVars
  <2> HIDE DEF new
  <2> QED BY <1>3, <1>4, <2>1, <2>2, <2>5
<1>9. CASE SweepEnd
  <2>1. scan' = [scan EXCEPT ![Scanner] = NoScan] /\ UNCHANGED <<diskVars, ghostVars>>
    BY <1>9 DEF SweepEnd
  <2> QED BY <1>3, <1>4, <1>5, <2>1, Types DEF Allowed
<1>10. CASE Adopt
  <2> DEFINE adopted == [p \in Path |-> IF head[p] # NoFile THEN tree[p] ELSE NoFile]
             pc == IF adopted = head THEN "rebuild" ELSE "adopted"
             new == [s EXCEPT !.base = adopted, !.past = recorded, !.pc = pc]
  <2>1. scan' = [scan EXCEPT ![Scanner] = new] /\ s.pc = "adopt" /\ UNCHANGED <<diskVars, ghostVars>>
    BY ZenonT(60), <1>10 DEF Adopt
  <2>2. pc \in {"rebuild", "adopted"}
    OBVIOUS
  <2>3. adopted \in Tree
    BY <1>6 DEF Tree
  <2> HIDE DEF pc, adopted
  <2>4. new \in ScanType /\ new.pc = pc /\ new.kind = s.kind
    BY <1>1, <1>6, <2>2, <2>3 DEF ScanType, ScanPC
  <2> HIDE DEF new
  <2>5. Allowed(new)
    BY <1>1, <2>1, <2>2, <2>4 DEF Allowed
  <2> QED BY <1>3, <1>4, <1>5, <2>1, <2>4, <2>5
<1>11. ASSUME s.pc # "off", GotoScan(Scanner, "rebuild") PROVE ScansInv'
  <2> DEFINE new == [s EXCEPT !.pc = "rebuild"]
  <2>1. scan' = [scan EXCEPT ![Scanner] = new]
    BY <1>11 DEF GotoScan
  <2>2. new \in ScanType /\ Allowed(new)
    BY <1>1, <1>11 DEF ScanType, ScanPC, Allowed
  <2> HIDE DEF new
  <2> QED BY <1>4, <2>1, <2>2
<1>12. CASE AdoptCommit
  <2>1. /\ head' = s.base /\ recorded' = s.past \cup Pairs(head') /\ s.pc = "adopted"
        /\ GotoScan(Scanner, "rebuild") /\ UNCHANGED <<tree, wal, born, lostfound, ghostVars>>
    BY <1>12 DEF AdoptCommit
  <2>2. head' \in Tree /\ s.past \subseteq Path \X Content
    BY <1>1, <2>1 DEF ScanType
  <2>3. recorded' \subseteq Path \X Content
    BY <2>1, <2>2, PairsTyped
  <2>4. DiskInv'
    BY <2>1, <2>2, <2>3 DEF DiskInv, ghostVars
  <2> QED BY <1>3, <1>11, <2>1, <2>4
<1>13. CASE RestoreTree
  <2>1. /\ tree' = [p \in Path |-> IF s.base[p] # NoFile THEN s.base[p] ELSE tree[p]]
        /\ torn' = torn \cup {p \in Path : tree'[p] # tree[p]} /\ s.pc = "restore"
        /\ GotoScan(Scanner, "clean") /\ UNCHANGED <<wal, head, born, lostfound, recorded, acked>>
    BY <1>13 DEF RestoreTree
  <2>2. tree' \in Tree
    BY <1>1, <1>6, <2>1 DEF Tree, ScanType
  <2>3. DiskInv'
    BY <2>1, <2>2 DEF DiskInv
  <2> DEFINE new == [s EXCEPT !.pc = "clean"]
  <2>4. scan' = [scan EXCEPT ![Scanner] = new]
    BY <2>1 DEF GotoScan
  <2>5. new \in ScanType /\ Allowed(new)
    BY <1>1, <2>1 DEF ScanType, ScanPC, Allowed
  <2> HIDE DEF new
  <2> QED BY <1>3, <1>4, <2>3, <2>4, <2>5
<1>14. CASE RestoreClean
  <2>1. /\ tree' = [p \in Path |-> IF s.base[p] # NoFile THEN tree[p] ELSE NoFile]
        /\ torn' = torn \cup {p \in Path : tree'[p] # tree[p]} /\ s.pc = "clean"
        /\ GotoScan(Scanner, "rebuild") /\ UNCHANGED <<wal, head, born, lostfound, recorded, acked>>
    BY <1>14 DEF RestoreClean
  <2>2. tree' \in Tree
    BY <1>6, <2>1 DEF Tree
  <2>3. DiskInv'
    BY <2>1, <2>2 DEF DiskInv
  <2> QED BY <1>3, <1>11, <2>1, <2>3
<1>15. CASE OutsideStep
  <2>1. PICK p \in Path, f \in File : OutsideEdit(p, f) \/ OutsideCommit(p, f)
    BY <1>15 DEF OutsideStep
  <2>2. scan' = scan
    BY <2>1 DEF OutsideEdit, OutsideCommit
  <2>3. ScansInv'
    BY <1>2, <2>2 DEF ScansInv, Allowed
  <2>4. [tree EXCEPT ![p] = f] \in Tree /\ [head EXCEPT ![p] = f] \in Tree
    BY <1>6 DEF Tree
  <2>5. CASE OutsideEdit(p, f)
    BY <1>3, <2>3, <2>4, <2>5 DEF OutsideEdit, DiskInv
  <2>6. CASE OutsideCommit(p, f)
    <3>1. head' \in Tree /\ recorded' = recorded \cup Pairs(head')
      BY <2>4, <2>6 DEF OutsideCommit
    <3>2. recorded' \subseteq Path \X Content
      BY <1>6, <3>1, PairsTyped
    <3> QED BY <1>3, <2>3, <2>4, <2>6, <3>1, <3>2 DEF OutsideCommit, DiskInv, ghostVars
  <2> QED BY <2>1, <2>5, <2>6
<1> QED BY <1>7, <1>8, <1>9, <1>10, <1>12, <1>13, <1>14, <1>15 DEF Pass

LEMMA ShapeStep ==
  ASSUME ShapeInv, [Next]_vars PROVE ShapeInv'
BY StepsAre, CoreShape, DriftKeeps, PassKeeps DEF ScanStep

LEMMA ShapeInit ==
  ASSUME Init PROVE ShapeInv
<1>1. TasksInv /\ Exclusive
  BY Types DEF Init, TasksInv, Exclusive, InCrit
<1>2. ScansInv
  BY Types DEF Init, ScansInv, Allowed, Actor
<1>3. DiskInv
  <2>1. wal \in Seq(LogEntry)
    BY DEF Init
  <2> QED BY <2>1, Types DEF Init, DiskInv
<1>4. CatalogInv
  BY Types DEF Init, CatalogInv
<1> QED BY <1>1, <1>2, <1>3, <1>4 DEF ShapeInv

LEMMA Shape == Spec => []ShapeInv
BY ShapeInit, ShapeStep, PTL DEF Spec

----------------------------------------------------------------------------
(* The limit of the log *)

\* Calls past checkWritable that have not appended their entry yet: at most one each,
\* beyond what the log held when the last of them was let in.
Pending == {t \in Task : tk[t].pc = "lock" \/ (InCrit(t) /\ "log" \in ToDo(t))}
RoomInv == Len(wal) + Cardinality(Pending) <= MaxWALEntries - 1 + Cardinality(Task)

LEMMA Sizes ==
  /\ IsFiniteSet(Task) /\ Cardinality(Task) \in Nat /\ MaxWALEntries \in Nat \ {0}
  /\ IsFiniteSet(Pending) /\ Cardinality(Pending) \in Nat /\ Cardinality(Pending) <= Cardinality(Task)
  /\ IsFiniteSet(Pending') /\ Cardinality(Pending') \in Nat /\ Cardinality(Pending') <= Cardinality(Task)
<1>1. IsFiniteSet(Task) /\ MaxWALEntries \in Nat \ {0}
  BY FileStoreAssumption
<1>2. Pending \in SUBSET Task /\ Pending' \in SUBSET Task
  BY DEF Pending
<1>3. \A S \in SUBSET Task : IsFiniteSet(S) /\ Cardinality(S) <= Cardinality(Task)
  BY <1>1, FS_Subset
<1>4. \A S : IsFiniteSet(S) => Cardinality(S) \in Nat
  BY FS_CardinalityType
<1> QED BY <1>1, <1>2, <1>3, <1>4

LEMMA RoomKept ==
  ASSUME RoomInv, wal \in Seq(LogEntry), wal' \in Seq(LogEntry), Len(wal') <= Len(wal), Pending' \subseteq Pending
  PROVE  RoomInv'
<1>1. Cardinality(Pending') <= Cardinality(Pending)
  BY Sizes, FS_Subset
<1>2. Len(wal) \in Nat /\ Len(wal') \in Nat
  OBVIOUS
<1> QED BY <1>1, <1>2, Sizes DEF RoomInv

LEMMA RoomCore ==
  ASSUME ShapeInv, RoomInv, CoreStep PROVE RoomInv'
<1>1. wal \in Seq(LogEntry) /\ wal' \in Seq(LogEntry) /\ Len(wal) \in Nat /\ TasksInv /\ DiskInv
  <2>1. DiskInv' /\ DiskInv /\ TasksInv
    BY CoreShape DEF ShapeInv
  <2> QED BY <2>1 DEF DiskInv
<1>2. ASSUME NEW t \in Task, Starts(t) \/ TaskStep(t) \/ StepFails(t) PROVE RoomInv'
  <2>1. Alone(t) /\ tk' \in [Task -> TaskType] /\ tk \in [Task -> TaskType]
    BY <1>1, <1>2, TaskTyped DEF TasksInv
  <2>2. ASSUME wal' = wal, t \in Pending' => t \in Pending PROVE RoomInv'
    <3>1. Pending' \subseteq Pending
      BY <2>1, <2>2 DEF Alone, Pending, InCrit, ToDo
    <3> QED BY <1>1, <2>2, <3>1, RoomKept
  <2>3. CASE Admit(t)
    <3>1. Len(wal) < MaxWALEntries /\ wal' = wal
      BY <2>3 DEF Admit, HasRoom, diskVars
    <3> QED BY <1>1, <3>1, Sizes DEF RoomInv
  <2>4. CASE Starts(t) \/ Refuse(t) \/ LazyRescan(t)
    <3>1. tk'[t].pc \in {"check", "idle", "rescan"} /\ wal' = wal
      BY <2>1, <2>4, Types DEF Starts, Refuse, LazyRescan, diskVars, TaskType
    <3>2. t \notin Pending'
      BY <3>1 DEF Pending, InCrit
    <3> QED BY <2>2, <3>1, <3>2
  <2>5. CASE Enter(t)
    <3>1. wal' = wal /\ t \in Pending
      BY <2>5 DEF Enter, diskVars, Pending
    <3> QED BY <2>2, <3>1
  <2>6. CASE Return(t) \/ StepFails(t)
    <3>1. wal' = wal /\ tk'[t].pc = "idle"
      BY <1>1, <2>6, EndEffect, Types DEF Return, StepFails, diskVars, Ends
    <3>2. t \notin Pending'
      BY <3>1 DEF Pending, InCrit
    <3> QED BY <2>2, <3>1, <3>2
  <2>7. ASSUME NEW s, Does(t, s) PROVE t \in Pending' => t \in Pending
    BY <1>1, <2>7, DoesTakes DEF Pending, Takes, ToDo, InCrit
  <2>8. CASE Put(t) \/ Remove(t) \/ Own(t) \/ Disown(t)
    <3>1. wal' = wal
      BY <2>8 DEF Put, Remove, Own, Disown, CatalogStep, diskVars
    <3> QED BY <2>2, <2>7, <2>8, <3>1 DEF Put, Remove, Own, Disown, CatalogStep
  <2>9. CASE Log(t)
    <3>1. Takes(t, "log") /\ wal' = Append(wal, Entry(t)) /\ t \in Task
      BY <1>1, <2>9, DoesTakes DEF Log
    <3>2. t \in Pending
      BY <3>1 DEF Takes, Pending
    <3>3. Pending' \in SUBSET (Pending \ {t})
      BY <3>1 DEF Takes, Alone, Pending, InCrit, ToDo
    <3>4. IsFiniteSet(Pending \ {t}) /\ Cardinality(Pending \ {t}) = Cardinality(Pending) - 1
      BY <3>2, Sizes, FS_RemoveElement
    <3>5. Cardinality(Pending') <= Cardinality(Pending) - 1
      BY <3>3, <3>4, FS_Subset
    <3>6. Len(wal') = Len(wal) + 1
      BY <1>1, <3>1
    <3> QED BY <1>1, <3>5, <3>6, Sizes DEF RoomInv
  <2> QED BY <1>2, <2>3, <2>4, <2>5, <2>6, <2>8, <2>9 DEF TaskStep
<1>3. CASE CommitOldest
  <2>1. wal # <<>> /\ wal' = Tail(wal) /\ Pending' = Pending
    BY <1>3 DEF CommitOldest, Pending, InCrit, ToDo
  <2>2. Len(wal') <= Len(wal)
    BY <1>1, <2>1
  <2> QED BY <1>1, <2>1, <2>2, RoomKept
<1>4. CASE Restart
  <2>1. wal' = <<>> /\ Pending' = {}
    BY <1>4, Types DEF Restart, Pending, InCrit
  <2>2. Len(wal') <= Len(wal)
    BY <1>1, <2>1
  <2> QED BY <1>1, <2>1, <2>2, RoomKept
<1>5. CASE Rests
  BY SMTT(60), <1>1, <1>5, RoomKept DEF Rests, Pending, InCrit, ToDo, diskVars
<1> QED BY <1>2, <1>3, <1>4, <1>5 DEF CoreStep

LEMMA DriftTasks ==
  ASSUME NEW a \in Actor, DetectDrift(a)
  PROVE  tk' = tk \/ (a \in Task /\ tk' = [tk EXCEPT ![a].pc = "recheck"])
BY ZenonT(60) DEF DetectDrift, HandleClosed, VerifyInvariant, VerifyFile, VerifyEnd, Rebuild, RebuildFile, Register,
  Walk, Verdict, Judged

LEMMA RoomScan ==
  ASSUME ShapeInv, RoomInv, ScanStep PROVE RoomInv'
<1>1. wal' = wal /\ wal \in Seq(LogEntry)
  <2>1. ASSUME NEW a \in Actor, DetectDrift(a) PROVE wal' = wal
    BY SMTT(60), <2>1, DriftKeeps DEF Quiet, diskVars
  <2>2. ASSUME (\E k \in Scans : BeginPass(k)) \/ Pass \/ OutsideStep PROVE wal' = wal
    BY ZenonT(60), <2>2 DEF BeginPass, Pass, SweepFile, SweepEnd, Adopt, AdoptCommit, RestoreTree, RestoreClean,
      OutsideStep, OutsideEdit, OutsideCommit, diskVars
  <2>3. wal \in Seq(LogEntry)
    BY DEF ShapeInv, DiskInv
  <2> QED BY <2>1, <2>2, <2>3 DEF ScanStep
<1>2. Pending' \subseteq Pending
  <2>1. ASSUME NEW a \in Actor, DetectDrift(a) PROVE Pending' \subseteq Pending
    <3>1. tk \in [Task -> TaskType]
      BY DEF ShapeInv, TasksInv
    <3>2. \A t \in Task : tk'[t] = tk[t] \/ tk'[t].pc = "recheck"
      BY SMTT(60), <2>1, <3>1, DriftTasks DEF TaskType
    <3> QED BY <3>2 DEF Pending, InCrit, ToDo
  <2>2. CASE (\E k \in Scans : BeginPass(k)) \/ Pass \/ OutsideStep
    BY ZenonT(60), <2>2 DEF BeginPass, Pass, SweepFile, SweepEnd, Adopt, AdoptCommit, RestoreTree, RestoreClean,
      OutsideStep, OutsideEdit, OutsideCommit, Pending, InCrit, ToDo
  <2> QED BY <2>1, <2>2 DEF ScanStep
<1>3. Len(wal') <= Len(wal)
  BY <1>1
<1> QED BY <1>1, <1>2, <1>3, RoomKept

CountsInv == calls \in 0..MaxCalls /\ faults \in 0..MaxFaults /\ crashes \in 0..MaxCrashes

\* What a step does to the bounds of the model.
Counted ==
  /\ calls' = calls \/ (calls < MaxCalls /\ calls' = calls + 1)
  /\ crashes' = crashes \/ (crashes < MaxCrashes /\ crashes' = crashes + 1)
  /\ faults' = faults \/ Fault

LEMMA StepCounts ==
  ASSUME [Next]_vars PROVE Counted
<1>1. ASSUME NEW t \in Task, (\E c \in Call : Begin(t, c)) \/ TaskStep(t) \/ StepFails(t) PROVE Counted
  BY SMTT(60), <1>1 DEF Counted, Begin, TaskStep, Admit, Refuse, LazyRescan, Enter, Put, Remove, Log, Own, Disown,
    CatalogStep, Return, StepFails, countVars
<1>2. ASSUME NEW a \in Actor, DetectDrift(a) PROVE Counted
  <2>1. CASE HandleClosed(a) \/ VerifyInvariant(a) \/ \E p \in Path : VerifyFile(a, p)
    BY <2>1 DEF Counted, HandleClosed, VerifyInvariant, VerifyFile, countVars
  <2>2. CASE VerifyEnd(a)
    <3>1. UNCHANGED <<diskVars, catVars, state, tk, ghostVars, countVars>>
      BY <2>2, Zenon DEF VerifyEnd
    <3> HIDE <2>2
    <3>2. calls' = calls /\ faults' = faults /\ crashes' = crashes
      BY <3>1 DEF countVars
    <3> QED BY <3>2 DEF Counted
  <2>3. CASE Rebuild(a)
    BY <2>3, Zenon DEF Counted, Rebuild, countVars
  <2>4. CASE (\E p \in Path : RebuildFile(a, p)) \/ Register(a) \/ Walk(a)
    BY ZenonT(60), <2>4 DEF Counted, RebuildFile, Register, Walk, countVars
  <2>5. CASE Verdict(a)
    BY <2>5 DEF Counted, Verdict, countVars
  <2> QED BY <1>2, <2>1, <2>2, <2>3, <2>4, <2>5 DEF DetectDrift
<1>3. CASE (\E k \in Scans : BeginPass(k)) \/ Pass \/ OutsideStep
  BY ZenonT(60), <1>3 DEF Counted, BeginPass, Pass, SweepFile, SweepEnd, Adopt, AdoptCommit, RestoreTree,
    RestoreClean, OutsideStep, OutsideEdit, OutsideCommit, countVars
<1>4. CASE CommitOldest \/ Restart \/ UNCHANGED vars
  BY <1>4 DEF Counted, CommitOldest, Restart, vars, countVars
<1> QED BY <1>1, <1>2, <1>3, <1>4 DEF Next, OutsideStep

LEMMA CountsStep ==
  ASSUME CountsInv, [Next]_vars PROVE CountsInv'
<1>1. MaxCalls \in Nat /\ MaxFaults \in Nat /\ MaxCrashes \in Nat
  BY FileStoreAssumption
<1>2. Counted
  BY StepCounts
<1>3. Fault => faults < MaxFaults /\ faults' = faults + 1
  BY <1>1 DEF Fault, CountsInv
<1> QED BY <1>1, <1>2, <1>3 DEF CountsInv, Counted

\* A task has a call its handler was given.
CalledInv == \A t \in Task : tk[t].call \in Call \cup {NoCall}

LEMMA CalledStep ==
  ASSUME ShapeInv, CalledInv, [Next]_vars PROVE CalledInv'
<1>1. tk \in [Task -> TaskType] /\ TasksInv /\ DiskInv /\ Idle.call = NoCall
  BY DEF ShapeInv, TasksInv, Idle
<1>2. ASSUME NEW t \in Task, Alone(t), tk'[t].call \in {tk[t].call, NoCall} \cup Call PROVE CalledInv'
  BY <1>2 DEF Alone, CalledInv
<1>3. ASSUME NEW t \in Task, NEW c \in Call, Begin(t, c) PROVE CalledInv'
  BY <1>1, <1>3 DEF Begin, Called, CalledInv, Idle
<1>4. ASSUME NEW t \in Task, TaskStep(t) \/ StepFails(t) PROVE CalledInv'
  <2>1. Alone(t)
    BY <1>1, <1>4, TaskTyped
  <2>2. tk'[t].call \in {tk[t].call, NoCall}
    <3>1. ASSUME NEW s, Does(t, s) PROVE tk'[t].call = tk[t].call
      BY <1>1, <3>1, DoesTakes DEF Takes
    <3>2. CASE Put(t) \/ Remove(t) \/ Log(t) \/ Own(t) \/ Disown(t)
      BY <3>1, <3>2 DEF Put, Remove, Log, Own, Disown, CatalogStep
    <3>3. CASE Admit(t) \/ Refuse(t) \/ LazyRescan(t)
      BY <1>1, <3>3 DEF Admit, Refuse, LazyRescan, TaskType
    <3>4. CASE Enter(t)
      BY <1>1, <3>4 DEF Enter, TaskType
    <3>5. CASE Return(t) \/ StepFails(t)
      BY <1>1, <3>5 DEF Return, StepFails
    <3> QED BY <1>4, <3>2, <3>3, <3>4, <3>5 DEF TaskStep
  <2> QED BY <1>2, <2>1, <2>2
<1>5. ASSUME NEW a \in Actor, DetectDrift(a) PROVE CalledInv'
  <2>1. ASSUME NEW t \in Task PROVE tk'[t].call = tk[t].call
    <3>1. tk'[t] = tk[t] \/ tk'[t] = [tk[t] EXCEPT !.pc = "recheck"]
      BY <1>1, <1>5, DriftTasks
    <3>2. tk[t] \in TaskType
      BY SMTT(60), <1>1
    <3> QED BY <3>1, <3>2 DEF TaskType
  <2> QED BY <2>1 DEF CalledInv
<1>6. ASSUME (\E k \in Scans : BeginPass(k)) \/ Pass \/ OutsideStep \/ CommitOldest \/ UNCHANGED vars
      PROVE  CalledInv'
  BY ZenonT(60), <1>6 DEF BeginPass, Pass, SweepFile, SweepEnd, Adopt, AdoptCommit, RestoreTree, RestoreClean,
      OutsideStep, OutsideEdit, OutsideCommit, CommitOldest, vars, CalledInv
<1>7. CASE Restart
  BY <1>1, <1>7 DEF Restart, CalledInv
<1> QED BY <1>3, <1>4, <1>5, <1>6, <1>7 DEF Next, OutsideStep

LEMMA InvsInit ==
  ASSUME Init PROVE ShapeInv /\ RoomInv /\ CountsInv /\ CalledInv
<1>1. ShapeInv
  BY ShapeInit
<1>2. Pending = {} /\ Len(wal) = 0
  BY Types DEF Init, Pending, InCrit
<1>3. RoomInv
  BY <1>2, Sizes, FS_EmptySet DEF RoomInv
<1>4. CountsInv
  BY FileStoreAssumption DEF Init, CountsInv
<1>5. CalledInv
  BY DEF Init, CalledInv, Idle
<1> QED BY <1>1, <1>3, <1>4, <1>5

LEMMA InvsAreTypes ==
  ASSUME ShapeInv, RoomInv, CountsInv, CalledInv PROVE TypeOK
<1>1. wal \in Seq([op : {"write", "delete", "move"}, path : Path, from : Path, content : File])
  <2>1. wal \in Seq(LogEntry)
    BY DEF ShapeInv, DiskInv
  <2>2. LogEntry \subseteq [op : {"write", "delete", "move"}, path : Path, from : Path, content : File]
    BY DEF LogEntry
  <2>3. \A S : LogEntry \subseteq S => wal \in Seq(S)
    BY <2>1
  <2> QED BY <2>2, <2>3
<1>2. \A t \in Task :
        /\ tk[t].pc \in TaskPC /\ tk[t].call \in Call \cup {NoCall}
        /\ tk[t].todo \in Seq(Step) /\ tk[t].cur \in File /\ tk[t].new \in File
  BY DEF ShapeInv, TasksInv, TaskType, CalledInv
<1>3. \A a \in Actor :
        /\ scan[a].pc \in ScanPC /\ scan[a].kind \in PassKind
        /\ scan[a].base \in Tree /\ scan[a].left \subseteq Path /\ scan[a].bad \subseteq Path
        /\ scan[a].stale \in BOOLEAN /\ scan[a].past \subseteq Path \X Content
  BY DEF ShapeInv, ScansInv, ScanType
<1>4. Len(wal) <= MaxWALEntries - 1 + Cardinality(Task)
  <2>1. Len(wal) \in Nat
    BY <1>1
  <2> QED BY <2>1, Sizes DEF RoomInv
<1>5. /\ tree \in Tree /\ catalog \in Tree /\ head \in Tree /\ acked \in Tree
      /\ registered \in BOOLEAN /\ born \in BOOLEAN
      /\ state \in {"healthy", "corrupted", "dangerous"}
      /\ lostfound \subseteq Path \X Content /\ recorded \subseteq Path \X Content
      /\ torn \subseteq Path
  BY DEF ShapeInv, DiskInv, CatalogInv
<1> QED BY <1>1, <1>2, <1>3, <1>4, <1>5 DEF TypeOK, CountsInv

\* Invariants of Spec: what the write path, the passes, the recovery calls and a restart
\* keep in the variables; the log is never longer than its limit lets calls already past
\* checkWritable make it.
THEOREM FileStoreTypeCorrect == Spec => []TypeOK
<1> DEFINE Inv == ShapeInv /\ RoomInv /\ CountsInv /\ CalledInv
<1>1. Init => Inv
  BY InvsInit
<1>2. Inv /\ [Next]_vars => Inv'
  BY StepsAre, ShapeStep, RoomCore, RoomScan, CountsStep, CalledStep
<1>3. Inv => TypeOK
  BY InvsAreTypes
<1> QED BY <1>1, <1>2, <1>3, PTL DEF Spec

----------------------------------------------------------------------------
(* What was acknowledged is recorded *)

LEMMA PlanSteps ==
  ASSUME NEW op \in CallOp
  PROVE  /\ op \in {"write", "append"} => Elements(Plan(op)) = {"put", "log", "own"}
         /\ op = "delete" => Elements(Plan(op)) = {"disown", "log", "remove"}
         /\ op = "move" => Elements(Plan(op)) = {"put", "remove", "disown", "own", "log"}
<1>1. CASE op \in {"write", "append"}
  BY <1>1, Lists DEF Plan
<1>2. CASE op = "delete"
  BY <1>2, Lists DEF Plan
<1>3. CASE op = "move"
  BY <1>3, Lists DEF Plan
<1> QED BY <1>1, <1>2, <1>3 DEF CallOp

\* What a task in its critical section is.
LEMMA InCritFacts ==
  ASSUME TasksInv, NEW t \in Task, InCrit(t)
  PROVE  /\ tk[t].call \in CallType /\ tk[t].call.op \in CallOp /\ tk[t].call.path \in Path
         /\ tk[t].call.from \in Path /\ (tk[t].call.op = "move" => tk[t].call.path # tk[t].call.from)
         /\ tk[t].new \in File /\ (tk[t].call.op = "delete" <=> tk[t].new = NoFile)
         /\ ToDo(t) \in Stages(tk[t].call.op)
         /\ tk[t].todo = <<>> => ToDo(t) = {}
<1>1. tk[t] \in TaskType /\ tk[t].call \in CallType /\ CritShape(t)
  BY DEF TasksInv, InCrit
<1>2. tk[t].call.op \in CallOp
  BY <1>1 DEF CallType
<1>3. ToDo(t) \in Stages(tk[t].call.op)
  BY <1>1, <1>2, RestStages DEF ToDo, CritShape
<1>4. tk[t].todo = <<>> => ToDo(t) = {}
  BY Lists DEF ToDo
<1> QED BY <1>1, <1>2, <1>3, <1>4 DEF CallType, TaskType, CritShape

\* An acknowledged content, and that of a call past its append, is in HEAD's history or
\* in the log.
Recorded(p, f) == f # NoFile => <<p, f>> \in recorded \cup Logged
RecInv ==
  /\ \A p \in Path : Recorded(p, acked[p])
  /\ \A t \in Task : InCrit(t) /\ "log" \notin ToDo(t) => Recorded(tk[t].call.path, tk[t].new)

\* A step that forgets nothing, acknowledges nothing and completes no append.
LEMMA RecKept ==
  ASSUME RecInv, recorded \cup Logged \subseteq recorded' \cup Logged', acked' = acked,
         \A t \in Task : InCrit(t)' => \/ "log" \in ToDo(t)'
                                       \/ /\ InCrit(t) /\ "log" \notin ToDo(t)
                                          /\ tk'[t].call = tk[t].call /\ tk'[t].new = tk[t].new
  PROVE  RecInv'
<1>1. \A p, f : Recorded(p, f) => Recorded(p, f)'
  BY DEF Recorded
<1>2. \A p \in Path : Recorded(p, acked[p])'
  BY <1>1 DEF RecInv, Recorded
<1>3. \A t \in Task : InCrit(t)' /\ "log" \notin ToDo(t)' => Recorded(tk[t].call.path, tk[t].new)'
  BY <1>1 DEF RecInv, Recorded
<1> QED BY <1>2, <1>3 DEF RecInv

LEMMA RecQuiet ==
  ASSUME RecInv, Quiet PROVE RecInv'
<1>1. recorded \cup Logged \subseteq recorded' \cup Logged' /\ acked' = acked
  BY DEF Quiet, diskVars, ghostVars, Logged
<1>2. \A t \in Task : InCrit(t)' => InCrit(t) /\ tk'[t] = tk[t]
  BY DEF Quiet, InCrit
<1>3. \A t \in Task : InCrit(t)' => \/ "log" \in ToDo(t)'
                                    \/ /\ InCrit(t) /\ "log" \notin ToDo(t)
                                       /\ tk'[t].call = tk[t].call /\ tk'[t].new = tk[t].new
  BY <1>2 DEF ToDo
<1> QED BY <1>1, <1>3, RecKept

LEMMA RecCore ==
  ASSUME ShapeInv, RecInv, CoreStep PROVE RecInv'
<1>1. TasksInv /\ DiskInv /\ wal \in Seq(LogEntry)
  BY DEF ShapeInv, DiskInv
<1>2. ASSUME UNCHANGED <<wal, recorded>> PROVE recorded \cup Logged \subseteq recorded' \cup Logged'
  BY <1>2 DEF Logged
<1>3. ASSUME NEW t \in Task, Starts(t) \/ TaskStep(t) \/ StepFails(t) PROVE RecInv'
  <2>1. CASE Enters(t)
    <3>1. UNCHANGED <<wal, recorded, acked>>
      BY <2>1 DEF Enters, diskVars, ghostVars
    <3>2. "log" \in ToDo(t)'
      <4>1. tk'[t].todo = Plan(tk[t].call.op) /\ tk[t].call.op \in CallOp
        BY <2>1 DEF Enters, CallType
      <4> QED BY <4>1, PlanSteps DEF ToDo, CallOp
    <3>3. \A u \in Task : u # t => tk'[u] = tk[u]
      BY <2>1 DEF Enters, Alone
    <3>4. \A u \in Task : InCrit(u)' => \/ "log" \in ToDo(u)'
                                        \/ /\ InCrit(u) /\ "log" \notin ToDo(u)
                                           /\ tk'[u].call = tk[u].call /\ tk'[u].new = tk[u].new
      BY <3>2, <3>3 DEF ToDo, InCrit
    <3> QED BY <1>2, <3>1, <3>4, RecKept
  <2>2. ASSUME NEW s \in Step, Takes(t, s)
        PROVE  \A u \in Task : InCrit(u)' => \/ "log" \in ToDo(u)'
                                             \/ /\ InCrit(u) /\ ("log" \notin ToDo(u) \/ (u = t /\ s = "log"))
                                                /\ tk'[u].call = tk[u].call /\ tk'[u].new = tk[u].new
    BY <2>2 DEF Takes, Alone, ToDo, InCrit
  <2>3. CASE \E s \in {"put", "remove", "own", "disown"} :
               Takes(t, s) /\ UNCHANGED <<wal, recorded, acked>>
    <3>1. PICK s \in {"put", "remove", "own", "disown"} : Takes(t, s) /\ UNCHANGED <<wal, recorded, acked>>
      BY <2>3
    <3>2. s \in Step /\ s # "log"
      BY DEF Step
    <3> QED BY <1>2, <2>2, <3>1, <3>2, RecKept
  <2>4. CASE Log(t) /\ Takes(t, "log")
    <3>1. wal' = Append(wal, Entry(t)) /\ recorded' = recorded /\ acked' = acked /\ InCrit(t)
      BY <2>4 DEF Log, ghostVars, Takes, Does
    <3>2. /\ Entry(t) \in LogEntry /\ Entry(t).path = tk[t].call.path /\ Entry(t).content = tk[t].new
          /\ Entry(t).op = "delete" => tk[t].call.op = "delete"
      BY <1>1, <3>1, EntryIs
    <3>3. Logged \subseteq Logged' /\ (Entry(t).op # "delete" => <<Entry(t).path, Entry(t).content>> \in Logged')
      BY <1>1, <3>1, <3>2, LoggedAppend
    <3>4. tk[t].new # NoFile => <<tk[t].call.path, tk[t].new>> \in Logged'
      BY <1>1, <3>1, <3>2, <3>3, InCritFacts
    <3>5. \A p, f : Recorded(p, f) => Recorded(p, f)'
      BY <3>1, <3>3 DEF Recorded
    <3>6. \A p \in Path : Recorded(p, acked[p])'
      BY <3>1, <3>5 DEF RecInv, Recorded
    <3>7. ASSUME NEW u \in Task, InCrit(u)', "log" \notin ToDo(u)'
          PROVE  Recorded(tk[u].call.path, tk[u].new)'
      <4>1. tk'[u].call = tk[u].call /\ tk'[u].new = tk[u].new /\ InCrit(u) /\ ("log" \notin ToDo(u) \/ u = t)
        BY <2>2, <2>4, <3>7 DEF Step
      <4>2. CASE u = t
        BY <3>4, <4>1, <4>2 DEF Recorded
      <4>3. CASE u # t
        <5>1. Recorded(tk[u].call.path, tk[u].new)
          BY <4>1, <4>3 DEF RecInv
        <5> QED BY <3>5, <4>1, <5>1 DEF Recorded
      <4> QED BY <4>2, <4>3
    <3> QED BY <3>6, <3>7 DEF RecInv
  <2>5. ASSUME Ends(t)
        PROVE  \A u \in Task : InCrit(u)' => InCrit(u) /\ tk'[u] = tk[u]
    BY <2>5, Types DEF Ends, Alone, InCrit
  <2>6. CASE StepFails(t) /\ Ends(t)
    <3>1. UNCHANGED <<wal, recorded, acked>>
      BY <2>6 DEF StepFails, diskVars
    <3>2. \A u \in Task : InCrit(u)' => \/ "log" \in ToDo(u)'
                                        \/ /\ InCrit(u) /\ "log" \notin ToDo(u)
                                           /\ tk'[u].call = tk[u].call /\ tk'[u].new = tk[u].new
      BY <2>5, <2>6 DEF ToDo
    <3> QED BY <1>2, <3>1, <3>2, RecKept
  <2>7. CASE Return(t) /\ Ends(t)
    <3>1. wal' = wal /\ recorded' = recorded /\ acked' = Apply(acked, Entry(t)) /\ InCrit(t) /\ tk[t].todo = <<>>
      BY <2>7 DEF Return, diskVars
    <3>2. \A p \in Path : acked'[p] = IF p \in Paths(tk[t].call) THEN Leaves(t, p) ELSE acked[p]
      BY <1>1, <3>1, EntryIs DEF DiskInv
    <3>3. \A p, f : Recorded(p, f) => Recorded(p, f)'
      BY <3>1 DEF Recorded, Logged
    <3>4. Recorded(tk[t].call.path, tk[t].new)
      BY <1>1, <3>1, InCritFacts DEF RecInv
    <3>5. ASSUME NEW p \in Path PROVE Recorded(p, acked[p])'
      <4>1. Recorded(p, acked'[p])
        BY <3>2, <3>4 DEF Leaves, RecInv, Recorded
      <4> QED BY <3>1, <4>1 DEF Recorded, Logged
    <3>6. ASSUME NEW u \in Task, InCrit(u)', "log" \notin ToDo(u)' PROVE Recorded(tk[u].call.path, tk[u].new)'
      <4>1. Recorded(tk[u].call.path, tk[u].new) /\ tk'[u] = tk[u]
        BY <2>5, <2>7, <3>6 DEF RecInv, ToDo
      <4> QED BY <3>3, <4>1 DEF Recorded
    <3> QED BY <3>5, <3>6 DEF RecInv
  <2>8. /\ (Put(t) \/ Remove(t) \/ Own(t) \/ Disown(t)) => UNCHANGED <<wal, recorded, acked>>
    BY DEF Put, Remove, Own, Disown, CatalogStep, diskVars, ghostVars
  <2> QED BY <1>1, <1>3, <2>1, <2>3, <2>4, <2>6, <2>7, <2>8, TaskEffects, RecQuiet
<1>4. CASE CommitOldest
  <2>1. recorded \cup Logged \subseteq recorded' \cup Logged'
    BY <1>1, <1>4, LoggedTail DEF DiskInv
  <2> QED BY <1>4, <2>1, RecKept DEF CommitOldest, ghostVars, InCrit, ToDo
<1>5. CASE Restart
  <2>1. recorded \cup Logged \subseteq recorded' /\ \A t \in Task : ~InCrit(t)'
    BY <1>5, Types DEF Restart, InCrit
  <2>2. ASSUME NEW p \in Path PROVE Recorded(p, acked'[p])
    <3>1. CASE \E t \in Task : Whole(t) /\ p \in Paths(tk[t].call)
      <4> DEFINE u == CHOOSE t \in Task : Whole(t) /\ p \in Paths(tk[t].call)
      <4>1. u \in Task /\ Whole(u)
        BY <3>1
      <4>2. acked'[p] = Leaves(u, p)
        BY <1>5, <3>1 DEF Restart
      <4> HIDE DEF u
      <4>3. InCrit(u) /\ "log" \notin ToDo(u)
        BY <4>1 DEF Whole, ToTouch, Touches, ToDo
      <4>4. Recorded(tk[u].call.path, tk[u].new)
        BY <4>1, <4>3 DEF RecInv
      <4> QED BY <4>2, <4>4 DEF Leaves, Recorded
    <3>2. CASE ~ \E t \in Task : Whole(t) /\ p \in Paths(tk[t].call)
      BY <1>5, <3>2 DEF Restart, RecInv
    <3> QED BY <3>1, <3>2
  <2>3. \A p \in Path : Recorded(p, acked[p])'
    BY <2>1, <2>2 DEF Recorded
  <2> QED BY <2>1, <2>3 DEF RecInv
<1>6. CASE Rests
  BY <1>6, RecQuiet DEF Rests, Quiet, InCrit
<1> QED BY <1>3, <1>4, <1>5, <1>6 DEF CoreStep

LEMMA RecScan ==
  ASSUME ShapeInv, RecInv, ScanStep, "repair" \notin Scans PROVE RecInv'
<1>1. ASSUME NEW a \in Actor, DetectDrift(a) PROVE RecInv'
  BY <1>1, DriftKeeps, RecQuiet
<1>2. ASSUME (\E k \in Scans : BeginPass(k)) \/ Pass \/ OutsideStep PROVE RecInv'
  <2>1. ~AdoptCommit
    BY SMTT(60) DEF AdoptCommit, ShapeInv, ScansInv, Allowed
  <2>2. tk' = tk /\ acked' = acked /\ wal' = wal /\ recorded \subseteq recorded'
    BY ZenonT(60), <1>2, <2>1 DEF BeginPass, Pass, SweepFile, SweepEnd, Adopt, RestoreTree, RestoreClean,
      OutsideStep, OutsideEdit, OutsideCommit, diskVars, ghostVars
  <2>3. recorded \cup Logged \subseteq recorded' \cup Logged'
    BY <2>2 DEF Logged
  <2> QED BY <2>2, <2>3, RecKept DEF InCrit, ToDo
<1> QED BY <1>1, <1>2 DEF ScanStep

LEMMA RecInit ==
  ASSUME Init PROVE RecInv
BY Types DEF Init, RecInv, Recorded, EmptyTree, InCrit

LEMMA RecIsAcked ==
  ASSUME RecInv PROVE AckedRecoverable
BY DEF RecInv, Recorded, AckedRecoverable, Pairs

\* Without a repair, which replaces HEAD, what writeTransformed, deleteFile and Move
\* acknowledged stays in HEAD's history or in the log: whatever fails, crashes, is swept,
\* restored, rebuilt or changed from outside.
THEOREM AckedStaysRecorded ==
  ASSUME "repair" \notin Scans
  PROVE  Spec => []AckedRecoverable
<1>1. Init => ShapeInv /\ RecInv
  BY ShapeInit, RecInit
<1>2. ShapeInv /\ RecInv /\ [Next]_vars => (ShapeInv /\ RecInv)'
  BY StepsAre, ShapeStep, RecCore, RecScan
<1>3. RecInv => AckedRecoverable
  BY RecIsAcked
<1> QED BY <1>1, <1>2, <1>3, PTL DEF Spec

----------------------------------------------------------------------------
(* What was acknowledged is somewhere, even after a repair *)

\* The paths of a call that it has already written or removed.
Touched(t) ==
  {p \in Path : /\ InCrit(t)
                /\ \/ p = tk[t].call.path /\ tk[t].call.op # "delete" /\ "put" \notin ToDo(t)
                   \/ /\ p = Victim(tk[t].call) /\ tk[t].call.op \in {"delete", "move"}
                      /\ "remove" \notin ToDo(t)}
Kept(p, f) == f = NoFile \/ p \in torn \/ tree[p] = f \/ <<p, f>> \in lostfound
\* An acknowledged content is in the tree or was moved to lost+found, unless a later call
\* has replaced it; so is what a call has written.
KeptInv ==
  /\ \A p \in Path : (\E t \in Task : p \in Touched(t)) \/ Kept(p, acked[p])
  /\ \A t \in Task : InCrit(t) /\ "put" \notin ToDo(t) => Kept(tk[t].call.path, tk[t].new)

LEMMA KeptStays ==
  ASSUME KeptInv, acked' = acked, \A p, f : Kept(p, f) => Kept(p, f)',
         \A t \in Task : Touched(t) \subseteq Touched(t)' \cup torn',
         \A t \in Task : InCrit(t)' => \/ "put" \in ToDo(t)'
                                       \/ /\ InCrit(t) /\ "put" \notin ToDo(t)
                                          /\ tk'[t].call = tk[t].call /\ tk'[t].new = tk[t].new
  PROVE  KeptInv'
<1>1. ASSUME NEW p \in Path PROVE (\E t \in Task : p \in Touched(t)') \/ Kept(p, acked[p])'
  <2>1. CASE \E t \in Task : p \in Touched(t)
    <3>1. (\E t \in Task : p \in Touched(t)') \/ p \in torn'
      BY <2>1
    <3> QED BY <3>1 DEF Kept
  <2>2. CASE Kept(p, acked[p])
    <3> DEFINE f == acked[p]
    <3>1. Kept(p, f) /\ acked'[p] = f
      BY <2>2
    <3> HIDE DEF f
    <3>2. f = NoFile \/ p \in torn' \/ tree'[p] = f \/ <<p, f>> \in lostfound'
      BY <3>1 DEF Kept
    <3> QED BY <3>1, <3>2 DEF Kept
  <2> QED BY <2>1, <2>2 DEF KeptInv
<1>2. ASSUME NEW t \in Task, InCrit(t)', "put" \notin ToDo(t)'
      PROVE  Kept(tk[t].call.path, tk[t].new)'
  <2>1. Kept(tk[t].call.path, tk[t].new) /\ tk'[t].call = tk[t].call /\ tk'[t].new = tk[t].new
    BY <1>2 DEF KeptInv
  <2> DEFINE p == tk[t].call.path  f == tk[t].new
  <2>2. Kept(p, f) /\ tk'[t].call.path = p /\ tk'[t].new = f
    BY <2>1
  <2> HIDE DEF p, f
  <2>3. f = NoFile \/ p \in torn' \/ tree'[p] = f \/ <<p, f>> \in lostfound'
    BY <2>2 DEF Kept
  <2> QED BY <2>2, <2>3 DEF Kept
<1> QED BY <1>1, <1>2 DEF KeptInv

LEMMA KeptQuiet ==
  ASSUME KeptInv, Quiet PROVE KeptInv'
<1>1. tree' = tree /\ lostfound' = lostfound /\ acked' = acked /\ torn' = torn
  BY DEF Quiet, diskVars, ghostVars
<1>2. \A p, f : Kept(p, f) => Kept(p, f)'
  BY <1>1 DEF Kept
<1>3. \A t \in Task : IF InCrit(t) THEN tk'[t] = tk[t] ELSE ~InCrit(t)'
  BY DEF Quiet, InCrit
<1>4. \A t \in Task : Touched(t) \subseteq Touched(t)' \cup torn'
  BY <1>3 DEF Touched, InCrit, ToDo
<1>5. \A t \in Task : InCrit(t)' => \/ "put" \in ToDo(t)'
                                    \/ /\ InCrit(t) /\ "put" \notin ToDo(t)
                                       /\ tk'[t].call = tk[t].call /\ tk'[t].new = tk[t].new
  BY <1>3 DEF ToDo
<1> QED BY <1>1, <1>2, <1>4, <1>5, KeptStays

\* Taking a step of the plan never untouches a path.
LEMMA TakesTouched ==
  ASSUME NEW t \in Task, NEW s, Takes(t, s)
  PROVE  /\ \A u \in Task : Touched(u) \subseteq Touched(u)'
         /\ \A u \in Task : InCrit(u)' =>
              /\ InCrit(u) /\ tk'[u].call = tk[u].call /\ tk'[u].new = tk[u].new
              /\ u # t => ToDo(u)' = ToDo(u)
         /\ ToDo(t)' = ToDo(t) \ {s}
<1>1. \A u \in Task : u # t => tk'[u] = tk[u]
  BY DEF Takes, Alone
<1>2. ToDo(t)' = ToDo(t) \ {s} /\ InCrit(t) /\ InCrit(t)' /\ tk'[t].call = tk[t].call /\ tk'[t].new = tk[t].new
  BY DEF Takes, ToDo, InCrit
<1>3. \A u \in Task : u # t => ToDo(u)' = ToDo(u) /\ (InCrit(u)' <=> InCrit(u))
  BY <1>1 DEF ToDo, InCrit
<1>4. \A u \in Task : Touched(u) \subseteq Touched(u)'
  BY <1>1, <1>2, <1>3 DEF Touched
<1> QED BY <1>1, <1>2, <1>3, <1>4

\* A call that has touched a path and has more to do is cut in half by a failure.
LEMMA TouchedHalf ==
  ASSUME TasksInv, NEW t \in Task, InCrit(t), NEW p \in Touched(t), ToTouch(t) # {}
  PROVE  Half(t)
<1>1. tk[t].call.op \in CallOp
  BY InCritFacts
<1>2. \/ tk[t].call.op # "delete" /\ "put" \notin ToDo(t)
      \/ tk[t].call.op \in {"delete", "move"} /\ "remove" \notin ToDo(t)
  BY DEF Touched
<1>3. (Elements(Plan(tk[t].call.op)) \ ToDo(t)) \cap Touches # {}
  BY <1>1, <1>2, PlanSteps DEF Touches, CallOp
<1> QED BY <1>3 DEF Half, ToDo

LEMMA KeptCore ==
  ASSUME ShapeInv, KeptInv, CoreStep PROVE KeptInv'
<1>1. TasksInv /\ DiskInv /\ Exclusive /\ tree \in Tree
  BY DEF ShapeInv, DiskInv
<1>2. ASSUME UNCHANGED <<tree, lostfound>>, torn \subseteq torn' PROVE \A p, f : Kept(p, f) => Kept(p, f)'
  BY <1>2 DEF Kept
<1>3. ASSUME NEW t \in Task, Starts(t) \/ TaskStep(t) \/ StepFails(t) PROVE KeptInv'
  <2>1. CASE Enters(t)
    <3>1. UNCHANGED <<tree, lostfound, acked, torn>>
      BY <2>1 DEF Enters, diskVars, ghostVars
    <3>2. \A u \in Task : u # t => tk'[u] = tk[u]
      BY <2>1 DEF Enters, Alone
    <3>3. ~InCrit(t) /\ tk'[t].call = tk[t].call /\ tk'[t].todo = Plan(tk[t].call.op) /\ tk[t].call.op \in CallOp
          /\ tk'[t].new = NewContent(tk[t].call, tree[tk[t].call.path], tree[tk[t].call.from])
      BY <2>1 DEF Enters, CallType
    <3>4. \A u \in Task : Touched(u) \subseteq Touched(u)' \cup torn'
      BY <3>2, <3>3 DEF Touched, InCrit, ToDo
    <3>5. \A p, f : Kept(p, f) => Kept(p, f)'
      BY <1>2, <3>1
    <3>6. CASE tk[t].call.op # "delete"
      <4>1. "put" \in ToDo(t)'
        BY <3>3, <3>6, PlanSteps DEF ToDo, CallOp
      <4>2. \A u \in Task : InCrit(u)' => \/ "put" \in ToDo(u)'
                                          \/ /\ InCrit(u) /\ "put" \notin ToDo(u)
                                             /\ tk'[u].call = tk[u].call /\ tk'[u].new = tk[u].new
        BY <3>2, <4>1 DEF ToDo, InCrit
      <4> QED BY <3>1, <3>4, <3>5, <4>2, KeptStays
    <3>7. CASE tk[t].call.op = "delete"
      <4>1. tk'[t].new = NoFile
        BY <3>3, <3>7 DEF NewContent
      <4>2. \A u \in Task : InCrit(u)' /\ "put" \notin ToDo(u)' => Kept(tk[u].call.path, tk[u].new)'
        <5> SUFFICES ASSUME NEW u \in Task, InCrit(u)', "put" \notin ToDo(u)'
                     PROVE  Kept(tk[u].call.path, tk[u].new)'
          OBVIOUS
        <5>1. CASE u = t
          BY <4>1, <5>1 DEF Kept
        <5>2. CASE u # t
          <6>1. tk'[u] = tk[u] /\ Kept(tk[u].call.path, tk[u].new)
            BY <3>2, <5>2 DEF KeptInv, InCrit, ToDo
          <6> QED BY <3>1, <6>1 DEF Kept
        <5> QED BY <5>1, <5>2
      <4>3. \A p \in Path : (\E u \in Task : p \in Touched(u)') \/ Kept(p, acked[p])'
        BY <3>1, <3>4 DEF KeptInv, Kept
      <4> QED BY <4>2, <4>3 DEF KeptInv
    <3> QED BY <3>6, <3>7
  <2>2. CASE Put(t) /\ Takes(t, "put")
    <3> DEFINE c == tk[t].call
    <3>1. tree' = [tree EXCEPT ![c.path] = tk[t].new] /\ UNCHANGED <<lostfound, acked, torn>> /\ InCrit(t)
          /\ "put" \in ToDo(t)
      BY <2>2 DEF Put, ghostVars, Takes
    <3>2. c.op \in CallOp /\ c.path \in Path /\ c.op # "delete" /\ tk[t].new \in File
      BY <1>1, <3>1, InCritFacts DEF Stages
    <3>3. /\ \A u \in Task : Touched(u) \subseteq Touched(u)'
          /\ \A u \in Task : InCrit(u)' =>
               /\ InCrit(u) /\ tk'[u].call = tk[u].call /\ tk'[u].new = tk[u].new
               /\ u # t => ToDo(u)' = ToDo(u)
          /\ ToDo(t)' = ToDo(t) \ {"put"} /\ InCrit(t)'
      BY <2>2, TakesTouched DEF Takes, InCrit
    <3>4. c.path \in Touched(t)' /\ tk'[t].call = c /\ tk'[t].new = tk[t].new
      BY <3>2, <3>3 DEF Touched
    <3>5. tree'[c.path] = tk[t].new /\ \A p \in Path : p # c.path => tree'[p] = tree[p]
      BY <1>1, <3>1, <3>2 DEF Tree
    <3>6. \A p \in Path : p # c.path => \A f : Kept(p, f) => Kept(p, f)'
      BY <3>1, <3>5 DEF Kept
    <3>7. ASSUME NEW p \in Path PROVE (\E u \in Task : p \in Touched(u)') \/ Kept(p, acked[p])'
      <4>1. CASE p = c.path
        BY <3>4, <4>1
      <4>2. CASE p # c.path
        BY <3>1, <3>3, <3>5, <4>2 DEF KeptInv, Kept
      <4> QED BY <4>1, <4>2
    <3>8. ASSUME NEW u \in Task, InCrit(u)', "put" \notin ToDo(u)' PROVE Kept(tk[u].call.path, tk[u].new)'
      <4>1. CASE u = t
        BY <3>4, <3>5, <4>1 DEF Kept
      <4>2. CASE u # t
        <5>1. InCrit(u) /\ "put" \notin ToDo(u) /\ tk'[u].call = tk[u].call /\ tk'[u].new = tk[u].new
          BY <3>3, <3>8, <4>2
        <5>2. tk[u].call.path \in Path /\ tk[u].call.path # c.path
          <6>1. tk[u].call.path \in Paths(tk[u].call) /\ c.path \in Paths(c)
            BY DEF Paths
          <6>2. tk[u].call.path \in Path
            BY <1>1, <5>1, InCritFacts
          <6> QED BY <1>1, <3>1, <4>2, <5>1, <6>1, <6>2 DEF Exclusive
        <5>3. Kept(tk[u].call.path, tk[u].new)
          BY <5>1 DEF KeptInv
        <5> QED BY <3>1, <3>5, <5>1, <5>2, <5>3 DEF Kept
      <4> QED BY <4>1, <4>2
    <3> QED BY <3>7, <3>8 DEF KeptInv
  <2>3. CASE Remove(t) /\ Takes(t, "remove")
    <3> DEFINE c == tk[t].call
    <3>1. tree' = [tree EXCEPT ![Victim(c)] = NoFile] /\ UNCHANGED <<lostfound, acked, torn>> /\ InCrit(t)
          /\ "remove" \in ToDo(t)
      BY <2>3 DEF Remove, ghostVars, Takes
    <3>2. /\ c.op \in {"delete", "move"} /\ Victim(c) \in Path /\ Victim(c) \in Paths(c)
          /\ c.op = "delete" => tk[t].new = NoFile
          /\ c.op = "move" => c.path # Victim(c)
      BY <1>1, <3>1, InCritFacts DEF Stages, CallOp, Victim, Paths
    <3>3. /\ \A u \in Task : Touched(u) \subseteq Touched(u)'
          /\ \A u \in Task : InCrit(u)' =>
               /\ InCrit(u) /\ tk'[u].call = tk[u].call /\ tk'[u].new = tk[u].new
               /\ u # t => ToDo(u)' = ToDo(u)
          /\ ToDo(t)' = ToDo(t) \ {"remove"} /\ InCrit(t)'
      BY <2>3, TakesTouched DEF Takes, InCrit
    <3>4. Victim(c) \in Touched(t)'
      BY <3>2, <3>3 DEF Touched
    <3>5. \A p \in Path : p # Victim(c) => tree'[p] = tree[p]
      BY <1>1, <3>1, <3>2 DEF Tree
    <3>6. ASSUME NEW p \in Path PROVE (\E u \in Task : p \in Touched(u)') \/ Kept(p, acked[p])'
      <4>1. CASE p = Victim(c)
        BY <3>4, <4>1
      <4>2. CASE p # Victim(c)
        BY <3>1, <3>3, <3>5, <4>2 DEF KeptInv, Kept
      <4> QED BY <4>1, <4>2
    <3>7. ASSUME NEW u \in Task, InCrit(u)', "put" \notin ToDo(u)' PROVE Kept(tk[u].call.path, tk[u].new)'
      <4>1. InCrit(u) /\ "put" \notin ToDo(u) /\ tk'[u].call = tk[u].call /\ tk'[u].new = tk[u].new
        BY <3>3, <3>7
      <4>2. Kept(tk[u].call.path, tk[u].new) /\ tk[u].call.path \in Path
        BY <1>1, <4>1, InCritFacts DEF KeptInv
      <4>3. CASE tk[u].new = NoFile
        BY <4>1, <4>3 DEF Kept
      <4>4. CASE tk[u].new # NoFile
        <5>1. tk[u].call.path # Victim(c)
          <6>1. CASE u = t
            BY <3>2, <4>4, <6>1
          <6>2. CASE u # t
            <7>1. tk[u].call.path \in Paths(tk[u].call)
              BY DEF Paths
            <7> QED BY <1>1, <3>1, <3>2, <4>1, <6>2, <7>1 DEF Exclusive
          <6> QED BY <6>1, <6>2
        <5> QED BY <3>1, <3>5, <4>1, <4>2, <5>1 DEF Kept
      <4> QED BY <4>3, <4>4
    <3> QED BY <3>6, <3>7 DEF KeptInv
  <2>4. ASSUME NEW s \in {"log", "own", "disown"}, Takes(t, s), UNCHANGED <<tree, lostfound, acked, torn>>
        PROVE  KeptInv'
    <3>1. \A p, f : Kept(p, f) => Kept(p, f)'
      BY <1>2, <2>4
    <3>2. /\ \A u \in Task : Touched(u) \subseteq Touched(u)'
          /\ \A u \in Task : InCrit(u)' =>
               /\ InCrit(u) /\ tk'[u].call = tk[u].call /\ tk'[u].new = tk[u].new
               /\ u # t => ToDo(u)' = ToDo(u)
          /\ ToDo(t)' = ToDo(t) \ {s}
      BY <2>4, TakesTouched
    <3>3. \A u \in Task : "put" \notin ToDo(u)' /\ InCrit(u)' => "put" \notin ToDo(u)
      BY <3>2
    <3> QED BY <2>4, <3>1, <3>2, <3>3, KeptStays
  <2>5. CASE Log(t) /\ Takes(t, "log")
    BY <2>4, <2>5 DEF Log, ghostVars
  <2>6. CASE (Own(t) /\ Takes(t, "own")) \/ (Disown(t) /\ Takes(t, "disown"))
    BY <2>4, <2>6 DEF Own, Disown, CatalogStep, diskVars, ghostVars
  <2>7. ASSUME Ends(t)
        PROVE  /\ \A u \in Task : InCrit(u)' => InCrit(u) /\ tk'[u] = tk[u] /\ u # t
               /\ \A u \in Task : u # t => Touched(u) \subseteq Touched(u)'
    BY <2>7, Types DEF Ends, Alone, InCrit, Touched, ToDo
  <2>8. ASSUME InCrit(t) PROVE Touched(t) \subseteq Paths(tk[t].call)
    BY <2>8 DEF Touched, Paths, Victim
  <2>9. CASE Return(t) /\ Ends(t)
    <3> DEFINE c == tk[t].call
    <3>1. /\ UNCHANGED <<tree, lostfound>> /\ acked' = Apply(acked, Entry(t)) /\ InCrit(t)
          /\ torn' = torn \ {p \in Paths(c) : tree[p] = acked'[p]} /\ ToDo(t) = {}
      BY <1>1, <2>9, InCritFacts DEF Return, diskVars
    <3>2. \A p \in Path : acked'[p] = IF p \in Paths(c) THEN Leaves(t, p) ELSE acked[p]
      BY <1>1, <3>1, EntryIs DEF DiskInv
    <3>3. Kept(c.path, tk[t].new)
      BY <3>1 DEF KeptInv
    <3>4. ASSUME NEW p \in Path PROVE (\E u \in Task : p \in Touched(u)') \/ Kept(p, acked[p])'
      <4>1. CASE p \in Paths(c)
        <5>1. Kept(p, Leaves(t, p))
          BY <3>3 DEF Leaves, Kept
        <5> QED BY <3>1, <3>2, <4>1, <5>1 DEF Kept
      <4>2. CASE p \notin Paths(c)
        <5>1. acked'[p] = acked[p] /\ p \notin Touched(t) /\ (p \in torn => p \in torn')
          BY <2>8, <3>1, <3>2, <4>2
        <5>2. (\E u \in Task : p \in Touched(u)') \/ Kept(p, acked[p])
          BY <2>7, <2>9, <5>1 DEF KeptInv
        <5> QED BY <3>1, <5>1, <5>2 DEF Kept
      <4> QED BY <4>1, <4>2
    <3>5. ASSUME NEW u \in Task, InCrit(u)', "put" \notin ToDo(u)' PROVE Kept(tk[u].call.path, tk[u].new)'
      <4>1. InCrit(u) /\ tk'[u] = tk[u] /\ u # t /\ "put" \notin ToDo(u)
        BY <2>7, <2>9, <3>5 DEF ToDo
      <4>2. tk[u].call.path \notin Paths(c)
        <5>1. tk[u].call.path \in Paths(tk[u].call)
          BY DEF Paths
        <5> QED BY <1>1, <3>1, <4>1, <5>1 DEF Exclusive
      <4>3. Kept(tk[u].call.path, tk[u].new)
        BY <4>1 DEF KeptInv
      <4> QED BY <3>1, <4>1, <4>2, <4>3 DEF Kept
    <3> QED BY <3>4, <3>5 DEF KeptInv
  <2>10. CASE StepFails(t) /\ Ends(t)
    <3>1. UNCHANGED <<tree, lostfound, acked>> /\ torn' = torn \cup HalfPaths(t) /\ InCrit(t) /\ ToTouch(t) # {}
      <4>1. InCrit(t) /\ tk[t].todo # <<>> /\ Head(tk[t].todo) \in Touches
        BY <2>10 DEF StepFails, Touches
      <4>2. Head(tk[t].todo) \in Elements(tk[t].todo)
        BY <1>1, <4>1, RestTail DEF TasksInv, CritShape, CallType, InCrit
      <4> QED BY <2>10, <4>1, <4>2 DEF StepFails, diskVars, ToTouch
    <3>2. Touched(t) \subseteq torn'
      BY <1>1, <2>8, <3>1, TouchedHalf DEF HalfPaths
    <3>3. \A u \in Task : Touched(u) \subseteq Touched(u)' \cup torn'
      BY <2>7, <2>10, <3>2
    <3>4. \A p, f : Kept(p, f) => Kept(p, f)'
      BY <1>2, <3>1
    <3>5. \A u \in Task : InCrit(u)' => \/ "put" \in ToDo(u)'
                                        \/ /\ InCrit(u) /\ "put" \notin ToDo(u)
                                           /\ tk'[u].call = tk[u].call /\ tk'[u].new = tk[u].new
      BY <2>7, <2>10 DEF ToDo
    <3> QED BY <3>1, <3>3, <3>4, <3>5, KeptStays
  <2> QED BY <1>1, <1>3, <2>1, <2>2, <2>3, <2>5, <2>6, <2>9, <2>10, TaskEffects, KeptQuiet
<1>4. CASE CommitOldest \/ Rests
  <2>1. UNCHANGED <<tree, lostfound, acked, torn, tk>>
    BY <1>4 DEF Rests, CommitOldest, diskVars, ghostVars
  <2>2. \A p, f : Kept(p, f) => Kept(p, f)'
    BY <1>2, <2>1
  <2> QED BY <2>1, <2>2, KeptStays DEF Touched, InCrit, ToDo
<1>5. CASE Restart
  <2>1. UNCHANGED <<tree, lostfound>> /\ torn' = torn \cup UNION {HalfPaths(t) : t \in Task}
        /\ \A t \in Task : ~InCrit(t)'
    BY <1>5, Types DEF Restart, InCrit
  <2>2. ASSUME NEW p \in Path PROVE Kept(p, acked[p])'
    <3>1. CASE \E t \in Task : Whole(t) /\ p \in Paths(tk[t].call)
      <4> DEFINE u == CHOOSE t \in Task : Whole(t) /\ p \in Paths(tk[t].call)
      <4>1. u \in Task /\ Whole(u)
        BY <3>1
      <4>2. acked'[p] = Leaves(u, p)
        BY <1>5, <3>1 DEF Restart
      <4> HIDE DEF u
      <4>3. InCrit(u) /\ "put" \notin ToDo(u)
        BY <4>1 DEF Whole, ToTouch, Touches, ToDo
      <4>4. Kept(tk[u].call.path, tk[u].new)
        BY <4>1, <4>3 DEF KeptInv
      <4> QED BY <2>1, <4>2, <4>4 DEF Leaves, Kept
    <3>2. CASE ~ \E t \in Task : Whole(t) /\ p \in Paths(tk[t].call)
      <4>1. acked'[p] = acked[p]
        BY <1>5, <3>2 DEF Restart
      <4>2. CASE Kept(p, acked[p])
        BY <2>1, <4>1, <4>2 DEF Kept
      <4>3. CASE \E t \in Task : p \in Touched(t)
        <5>1. PICK t \in Task : p \in Touched(t)
          BY <4>3
        <5>2. InCrit(t) /\ p \in Paths(tk[t].call)
          BY <5>1 DEF Touched, Paths, Victim
        <5>3. ToTouch(t) # {}
          BY <3>2, <5>2 DEF Whole
        <5>4. p \in HalfPaths(t)
          BY <1>1, <5>1, <5>2, <5>3, TouchedHalf DEF HalfPaths
        <5> QED BY <2>1, <5>4 DEF Kept
      <4> QED BY <4>2, <4>3 DEF KeptInv
    <3> QED BY <3>1, <3>2
  <2> QED BY <2>1, <2>2 DEF KeptInv
<1> QED BY <1>3, <1>4, <1>5 DEF CoreStep

LEMMA KeptScan ==
  ASSUME ShapeInv, KeptInv, ScanStep, Disposable = {}, "commit" \notin Outside PROVE KeptInv'
<1>1. ASSUME NEW a \in Actor, DetectDrift(a) PROVE KeptInv'
  BY <1>1, DriftKeeps, KeptQuiet
<1>2. ASSUME (\E k \in Scans : BeginPass(k)) \/ Pass \/ OutsideStep PROVE KeptInv'
  <2>1. tk' = tk /\ acked' = acked
    BY ZenonT(60), <1>2 DEF BeginPass, Pass, SweepFile, SweepEnd, Adopt, AdoptCommit, RestoreTree, RestoreClean,
      OutsideStep, OutsideEdit, OutsideCommit, ghostVars
  <2>2. tree \in Tree /\ KeptInv
    BY DEF ShapeInv, DiskInv
  <2>3. ASSUME \A p \in Path : \A f : Kept(p, f) => Kept(p, f)' PROVE KeptInv'
    <3>1. \A t \in Task : Touched(t)' = Touched(t)
      BY <2>1 DEF Touched, InCrit, ToDo
    <3>2. \A p \in Path : (\E t \in Task : p \in Touched(t)') \/ Kept(p, acked[p])'
      BY <2>1, <2>3, <3>1 DEF KeptInv, Kept
    <3>3. \A t \in Task : InCrit(t) => tk[t].call.path \in Path
      BY InCritFacts DEF ShapeInv
    <3>4. ASSUME NEW t \in Task, InCrit(t)', "put" \notin ToDo(t)' PROVE Kept(tk[t].call.path, tk[t].new)'
      <4>1. Kept(tk[t].call.path, tk[t].new) /\ tk[t].call.path \in Path
        BY SMTT(60), <2>1, <3>3, <3>4 DEF KeptInv, InCrit, ToDo
      <4> QED BY <2>1, <2>3, <4>1 DEF Kept
    <3> QED BY <3>2, <3>4 DEF KeptInv
  <2>4. CASE (\E k \in Scans : BeginPass(k)) \/ SweepEnd \/ Adopt \/ AdoptCommit
    BY ZenonT(60), <2>3, <2>4 DEF BeginPass, SweepEnd, Adopt, AdoptCommit, diskVars, ghostVars, Kept
  <2>5. CASE \E p \in Path : SweepFile(p)
    <3>1. PICK p \in Path : SweepFile(p)
      BY <2>5
    <3>2. /\ tree' = [tree EXCEPT ![p] = NoFile] /\ torn' = torn
          /\ lostfound' = IF tree[p] = NoFile THEN lostfound ELSE lostfound \cup {<<p, tree[p]>>}
      BY <3>1 DEF SweepFile, ghostVars
    <3>3. ASSUME NEW q \in Path, NEW f, Kept(q, f) PROVE Kept(q, f)'
      BY <2>2, <3>2, <3>3 DEF Kept, Tree
    <3> QED BY <2>3, <3>3
  <2>6. CASE RestoreTree \/ RestoreClean
    <3>1. torn' = torn \cup {p \in Path : tree'[p] # tree[p]} /\ lostfound' = lostfound
      BY <2>6 DEF RestoreTree, RestoreClean
    <3>2. ASSUME NEW q \in Path, NEW f, Kept(q, f) PROVE Kept(q, f)'
      BY <3>1, <3>2 DEF Kept
    <3> QED BY <2>3, <3>2
  <2>7. CASE OutsideStep
    <3>1. PICK p \in Path, f \in File : OutsideEdit(p, f)
      BY <2>7 DEF OutsideStep, OutsideCommit
    <3>2. tree' = [tree EXCEPT ![p] = f] /\ torn' = torn \cup {p} /\ lostfound' = lostfound
      BY <3>1 DEF OutsideEdit
    <3>3. ASSUME NEW q \in Path, NEW g, Kept(q, g) PROVE Kept(q, g)'
      BY <2>2, <3>2, <3>3 DEF Kept, Tree
    <3> QED BY <2>3, <3>3
  <2> QED BY SMTT(60), <1>2, <2>4, <2>5, <2>6, <2>7 DEF Pass
<1> QED BY <1>1, <1>2 DEF ScanStep

LEMMA KeptInit ==
  ASSUME Init PROVE KeptInv
BY Types DEF Init, KeptInv, Kept, EmptyTree, InCrit

\* What writeTransformed, deleteFile and Move acknowledged is still somewhere, whatever
\* sweeps, repairs, failures, crashes and restores came in between: if nothing the sweep
\* finds is disposable and the host commits nothing by itself, or if no repair replaces HEAD.
THEOREM AcknowledgedNeverVanishes ==
  ASSUME (Disposable = {} /\ "commit" \notin Outside) \/ "repair" \notin Scans
  PROVE  Spec => []NothingVanishes
<1>1. CASE Disposable = {} /\ "commit" \notin Outside
  <2>1. Init => ShapeInv /\ KeptInv
    BY ShapeInit, KeptInit
  <2>2. ShapeInv /\ KeptInv /\ [Next]_vars => (ShapeInv /\ KeptInv)'
    BY <1>1, StepsAre, ShapeStep, KeptCore, KeptScan
  <2>3. ShapeInv /\ KeptInv => NothingVanishes
    <3> SUFFICES ASSUME ShapeInv, KeptInv,
                        NEW p \in Path, acked[p] # NoFile, ~Locked(p), p \notin torn
                 PROVE  <<p, acked[p]>> \in recorded \cup Logged \cup Pairs(tree) \cup lostfound
      BY DEF NothingVanishes
    <3>1. \A t \in Task : p \notin Touched(t)
      BY DEF Touched, Locked, Paths, Victim
    <3>2. Kept(p, acked[p])
      BY <3>1 DEF KeptInv
    <3>3. tree[p] = acked[p] => <<p, acked[p]>> \in Pairs(tree)
      BY DEF Pairs
    <3> QED BY <3>2, <3>3 DEF Kept
  <2> QED BY <2>1, <2>2, <2>3, PTL DEF Spec
<1>2. CASE "repair" \notin Scans
  <2>1. Spec => []AckedRecoverable
    BY <1>2, AckedStaysRecorded
  <2>2. AckedRecoverable => NothingVanishes
    BY DEF AckedRecoverable, NothingVanishes, Pairs
  <2> QED BY <2>1, <2>2, PTL
<1> QED BY <1>1, <1>2

----------------------------------------------------------------------------
(* Working tree and log agree *)

\* A locked path holds what its call has made of it, or still what the log says; what the
\* call has logged is what it makes of it.
Agrees(t, p) ==
  /\ "log" \notin ToDo(t) => Drained[p] = Leaves(t, p)
  /\ \/ p \in torn
     \/ /\ p \in Touched(t) => tree[p] = Leaves(t, p)
        /\ p \notin Touched(t) /\ "log" \in ToDo(t) => tree[p] = Drained[p]
AgreeInv == LogMatchesTree /\ \A t \in Task : InCrit(t) => \A p \in Paths(tk[t].call) : Agrees(t, p)

\* The log's future does not change when its entries reach HEAD or a restart drains it,
\* and an entry is applied to it when it is appended.
LEMMA DrainedNext == Drained' = DrainedOf(head', wal')
BY DEF Drained, DrainedOf, Unfolds

LEMMA DrainedKept ==
  ASSUME DiskInv, UNCHANGED <<wal, head>> \/ CommitOldest \/ Restart
  PROVE  Drained' = Drained
<1>1. CASE UNCHANGED <<wal, head>>
  BY <1>1 DEF Drained
<1>2. CASE CommitOldest
  BY <1>2, DrainedTail, DrainedIs, DrainedNext DEF CommitOldest, DiskInv
<1>3. CASE Restart
  BY <1>3, DrainedEmpty, DrainedNext DEF Restart
<1> QED BY <1>1, <1>2, <1>3

LEMMA DrainedLog ==
  ASSUME TasksInv, DiskInv, NEW t \in Task, InCrit(t), wal' = Append(wal, Entry(t)), head' = head
  PROVE  \A p \in Path : Drained'[p] = IF p \in Paths(tk[t].call) THEN Leaves(t, p) ELSE Drained[p]
<1>1. Entry(t) \in LogEntry
  BY EntryIs
<1>2. Drained' = Apply(Drained, Entry(t))
  BY <1>1, DrainedIs, DrainedNext, DrainedAppend DEF DiskInv
<1>3. Drained \in Tree
  BY DrainedIs, DrainedType DEF DiskInv
<1> QED BY <1>2, <1>3, EntryIs

\* Calls in their critical sections have their paths to themselves.
LEMMA Apart ==
  ASSUME Exclusive, NEW t \in Task, NEW u \in Task, t # u, InCrit(t), InCrit(u)
  PROVE  \A p \in Paths(tk[t].call) : p \notin Paths(tk[u].call)
BY DEF Exclusive

LEMMA PathsOf ==
  ASSUME TasksInv, NEW t \in Task, InCrit(t)
  PROVE  /\ Paths(tk[t].call) \subseteq Path /\ tk[t].call.path \in Paths(tk[t].call)
         /\ Victim(tk[t].call) \in Paths(tk[t].call) /\ Touched(t) \subseteq Paths(tk[t].call)
         /\ tk[t].call.op = "delete" => Leaves(t, Victim(tk[t].call)) = NoFile
         /\ tk[t].call.op = "move" => Leaves(t, Victim(tk[t].call)) = NoFile
                                      /\ Victim(tk[t].call) # tk[t].call.path
<1>1. /\ tk[t].call.op \in CallOp /\ tk[t].call.path \in Path /\ tk[t].call.from \in Path
      /\ tk[t].call.op = "move" => tk[t].call.path # tk[t].call.from
      /\ tk[t].call.op = "delete" => tk[t].new = NoFile
  BY InCritFacts
<1> QED BY <1>1 DEF Paths, Victim, Touched, Leaves

\* A step that leaves tree, log and the calls alone.
LEMMA AgreeKept ==
  ASSUME AgreeInv, tree' = tree, Drained' = Drained, torn \subseteq torn',
         \A p \in Path : Locked(p) => Locked(p)' \/ p \in torn' \/ tree[p] = Drained[p],
         \A t \in Task : InCrit(t)' =>
           /\ InCrit(t) /\ tk'[t].call = tk[t].call /\ tk'[t].new = tk[t].new
           /\ \A s \in Touches : s \in ToDo(t)' <=> s \in ToDo(t)
  PROVE  AgreeInv'
<1>1. LogMatchesTree'
  BY DEF AgreeInv, LogMatchesTree
<1>2. ASSUME NEW t \in Task, InCrit(t)', NEW p \in Paths(tk'[t].call) PROVE Agrees(t, p)'
  <2>1. /\ InCrit(t) /\ tk'[t].call = tk[t].call /\ tk'[t].new = tk[t].new
        /\ "put" \in ToDo(t)' <=> "put" \in ToDo(t)
        /\ "remove" \in ToDo(t)' <=> "remove" \in ToDo(t)
        /\ "log" \in ToDo(t)' <=> "log" \in ToDo(t)
    BY <1>2 DEF Touches
  <2>2. Agrees(t, p)
    BY <1>2, <2>1 DEF AgreeInv
  <2>3. Leaves(t, p)' = Leaves(t, p)
    BY <2>1 DEF Leaves
  <2>4. p \in Touched(t)' <=> p \in Touched(t)
    BY <1>2, <2>1 DEF Touched
  <2> QED BY <2>1, <2>2, <2>3, <2>4 DEF Agrees
<1> QED BY <1>1, <1>2 DEF AgreeInv

\* A call that fails in the middle has touched nothing, or is cut in half; one with
\* nothing left to touch is done with all its paths.
LEMMA Progress ==
  ASSUME TasksInv, NEW t \in Task, InCrit(t)
  PROVE  /\ ToTouch(t) # {} /\ ~Half(t) => "log" \in ToDo(t) /\ Touched(t) = {}
         /\ ToTouch(t) = {} => "log" \notin ToDo(t) /\ \A p \in Paths(tk[t].call) : p \in Touched(t)
<1>1. tk[t].call.op \in CallOp /\ InCrit(t) /\ Paths(tk[t].call) \subseteq Path
  BY InCritFacts, PathsOf
<1>2. ASSUME ToTouch(t) # {}, ~Half(t) PROVE "log" \in ToDo(t) /\ Touched(t) = {}
  <2>1. (Elements(Plan(tk[t].call.op)) \ ToDo(t)) \cap Touches = {}
    BY <1>2 DEF Half, ToDo
  <2>2. /\ tk[t].call.op # "delete" => "put" \in ToDo(t)
        /\ tk[t].call.op \in {"delete", "move"} => "remove" \in ToDo(t)
        /\ "log" \in ToDo(t)
    BY <1>1, <2>1, PlanSteps DEF Touches, CallOp
  <2> QED BY <2>2 DEF Touched
<1>3. ASSUME ToTouch(t) = {} PROVE "log" \notin ToDo(t) /\ \A p \in Paths(tk[t].call) : p \in Touched(t)
  <2>1. "put" \notin ToDo(t) /\ "remove" \notin ToDo(t) /\ "log" \notin ToDo(t)
    BY <1>3 DEF ToTouch, Touches, ToDo
  <2> QED BY <1>1, <2>1 DEF Touched, Paths, Victim, CallOp
<1> QED BY <1>2, <1>3

LEMMA AgreeCore ==
  ASSUME ShapeInv, AgreeInv, CoreStep PROVE AgreeInv'
<1>1. TasksInv /\ DiskInv /\ Exclusive /\ tree \in Tree
  BY DEF ShapeInv, DiskInv
<1>2. \A t \in Task : InCrit(t) => \A p \in Paths(tk[t].call) : Agrees(t, p) /\ p \in Path
  BY <1>1, PathsOf DEF AgreeInv
<1>3. \A p \in Path : Locked(p) \/ p \in torn \/ tree[p] = Drained[p]
  BY DEF AgreeInv, LogMatchesTree
<1>4. ASSUME Quiet PROVE AgreeInv'
  <2>1. tree' = tree /\ torn' = torn /\ Drained' = Drained
    BY <1>1, <1>4, DrainedKept DEF Quiet, diskVars, ghostVars
  <2>2. \A t \in Task : IF InCrit(t) THEN tk'[t] = tk[t] ELSE ~InCrit(t)'
    BY <1>4 DEF Quiet, InCrit
  <2>3. \A p \in Path : Locked(p) => Locked(p)'
    BY <2>2 DEF Locked, InCrit
  <2>4. \A t \in Task : InCrit(t)' =>
           /\ InCrit(t) /\ tk'[t].call = tk[t].call /\ tk'[t].new = tk[t].new
           /\ \A s \in Touches : s \in ToDo(t)' <=> s \in ToDo(t)
    BY <2>2 DEF ToDo
  <2> QED BY <2>1, <2>3, <2>4, AgreeKept
<1>5. ASSUME NEW t \in Task, Starts(t) \/ TaskStep(t) \/ StepFails(t) PROVE AgreeInv'
  <2> DEFINE c == tk[t].call
  <2>1. CASE Enters(t)
    <3>1. UNCHANGED <<tree, torn, wal, head>>
      BY <2>1 DEF Enters, diskVars, ghostVars
    <3>2. \A u \in Task : u # t => tk'[u] = tk[u]
      BY <2>1 DEF Enters, Alone
    <3>3. ~InCrit(t) /\ tk'[t].call = c /\ tk'[t].todo = Plan(c.op) /\ c.op \in CallOp
          /\ \A p \in Paths(c) : ~Locked(p)
      BY <2>1 DEF Enters, CallType, Free
    <3>4. Drained' = Drained
      BY <1>1, <3>1, DrainedKept
    <3>5. "log" \in ToDo(t)' /\ Touched(t)' = {}
      BY <3>3, PlanSteps DEF ToDo, Touched, CallOp
    <3>6. Paths(c) \subseteq Path
      BY <2>1 DEF Enters, CallType, Paths
    <3>7. \A p \in Paths(c) : Agrees(t, p)'
      BY <1>3, <3>1, <3>3, <3>4, <3>5, <3>6 DEF Agrees
    <3>8. LogMatchesTree'
      <4>1. \A p \in Path : Locked(p) => Locked(p)'
        BY <3>2, <3>3 DEF Locked, InCrit
      <4> QED BY <1>3, <3>1, <3>4, <4>1 DEF LogMatchesTree
    <3>9. ASSUME NEW u \in Task, u # t, InCrit(u)', NEW p \in Paths(tk'[u].call) PROVE Agrees(u, p)'
      <4>1. InCrit(u) /\ tk'[u] = tk[u] /\ Agrees(u, p)
        BY <1>2, <3>2, <3>9 DEF InCrit
      <4>2. /\ "log" \in ToDo(u)' <=> "log" \in ToDo(u)
            /\ p \in Touched(u)' <=> p \in Touched(u)
            /\ Leaves(u, p)' = Leaves(u, p)
        BY <4>1, <3>9 DEF ToDo, Touched, Leaves, InCrit
      <4> QED BY <3>1, <3>4, <4>1, <4>2 DEF Agrees
    <3> QED BY <3>3, <3>7, <3>8, <3>9 DEF AgreeInv
  \* A step of the plan: other calls keep what they have.
  <2>2. ASSUME NEW s, Takes(t, s), UNCHANGED torn,
               \A p \in Path \ Paths(c) : tree'[p] = tree[p] /\ Drained'[p] = Drained[p],
               \A p \in Paths(c) : Agrees(t, p)'
        PROVE  AgreeInv'
    <3>1. /\ InCrit(t) /\ \A u \in Task : u # t => tk'[u] = tk[u]
          /\ InCrit(t)' /\ tk'[t].call = c
      BY <2>2 DEF Takes, Alone, InCrit
    <3>2. \A p \in Path : Locked(p)' <=> Locked(p)
      BY <3>1 DEF Locked, InCrit
    <3>3. LogMatchesTree'
      <4>1. \A p \in Paths(c) : Locked(p)
        BY <3>1 DEF Locked
      <4> QED BY <1>3, <2>2, <3>2, <4>1 DEF LogMatchesTree
    <3>4. ASSUME NEW u \in Task, u # t, InCrit(u)', NEW p \in Paths(tk'[u].call) PROVE Agrees(u, p)'
      <4>1. InCrit(u) /\ tk'[u] = tk[u] /\ Agrees(u, p) /\ p \in Path
        BY <1>2, <3>1, <3>4 DEF InCrit
      <4>2. p \notin Paths(c)
        BY <1>1, <3>1, <3>4, <4>1, Apart
      <4>3. /\ "log" \in ToDo(u)' <=> "log" \in ToDo(u)
            /\ p \in Touched(u)' <=> p \in Touched(u)
            /\ Leaves(u, p)' = Leaves(u, p)
        BY <4>1, <3>4 DEF ToDo, Touched, Leaves, InCrit
      <4> QED BY <2>2, <4>1, <4>2, <4>3 DEF Agrees
    <3> QED BY <2>2, <3>1, <3>3, <3>4 DEF AgreeInv
  <2>3. ASSUME NEW s, Takes(t, s)
        PROVE  /\ InCrit(t) /\ InCrit(t)' /\ tk'[t].call = c /\ tk'[t].new = tk[t].new
               /\ ToDo(t)' = ToDo(t) \ {s} /\ \A p : Leaves(t, p)' = Leaves(t, p)
    BY <2>3 DEF Takes, ToDo, InCrit, Leaves
  <2>4. CASE Put(t) /\ Takes(t, "put")
    <3>1. /\ InCrit(t) /\ InCrit(t)' /\ tk'[t].call = c /\ tk'[t].new = tk[t].new
          /\ ToDo(t)' = ToDo(t) \ {"put"} /\ \A p : Leaves(t, p)' = Leaves(t, p)
      BY <2>3, <2>4
    <3>2. tree' = [tree EXCEPT ![c.path] = tk[t].new] /\ UNCHANGED <<torn, wal, head>> /\ "put" \in ToDo(t)
      BY <2>4 DEF Put, ghostVars, Takes
    <3>3. Drained' = Drained
      BY <1>1, <3>2, DrainedKept
    <3>4. c.path \in Path /\ c.path \in Paths(c) /\ Paths(c) \subseteq Path /\ c.op # "delete"
          /\ (c.op = "move" => c.path # Victim(c)) /\ c.op \in CallOp
      BY <1>1, <3>1, <3>2, PathsOf, InCritFacts DEF Stages
    <3>5. \A p \in Path : p # c.path => tree'[p] = tree[p]
      BY <1>1, <3>2 DEF Tree
    <3>6. tree'[c.path] = Leaves(t, c.path)
      BY <1>1, <3>2, <3>4 DEF Tree, Leaves
    <3>7. ASSUME NEW p \in Paths(c) PROVE Agrees(t, p)'
      <4>1. Agrees(t, p) /\ p \in Path
        BY <1>2, <3>1
      <4>2. CASE p = c.path
        <5>1. p \in Touched(t)'
          BY <3>1, <3>4, <4>1, <4>2 DEF Touched
        <5> QED BY <3>1, <3>2, <3>3, <3>6, <4>1, <4>2, <5>1 DEF Agrees
      <4>3. CASE p # c.path
        <5>1. p \in Touched(t)' <=> p \in Touched(t)
          BY <3>1, <4>3 DEF Touched
        <5> QED BY <3>1, <3>2, <3>3, <3>5, <4>1, <4>3, <5>1 DEF Agrees
      <4> QED BY <4>2, <4>3
    <3> QED BY <2>2, <2>4, <3>2, <3>3, <3>4, <3>5, <3>7
  <2>5. CASE Remove(t) /\ Takes(t, "remove")
    <3>1. /\ InCrit(t) /\ InCrit(t)' /\ tk'[t].call = c /\ tk'[t].new = tk[t].new
          /\ ToDo(t)' = ToDo(t) \ {"remove"} /\ \A p : Leaves(t, p)' = Leaves(t, p)
      BY <2>3, <2>5
    <3>2. tree' = [tree EXCEPT ![Victim(c)] = NoFile] /\ UNCHANGED <<torn, wal, head>> /\ "remove" \in ToDo(t)
      BY <2>5 DEF Remove, ghostVars, Takes
    <3>3. Drained' = Drained
      BY <1>1, <3>2, DrainedKept
    <3>4. c.op \in {"delete", "move"}
      BY <1>1, <3>1, <3>2, InCritFacts DEF Stages, CallOp
    <3>5. Victim(c) \in Path /\ Victim(c) \in Paths(c) /\ Leaves(t, Victim(c)) = NoFile
      BY <1>1, <3>1, <3>4, PathsOf
    <3>6. \A p \in Path : p # Victim(c) => tree'[p] = tree[p]
      BY <1>1, <3>2 DEF Tree
    <3>7. tree'[Victim(c)] = Leaves(t, Victim(c))
      BY <1>1, <3>2, <3>5 DEF Tree
    <3>8. ASSUME NEW p \in Paths(c) PROVE Agrees(t, p)'
      <4>1. Agrees(t, p) /\ p \in Path
        BY <1>2, <3>1
      <4>2. CASE p = Victim(c)
        <5>1. p \in Touched(t)'
          BY <3>1, <3>4, <4>1, <4>2 DEF Touched
        <5> QED BY <3>1, <3>2, <3>3, <3>7, <4>1, <4>2, <5>1 DEF Agrees
      <4>3. CASE p # Victim(c)
        <5>1. p \in Touched(t)' <=> p \in Touched(t)
          BY <3>1, <4>3 DEF Touched
        <5> QED BY <3>1, <3>2, <3>3, <3>6, <4>1, <4>3, <5>1 DEF Agrees
      <4> QED BY <4>2, <4>3
    <3> QED BY <2>2, <2>5, <3>2, <3>3, <3>5, <3>6, <3>8
  <2>6. CASE Log(t) /\ Takes(t, "log")
    <3>1. /\ InCrit(t) /\ InCrit(t)' /\ tk'[t].call = c /\ tk'[t].new = tk[t].new
          /\ ToDo(t)' = ToDo(t) \ {"log"} /\ \A p : Leaves(t, p)' = Leaves(t, p)
      BY <2>3, <2>6
    <3>2. wal' = Append(wal, Entry(t)) /\ UNCHANGED <<tree, torn, head>>
      BY <2>6 DEF Log, ghostVars
    <3>3. \A p \in Path : Drained'[p] = IF p \in Paths(c) THEN Leaves(t, p) ELSE Drained[p]
      BY <1>1, <3>1, <3>2, DrainedLog
    <3>4. ASSUME NEW p \in Paths(c) PROVE Agrees(t, p)'
      <4>1. Agrees(t, p) /\ p \in Path
        BY <1>2, <3>1
      <4>2. p \in Touched(t)' <=> p \in Touched(t)
        BY <3>1 DEF Touched
      <4> QED BY <3>1, <3>2, <3>3, <4>1, <4>2 DEF Agrees
    <3> QED BY <2>2, <2>6, <3>2, <3>3, <3>4
  <2>7. CASE (Own(t) /\ Takes(t, "own")) \/ (Disown(t) /\ Takes(t, "disown"))
    <3>1. PICK s \in {"own", "disown"} : Takes(t, s)
      BY <2>7
    <3>2. /\ InCrit(t) /\ InCrit(t)' /\ tk'[t].call = c /\ tk'[t].new = tk[t].new
          /\ ToDo(t)' = ToDo(t) \ {s} /\ \A p : Leaves(t, p)' = Leaves(t, p)
      BY <2>3, <3>1
    <3>3. UNCHANGED <<tree, torn, wal, head>>
      BY <2>7 DEF Own, Disown, CatalogStep, diskVars, ghostVars
    <3>4. Drained' = Drained
      BY <1>1, <3>3, DrainedKept
    <3>5. ASSUME NEW p \in Paths(c) PROVE Agrees(t, p)'
      <4>1. Agrees(t, p) /\ p \in Path
        BY <1>2, <3>2
      <4>2. p \in Touched(t)' <=> p \in Touched(t)
        BY <3>2 DEF Touched
      <4> QED BY <3>2, <3>3, <3>4, <4>1, <4>2 DEF Agrees
    <3> QED BY <2>2, <3>1, <3>3, <3>4, <3>5
  \* The end of a call: it leaves paths that agree.
  <2>8. ASSUME Ends(t), UNCHANGED <<tree, wal, head>>, \A p \in Path \ Paths(c) : p \in torn => p \in torn',
               \A p \in Paths(c) : p \in torn' \/ tree[p] = Drained[p]
        PROVE  AgreeInv'
    <3>1. InCrit(t) /\ ~InCrit(t)' /\ \A u \in Task : u # t => tk'[u] = tk[u]
      BY <2>8, Types DEF Ends, Alone, InCrit
    <3>2. Drained' = Drained
      BY <1>1, <2>8, DrainedKept
    <3>3. ASSUME NEW p \in Path, ~Locked(p)' PROVE p \in torn' \/ tree[p] = Drained[p]
      <4>1. CASE p \in Paths(c)
        BY <2>8, <4>1
      <4>2. CASE p \notin Paths(c)
        <5>1. ~Locked(p)
          BY <3>1, <3>3, <4>2 DEF Locked, InCrit
        <5> QED BY <1>3, <2>8, <4>2, <5>1
      <4> QED BY <4>1, <4>2
    <3>4. LogMatchesTree'
      BY <2>8, <3>2, <3>3 DEF LogMatchesTree
    <3>5. ASSUME NEW u \in Task, InCrit(u)', NEW p \in Paths(tk'[u].call) PROVE Agrees(u, p)'
      <4>1. u # t /\ InCrit(u) /\ tk'[u] = tk[u]
        BY <3>1, <3>5 DEF InCrit
      <4>2. Agrees(u, p) /\ p \in Path /\ p \notin Paths(c)
        BY <1>1, <1>2, <3>1, <3>5, <4>1, Apart
      <4>3. /\ "log" \in ToDo(u)' <=> "log" \in ToDo(u)
            /\ p \in Touched(u)' <=> p \in Touched(u)
            /\ Leaves(u, p)' = Leaves(u, p)
        BY <4>1, <3>5 DEF ToDo, Touched, Leaves, InCrit
      <4> QED BY <2>8, <3>2, <4>2, <4>3 DEF Agrees
    <3> QED BY <3>4, <3>5 DEF AgreeInv
  <2>9. CASE Return(t) /\ Ends(t)
    <3>1. /\ UNCHANGED <<tree, wal, head>> /\ acked' = Apply(acked, Entry(t)) /\ InCrit(t)
          /\ torn' = torn \ {p \in Paths(c) : tree[p] = acked'[p]} /\ ToDo(t) = {}
      BY <1>1, <2>9, InCritFacts DEF Return, diskVars
    <3>2. \A p \in Path : acked'[p] = IF p \in Paths(c) THEN Leaves(t, p) ELSE acked[p]
      BY <1>1, <3>1, EntryIs DEF DiskInv
    <3>3. \A p \in Paths(c) : Agrees(t, p) /\ p \in Touched(t) /\ p \in Path
      BY <1>1, <1>2, <3>1, Progress DEF ToTouch, ToDo
    <3>4. \A p \in Paths(c) : p \in torn' \/ tree[p] = Drained[p]
      BY <3>1, <3>2, <3>3 DEF Agrees
    <3>5. \A p \in Path \ Paths(c) : p \in torn => p \in torn'
      BY <3>1
    <3> QED BY <2>8, <2>9, <3>1, <3>4, <3>5
  <2>10. CASE StepFails(t) /\ Ends(t)
    <3>1. UNCHANGED <<tree, wal, head>> /\ torn' = torn \cup HalfPaths(t) /\ InCrit(t) /\ ToTouch(t) # {}
      <4>1. InCrit(t) /\ tk[t].todo # <<>> /\ Head(tk[t].todo) \in Touches
        BY <2>10 DEF StepFails, Touches
      <4>2. Head(tk[t].todo) \in Elements(tk[t].todo)
        BY <1>1, <4>1, RestTail DEF TasksInv, CritShape, CallType, InCrit
      <4> QED BY <2>10, <4>1, <4>2 DEF StepFails, diskVars, ToTouch
    <3>2. \A p \in Paths(c) : p \in torn' \/ tree[p] = Drained[p]
      BY <1>1, <1>2, <3>1, Progress DEF Agrees, HalfPaths
    <3> QED BY <2>8, <2>10, <3>1, <3>2
  <2> QED BY <1>1, <1>4, <1>5, <2>1, <2>4, <2>5, <2>6, <2>7, <2>9, <2>10, TaskEffects
<1>6. CASE CommitOldest \/ Rests
  <2>1. UNCHANGED <<tree, torn, tk>>
    BY <1>6 DEF Rests, CommitOldest, diskVars, ghostVars
  <2>2. Drained' = Drained
    BY <1>1, <1>6, DrainedKept DEF Rests, diskVars
  <2> QED BY <2>1, <2>2, AgreeKept DEF Locked, InCrit, ToDo
<1>7. CASE Restart
  <2>1. UNCHANGED tree /\ torn' = torn \cup UNION {HalfPaths(t) : t \in Task} /\ \A t \in Task : ~InCrit(t)'
    BY <1>7, Types DEF Restart, InCrit
  <2>2. Drained' = Drained
    BY <1>1, <1>7, DrainedKept
  <2>3. ASSUME NEW p \in Path PROVE p \in torn' \/ tree[p] = Drained[p]
    <3>1. CASE ~Locked(p)
      BY <1>3, <2>1, <3>1
    <3>2. CASE Locked(p)
      <4>1. PICK t \in Task : InCrit(t) /\ p \in Paths(tk[t].call)
        BY <3>2 DEF Locked
      <4>2. CASE Half(t)
        BY <2>1, <4>1, <4>2 DEF HalfPaths
      <4>3. CASE ~Half(t)
        BY <1>1, <1>2, <2>1, <4>1, <4>3, Progress DEF Agrees
      <4> QED BY <4>2, <4>3
    <3> QED BY <3>1, <3>2
  <2> QED BY <2>1, <2>2, <2>3 DEF AgreeInv, LogMatchesTree
<1> QED BY <1>5, <1>6, <1>7 DEF CoreStep

LEMMA AgreeScan ==
  ASSUME ShapeInv, AgreeInv, ScanStep, Scans \cap {"sweep", "repair"} = {} PROVE AgreeInv'
<1>1. TasksInv /\ DiskInv /\ tree \in Tree /\ head \in Tree /\ wal \in Seq(LogEntry) /\ Allowed(scan[Scanner])
  BY DEF ShapeInv, DiskInv, ScansInv
<1>2. \A t \in Task : InCrit(t) => \A p \in Paths(tk[t].call) : Agrees(t, p) /\ p \in Path
  BY <1>1, PathsOf DEF AgreeInv
<1>3. \A p \in Path : Locked(p) \/ p \in torn \/ tree[p] = Drained[p]
  BY DEF AgreeInv, LogMatchesTree
<1>4. ASSUME NEW a \in Actor, DetectDrift(a) PROVE AgreeInv'
  <2>1. Quiet
    BY <1>4, DriftKeeps
  <2>2. tree' = tree /\ torn' = torn /\ Drained' = Drained
    BY <1>1, <2>1, DrainedKept DEF Quiet, diskVars, ghostVars
  <2>3. \A t \in Task : IF InCrit(t) THEN tk'[t] = tk[t] ELSE ~InCrit(t)'
    BY <2>1 DEF Quiet, InCrit
  <2>4. \A p \in Path : Locked(p) => Locked(p)'
    BY <2>3 DEF Locked, InCrit
  <2>5. \A t \in Task : InCrit(t)' =>
           /\ InCrit(t) /\ tk'[t].call = tk[t].call /\ tk'[t].new = tk[t].new
           /\ \A s \in Touches : s \in ToDo(t)' <=> s \in ToDo(t)
    BY <2>3 DEF ToDo
  <2> QED BY <2>2, <2>4, <2>5, AgreeKept
\* A step besides the write path: the calls stay as they are.
<1>5. ASSUME tk' = tk,
             \A p \in Path : \/ p \in torn'
                             \/ p \notin torn /\ tree'[p] = tree[p]
                             \/ ~Locked(p) /\ (tree[p] = Drained[p] => tree'[p] = Drained'[p]) /\ p \notin torn,
             \A p \in Path : Drained'[p] = Drained[p] \/ (~Locked(p) /\ (p \in torn' \/ tree'[p] = Drained'[p]))
      PROVE  AgreeInv'
  <2>1. \A p \in Path : Locked(p)' <=> Locked(p)
    BY <1>5 DEF Locked, InCrit
  <2>2. ASSUME NEW p \in Path PROVE Locked(p) \/ p \in torn' \/ tree'[p] = Drained'[p]
    BY <1>3, <1>5
  <2>3. LogMatchesTree'
    BY <2>1, <2>2 DEF LogMatchesTree
  <2>4. ASSUME NEW t \in Task, InCrit(t)', NEW p \in Paths(tk'[t].call) PROVE Agrees(t, p)'
    <3>1. InCrit(t) /\ p \in Paths(tk[t].call) /\ Agrees(t, p) /\ p \in Path
      BY <1>2, <1>5, <2>4 DEF InCrit
    <3>2. Locked(p)
      BY <3>1 DEF Locked
    <3>3. Drained'[p] = Drained[p] /\ (p \in torn' \/ (p \notin torn /\ tree'[p] = tree[p]))
      BY <1>5, <3>1, <3>2
    <3>4. /\ "log" \in ToDo(t)' <=> "log" \in ToDo(t)
          /\ p \in Touched(t)' <=> p \in Touched(t)
          /\ Leaves(t, p)' = Leaves(t, p)
      BY <1>5 DEF ToDo, Touched, Leaves, InCrit
    <3> QED BY <3>1, <3>3, <3>4 DEF Agrees
  <2> QED BY <2>3, <2>4 DEF AgreeInv
<1>6. ASSUME (\E k \in Scans : BeginPass(k)) \/ Pass PROVE AgreeInv'
  <2>1. /\ ~AdoptCommit /\ \A p \in Path : ~SweepFile(p)
    BY <1>1 DEF AdoptCommit, SweepFile, Allowed
  <2>2. /\ tk' = tk /\ UNCHANGED <<wal, head>>
        /\ \A p \in Path : p \in torn' \/ (p \notin torn /\ tree'[p] = tree[p])
    <3>1. CASE (\E k \in Scans : BeginPass(k)) \/ SweepEnd \/ Adopt
      <4>1. \A k : BeginPass(k) => tk' = tk /\ UNCHANGED <<wal, head, tree, torn>>
        BY DEF BeginPass, diskVars, ghostVars
      <4>2. SweepEnd => tk' = tk /\ UNCHANGED <<wal, head, tree, torn>>
        BY DEF SweepEnd, diskVars, ghostVars
      <4>3. Adopt => tk' = tk /\ UNCHANGED <<wal, head, tree, torn>>
        BY ZenonT(60) DEF Adopt, diskVars, ghostVars
      <4> QED BY <3>1, <4>1, <4>2, <4>3
    <3>2. CASE RestoreTree \/ RestoreClean
      BY <3>2 DEF RestoreTree, RestoreClean
    <3> QED BY <1>6, <2>1, <3>1, <3>2 DEF Pass
  <2>3. Drained' = Drained
    BY <1>1, <2>2, DrainedKept
  <2> QED BY <1>5, <2>2, <2>3
<1>7. ASSUME NEW p \in Path, NEW f \in File, OutsideEdit(p, f) PROVE AgreeInv'
  <2>1. tk' = tk /\ UNCHANGED <<wal, head>> /\ tree' = [tree EXCEPT ![p] = f] /\ torn' = torn \cup {p}
    BY <1>7 DEF OutsideEdit
  <2>2. Drained' = Drained
    BY <1>1, <2>1, DrainedKept
  <2>3. \A q \in Path : q \in torn' \/ (q \notin torn /\ tree'[q] = tree[q])
    BY <1>1, <2>1 DEF Tree
  <2> QED BY <1>5, <2>1, <2>2, <2>3
<1>8. ASSUME NEW p \in Path, NEW f \in File, OutsideCommit(p, f) PROVE AgreeInv'
  <2>1. /\ tk' = tk /\ wal' = wal /\ torn' = torn /\ ~Locked(p)
        /\ tree' = [tree EXCEPT ![p] = f] /\ head' = [head EXCEPT ![p] = f]
        /\ \A i \in DOMAIN wal : p \notin {wal[i].path, wal[i].from}
    BY <1>8 DEF OutsideCommit, ghostVars
  <2>2. /\ Drained'[p] = f
        /\ \A q \in Path \ {p} : Drained'[q] = Drained[q]
    <3>1. /\ head' \in Tree /\ head'[p] = f /\ \A q \in Path \ {p} : head'[q] = head[q]
          /\ \A k \in DOMAIN wal : p \notin {wal[k].path, wal[k].from}
      BY <1>1, <2>1 DEF Tree
    <3>2. Drained' = DrainedOf(head', wal)
      BY <2>1, DrainedNext
    <3>3. /\ DrainedOf(head', wal)[p] = f
          /\ \A q \in Path \ {p} : DrainedOf(head', wal)[q] = DrainedOf(head, wal)[q]
      BY <1>1, <1>8, <3>1, DrainedOutside
    <3> QED BY <3>2, <3>3, DrainedIs
  <2>3. tree'[p] = f /\ \A q \in Path \ {p} : tree'[q] = tree[q]
    BY <1>1, <2>1 DEF Tree
  <2> QED BY <1>5, <2>1, <2>2, <2>3
<1> QED BY <1>4, <1>6, <1>7, <1>8 DEF ScanStep, OutsideStep

LEMMA AgreeInit ==
  ASSUME Init PROVE AgreeInv
<1>1. Drained = head
  BY DrainedIs, DrainedEmpty DEF Init
<1> QED BY <1>1, Types DEF Init, AgreeInv, LogMatchesTree, InCrit

\* While no sweep and no repair runs, a path nobody works on holds what HEAD will hold once
\* the log has drained, whatever writers, failures, restarts, drift detection, re-syncs,
\* restores and changes from outside do; paths cut in half by a failure or changed from
\* outside excepted (writeTransformed, deleteFile, Move under the per-file lock).
THEOREM TreeFollowsLog ==
  ASSUME Scans \cap {"sweep", "repair"} = {}
  PROVE  Spec => []LogMatchesTree
<1>1. Init => ShapeInv /\ AgreeInv
  BY ShapeInit, AgreeInit
<1>2. ShapeInv /\ AgreeInv /\ [Next]_vars => (ShapeInv /\ AgreeInv)'
  BY StepsAre, ShapeStep, AgreeCore, AgreeScan
<1>3. AgreeInv => LogMatchesTree
  BY DEF AgreeInv
<1> QED BY <1>1, <1>2, <1>3, PTL DEF Spec

----------------------------------------------------------------------------
(* Handlers *)

HandlerPC == {"none", "read", "check", "call", "publish", "fan", "add", "tear"}
HandlerType ==
  [pc : HandlerPC, req : Request \cup {NoRequest}, id : 0..MaxCalls, seen : File,
   slot : Slot \cup {0}, left : SUBSET Slot]

\* A task works for the handler it has; what copy_file writes is what it read, under the
\* etag of an absent file.
Serves(t) ==
  /\ tk[t].pc # "idle" => h[t].pc = "call"
  /\ h[t].pc # "none" => h[t].req \in Request
  /\ h[t].pc \in {"read", "check", "call", "publish", "fan"} => h[t].req.op \in FileOp
  /\ h[t].pc = "read" => h[t].req.op = "copy"
  /\ h[t].pc = "check" =>
       h[t].req.op \in {"copy", "drop"} /\ (h[t].req.op = "copy" => h[t].seen \in Content)
  /\ tk[t].pc # "idle" /\ h[t].req.op = "copy" =>
       \E f \in Content : tk[t].call = CopyFileHandler(h[t].req, f)
HandlersInv == h \in [Task -> HandlerType] /\ \A t \in Task : Serves(t)

\* The handlers that are not t's stay as they are.
OthersServe(t) == \A u \in Task \ {t} : h'[u] = h[u]

\* What a step of the clients does to the store.
Calls(t) ==
  /\ tk[t].pc = "idle"
  /\ \E c \in Call : tk' = [tk EXCEPT ![t] = Called(c)]
  /\ UNCHANGED <<diskVars, catVars, state, scan, ghostVars, faults, crashes>>
Counts == calls' = calls \/ (calls < MaxCalls /\ calls' = calls + 1)

LEMMA HandlerTypes ==
  /\ NoHandler \in HandlerType
  /\ \A r \in Request, n \in 0..MaxCalls, a \in HandlerPC, i \in Slot \cup {0} :
       /\ [NoHandler EXCEPT !.pc = a, !.req = r, !.id = n] \in HandlerType
       /\ [NoHandler EXCEPT !.pc = a, !.req = r, !.slot = i] \in HandlerType
<1>1. 0 \in 0..MaxCalls
  BY FileStoreAssumption
<1>2. NoHandler \in HandlerType
  BY <1>1, Types DEF NoHandler, HandlerType, HandlerPC
<1> QED BY ZenonT(60), <1>1, <1>2 DEF NoHandler, HandlerType

\* What the handlers call is a call.
LEMMA HandlerCalls ==
  ASSUME NEW r \in Request
  PROVE  /\ r.op \in CallOp => FileCall(r) \in Call
         /\ r.op = "drop" => handleSaveFile(r) \in Call
         /\ r.op = "copy" => r.from \in Path /\ \A f \in Content : CopyFileHandler(r, f) \in Call
BY HandlersAssumption

LEMMA CallsStart ==
  ASSUME NEW t \in Task, Calls(t) PROVE Starts(t)
BY CallsTyped DEF Calls, Starts

\* A step of a call goes on with the same call or ends it.
LEMMA StepCall ==
  ASSUME TasksInv, DiskInv, NEW t \in Task, TaskStep(t) \/ StepFails(t)
  PROVE  /\ Alone(t) /\ tk[t].pc # "idle"
         /\ tk'[t].pc # "idle" => tk'[t].call = tk[t].call
<1>1. tk[t] \in TaskType /\ tk \in [Task -> TaskType] /\ Idle.pc = "idle"
  BY Types DEF TasksInv
<1>2. Alone(t)
  BY TaskTyped
<1>3. ASSUME NEW s, Does(t, s) PROVE tk[t].pc # "idle" /\ tk'[t].call = tk[t].call
  BY <1>3, DoesTakes DEF Takes, InCrit
<1>4. CASE Put(t) \/ Remove(t) \/ Log(t) \/ Own(t) \/ Disown(t)
  BY <1>2, <1>3, <1>4 DEF Put, Remove, Log, Own, Disown, CatalogStep
<1>5. CASE Admit(t) \/ Refuse(t) \/ LazyRescan(t)
  BY <1>1, <1>2, <1>5 DEF Admit, Refuse, LazyRescan, TaskType
<1>6. CASE Enter(t)
  BY <1>1, <1>2, <1>6 DEF Enter, TaskType
<1>7. CASE Return(t) \/ StepFails(t)
  BY <1>1, <1>2, <1>7 DEF Return, StepFails, InCrit
<1> QED BY <1>4, <1>5, <1>6, <1>7 DEF TaskStep

\* A handler that a step gives to t, while the others keep theirs.
LEMMA ServesOn ==
  ASSUME HandlersInv, NEW t \in Task, NEW new \in HandlerType, h' = [h EXCEPT ![t] = new],
         Alone(t), Serves(t)'
  PROVE  HandlersInv'
<1>1. h' \in [Task -> HandlerType] /\ \A u \in Task \ {t} : h'[u] = h[u]
  BY DEF HandlersInv
<1>2. ASSUME NEW u \in Task, u # t PROVE Serves(u)'
  <2>1. h'[u] = h[u] /\ tk'[u] = tk[u] /\ Serves(u)
    BY <1>1, <1>2 DEF Alone, HandlersInv
  <2> QED BY <2>1 DEF Serves
<1> QED BY <1>1, <1>2 DEF HandlersInv

LEMMA IdleServes ==
  ASSUME NEW t \in Task, h'[t] = NoHandler, tk'[t].pc = "idle"
  PROVE  Serves(t)'
BY DEF Serves, NoHandler

LEMMA ReceiveServes ==
  ASSUME HandlersInv, TasksInv, CountsInv, NEW t \in Task, NEW r \in Request, Receive(t, r)
  PROVE  HandlersInv' /\ (Calls(t) \/ Rests) /\ Counts
<1> DEFINE at == CASE r.op = "copy" -> "read" [] r.op = "drop" -> "check" [] OTHER -> "call"
           new == [NoHandler EXCEPT !.pc = at, !.req = r, !.id = calls']
<1>1. calls < MaxCalls /\ calls' = calls + 1 /\ calls' \in 0..MaxCalls
  BY FileStoreAssumption DEF Receive, CountsInv
<1>2. at \in {"read", "check", "call"} /\ at \in HandlerPC
  BY SMTT(60) DEF HandlerPC
<1>3. new \in HandlerType /\ new.pc = at /\ new.req = r
  BY ZenonT(60), <1>1, <1>2, HandlerTypes DEF NoHandler
<1>4. h' = [h EXCEPT ![t] = new] /\ r.op \in FileOp /\ tk[t].pc = "idle"
  BY DEF Receive
<1>5. h'[t] = new
  BY <1>4 DEF HandlersInv
<1>6. CASE at = "call"
  <2>1. r.op \in CallOp
    BY <1>4, <1>6 DEF FileOp
  <2>2. FileCall(r) \in Call /\ FileCall(r) \in CallType
    BY <2>1, HandlerCalls, CallsTyped
  <2>3. tk' = [tk EXCEPT ![t] = Called(FileCall(r))]
    BY <1>6 DEF Receive
  <2>4. Calls(t)
    BY <1>4, <2>2, <2>3 DEF Calls, Receive
  <2>5. Alone(t) /\ r.op # "copy"
    BY <2>1, <2>3 DEF Alone, CallOp
  <2> HIDE DEF new, at
  <2>6. Serves(t)'
    BY <1>3, <1>4, <1>5, <1>6, <2>5 DEF Serves
  <2>7. HandlersInv'
    BY <1>3, <1>4, <2>5, <2>6, ServesOn
  <2> QED BY <1>1, <2>4, <2>7 DEF Counts
<1>7. CASE at # "call"
  <2>1. tk' = tk /\ Rests
    BY <1>7 DEF Receive, Rests
  <2>2. (at = "read" /\ r.op = "copy") \/ (at = "check" /\ r.op = "drop")
    BY <1>7
  <2> HIDE DEF new, at
  <2>3. Serves(t)'
    BY <1>3, <1>4, <1>5, <2>1, <2>2 DEF Serves
  <2>4. HandlersInv'
    BY <1>3, <1>4, <2>1, <2>3, ServesOn DEF Alone
  <2> QED BY <1>1, <2>1, <2>4 DEF Counts
<1> QED BY <1>6, <1>7

LEMMA ReadServes ==
  ASSUME HandlersInv, TasksInv, DiskInv, NEW t \in Task, ReadSource(t)
  PROVE  HandlersInv' /\ Rests
<1> DEFINE f == IF state = "dangerous" THEN NoFile ELSE tree[h[t].req.from]
           new == IF f = NoFile THEN NoHandler ELSE [h[t] EXCEPT !.pc = "check", !.seen = f]
<1>1. h[t] \in HandlerType /\ Serves(t) /\ h[t].pc = "read" /\ tk' = tk
  BY DEF HandlersInv, ReadSource, vars
<1>2. h[t].req \in Request /\ h[t].req.op = "copy" /\ h[t].req.from \in Path /\ tk[t].pc = "idle"
  BY <1>1, HandlerCalls DEF Serves
<1>3. f \in File
  BY <1>2, Types DEF DiskInv, Tree
<1>4. f # NoFile => f \in Content
  BY <1>3 DEF File
<1>5. h' = [h EXCEPT ![t] = new]
  BY SMTT(60) DEF ReadSource
<1>6. new \in HandlerType /\ (f # NoFile => new.pc = "check" /\ new.seen = f /\ new.req = h[t].req)
  <2> HIDE DEF f
  <2>1. [h[t] EXCEPT !.pc = "check", !.seen = f] \in HandlerType
    BY <1>1, <1>3 DEF HandlerType, HandlerPC
  <2>2. f # NoFile => new = [h[t] EXCEPT !.pc = "check", !.seen = f]
    OBVIOUS
  <2>3. f = NoFile => new = NoHandler
    OBVIOUS
  <2>4. f # NoFile => new.pc = "check" /\ new.seen = f /\ new.req = h[t].req
    BY <1>1, <2>2 DEF HandlerType
  <2> QED BY ZenonT(60), <2>1, <2>2, <2>3, <2>4, HandlerTypes
<1>7. h'[t] = new /\ (f = NoFile => new = NoHandler)
  BY <1>5 DEF HandlersInv
<1> HIDE DEF new, f
<1>8. Serves(t)'
  <2>1. CASE f = NoFile
    BY <1>1, <1>2, <1>7, <2>1, IdleServes
  <2>2. CASE f # NoFile
    BY <1>1, <1>2, <1>4, <1>6, <1>7, <2>2 DEF Serves, FileOp
  <2> QED BY <2>1, <2>2
<1>9. HandlersInv'
  BY <1>1, <1>5, <1>6, <1>8, ServesOn DEF Alone
<1> QED BY <1>9 DEF ReadSource, vars, Rests, countVars

LEMMA CheckServes ==
  ASSUME HandlersInv, TasksInv, NEW t \in Task, CheckAbsent(t)
  PROVE  HandlersInv' /\ (Calls(t) \/ Rests) /\ UNCHANGED calls
<1> DEFINE r == h[t].req
           c == IF r.op = "copy" THEN CopyFileHandler(r, h[t].seen) ELSE handleSaveFile(r)
           new == [h[t] EXCEPT !.pc = "call", !.seen = NoFile]
<1>1. h[t] \in HandlerType /\ Serves(t) /\ h[t].pc = "check"
  BY DEF HandlersInv, CheckAbsent
<1>2. /\ r \in Request /\ r.op \in {"copy", "drop"} /\ tk[t].pc = "idle"
      /\ r.op = "copy" => h[t].seen \in Content
  BY <1>1 DEF Serves
<1>3. c \in Call /\ c \in CallType
  BY <1>2, HandlerCalls, CallsTyped
<1>4. CASE tk' = tk
  <2>1. h' = [h EXCEPT ![t] = NoHandler] \/ tk' = [tk EXCEPT ![t] = Called(c)]
    BY DEF CheckAbsent
  <2>2. tk' # [tk EXCEPT ![t] = Called(c)]
    BY <1>2, <1>3, <1>4, Types DEF TasksInv
  <2>3. h'[t] = NoHandler /\ h' = [h EXCEPT ![t] = NoHandler]
    BY SMTT(60), <2>1, <2>2 DEF HandlersInv
  <2>4. HandlersInv'
    BY ZenonT(60), <1>2, <1>4, <2>3, HandlerTypes, IdleServes, ServesOn DEF Alone
  <2> QED BY <1>4, <2>4 DEF CheckAbsent, Rests, countVars
<1>5. CASE tk' # tk
  <2>1. tk' = [tk EXCEPT ![t] = Called(c)] /\ h' = [h EXCEPT ![t].pc = "call", ![t].seen = NoFile]
    BY <1>5 DEF CheckAbsent
  <2>2. h' = [h EXCEPT ![t] = new] /\ h'[t] = new
    BY <1>1, <2>1 DEF HandlersInv
  <2>3. new \in HandlerType /\ new.pc = "call" /\ new.req = r
    BY <1>1, Types DEF HandlerType, HandlerPC
  <2>4. tk'[t] = Called(c) /\ tk'[t].call = c /\ Alone(t)
    BY <1>3, <2>1, Types DEF TasksInv, Alone
  <2>5. r.op = "copy" => \E f \in Content : c = CopyFileHandler(r, f)
    BY <1>2
  <2> HIDE DEF new, c
  <2>6. Serves(t)'
    BY <1>2, <2>2, <2>3, <2>4, <2>5 DEF Serves, FileOp
  <2>7. HandlersInv'
    BY <2>2, <2>3, <2>4, <2>6, ServesOn
  <2>8. Calls(t)
    BY <1>2, <1>3, <2>1 DEF Calls, CheckAbsent, countVars
  <2> QED BY <2>7, <2>8 DEF CheckAbsent, countVars
<1> QED BY <1>4, <1>5

LEMMA StoreServes ==
  ASSUME HandlersInv, TasksInv, DiskInv, NEW t \in Task, StoreStep(t)
  PROVE  HandlersInv'
<1> DEFINE new == IF tk'[t].pc # "idle" THEN h[t]
                  ELSE IF InCrit(t) /\ tk[t].todo = <<>> THEN [h[t] EXCEPT !.pc = "publish"]
                  ELSE NoHandler
<1>1. h[t] \in HandlerType /\ Serves(t) /\ h[t].pc = "call" /\ h' = [h EXCEPT ![t] = new]
  BY DEF HandlersInv, StoreStep
<1>2. /\ Alone(t) /\ tk[t].pc # "idle"
      /\ tk'[t].pc # "idle" => tk'[t].call = tk[t].call
  BY StepCall DEF StoreStep
<1>3. new \in HandlerType /\ h'[t] = new
  <2>1. [h[t] EXCEPT !.pc = "publish"] \in HandlerType
    BY <1>1 DEF HandlerType, HandlerPC
  <2>2. new \in {h[t], [h[t] EXCEPT !.pc = "publish"], NoHandler}
    OBVIOUS
  <2>3. new \in HandlerType
    BY ZenonT(60), <1>1, <2>1, <2>2, HandlerTypes
  <2> QED BY <1>1, <2>3 DEF HandlersInv
<1>4. Serves(t)'
  <2>1. CASE tk'[t].pc # "idle"
    BY <1>1, <1>2, <1>3, <2>1 DEF Serves
  <2>2. CASE tk'[t].pc = "idle" /\ new = NoHandler
    BY <1>3, <2>2, IdleServes
  <2>3. CASE tk'[t].pc = "idle" /\ new = [h[t] EXCEPT !.pc = "publish"]
    <3>1. h'[t].pc = "publish" /\ h'[t].req = h[t].req
      BY <1>1, <1>3, <2>3 DEF HandlerType
    <3> QED BY <1>1, <2>3, <3>1 DEF Serves
  <2> QED BY <2>1, <2>2, <2>3
<1> HIDE DEF new
<1> QED BY <1>1, <1>2, <1>3, <1>4, ServesOn

----------------------------------------------------------------------------
(* Connections and subscribers *)

Pats == {r.pat : r \in Request}
EventType == [id : 0..MaxCalls, path : Path]
SubType == [sess : Session \cup {None}, pats : SUBSET Pats, on : BOOLEAN, ch : Seq(EventType)]
ReapType == [pc : {"idle", "take", "tear"}, seen : SUBSET Session, dead : SUBSET Slot]
ConnInv ==
  /\ live \subseteq Session /\ lapsed \subseteq Session
  /\ reg \in [Session -> Slot \cup {0}] /\ sub \in [Slot -> SubType] /\ reap \in ReapType
  /\ told \in [Session -> SUBSET Pats] /\ owed \in [Session -> SUBSET EventType]

LEMMA SubTypes ==
  /\ NoSub \in SubType /\ ~NoSub.on /\ NoSub.pats = {} /\ NoSub.ch = <<>>
  /\ \A s \in Session :
       LET n == [NoSub EXCEPT !.sess = s, !.on = TRUE] IN
         n \in SubType /\ n.sess = s /\ n.on /\ n.pats = {} /\ n.ch = <<>>
  /\ NoReap \in ReapType /\ NoReap.dead = {} /\ NoReap.pc = "idle"
<1>1. <<>> \in Seq(EventType)
  OBVIOUS
<1> QED BY ZenonT(60), <1>1 DEF NoSub, SubType, NoReap, ReapType

\* A new subscriber gets a slot that nobody has.
LEMMA NewSlotIs ==
  ASSUME FreeSlots # {}
  PROVE  NewSlot \in Slot /\ NewSlot # 0 /\ sub[NewSlot] = NoSub /\ \A t \in Task : h[t].slot # NewSlot
<1>1. FreeSlots \in SUBSET Nat /\ Slot \subseteq Nat \ {0}
  BY SessionsAssumption DEF FreeSlots
<1>2. \E i \in FreeSlots : \A j \in FreeSlots : i <= j
  BY <1>1, LeastNat
<1>3. NewSlot \in FreeSlots
  BY <1>2 DEF NewSlot
<1> QED BY <1>1, <1>3 DEF FreeSlots

\* The path of a request that changes files.
LEMMA RequestPath ==
  ASSUME NEW r \in Request, r.op \in FileOp
  PROVE  r.path \in Path
<1>1. CASE r.op \in CallOp
  <2>1. FileCall(r) \in CallType
    BY <1>1, HandlerCalls, CallsTyped
  <2>2. FileCall(r).path = r.path
    <3>1. CASE r.sess \notin Web
      BY <1>1, <3>1 DEF FileCall, ToolCall, WriteFileHandler, AppendToFileHandler, DeleteFileHandler,
        MoveFileHandler, StoreCall, CallOp
    <3>2. CASE r.sess \in Web
      <4>1. r.op # "append"
        BY <3>2, SessionsAssumption
      <4> QED BY <1>1, <3>2, <4>1 DEF FileCall, WebCall, handleSaveFile, handleDeleteFile, handleMoveFile,
        StoreCall, CallOp
    <3> QED BY <3>1, <3>2
  <2> QED BY <2>1, <2>2 DEF CallType
<1>2. CASE r.op = "drop"
  <2>1. handleSaveFile(r) \in CallType
    BY <1>2, HandlerCalls, CallsTyped
  <2> QED BY <2>1 DEF CallType, handleSaveFile, StoreCall
<1>3. CASE r.op = "copy"
  <2>1. {} \in Content
    BY DEF Content
  <2>2. CopyFileHandler(r, {}) \in CallType
    BY <1>3, <2>1, HandlerCalls, CallsTyped
  <2> QED BY <2>2 DEF CallType, CopyFileHandler, StoreCall
<1> QED BY <1>1, <1>2, <1>3 DEF FileOp

LEMMA EventIs ==
  ASSUME HandlersInv, NEW t \in Task, h[t].pc \in {"call", "publish", "fan"}
  PROVE  Event(t) \in EventType
<1>1. h[t] \in HandlerType /\ Serves(t)
  BY DEF HandlersInv
<1>2. h[t].req \in Request /\ h[t].req.op \in FileOp
  BY <1>1 DEF Serves
<1>3. h[t].req.path \in Path
  BY <1>2, RequestPath
<1> QED BY <1>1, <1>3 DEF Event, EventType, HandlerType

\* Steps that give a handler to a task, while the store rests.
LEMMA HandsOn ==
  ASSUME HandlersInv, NEW t \in Task, NEW new \in HandlerType, h' = [h EXCEPT ![t] = new], tk' = tk,
         new.pc # "none" => /\ new.req \in Request
                            /\ new.pc \in {"publish", "fan"} => new.req.op \in FileOp,
         tk[t].pc = "idle", new.pc \in {"none", "publish", "fan", "add", "tear"}
  PROVE  HandlersInv'
<1>1. h'[t] = new
  BY DEF HandlersInv
<1>2. Serves(t)'
  BY <1>1 DEF Serves
<1> QED BY <1>2, ServesOn DEF Alone

\* The handlers of subscriptions and of the fan-out.
LEMMA FanOutServes ==
  ASSUME HandlersInv, NEW t \in Task, FanOut(t) \/ TearDown(t) \/ AddPattern(t) \/ \E i \in Slot : Deliver(t, i)
  PROVE  HandlersInv' /\ Rests
<1>1. h[t] \in HandlerType /\ Serves(t) /\ h[t].pc \in {"publish", "fan", "add", "tear"} /\ tk' = tk
  BY DEF HandlersInv, FanOut, TearDown, AddPattern, Deliver, vars
<1>2. tk[t].pc = "idle" /\ h[t].req \in Request
      /\ (h[t].pc \in {"publish", "fan"} => h[t].req.op \in FileOp)
  BY SMTT(60), <1>1 DEF Serves
<1>3. NoHandler \in HandlerType /\ NoHandler.pc = "none"
  BY ZenonT(60), HandlerTypes DEF NoHandler
<1>4. ASSUME h' = [h EXCEPT ![t] = NoHandler] PROVE HandlersInv'
  BY <1>1, <1>2, <1>3, <1>4, HandsOn
<1>5. ASSUME FanOut(t), h' # [h EXCEPT ![t] = NoHandler] PROVE HandlersInv'
  <2> DEFINE all == {i \in Slot : sub[i].on}
             new == [h[t] EXCEPT !.pc = "fan", !.left = all]
  <2>1. h' = [h EXCEPT ![t] = new] /\ h[t].pc = "publish"
    BY <1>5 DEF FanOut
  <2>2. new \in HandlerType /\ new.pc = "fan" /\ new.req = h[t].req
    BY ZenonT(60), <1>1 DEF HandlerType, HandlerPC
  <2> HIDE DEF new
  <2> QED BY <1>1, <1>2, <2>1, <2>2, HandsOn
<1>6. ASSUME NEW i \in Slot, Deliver(t, i), h' # [h EXCEPT ![t] = NoHandler] PROVE HandlersInv'
  <2> DEFINE new == [h[t] EXCEPT !.left = h[t].left \ {i}]
  <2>1. h' = [h EXCEPT ![t] = new] /\ h[t].pc = "fan"
    <3>1. h[t].pc = "fan" /\ h' = [h EXCEPT ![t].left = h[t].left \ {i}]
      BY <1>6 DEF Deliver
    <3> QED BY <3>1
  <2>2. new \in HandlerType /\ new.pc = "fan" /\ new.req = h[t].req
    BY SMTT(60), <1>1, <2>1 DEF HandlerType
  <2> HIDE DEF new
  <2> QED BY <1>1, <1>2, <2>1, <2>2, HandsOn
<1>7. TearDown(t) \/ AddPattern(t) => h' = [h EXCEPT ![t] = NoHandler]
  BY SMTT(60) DEF TearDown, AddPattern
<1>8. Rests
  BY DEF FanOut, TearDown, AddPattern, Deliver, vars, countVars, Rests
<1> QED BY <1>4, <1>5, <1>6, <1>7, <1>8

LEMMA SubscribeServes ==
  ASSUME HandlersInv, ConnInv, CountsInv, NEW t \in Task, NEW r \in Request, Subscribe(t, r) \/ Unsubscribe(t, r)
  PROVE  HandlersInv' /\ Rests /\ Counts
<1>1. /\ tk[t].pc = "idle" /\ h[t].pc = "none" /\ calls < MaxCalls /\ calls' = calls + 1
      /\ r.sess \in live /\ r.sess \in Session
  BY DEF Subscribe, Unsubscribe, Asks, ConnInv
<1>2. Rests
  BY DEF Subscribe, Unsubscribe, subOnly, Rests
<1>3. tk' = tk /\ 0 \in 0..MaxCalls
  BY <1>2, FileStoreAssumption DEF Rests
<1>4. ASSUME Subscribe(t, r) PROVE HandlersInv'
  <2> DEFINE new == [NoHandler EXCEPT !.pc = "add", !.req = r, !.slot = reg'[r.sess]]
  <2>1. h' = [h EXCEPT ![t] = new]
    BY <1>4 DEF Subscribe
  <2>2. reg'[r.sess] \in Slot \cup {0}
    BY <1>1, <1>4, NewSlotIs DEF Subscribe, ConnInv
  <2>3. new \in HandlerType /\ new.pc = "add" /\ new.req = r
    <3>1. "add" \in HandlerPC
      BY SMTT(60) DEF HandlerPC
    <3>2. \A i \in Slot \cup {0} : [NoHandler EXCEPT !.pc = "add", !.req = r, !.slot = i] \in HandlerType
      BY ZenonT(60), <1>3, <3>1, HandlerTypes
    <3>3. new \in HandlerType
      BY ZenonT(60), <2>2, <3>2
    <3> QED BY <3>3 DEF NoHandler
  <2> HIDE DEF new
  <2> QED BY <1>1, <1>3, <2>1, <2>3, HandsOn
<1>5. ASSUME Unsubscribe(t, r) PROVE HandlersInv'
  <2> DEFINE new == [NoHandler EXCEPT !.pc = "tear", !.req = r, !.slot = reg[r.sess]]
  <2>1. h' = h \/ h' = [h EXCEPT ![t] = new]
    BY <1>5 DEF Unsubscribe
  <2>2. new \in HandlerType /\ new.pc = "tear" /\ new.req = r
    <3>1. "tear" \in HandlerPC /\ reg[r.sess] \in Slot \cup {0}
      BY SMTT(60), <1>1 DEF HandlerPC, ConnInv
    <3>2. \A i \in Slot \cup {0} : [NoHandler EXCEPT !.pc = "tear", !.req = r, !.slot = i] \in HandlerType
      BY ZenonT(60), <1>3, <3>1, HandlerTypes
    <3>3. new \in HandlerType
      BY ZenonT(60), <3>1, <3>2
    <3> QED BY <3>3 DEF NoHandler
  <2> HIDE DEF new
  <2>3. h' = h => HandlersInv'
    BY <1>3 DEF HandlersInv, Serves
  <2> QED BY <1>1, <1>3, <2>1, <2>2, <2>3, HandsOn
<1> QED BY SMTT(60), <1>1, <1>2, <1>4, <1>5 DEF Counts, Subscribe, Unsubscribe

\* A step of the clients is a step of the write path, and handlers stay handlers.
LEMMA ClientSteps ==
  ASSUME ShapeInv, CountsInv, HandlersInv, ConnInv, [SessionsNext]_allVars
  PROVE  /\ CoreStep /\ HandlersInv'
         /\ [Next]_vars \/ (((\E t \in Task : Calls(t)) \/ Rests) /\ Counts)
<1>1. TasksInv /\ DiskInv
  BY DEF ShapeInv
<1> DEFINE Goal == /\ CoreStep /\ HandlersInv'
                   /\ [Next]_vars \/ (((\E t \in Task : Calls(t)) \/ Rests) /\ Counts)
<1>2. ASSUME Rests, HandlersInv', calls' = calls \/ Counts PROVE Goal
  BY <1>2 DEF CoreStep, Counts
<1>3. ASSUME NEW t \in Task, Calls(t), HandlersInv', calls' = calls \/ Counts PROVE Goal
  BY <1>3, CallsStart DEF CoreStep, Counts
<1>4. ASSUME Rests, h' = h PROVE HandlersInv'
  BY <1>4 DEF Rests, HandlersInv, Serves
<1>5. ASSUME NEW s \in Session, Connect(s) \/ Leave(s) \/ UnsubscribeWeb(s) PROVE Goal
  <2>1. Rests /\ h' = h /\ (calls' = calls \/ Counts)
    BY <1>5 DEF Connect, Leave, UnsubscribeWeb, Rests, vars, countVars, Counts
  <2> QED BY <1>2, <1>4, <2>1
<1>6. ASSUME NEW i \in Slot, Drain(i) PROVE Goal
  <2>1. Rests /\ h' = h /\ calls' = calls
    BY <1>6 DEF Drain, Rests, vars, countVars
  <2> QED BY <1>2, <1>4, <2>1
<1>7. ASSUME ReapList \/ ReapTake \/ ReapTear \/ UNCHANGED allVars PROVE Goal
  <2>1. Rests /\ h' = h /\ calls' = calls
    BY <1>7 DEF ReapList, ReapTake, ReapTear, Rests, allVars, sessionVars, vars, countVars
  <2> QED BY <1>2, <1>4, <2>1
<1>8. ASSUME NEW t \in Task, NEW r \in Request, Receive(t, r) \/ Subscribe(t, r) \/ Unsubscribe(t, r) PROVE Goal
  BY <1>1, <1>2, <1>3, <1>8, ReceiveServes, SubscribeServes
<1>9. ASSUME NEW t \in Task, ReadSource(t) \/ FanOut(t) \/ AddPattern(t) \/ TearDown(t) \/ \E i \in Slot : Deliver(t, i)
      PROVE Goal
  <2>1. HandlersInv' /\ Rests
    BY SMTT(60), <1>1, <1>9, ReadServes, FanOutServes
  <2>2. calls' = calls
    BY <1>9 DEF ReadSource, FanOut, AddPattern, TearDown, Deliver, vars, countVars
  <2> QED BY <1>2, <2>1, <2>2
<1>10. ASSUME NEW t \in Task, CheckAbsent(t) PROVE Goal
  BY <1>1, <1>2, <1>3, <1>10, CheckServes
<1>11. ASSUME NEW t \in Task, StoreStep(t) PROVE Goal
  <2>1. TaskStep(t) \/ StepFails(t)
    BY <1>11 DEF StoreStep
  <2> QED BY <1>1, <1>11, <2>1, StoreServes DEF CoreStep, Next
<1>12. ASSUME CommitOldest, UNCHANGED sessionVars PROVE Goal
  <2>1. HandlersInv'
    BY <1>12 DEF CommitOldest, sessionVars, HandlersInv, Serves
  <2> QED BY <1>12, <2>1 DEF CoreStep, Next
<1>13. ASSUME Crash PROVE Goal
  <2>1. Restart /\ tk' = [t \in Task |-> Idle] /\ h' = [t \in Task |-> NoHandler]
    BY SMTT(60), <1>13 DEF Crash, Restart
  <2>2. HandlersInv'
    BY ZenonT(60), <2>1, HandlerTypes, Types DEF HandlersInv, Serves, NoHandler
  <2> QED BY <2>1, <2>2 DEF CoreStep, Next
<1> QED BY <1>5, <1>6, <1>7, <1>8, <1>9, <1>10, <1>11, <1>12, <1>13 DEF SessionsNext

\* What the steps do to connections and subscribers has the types it should have.
LEMMA ConnUpdate ==
  ASSUME ConnInv, NEW i \in Slot, NEW n \in SubType, sub' = [sub EXCEPT ![i] = n]
  PROVE  sub' \in [Slot -> SubType]
BY DEF ConnInv

LEMMA ConnectTypes ==
  ASSUME ConnInv, NEW s \in Session, Connect(s) \/ Leave(s) \/ UnsubscribeWeb(s) PROVE ConnInv'
<1>1. CASE Connect(s)
  <2>1. s \in Web => NewSlot \in Slot
    BY <1>1, NewSlotIs DEF Connect
  <2>2. sub' \in [Slot -> SubType]
    BY ZenonT(60), <1>1, <2>1, SubTypes, ConnUpdate DEF Connect, ConnInv
  <2> QED BY <1>1, <2>1, <2>2 DEF Connect, ConnInv
<1>2. CASE Leave(s)
  BY <1>2 DEF Leave, ConnInv
<1>3. CASE UnsubscribeWeb(s)
  <2>1. reg[s] \in Slot
    BY <1>3 DEF UnsubscribeWeb, ConnInv
  <2>2. sub' \in [Slot -> SubType]
    BY ZenonT(60), <1>3, <2>1, SubTypes, ConnUpdate DEF UnsubscribeWeb
  <2> QED BY <1>3, <2>2 DEF UnsubscribeWeb, ConnInv
<1> QED BY <1>1, <1>2, <1>3

LEMMA EventTypes ==
  ASSUME HandlersInv, ConnInv,
         (\E t \in Task : StoreStep(t) \/ \E i \in Slot : Deliver(t, i)) \/ \E i \in Slot : Drain(i)
  PROVE  ConnInv'
<1>1. ASSUME NEW t \in Task, StoreStep(t) PROVE ConnInv'
  <2>1. Event(t) \in EventType
    BY <1>1, EventIs DEF StoreStep
  <2>2. \A s \in Session : owed[s] \cup {Event(t)} \in SUBSET EventType /\ owed[s] \in SUBSET EventType
    BY <2>1 DEF ConnInv
  <2>3. owed' \in [Session -> SUBSET EventType]
    BY SMTT(60), <1>1, <2>2 DEF StoreStep, ConnInv
  <2> QED BY <1>1, <2>3 DEF StoreStep, connVars, ConnInv
<1>2. ASSUME NEW t \in Task, NEW i \in Slot, Deliver(t, i) PROVE ConnInv'
  <2> DEFINE n == [sub[i] EXCEPT !.ch = Append(sub[i].ch, Event(t))]
  <2>1. Event(t) \in EventType /\ sub[i] \in SubType
    BY <1>2, EventIs DEF Deliver, ConnInv
  <2>2. n \in SubType
    <3>1. Append(sub[i].ch, Event(t)) \in Seq(EventType)
      BY <2>1 DEF SubType
    <3> QED BY <2>1, <3>1 DEF SubType
  <2>3. sub' = sub \/ sub' = [sub EXCEPT ![i] = n]
    BY <1>2 DEF Deliver
  <2> HIDE DEF n
  <2>4. sub' \in [Slot -> SubType]
    BY SMTT(60), <2>2, <2>3, ConnUpdate DEF ConnInv
  <2>5. owed' = owed \/ owed' = [owed EXCEPT ![sub[i].sess] = @ \ {Event(t)}]
    BY <1>2 DEF Deliver
  <2>6. owed' \in [Session -> SUBSET EventType]
    BY <2>5 DEF ConnInv
  <2> QED BY SMTT(60), <1>2, <2>4, <2>6 DEF Deliver, ConnInv
<1>3. ASSUME NEW i \in Slot, Drain(i) PROVE ConnInv'
  <2> DEFINE n == [sub[i] EXCEPT !.ch = Tail(sub[i].ch)]
  <2>1. sub[i] \in SubType /\ sub[i].ch \in Seq(EventType) /\ sub[i].ch # <<>>
    BY <1>3 DEF Drain, ConnInv, SubType
  <2>2. Tail(sub[i].ch) \in Seq(EventType)
    BY <2>1
  <2>3. n \in SubType
    <3> DEFINE c == Tail(sub[i].ch)
    <3>1. [sub[i] EXCEPT !.ch = c] \in SubType
      <4>1. c \in Seq(EventType)
        BY <2>2
      <4> HIDE DEF c
      <4> QED BY <2>1, <4>1 DEF SubType
    <3> QED BY <3>1
  <2>4. sub' = [sub EXCEPT ![i] = n]
    BY <1>3 DEF Drain
  <2> HIDE DEF n
  <2>5. sub' \in [Slot -> SubType]
    BY <2>3, <2>4, ConnUpdate
  <2>6. owed' \in [Session -> SUBSET EventType]
    BY <1>3 DEF Drain, ConnInv
  <2> QED BY <1>3, <2>5, <2>6 DEF Drain, ConnInv
<1> QED BY <1>1, <1>2, <1>3

LEMMA SubscribeTypes ==
  ASSUME HandlersInv, ConnInv, NEW t \in Task,
         (\E r \in Request : Subscribe(t, r) \/ Unsubscribe(t, r)) \/ AddPattern(t) \/ TearDown(t)
  PROVE  ConnInv'
<1>1. ASSUME NEW r \in Request, Subscribe(t, r) PROVE ConnInv'
  <2>1. r.sess \in Session
    BY ZenonT(60), <1>1 DEF Subscribe, Asks, ConnInv
  <2>2. reg[r.sess] = 0 => NewSlot \in Slot
    BY ZenonT(60), <1>1, NewSlotIs DEF Subscribe
  <2>3. sub' \in [Slot -> SubType]
    BY ZenonT(60), <1>1, <2>1, <2>2, SubTypes, ConnUpdate DEF Subscribe, ConnInv
  <2> QED BY ZenonT(60), <1>1, <2>1, <2>2, <2>3 DEF Subscribe, subOnly, ConnInv
<1>2. ASSUME NEW r \in Request, Unsubscribe(t, r) PROVE ConnInv'
  <2> DEFINE s == r.sess
             i == reg[s]
             gone == IF r.op = "clear" THEN sub[i].pats \cup told[s] ELSE {r.pat}
             n == [sub[i] EXCEPT !.pats = sub[i].pats \ gone]
  <2>1. s \in Session
    BY ZenonT(60), <1>2 DEF Unsubscribe, Asks, ConnInv
  <2>2. CASE i = 0
    BY ZenonT(60), <1>2, <2>2 DEF Unsubscribe, subOnly, ConnInv
  <2>3. CASE i # 0
    <3>1. i \in Slot /\ sub[i] \in SubType
      BY <2>1, <2>3 DEF ConnInv
    <3>2. n \in SubType
      BY SMTT(60), <3>1 DEF SubType
    <3>3. sub' = [sub EXCEPT ![i] = n] /\ GiveUp(s, gone)
      BY ZenonT(60), <1>2, <2>3 DEF Unsubscribe
    <3>4. told' \in [Session -> SUBSET Pats] /\ owed' \in [Session -> SUBSET EventType]
      BY SMTT(60), <2>1, <3>3 DEF GiveUp, ConnInv
    <3>5. reg' = reg \/ reg' = [reg EXCEPT ![s] = 0]
      BY ZenonT(60), <1>2, <2>3 DEF Unsubscribe
    <3> HIDE DEF n, i, gone, s
    <3>6. sub' \in [Slot -> SubType]
      BY <3>1, <3>2, <3>3, ConnUpdate
    <3>7. reg' \in [Session -> Slot \cup {0}]
      BY <3>5 DEF ConnInv
    <3> QED BY ZenonT(60), <1>2, <3>4, <3>6, <3>7 DEF Unsubscribe, subOnly, ConnInv
  <2> QED BY <2>2, <2>3
<1>3. CASE AddPattern(t)
  <2> DEFINE s == h[t].req.sess
             i == h[t].slot
             n == [sub[i] EXCEPT !.pats = sub[i].pats \cup {h[t].req.pat}]
  <2>1. h[t].req \in Request /\ h[t].req.pat \in Pats
    BY <1>3 DEF AddPattern, HandlersInv, Serves, Pats
  <2>2. s \in Session
    BY <2>1, SessionsAssumption
  <2>3. i \in Slot \cup {0}
    BY DEF HandlersInv, HandlerType
  <2>4. sub' = sub \/ sub' = [sub EXCEPT ![i] = n]
    BY <1>3 DEF AddPattern
  <2>5. told' = told \/ told' = [told EXCEPT ![s] = told[s] \cup {h[t].req.pat}]
    BY <1>3 DEF AddPattern
  <2>6. sub' \in [Slot -> SubType]
    <3>1. CASE i = 0
      <4>1. sub' = sub
        BY <2>4, <3>1, SessionsAssumption DEF ConnInv
      <4> QED BY <4>1 DEF ConnInv
    <3>2. CASE i # 0
      <4>1. i \in Slot /\ sub[i] \in SubType
        BY <2>3, <3>2 DEF ConnInv
      <4>2. n \in SubType
        BY <2>1, <4>1 DEF SubType
      <4> HIDE DEF n
      <4> QED BY <2>4, <4>1, <4>2, ConnUpdate DEF ConnInv
    <3> QED BY <3>1, <3>2
  <2>7. told' \in [Session -> SUBSET Pats]
    BY <2>1, <2>2, <2>5 DEF ConnInv
  <2>8. lapsed' \subseteq Session
    BY <1>3, <2>2 DEF AddPattern, ConnInv
  <2> QED BY <1>3, <2>6, <2>7, <2>8 DEF AddPattern, ConnInv
<1>4. CASE TearDown(t)
  <2>1. sub' \in [Slot -> SubType]
    BY ZenonT(60), <1>4, SubTypes DEF TearDown, ConnInv
  <2> QED BY <1>4, <2>1 DEF TearDown, ConnInv
<1> QED BY <1>1, <1>2, <1>3, <1>4

LEMMA ReaperTypes ==
  ASSUME ConnInv, ReapList \/ ReapTake \/ ReapTear PROVE ConnInv'
<1>1. CASE ReapList
  BY <1>1 DEF ReapList, ConnInv, ReapType
<1>2. CASE ReapTake
  <2> DEFINE dead == {s \in Session \ Web : reg[s] # 0 /\ s \notin reap.seen}
  <2>1. {reg[s] : s \in dead} \in SUBSET Slot
    BY DEF ConnInv
  <2>2. reap' \in ReapType
    BY <1>2, <2>1 DEF ReapTake, ReapType
  <2>3. reg' \in [Session -> Slot \cup {0}]
    BY <1>2 DEF ReapTake, ConnInv
  <2> QED BY <1>2, <2>2, <2>3 DEF ReapTake, ConnInv
<1>3. CASE ReapTear
  <2>1. sub' \in [Slot -> SubType]
    BY ZenonT(60), <1>3, SubTypes DEF ReapTear, ConnInv
  <2> QED BY ZenonT(60), <1>3, <2>1, SubTypes DEF ReapTear, ConnInv
<1> QED BY <1>1, <1>2, <1>3

LEMMA ConnTypes ==
  ASSUME HandlersInv, ConnInv, [SessionsNext]_allVars PROVE ConnInv'
<1>1. ASSUME UNCHANGED <<connVars, owed>> PROVE ConnInv'
  BY SMTT(60), <1>1 DEF connVars, ConnInv
<1>2. ASSUME NEW t \in Task, (\E r \in Request : Receive(t, r)) \/ ReadSource(t) \/ CheckAbsent(t) \/ FanOut(t)
      PROVE  ConnInv'
  BY ZenonT(60), <1>1, <1>2 DEF Receive, ReadSource, CheckAbsent, FanOut
<1>3. CASE Crash
  BY ZenonT(60), <1>3, SubTypes DEF Crash, ConnInv
<1>4. CASE (CommitOldest /\ UNCHANGED sessionVars) \/ UNCHANGED allVars
  BY <1>1, <1>4 DEF sessionVars, allVars
<1> QED BY <1>2, <1>3, <1>4, ConnectTypes, EventTypes, SubscribeTypes, ReaperTypes DEF SessionsNext

----------------------------------------------------------------------------
(* Calls of the write path, between tree and catalog *)

\* What a call under its locks may rely on: the bytes it checked are still there until it
\* replaces them, a move's content is at its source until it is removed there and at its
\* target from the time it is put there, and what was disowned is out of the catalog.
Fresh(t) ==
  LET c == tk[t].call IN
    /\ c.op \in {"write", "append"} /\ "put" \in ToDo(t) => Matches(c.ifMatch, tree[c.path])
    /\ c.op = "append" /\ "put" \in ToDo(t) => tk[t].new = Etag(tree[c.path]) \cup c.content
    /\ c.op = "move" /\ "remove" \in ToDo(t) => tree[c.from] = tk[t].new
    /\ c.op # "delete" /\ "put" \notin ToDo(t) => tree[c.path] = tk[t].new
    /\ c.op \in {"delete", "move"} /\ "disown" \notin ToDo(t) \cup Failing => catalog[Victim(c)] = NoFile
FreshInv == \A t \in Task : InCrit(t) => Fresh(t)
\* The move whose source p was removed and is still in the catalog.
Leaving(t, p) == InCrit(t) /\ tk[t].call.op = "move" /\ tk[t].call.from = p /\ "disown" \in ToDo(t)
Owned(p) == catalog[p] # NoFile => tree[p] # NoFile \/ p \in torn \/ \E t \in Task : Leaving(t, p)
OwnedInv == registered = TRUE /\ \A p \in Path : Owned(p)

\* The order of the plans.
LEMMA StageOrder ==
  ASSUME NEW op \in CallOp, NEW T \in Stages(op)
  PROVE  /\ op \in {"write", "append"} =>
              T \subseteq {"put", "log", "own"} /\ ("put" \in T => "log" \in T) /\ ("log" \in T => "own" \in T)
         /\ op = "delete" =>
              T \subseteq {"disown", "log", "remove"} /\ ("disown" \in T => "log" \in T)
              /\ ("log" \in T => "remove" \in T)
         /\ op = "move" =>
              T \subseteq {"put", "remove", "disown", "own", "log"} /\ ("put" \in T => "remove" \in T)
              /\ ("remove" \in T => "disown" \in T) /\ ("disown" \in T => "own" \in T) /\ ("own" \in T => "log" \in T)
<1>1. CASE op \in {"write", "append"}
  BY <1>1 DEF Stages
<1>2. CASE op = "delete"
  BY <1>2 DEF Stages
<1>3. CASE op = "move"
  BY <1>3 DEF Stages
<1> QED BY <1>1, <1>2, <1>3 DEF CallOp

\* What was done before a step of a plan, and what is not done yet.
LEMMA TakesOrder ==
  ASSUME TasksInv, NEW t \in Task, NEW s, Takes(t, s)
  PROVE  LET op == tk[t].call.op IN
         /\ InCrit(t) /\ InCrit(t)' /\ ToDo(t)' = ToDo(t) \ {s}
         /\ tk'[t].call = tk[t].call /\ tk'[t].new = tk[t].new
         /\ s = "put" => op # "delete" /\ (op = "move" => "remove" \in ToDo(t) /\ "disown" \in ToDo(t))
         /\ s = "remove" => /\ op \in {"delete", "move"} /\ (op = "delete" => "disown" \notin ToDo(t))
                            /\ op = "move" => "put" \notin ToDo(t) /\ "disown" \in ToDo(t)
         /\ s = "disown" => /\ op \in {"delete", "move"}
                            /\ op = "move" => "put" \notin ToDo(t) /\ "remove" \notin ToDo(t)
         /\ s = "own" => /\ op # "delete" /\ "put" \notin ToDo(t)
                         /\ op = "move" => "disown" \notin ToDo(t)
<1> DEFINE op == tk[t].call.op
<1>1. /\ InCrit(t) /\ tk'[t].pc = "crit" /\ ToDo(t)' = ToDo(t) \ {s} /\ s \in ToDo(t)
      /\ tk'[t].call = tk[t].call /\ tk'[t].new = tk[t].new /\ tk'[t].todo \in Rest(op)
  BY DEF Takes, ToDo
<1>2. op \in CallOp /\ ToDo(t) \in Stages(op)
  BY <1>1, InCritFacts
<1>3. ToDo(t) \ {s} \in Stages(op)
  <2>1. Elements(tk'[t].todo) \in Stages(op)
    BY <1>1, <1>2, RestStages
  <2> QED BY <1>1, <2>1 DEF ToDo
<1>4. CASE op \in {"write", "append"}
  BY <1>1, <1>2, <1>3, <1>4, StageOrder DEF InCrit
<1>5. CASE op = "delete"
  BY <1>1, <1>2, <1>3, <1>5, StageOrder DEF InCrit
<1>6. CASE op = "move"
  BY <1>1, <1>2, <1>3, <1>6, StageOrder DEF InCrit
<1> HIDE DEF op
<1> QED BY <1>2, <1>4, <1>5, <1>6 DEF CallOp

\* A call keeps what it relies on while nothing at its paths changes.
LEMMA FreshKept ==
  ASSUME TasksInv, NEW t \in Task, InCrit(t), Fresh(t), tk'[t] = tk[t],
         \A p \in Paths(tk[t].call) : tree'[p] = tree[p] /\ (catalog'[p] = catalog[p] \/ catalog'[p] = NoFile)
  PROVE  Fresh(t)'
<1> DEFINE c == tk[t].call
<1>1. c.path \in Paths(c) /\ (c.op = "move" => c.from \in Paths(c)) /\ Victim(c) \in Paths(c)
  BY PathsOf DEF Paths
<1>2. tree'[c.path] = tree[c.path] /\ (c.op = "move" => tree'[c.from] = tree[c.from])
      /\ (catalog[Victim(c)] = NoFile => catalog'[Victim(c)] = NoFile)
  BY <1>1
<1>3. tk'[t].call = c /\ tk'[t].new = tk[t].new /\ ToDo(t)' = ToDo(t)
  BY DEF ToDo
<1> QED BY <1>2, <1>3 DEF Fresh

LEMMA FreshCore ==
  ASSUME ShapeInv, FreshInv, registered = TRUE, CoreStep
  PROVE  FreshInv'
<1>1. TasksInv /\ DiskInv /\ Exclusive /\ tree \in Tree /\ catalog \in Tree
  BY DEF ShapeInv, DiskInv, CatalogInv
<1>2. ASSUME NEW t \in Task, Starts(t) \/ TaskStep(t) \/ StepFails(t) PROVE FreshInv'
  <2> DEFINE c == tk[t].call
  \* The others are elsewhere.
  <2>1. ASSUME Alone(t), InCrit(t) \/ (tree' = tree /\ catalog' = catalog),
               \A p \in Path \ Paths(c) : tree'[p] = tree[p] /\ catalog'[p] = catalog[p],
               InCrit(t)' => Fresh(t)'
        PROVE  FreshInv'
    <3>1. ASSUME NEW u \in Task, u # t, InCrit(u)' PROVE Fresh(u)'
      <4>1. tk'[u] = tk[u] /\ InCrit(u) /\ Fresh(u) /\ Paths(tk[u].call) \subseteq Path
        BY <1>1, <2>1, <3>1, PathsOf DEF Alone, InCrit, FreshInv
      <4>2. \A p \in Paths(tk[u].call) : tree'[p] = tree[p] /\ catalog'[p] = catalog[p]
        BY <1>1, <2>1, <3>1, <4>1, Apart
      <4> QED BY <1>1, <4>1, <4>2, FreshKept
    <3> QED BY <2>1, <3>1 DEF FreshInv
  <2>2. CASE Quiet /\ UNCHANGED catVars
    <3>1. ASSUME NEW u \in Task, InCrit(u)' PROVE Fresh(u)'
      <4>1. tk'[u] = tk[u] /\ InCrit(u) /\ Fresh(u) /\ tree' = tree /\ catalog' = catalog
        BY <2>2, <3>1 DEF Quiet, InCrit, FreshInv, diskVars, catVars
      <4> QED BY <1>1, <4>1, FreshKept
    <3> QED BY <3>1 DEF FreshInv
  <2>3. CASE Enters(t)
    <3>1. /\ tree' = tree /\ catalog' = catalog /\ Alone(t) /\ c \in CallType
          /\ Accepts(c, tree[c.path], tree[c.from])
          /\ tk'[t].call = c /\ tk'[t].todo = Plan(c.op)
          /\ tk'[t].new = NewContent(c, tree[c.path], tree[c.from])
      BY <2>3 DEF Enters, diskVars, catVars
    <3>2. ToDo(t)' = Elements(Plan(c.op)) /\ c.op \in CallOp
      BY <3>1 DEF ToDo, CallType
    <3>3. /\ c.op # "delete" => "put" \in ToDo(t)'
          /\ c.op \in {"delete", "move"} => "disown" \in ToDo(t)'
      BY SMTT(60), <3>2, PlanSteps DEF CallOp
    <3>4. /\ c.op \in {"write", "append"} => Matches(c.ifMatch, tree[c.path])
          /\ c.op = "append" => NewContent(c, tree[c.path], tree[c.from]) = Etag(tree[c.path]) \cup c.content
          /\ c.op = "move" => NewContent(c, tree[c.path], tree[c.from]) = tree[c.from]
      BY <3>1 DEF Accepts, NewContent
    <3>5. Fresh(t)'
      BY <3>1, <3>3, <3>4 DEF Fresh
    <3> QED BY <2>1, <3>1, <3>5
  <2>4. ASSUME NEW s, Takes(t, s)
        PROVE  /\ Alone(t) /\ InCrit(t) /\ Fresh(t) /\ c.path \in Path /\ Victim(c) \in Path /\ c.from \in Path
               /\ c.path \in Paths(c) /\ Victim(c) \in Paths(c)
               /\ c.op = "move" => Victim(c) = c.from /\ c.from # c.path
               /\ c.op = "delete" => Victim(c) = c.path
               /\ tk'[t].call = c /\ tk'[t].new = tk[t].new /\ ToDo(t)' = ToDo(t) \ {s}
    <3>1. InCrit(t) /\ Alone(t)
      BY <2>4 DEF Takes
    <3>2. Fresh(t) /\ Victim(c) \in Paths(c) /\ Paths(c) \subseteq Path /\ c.path \in Paths(c)
      BY <1>1, <3>1, PathsOf DEF FreshInv
    <3>3. c.from \in Path /\ (c.op = "move" => c.path # c.from)
      BY <1>1, <3>1, InCritFacts
    <3> QED BY <1>1, <2>4, <3>1, <3>2, <3>3, TakesOrder DEF Victim
  <2>5. CASE Put(t) /\ Takes(t, "put")
    <3>1. tree' = [tree EXCEPT ![c.path] = tk[t].new] /\ catalog' = catalog
      BY <2>5 DEF Put, catVars
    <3>2. tree'[c.path] = tk[t].new /\ \A p \in Path \ {c.path} : tree'[p] = tree[p]
      BY <1>1, <2>4, <2>5, <3>1 DEF Tree
    <3>3. Fresh(t)'
      BY <1>1, <2>4, <2>5, <3>1, <3>2, TakesOrder DEF Fresh
    <3> QED BY <2>1, <2>4, <2>5, <3>1, <3>2, <3>3
  <2>6. CASE Remove(t) /\ Takes(t, "remove")
    <3>1. tree' = [tree EXCEPT ![Victim(c)] = NoFile] /\ catalog' = catalog
      BY <2>6 DEF Remove, catVars
    <3>2. \A p \in Path \ {Victim(c)} : tree'[p] = tree[p]
      BY <1>1, <2>4, <2>6, <3>1 DEF Tree
    <3>3. c.op \in {"delete", "move"} /\ "remove" \notin ToDo(t)' /\ \A s : s # "remove" => (s \in ToDo(t)' <=> s \in ToDo(t))
      BY <1>1, <2>4, <2>6, TakesOrder
    <3>4. Fresh(t)'
      BY <2>4, <2>6, <3>1, <3>2, <3>3 DEF Fresh
    <3> QED BY <2>1, <2>4, <2>6, <3>1, <3>2, <3>4
  <2>7. CASE Log(t) /\ Takes(t, "log")
    <3>1. tree' = tree /\ catalog' = catalog
      BY <2>7 DEF Log, catVars
    <3>2. Fresh(t)'
      BY <2>4, <2>7, <3>1 DEF Fresh
    <3> QED BY <2>1, <2>4, <2>7, <3>1, <3>2
  <2>8. CASE Own(t) /\ Takes(t, "own")
    <3>1. tree' = tree /\ (catalog' = [catalog EXCEPT ![c.path] = tk[t].new] \/ catalog' = catalog)
      BY <2>8 DEF Own, CatalogStep, diskVars
    <3>2. \A p \in Path \ {c.path} : catalog'[p] = catalog[p]
      BY <1>1, <3>1 DEF Tree
    <3>3. c.op # "delete"
      BY <1>1, <2>8, TakesOrder
    <3>4. Fresh(t)'
      BY <2>4, <2>8, <3>1, <3>2, <3>3 DEF Fresh
    <3> QED BY <2>1, <2>4, <2>8, <3>1, <3>2, <3>4
  <2>9. CASE Disown(t) /\ Takes(t, "disown")
    <3>1. /\ tree' = tree
          /\ catalog' = [catalog EXCEPT ![Victim(c)] = NoFile] \/ ("disown" \in Failing /\ catalog' = catalog)
      BY <2>9 DEF Disown, CatalogStep, diskVars
    <3>2. /\ catalog'[Victim(c)] = NoFile \/ "disown" \in Failing
          /\ \A p \in Path \ {Victim(c)} : catalog'[p] = catalog[p]
      BY <1>1, <2>4, <2>9, <3>1 DEF Tree
    <3>3. Fresh(t)'
      BY <2>4, <2>9, <3>1, <3>2 DEF Fresh
    <3> QED BY <2>1, <2>4, <2>9, <3>1, <3>2, <3>3
  <2>10. CASE (Return(t) \/ StepFails(t)) /\ Ends(t)
    <3>1. tree' = tree /\ catalog' = catalog
      BY <2>10 DEF Return, StepFails, diskVars, catVars
    <3>2. Alone(t) /\ ~InCrit(t)'
      BY <2>10, Types DEF Ends, InCrit
    <3> QED BY <2>1, <3>1, <3>2
  <2> QED BY <1>1, <1>2, <2>2, <2>3, <2>5, <2>6, <2>7, <2>8, <2>9, <2>10, TaskEffects
<1>3. CASE CommitOldest \/ Rests
  <2>1. tree' = tree /\ catalog' = catalog /\ tk' = tk
    BY <1>3 DEF CommitOldest, Rests, diskVars, catVars
  <2>2. ASSUME NEW u \in Task, InCrit(u)' PROVE Fresh(u)'
    <3>1. InCrit(u) /\ Fresh(u)
      BY <2>1, <2>2 DEF InCrit, FreshInv
    <3> QED BY <1>1, <2>1, <3>1, FreshKept
  <2> QED BY <2>2 DEF FreshInv
<1>4. CASE Restart
  BY <1>4, Types DEF Restart, FreshInv, InCrit
<1> QED BY <1>2, <1>3, <1>4 DEF CoreStep

\* A move cut off between the removal of its source and its removal from the catalog is cut
\* in half.
LEMMA LeavingIsHalf ==
  ASSUME TasksInv, FreshInv, NEW t \in Task, NEW p \in Path, Leaving(t, p), tree[p] = NoFile
  PROVE  p \in HalfPaths(t)
<1> DEFINE c == tk[t].call
<1>1. InCrit(t) /\ c.op = "move" /\ c.from = p /\ "disown" \in ToDo(t) /\ Fresh(t)
  BY DEF Leaving, FreshInv
<1>2. tk[t].new # NoFile /\ ToDo(t) \in Stages(c.op) /\ c.op \in CallOp
  BY <1>1, InCritFacts
<1>3. "remove" \notin ToDo(t)
  BY <1>1, <1>2 DEF Fresh
<1>4. "put" \notin ToDo(t) /\ "log" \in ToDo(t)
  BY <1>1, <1>2, <1>3, StageOrder
<1>5. "log" \in ToTouch(t) /\ "put" \in (Elements(Plan(c.op)) \ Elements(tk[t].todo)) \cap Touches
  BY <1>1, <1>2, <1>4, PlanSteps DEF ToTouch, ToDo, Touches
<1>6. Half(t)
  BY <1>1, <1>5 DEF Half
<1> QED BY <1>1, <1>6 DEF HalfPaths, Paths

LEMMA OwnedCore ==
  ASSUME ShapeInv, FreshInv, OwnedInv, "disown" \notin Failing, CoreStep
  PROVE  OwnedInv'
<1>1. /\ TasksInv /\ DiskInv /\ Exclusive /\ tree \in Tree /\ catalog \in Tree /\ torn \subseteq Path
      /\ registered = TRUE /\ \A p \in Path : Owned(p)
  BY DEF ShapeInv, DiskInv, CatalogInv, OwnedInv
\* A path is settled, or nothing about it changes for the worse.
<1>2. ASSUME registered' = TRUE,
             \A p \in Path :
               \/ catalog'[p] = NoFile \/ tree'[p] # NoFile \/ p \in torn' \/ \E t \in Task : Leaving(t, p)'
               \/ /\ tree'[p] = tree[p] /\ catalog'[p] = catalog[p] /\ (p \in torn => p \in torn')
                  /\ \A t \in Task : Leaving(t, p) => Leaving(t, p)'
      PROVE  OwnedInv'
  <2>1. ASSUME NEW p \in Path PROVE Owned(p)'
    <3>1. Owned(p)
      BY <1>1
    <3>2. CASE \/ catalog'[p] = NoFile \/ tree'[p] # NoFile \/ p \in torn'
      BY <3>2 DEF Owned
    <3>3. CASE \E t \in Task : Leaving(t, p)'
      BY <3>3 DEF Owned
    <3>4. CASE /\ tree'[p] = tree[p] /\ catalog'[p] = catalog[p] /\ (p \in torn => p \in torn')
               /\ \A t \in Task : Leaving(t, p) => Leaving(t, p)'
      BY <3>1, <3>4 DEF Owned
    <3> QED BY <1>2, <3>2, <3>3, <3>4
  <2> QED BY <1>2, <2>1 DEF OwnedInv
<1>3. ASSUME NEW t \in Task, Starts(t) \/ TaskStep(t) \/ StepFails(t) PROVE OwnedInv'
  <2> DEFINE c == tk[t].call
  <2>1. CASE Quiet /\ UNCHANGED catVars
    <3>1. registered' = TRUE /\ tree' = tree /\ catalog' = catalog /\ torn' = torn
      BY <1>1, <2>1 DEF Quiet, diskVars, catVars, ghostVars
    <3>2. \A p \in Path : \A u \in Task : Leaving(u, p) => Leaving(u, p)'
      BY <2>1 DEF Quiet, Leaving, InCrit, ToDo
    <3> QED BY <1>2, <3>1, <3>2
  <2>2. CASE Enters(t)
    <3>1. registered' = TRUE /\ tree' = tree /\ catalog' = catalog /\ torn' = torn
      BY <1>1, <2>2 DEF Enters, diskVars, catVars, ghostVars
    <3>2. \A p \in Path : \A u \in Task : Leaving(u, p) => Leaving(u, p)'
      BY <2>2 DEF Enters, Alone, Leaving, InCrit, ToDo
    <3> QED BY <1>2, <3>1, <3>2
  <2>3. ASSUME NEW s, Takes(t, s)
        PROVE  /\ InCrit(t) /\ InCrit(t)' /\ Fresh(t) /\ c.path \in Path /\ Victim(c) \in Path /\ c.from \in Path
               /\ c.op = "move" => Victim(c) = c.from /\ c.from # c.path
               /\ tk[t].new \in File /\ (c.op # "delete" => tk[t].new # NoFile) /\ tk'[t].call = c
               /\ \A u \in Task, p \in Path : u # t => (Leaving(u, p) => Leaving(u, p)')
               /\ s # "disown" => \A p \in Path : Leaving(t, p) => Leaving(t, p)'
               /\ \A p \in Path : Leaving(t, p) => p = c.from /\ c.op = "move"
    <3>1. InCrit(t) /\ Alone(t) /\ InCrit(t)' /\ tk'[t].call = c /\ ToDo(t)' = ToDo(t) \ {s}
      BY <1>1, <2>3, TakesOrder DEF Takes
    <3>2. Fresh(t) /\ Victim(c) \in Path
      BY <1>1, <3>1, PathsOf DEF FreshInv
    <3>3. c.path \in Path /\ c.from \in Path /\ (c.op = "move" => c.path # c.from)
          /\ tk[t].new \in File /\ (c.op # "delete" => tk[t].new # NoFile)
      BY <1>1, <3>1, InCritFacts
    <3>4. \A u \in Task, p \in Path : u # t => (Leaving(u, p) => Leaving(u, p)')
      BY <3>1 DEF Alone, Leaving, InCrit, ToDo
    <3>5. /\ s # "disown" => \A p \in Path : Leaving(t, p) => Leaving(t, p)'
          /\ \A p \in Path : Leaving(t, p) => p = c.from /\ c.op = "move"
      BY <3>1 DEF Leaving
    <3> QED BY <3>1, <3>2, <3>3, <3>4, <3>5 DEF Victim
  <2>4. CASE Put(t) /\ Takes(t, "put")
    <3>1. tree' = [tree EXCEPT ![c.path] = tk[t].new] /\ catalog' = catalog /\ registered' = TRUE /\ torn' = torn
      BY <1>1, <2>4 DEF Put, catVars, ghostVars
    <3>2. c.op # "delete"
      BY <1>1, <2>4, TakesOrder
    <3>3. tree'[c.path] # NoFile /\ \A p \in Path \ {c.path} : tree'[p] = tree[p]
      BY <1>1, <2>3, <2>4, <3>1, <3>2 DEF Tree
    <3>4. \A p \in Path : \A u \in Task : Leaving(u, p) => Leaving(u, p)'
      BY <2>3, <2>4
    <3> QED BY <1>2, <3>1, <3>3, <3>4
  <2>5. CASE Remove(t) /\ Takes(t, "remove")
    <3>1. tree' = [tree EXCEPT ![Victim(c)] = NoFile] /\ catalog' = catalog /\ registered' = TRUE /\ torn' = torn
      BY <1>1, <2>5 DEF Remove, catVars, ghostVars
    <3>2. \A p \in Path \ {Victim(c)} : tree'[p] = tree[p]
      BY <1>1, <3>1 DEF Tree
    <3>3. ASSUME NEW p \in Path, p = Victim(c) PROVE catalog'[p] = NoFile \/ Leaving(t, p)'
      <4>1. CASE c.op = "delete"
        <5>1. catalog[Victim(c)] = NoFile
          BY <1>1, <2>3, <2>5, <4>1, TakesOrder DEF Fresh
        <5> QED BY <3>1, <3>3, <5>1
      <4>2. CASE c.op # "delete"
        <5>1. c.op = "move" /\ "disown" \in ToDo(t) /\ ToDo(t)' = ToDo(t) \ {"remove"}
          BY <1>1, <2>5, <4>2, TakesOrder
        <5>2. tk'[t].call = c /\ InCrit(t)' /\ p = c.from
          BY <2>3, <2>5, <3>3, <5>1
        <5> QED BY <5>1, <5>2 DEF Leaving
      <4> QED BY <4>1, <4>2
    <3>4. \A p \in Path : \A u \in Task : Leaving(u, p) => Leaving(u, p)'
      BY <2>3, <2>5
    <3> QED BY <1>2, <3>1, <3>2, <3>3, <3>4
  <2>6. CASE Log(t) /\ Takes(t, "log")
    <3>1. tree' = tree /\ catalog' = catalog /\ registered' = TRUE /\ torn' = torn
      BY <1>1, <2>6 DEF Log, catVars, ghostVars
    <3>2. \A p \in Path : \A u \in Task : Leaving(u, p) => Leaving(u, p)'
      BY <2>3, <2>6
    <3> QED BY <1>2, <3>1, <3>2
  <2>7. CASE Own(t) /\ Takes(t, "own")
    <3>1. /\ tree' = tree /\ registered' = TRUE /\ torn' = torn
          /\ catalog' = [catalog EXCEPT ![c.path] = tk[t].new] \/ catalog' = catalog
      BY <1>1, <2>7 DEF Own, CatalogStep, diskVars, ghostVars
    <3>2. \A p \in Path \ {c.path} : catalog'[p] = catalog[p]
      BY <1>1, <3>1 DEF Tree
    <3>3. c.op # "delete" /\ "put" \notin ToDo(t)
      BY <1>1, <2>7, TakesOrder
    <3>4. tree[c.path] # NoFile
      BY <2>3, <2>7, <3>3 DEF Fresh
    <3>5. \A p \in Path : \A u \in Task : Leaving(u, p) => Leaving(u, p)'
      BY <2>3, <2>7
    <3> QED BY <1>2, <3>1, <3>2, <3>4, <3>5
  <2>8. CASE Disown(t) /\ Takes(t, "disown")
    <3>1. /\ tree' = tree /\ registered' = TRUE /\ torn' = torn
          /\ catalog' = [catalog EXCEPT ![Victim(c)] = NoFile]
      BY <1>1, <2>8 DEF Disown, CatalogStep, diskVars, ghostVars
    <3>2. catalog'[Victim(c)] = NoFile /\ \A p \in Path \ {Victim(c)} : catalog'[p] = catalog[p]
      BY <1>1, <2>3, <2>8, <3>1 DEF Tree
    <3>4. \A p \in Path \ {Victim(c)} : ~Leaving(t, p)
      BY <2>3, <2>8
    <3>5. \A p \in Path \ {Victim(c)} : \A u \in Task : Leaving(u, p) => Leaving(u, p)'
      BY <2>3, <2>8, <3>4
    <3> QED BY <1>2, <3>1, <3>2, <3>5
  \* The end of a call: its paths are settled.
  <2>9. ASSUME Ends(t), tree' = tree, UNCHANGED catVars, \A p \in Path \ Paths(c) : p \in torn => p \in torn',
               \A p \in Paths(c) : catalog[p] # NoFile => tree[p] # NoFile \/ p \in torn'
        PROVE  OwnedInv'
    <3>1. InCrit(t) /\ Alone(t) /\ Paths(c) \in SUBSET Path
      BY <1>1, <2>9, PathsOf DEF Ends
    <3>2. \A p \in Path \ Paths(c) : ~Leaving(t, p)
      BY DEF Leaving, Paths
    <3>3. \A p \in Path \ Paths(c) : \A u \in Task : Leaving(u, p) => Leaving(u, p)'
      BY <3>1, <3>2 DEF Alone, Leaving, InCrit, ToDo
    <3>4. tree' = tree /\ catalog' = catalog /\ registered' = TRUE
      BY <1>1, <2>9 DEF catVars
    <3> QED BY <1>2, <2>9, <3>1, <3>3, <3>4
  <2>10. CASE Return(t) /\ Ends(t)
    <3>1. /\ tree' = tree /\ UNCHANGED catVars /\ acked' = Apply(acked, Entry(t)) /\ InCrit(t)
          /\ torn' = torn \ {p \in Paths(c) : tree[p] = acked'[p]} /\ ToDo(t) = {}
      BY <1>1, <2>10, InCritFacts DEF Return, diskVars
    <3>2. \A p \in Path : acked'[p] = IF p \in Paths(c) THEN Leaves(t, p) ELSE acked[p]
      BY <1>1, <3>1, EntryIs DEF DiskInv
    <3>3. /\ Fresh(t) /\ c.op \in CallOp /\ (c.op # "delete" => tk[t].new # NoFile)
          /\ (c.op = "move" => c.path # c.from)
      BY <1>1, <3>1, InCritFacts, Types DEF FreshInv
    <3>4. /\ c.op # "delete" => tree[c.path] # NoFile
          /\ c.op \in {"delete", "move"} => catalog[Victim(c)] = NoFile
      BY <3>1, <3>3 DEF Fresh
    <3>5. \A p \in Paths(c) : tree[p] # NoFile \/ catalog[p] = NoFile
      BY <3>3, <3>4 DEF Paths, Victim, CallOp
    <3> QED BY <2>9, <2>10, <3>1, <3>5
  <2>11. CASE StepFails(t) /\ Ends(t)
    <3>1. /\ tree' = tree /\ UNCHANGED catVars /\ torn' = torn \cup HalfPaths(t) /\ InCrit(t)
      BY <2>11 DEF StepFails, diskVars
    <3>2. \A p \in Paths(c) : catalog[p] # NoFile => tree[p] # NoFile \/ p \in torn'
      <4>1. ASSUME NEW p \in Paths(c), catalog[p] # NoFile, tree[p] = NoFile PROVE p \in torn'
        <5>1. p \in Path /\ (p \in torn \/ \E u \in Task : Leaving(u, p))
          BY <1>1, <3>1, <4>1, PathsOf DEF Owned
        <5>2. ASSUME NEW u \in Task, Leaving(u, p) PROVE u = t
          <6>1. InCrit(u) /\ p \in Paths(tk[u].call)
            BY <5>2 DEF Leaving, Paths
          <6> QED BY <1>1, <3>1, <4>1, <6>1, Apart
        <5>3. Leaving(t, p) => p \in HalfPaths(t)
          BY <1>1, <4>1, <5>1, LeavingIsHalf
        <5> QED BY <3>1, <5>1, <5>2, <5>3
      <4> QED BY <4>1
    <3> QED BY <2>9, <2>11, <3>1, <3>2
  <2> QED BY <1>1, <1>3, <2>1, <2>2, <2>4, <2>5, <2>6, <2>7, <2>8, <2>10, <2>11, TaskEffects
<1>4. CASE CommitOldest \/ Rests
  <2>1. tree' = tree /\ UNCHANGED catVars /\ tk' = tk /\ torn' = torn
    BY <1>4 DEF CommitOldest, Rests, diskVars, ghostVars
  <2>2. \A p \in Path : \A u \in Task : Leaving(u, p) => Leaving(u, p)'
    BY <2>1 DEF Leaving, InCrit, ToDo
  <2> QED BY <1>1, <1>2, <2>1, <2>2 DEF catVars
<1>5. CASE Restart
  <2>1. /\ tree' = tree /\ registered' = TRUE /\ torn' = torn \cup UNION {HalfPaths(t) : t \in Task}
        /\ catalog' = catalog \/ catalog' = [p \in Path |-> IF head'[p] # NoFile THEN tree[p] ELSE NoFile]
    BY <1>5 DEF Restart
  <2>2. ASSUME NEW p \in Path, catalog'[p] # NoFile, tree[p] = NoFile PROVE p \in torn'
    <3>1. catalog[p] # NoFile
      BY <2>1, <2>2
    <3>2. p \in torn \/ \E t \in Task : Leaving(t, p)
      BY <1>1, <2>2, <3>1 DEF Owned
    <3>3. ASSUME NEW t \in Task, Leaving(t, p) PROVE p \in HalfPaths(t)
      BY <1>1, <2>2, <3>3, LeavingIsHalf
    <3> QED BY <2>1, <3>2, <3>3
  <2> QED BY <2>1, <2>2 DEF OwnedInv, Owned
<1> QED BY <1>3, <1>4, <1>5 DEF CoreStep

LEMMA StaysRegistered ==
  ASSUME registered = TRUE, CoreStep PROVE registered' = TRUE
<1>1. ASSUME NEW t \in Task, Starts(t) \/ TaskStep(t) \/ StepFails(t) PROVE registered' = TRUE
  BY <1>1 DEF Starts, TaskStep, StepFails, Admit, Refuse, LazyRescan, Enter, Put, Remove, Log, Own, Disown,
    CatalogStep, Return, catVars
<1> QED BY <1>1 DEF CoreStep, CommitOldest, Rests, Restart, catVars

----------------------------------------------------------------------------
(* The write path under its clients *)

\* The inductive invariant of the clients' steps.
StoreInv ==
  /\ ShapeInv /\ RoomInv /\ CountsInv /\ CalledInv
  /\ HandlersInv /\ ConnInv
  /\ RecInv /\ AgreeInv
  /\ registered = TRUE /\ FreshInv

LEMMA NoneTypes == NoHandler \in HandlerType /\ NoSub \in SubType /\ NoReap \in ReapType
<1>1. 0 \in 0..MaxCalls /\ <<>> \in Seq(EventType)
  BY FileStoreAssumption
<1> QED BY <1>1, Types DEF NoHandler, HandlerType, HandlerPC, NoSub, SubType, NoReap, ReapType

LEMMA StoreInvInit ==
  ASSUME SessionsInit PROVE StoreInv
<1>1. Init
  BY DEF SessionsInit
<1>2. HandlersInv
  <2>1. h = [t \in Task |-> NoHandler] /\ tk = [t \in Task |-> Idle] /\ Idle.pc = "idle"
    BY <1>1, Types DEF SessionsInit, Init
  <2>2. h \in [Task -> HandlerType]
    BY <2>1, NoneTypes
  <2>3. \A t \in Task : h[t].pc = "none" /\ tk[t].pc = "idle"
    BY <2>1 DEF NoHandler
  <2> QED BY <2>2, <2>3 DEF HandlersInv, Serves
<1>3. ConnInv
  <2>1. sub \in [Slot -> SubType] /\ reap \in ReapType
    BY NoneTypes DEF SessionsInit
  <2>2. live \subseteq Session /\ lapsed \subseteq Session /\ reg \in [Session -> Slot \cup {0}]
    BY DEF SessionsInit
  <2>3. told \in [Session -> SUBSET Pats] /\ owed \in [Session -> SUBSET EventType]
    BY DEF SessionsInit
  <2> QED BY <2>1, <2>2, <2>3 DEF ConnInv
<1>4. registered = TRUE /\ FreshInv
  BY <1>1, Types DEF Init, FreshInv, InCrit
<1> QED BY <1>1, <1>2, <1>3, <1>4, InvsInit, RecInit, AgreeInit DEF StoreInv

LEMMA StoreInvStep ==
  ASSUME StoreInv, [SessionsNext]_allVars PROVE StoreInv' /\ CoreStep
<1>1. /\ CoreStep /\ HandlersInv'
      /\ [Next]_vars \/ (((\E t \in Task : Calls(t)) \/ Rests) /\ Counts)
  BY ClientSteps DEF StoreInv
<1>2. ShapeInv' /\ RoomInv' /\ RecInv' /\ AgreeInv'
  BY <1>1, CoreShape, RoomCore, RecCore, AgreeCore DEF StoreInv
<1>3. registered' = TRUE /\ FreshInv'
  BY <1>1, StaysRegistered, FreshCore DEF StoreInv
<1>4. ConnInv'
  BY ConnTypes DEF StoreInv
<1>5. CountsInv' /\ CalledInv'
  <2>1. CASE [Next]_vars
    BY <2>1, CountsStep, CalledStep DEF StoreInv
  <2>2. CASE ((\E t \in Task : Calls(t)) \/ Rests) /\ Counts
    <3>1. faults' = faults /\ crashes' = crashes
      BY <2>2 DEF Calls, Rests
    <3>2. CountsInv'
      BY <2>2, <3>1, FileStoreAssumption DEF Counts, CountsInv, StoreInv
    <3>3. ASSUME NEW t \in Task, Calls(t) PROVE CalledInv'
      <4>1. PICK c \in Call : tk' = [tk EXCEPT ![t] = Called(c)]
        BY <3>3 DEF Calls
      <4>2. Called(c).call = c
        BY DEF Called
      <4> QED BY <4>1, <4>2 DEF CalledInv, StoreInv, ShapeInv, TasksInv
    <3>4. Rests => CalledInv'
      BY DEF Rests, CalledInv, StoreInv
    <3> QED BY <2>2, <3>2, <3>3, <3>4
  <2> QED BY <1>1, <2>1, <2>2
<1> QED BY <1>1, <1>2, <1>3, <1>4, <1>5 DEF StoreInv

\* Whatever clients race, leave or lose their answer: what a tool or a web request had
\* acknowledged is in HEAD's history or in the log (writeTransformed, deleteFile, Move).
THEOREM ClientsStayRecorded == SessionsSpec => []AckedRecoverable
<1>1. SessionsInit => StoreInv
  BY StoreInvInit
<1>2. StoreInv /\ [SessionsNext]_allVars => StoreInv'
  BY StoreInvStep
<1>3. StoreInv => AckedRecoverable
  BY RecIsAcked DEF StoreInv
<1> QED BY <1>1, <1>2, <1>3, PTL DEF SessionsSpec

\* A move holds the content of its source, at one of its two ends or at both, and the
\* catalog lists no path the tree lacks, but for the source of a move.
LEMMA AgreeIsSound ==
  ASSUME StoreInv, OwnedInv PROVE TreeAgrees
<1>1. LogMatchesTree
  BY DEF StoreInv, AgreeInv
<1>2. CatalogOwnsTree
  BY DEF OwnedInv, Owned, Leaving, CatalogOwnsTree
<1>3. MoveKeepsContent
  <2> SUFFICES ASSUME NEW t \in Task, InCrit(t), tk[t].call.op = "move"
               PROVE  tk[t].new \in {tree[tk[t].call.path], tree[tk[t].call.from]}
    BY DEF MoveKeepsContent
  <2>1. Fresh(t) /\ TasksInv
    BY DEF StoreInv, FreshInv, ShapeInv
  <2>2. tk[t].call.op \in CallOp /\ ToDo(t) \in Stages(tk[t].call.op)
    BY <2>1, InCritFacts
  <2>3. "put" \in ToDo(t) => "remove" \in ToDo(t)
    BY <2>2, StageOrder
  <2> QED BY <2>1, <2>3 DEF Fresh
<1> QED BY <1>1, <1>2, <1>3 DEF TreeAgrees

\* Under the clients, while no removal from the catalog fails: outside of a running call
\* the tree holds what the log will make of HEAD, the catalog lists only files that are
\* there, and a move loses no content (writeTransformed, deleteFile, Move, catalogDelete).
THEOREM ClientsKeepTreeInStep ==
  ASSUME "disown" \notin Failing
  PROVE  SessionsSpec => []TreeAgrees
<1>1. SessionsInit => StoreInv /\ OwnedInv
  <2> SUFFICES ASSUME SessionsInit PROVE StoreInv /\ OwnedInv
    OBVIOUS
  <2>1. OwnedInv
    BY Types DEF SessionsInit, Init, OwnedInv, Owned, EmptyTree
  <2> QED BY <2>1, StoreInvInit
<1>2. StoreInv /\ OwnedInv /\ [SessionsNext]_allVars => (StoreInv /\ OwnedInv)'
  <2> SUFFICES ASSUME StoreInv, OwnedInv, [SessionsNext]_allVars PROVE StoreInv' /\ OwnedInv'
    OBVIOUS
  <2>1. StoreInv' /\ CoreStep
    BY StoreInvStep
  <2>2. OwnedInv'
    BY <2>1, OwnedCore DEF StoreInv
  <2> QED BY <2>1, <2>2
<1>3. StoreInv /\ OwnedInv => TreeAgrees
  BY AgreeIsSound
<1> QED BY <1>1, <1>2, <1>3, PTL DEF SessionsSpec

\* What Put does, and what the call relied on.
LEMMA PutIsFresh ==
  ASSUME StoreInv, NEW t \in Task, Put(t)
  PROVE  LET c == tk[t].call IN
         /\ tk[t].pc # "idle" /\ c.path \in Path
         /\ c.op \in {"write", "append"} => Matches(c.ifMatch, tree[c.path])
         /\ c.op = "append" => tree'[c.path] = Etag(tree[c.path]) \cup c.content
<1> DEFINE c == tk[t].call
<1>1. Takes(t, "put") /\ tree' = [tree EXCEPT ![c.path] = tk[t].new] /\ TasksInv /\ tree \in Tree
  BY DoesTakes DEF Put, StoreInv, ShapeInv, DiskInv
<1>2. InCrit(t) /\ "put" \in ToDo(t)
  BY <1>1 DEF Takes, ToDo
<1>3. Fresh(t) /\ tk[t].pc # "idle" /\ c.path \in Path
  BY <1>1, <1>2, InCritFacts DEF StoreInv, FreshInv, InCrit
<1>4. tree'[c.path] = tk[t].new
  BY <1>1, <1>3 DEF Tree
<1> QED BY <1>2, <1>3, <1>4 DEF Fresh

\* However many clients race for a path: a call replaces the bytes its if_match named, and
\* an append or a patch adds to the bytes that are there (writeTransformed).
THEOREM NoUpdateLost == SessionsSpec => NoLostUpdate
<1>1. SessionsInit => StoreInv
  BY StoreInvInit
<1>2. StoreInv /\ [SessionsNext]_allVars => StoreInv'
  BY StoreInvStep
<1>3. StoreInv =>
        \A t \in Task : LET c == tk[t].call IN
          Put(t) => /\ c.op \in {"write", "append"} => Matches(c.ifMatch, tree[c.path])
                    /\ c.op = "append" => Etag(tree[c.path]) \cup c.content = tree'[c.path]
  BY PutIsFresh
<1> QED BY <1>1, <1>2, <1>3, PTL DEF SessionsSpec, NoLostUpdate

\* A copy writes under the etag of an absent file, which an empty one has too, and the
\* condition is checked again under the lock: it replaces no content (CopyFileHandler).
THEOREM CopiesReplaceNothing == SessionsSpec => CopyReplacesNothing
<1>1. SessionsInit => StoreInv
  BY StoreInvInit
<1>2. StoreInv /\ [SessionsNext]_allVars => StoreInv'
  BY StoreInvStep
<1>3. StoreInv => \A t \in Task : h[t].req.op = "copy" /\ Put(t) => tree[h[t].req.path] \in {NoFile, {}}
  <2> SUFFICES ASSUME StoreInv, NEW t \in Task, h[t].req.op = "copy", Put(t)
               PROVE  tree[h[t].req.path] \in {NoFile, {}}
    OBVIOUS
  <2>1. tk[t].pc # "idle" /\ (tk[t].call.op \in {"write", "append"} => Matches(tk[t].call.ifMatch, tree[tk[t].call.path]))
    BY PutIsFresh
  <2>2. PICK f \in Content : tk[t].call = CopyFileHandler(h[t].req, f)
    BY <2>1 DEF StoreInv, HandlersInv, Serves
  <2>3. tk[t].call.op = "write" /\ tk[t].call.ifMatch = {} /\ tk[t].call.path = h[t].req.path
    BY <2>2 DEF CopyFileHandler, StoreCall, etagAbsent
  <2>4. {} \in Content /\ None \notin Content
    BY FileStoreAssumption DEF Content
  <2>5. Etag(tree[h[t].req.path]) = {}
    BY <2>1, <2>3, <2>4 DEF Matches
  <2> QED BY <2>5 DEF Etag
<1> QED BY <1>1, <1>2, <1>3, PTL DEF SessionsSpec, CopyReplacesNothing

----------------------------------------------------------------------------
(* What the notification center owes *)

\* A fan-out goes to subscribers that are there; a channel stays within its buffer.
FanInv ==
  /\ \A t \in Task : h[t].pc # "fan" => h[t].left = {}
  /\ \A t \in Task : \A i \in h[t].left : sub[i].on
  /\ \A i \in Slot : Len(sub[i].ch) <= Buffer

\* Who has a slot: the session it is registered for, a handler that tears it down or the
\* reaper.
SlotsInv ==
  /\ \A s \in Session : reg[s] # 0 => sub[reg[s]].on /\ sub[reg[s]].sess = s
  /\ \A t \in Task : h[t].pc = "tear" =>
       h[t].slot \in Slot \ reap.dead /\ \A s \in Session : reg[s] # h[t].slot
  /\ \A t \in Task : h[t].pc = "add" => h[t].slot # 0
  /\ \A i \in reap.dead : sub[i].on /\ \A s \in Session : reg[s] # i
  /\ \A s \in Web \cap live : reg[s] # 0
  /\ \A s \in Session \ live : told[s] = {} /\ owed[s] = {}

\* The requests of running handlers are apart, and an event that is owed is that of its
\* request.
Changes(t) == h[t].pc \in {"read", "check", "call"}
Tells(t) == h[t].pc \in {"publish", "fan"}
Heard(s, e) == s \in Web \/ \E p \in told[s] : e.path \in p
IdsInv ==
  /\ \A t \in Task : Changes(t) \/ Tells(t) => h[t].id <= calls
  /\ \A t, u \in Task : t # u /\ (Changes(t) \/ Tells(t)) /\ (Changes(u) \/ Tells(u)) => h[t].id # h[u].id
  /\ \A s \in Session : \A e \in owed[s] :
       /\ e.id <= calls /\ Heard(s, e)
       /\ \A t \in Task : h[t].id = e.id =>
            ~Changes(t) /\ (Tells(t) => e = Event(t) /\ s # h[t].req.sess)

\* Where an event is that s is still to be told.
Due(s, e) ==
  /\ reg[s] # 0
  /\ \/ \E t \in Task : h[t].pc = "publish" /\ h[t].id = e.id
     \/ \E t \in Task : h[t].pc = "fan" /\ h[t].id = e.id /\ reg[s] \in h[t].left
     \/ e \in Elements(sub[reg[s]].ch)
DueInv == \A s \in live \ lapsed : \A e \in owed[s] : Due(s, e)

TellInv == FanInv /\ SlotsInv /\ IdsInv /\ SubscriptionsHold /\ DueInv
\* What the steps below start from.
TellTyped == HandlersInv /\ ConnInv /\ calls \in Nat /\ TellInv

LEMMA Typed ==
  ASSUME TellTyped
  PROVE  /\ \A t \in Task : h[t] \in HandlerType /\ h[t].id \in Nat /\ h[t].left \subseteq Slot
         /\ \A i \in Slot : sub[i] \in SubType /\ sub[i].ch \in Seq(EventType)
         /\ \A s \in Session : /\ reg[s] \in Slot \cup {0} /\ owed[s] \subseteq EventType
                               /\ reg[s] # 0 => reg[s] \in Slot
         /\ \A e \in EventType : e.id \in Nat
         /\ Slot \subseteq Nat \ {0} /\ Buffer \in Nat \ {0}
<1>1. MaxCalls \in Nat /\ Slot \subseteq Nat \ {0} /\ Buffer \in Nat \ {0}
  BY FileStoreAssumption, SessionsAssumption
<1>2. \A t \in Task : h[t] \in HandlerType /\ h[t].id \in Nat /\ h[t].left \subseteq Slot
  BY <1>1 DEF TellTyped, HandlersInv, HandlerType
<1>3. \A i \in Slot : sub[i] \in SubType /\ sub[i].ch \in Seq(EventType)
  BY DEF TellTyped, ConnInv, SubType
<1>4. \A e \in EventType : e.id \in Nat
  BY <1>1 DEF EventType
<1>5. \A s \in Session : reg[s] \in Slot \cup {0} /\ owed[s] \subseteq EventType
  BY DEF TellTyped, ConnInv
<1> QED BY <1>1, <1>2, <1>3, <1>4, <1>5

\* Two sessions have two slots.
LEMMA SlotsApart ==
  ASSUME TellTyped, NEW s \in Session, reg[s] # 0
  PROVE  /\ reg[s] \in Slot /\ sub[reg[s]].on /\ sub[reg[s]].sess = s
         /\ \A u \in Session : u # s => reg[u] # reg[s]
BY Typed DEF TellTyped, TellInv, SlotsInv

LEMMA ElementsOf ==
  ASSUME NEW S, NEW q \in Seq(S), NEW x \in S
  PROVE  /\ x \in Elements(Append(q, x)) /\ Elements(q) \subseteq Elements(Append(q, x))
         /\ q # <<>> => Elements(q) \subseteq Elements(Tail(q)) \cup {Head(q)}
<1>1. x \in Elements(Append(q, x)) /\ Elements(q) \subseteq Elements(Append(q, x))
  BY SMTT(60) DEF Elements
<1>2. ASSUME q # <<>>, NEW y \in Elements(q), y # Head(q) PROVE y \in Elements(Tail(q))
  <2>1. PICK i \in 1..Len(q) : y = q[i]
    BY DEF Elements
  <2>2. i - 1 \in 1..Len(Tail(q)) /\ Tail(q)[i - 1] = q[i]
    BY <1>2, <2>1
  <2>3. i - 1 \in DOMAIN Tail(q) /\ y = Tail(q)[i - 1]
    BY <1>2, <2>1, <2>2
  <2> QED BY <2>3, Zenon DEF Elements
<1> QED BY <1>1, <1>2

\* What keeps each part.
LEMMA FanKept ==
  ASSUME TellTyped,
         \A t \in Task : h'[t].left \subseteq h[t].left /\ (h'[t].pc = "fan" => h[t].pc = "fan"),
         \A t \in Task : h'[t].pc # "fan" => h'[t].left = {},
         \A t \in Task : \A i \in h[t].left : sub'[i].on,
         \A i \in Slot : Len(sub'[i].ch) <= Buffer
  PROVE  FanInv'
BY DEF TellTyped, TellInv, FanInv

LEMMA SlotsKept ==
  ASSUME TellTyped, UNCHANGED <<reg, reap>>,
         \A i \in Slot : sub'[i].on = sub[i].on /\ sub'[i].sess = sub[i].sess,
         \A t \in Task : h'[t].pc \in {"tear", "add"} => h'[t] = h[t],
         Web \cap live' \subseteq live,
         \A s \in Session \ live' : told'[s] = {} /\ owed'[s] = {}
  PROVE  SlotsInv'
<1>1. reap.dead \subseteq Slot
  BY DEF TellTyped, ConnInv, ReapType
<1> QED BY <1>1, Typed DEF TellTyped, TellInv, SlotsInv

LEMMA IdsKept ==
  ASSUME TellTyped, calls' \in Nat, calls' >= calls, NEW t \in Task, OthersServe(t),
         Changes(t)' => \/ Changes(t) /\ h'[t].id = h[t].id
                        \/ h'[t].id = calls' /\ calls' = calls + 1,
         Tells(t)' => Tells(t) /\ h'[t].id = h[t].id /\ h'[t].req = h[t].req,
         \A s \in Session : owed'[s] \subseteq owed[s] /\ \A e \in owed'[s] : Heard(s, e)'
  PROVE  IdsInv'
<1>1. \A u \in Task \ {t} : h'[u] = h[u] /\ Changes(u)' = Changes(u) /\ Tells(u)' = Tells(u) /\ Event(u)' = Event(u)
  BY DEF OthersServe, Changes, Tells, Event
<1>2. Tells(t)' => Event(t)' = Event(t)
  BY DEF Event
<1>3. \A u \in Task : h[u].id \in Nat
  BY Typed
<1>4. \A s \in Session : \A e \in owed[s] : e.id \in Nat
  BY Typed
<1>5. IdsInv /\ calls \in Nat
  BY DEF TellTyped, TellInv
<1>6. \A u \in Task : Changes(u)' \/ Tells(u)' => h'[u].id <= calls' /\ h'[u].id \in Nat
  BY <1>1, <1>3, <1>5 DEF IdsInv
<1>7. \A u \in Task \ {t} : (Changes(t)' \/ Tells(t)') /\ (Changes(u)' \/ Tells(u)') => h'[t].id # h'[u].id
  BY <1>1, <1>3, <1>5 DEF IdsInv
<1>8. ASSUME NEW s \in Session, NEW e \in owed'[s]
      PROVE  /\ e.id <= calls' /\ Heard(s, e)'
             /\ \A u \in Task : h'[u].id = e.id =>
                  ~Changes(u)' /\ (Tells(u)' => e = Event(u)' /\ s # h'[u].req.sess)
  <2>1. e \in owed[s] /\ Heard(s, e)' /\ e.id \in Nat
    BY <1>4, <1>8
  <2>2. e.id <= calls
    BY <1>5, <2>1 DEF IdsInv
  <2>3. \A u \in Task : h[u].id = e.id => ~Changes(u) /\ (Tells(u) => e = Event(u) /\ s # h[u].req.sess)
    BY <1>5, <2>1 DEF IdsInv
  <2>4. h'[t].id = e.id => ~Changes(t)' /\ (Tells(t)' => e = Event(t)' /\ s # h'[t].req.sess)
    BY <1>2, <1>5, <2>1, <2>2, <2>3
  <2>5. \A u \in Task \ {t} : h'[u].id = e.id =>
           ~Changes(u)' /\ (Tells(u)' => e = Event(u)' /\ s # h'[u].req.sess)
    BY <1>1, <2>3
  <2> QED BY <1>5, <2>1, <2>2, <2>4, <2>5
<1> QED BY <1>1, <1>5, <1>6, <1>7, <1>8 DEF IdsInv

LEMMA HoldKept ==
  ASSUME TellTyped, live' \ lapsed' \subseteq live \ lapsed,
         \A s \in live' \ (Web \cup lapsed') :
            /\ told'[s] \subseteq told[s] /\ reg'[s] = reg[s]
            /\ reg[s] # 0 => sub'[reg[s]].on = sub[reg[s]].on /\ sub[reg[s]].pats \subseteq sub'[reg[s]].pats
  PROVE  SubscriptionsHold'
BY DEF TellTyped, TellInv, SubscriptionsHold

LEMMA DueKept ==
  ASSUME NEW s, NEW e, Due(s, e), reg'[s] = reg[s],
         \A t \in Task : Tells(t) => h'[t] = h[t],
         e \in Elements(sub[reg[s]].ch) => e \in Elements(sub'[reg[s]].ch)
  PROVE  Due(s, e)'
<1>1. CASE \E t \in Task : h[t].pc = "publish" /\ h[t].id = e.id
  BY <1>1 DEF Due, Tells
<1>2. CASE \E t \in Task : h[t].pc = "fan" /\ h[t].id = e.id /\ reg[s] \in h[t].left
  BY <1>2 DEF Due, Tells
<1>3. CASE e \in Elements(sub[reg[s]].ch)
  BY <1>3 DEF Due
<1> QED BY <1>1, <1>2, <1>3 DEF Due

\* Steps that leave handlers, connections and what is owed alone.
LEMMA RestTells ==
  ASSUME TellTyped, UNCHANGED sessionVars, calls' \in Nat, calls' >= calls PROVE TellInv'
<1>1. /\ h' = h /\ live' = live /\ sub' = sub /\ reg' = reg /\ reap' = reap
      /\ told' = told /\ lapsed' = lapsed /\ owed' = owed
  BY DEF sessionVars, connVars
<1>2. FanInv' /\ SlotsInv' /\ SubscriptionsHold' /\ DueInv'
  BY <1>1 DEF TellTyped, TellInv, FanInv, SlotsInv, SubscriptionsHold, DueInv, Due, Elements
<1>3. IdsInv'
  <2>1. \A t \in Task : h[t].id \in Nat
    BY Typed
  <2>2. \A s \in Session : \A e \in owed[s] : e.id \in Nat
    BY Typed
  <2> QED BY <1>1, <2>1, <2>2 DEF TellTyped, TellInv, IdsInv, Heard, Changes, Tells, Event
<1> QED BY <1>2, <1>3 DEF TellInv

\* A handler that is not to tell anything yet, before the step and after it.
LEMMA ChangeTells ==
  ASSUME TellTyped, NEW t \in Task, OthersServe(t), UNCHANGED <<connVars, owed>>,
         calls' \in Nat, calls' >= calls,
         h[t].pc = "none" \/ Changes(t), h'[t].pc = "none" \/ Changes(t)', h'[t].left = {},
         Changes(t)' => \/ Changes(t) /\ h'[t].id = h[t].id
                        \/ h'[t].id = calls' /\ calls' = calls + 1
  PROVE  TellInv'
<1>1. /\ live' = live /\ sub' = sub /\ reg' = reg /\ reap' = reap
      /\ told' = told /\ lapsed' = lapsed /\ owed' = owed
  BY DEF connVars
<1>2. /\ h'[t].pc \notin {"fan", "publish", "tear", "add"} /\ ~Tells(t) /\ ~Tells(t)'
      /\ \A u \in Task \ {t} : h'[u] = h[u]
  BY DEF Changes, Tells, OthersServe
<1>3. FanInv'
  BY <1>1, <1>2 DEF TellTyped, TellInv, FanInv
<1>4. SlotsInv'
  BY <1>1, <1>2, SlotsKept DEF TellTyped, TellInv, SlotsInv
<1>5. IdsInv'
  <2>1. \A s \in Session : \A e \in owed'[s] : Heard(s, e)'
    BY <1>1 DEF TellTyped, TellInv, IdsInv, Heard
  <2> QED BY <1>1, <1>2, <2>1, IdsKept
<1>6. SubscriptionsHold'
  BY <1>1 DEF TellTyped, TellInv, SubscriptionsHold
<1>7. DueInv'
  BY <1>1, <1>2, DueKept DEF TellTyped, TellInv, DueInv
<1> QED BY <1>3, <1>4, <1>5, <1>6, <1>7 DEF TellInv

LEMMA ReceiveTells ==
  ASSUME TellTyped, NEW t \in Task, NEW r \in Request, Receive(t, r), calls' \in Nat
  PROVE  TellInv'
<1> DEFINE at == CASE r.op = "copy" -> "read" [] r.op = "drop" -> "check" [] OTHER -> "call"
           new == [NoHandler EXCEPT !.pc = at, !.req = r, !.id = calls']
<1>1. h' = [h EXCEPT ![t] = new]
  BY DEF Receive
<1>2. h[t].pc = "none" /\ calls' = calls + 1 /\ UNCHANGED <<connVars, owed>>
  BY DEF Receive
<1>3. h \in [Task -> HandlerType] /\ (h[t].pc # "fan" => h[t].left = {})
  BY DEF TellTyped, HandlersInv, TellInv, FanInv
<1>4. at \in {"read", "check", "call"}
  OBVIOUS
<1>5. new.pc = at /\ new.left = {} /\ new.id = calls'
  BY DEF NoHandler
<1> HIDE DEF new, at
<1>6. h'[t] = new /\ OthersServe(t)
  BY <1>1, <1>3 DEF OthersServe
<1> QED BY <1>2, <1>3, <1>4, <1>5, <1>6, ChangeTells DEF Changes, TellTyped

LEMMA FileTells ==
  ASSUME TellTyped, calls' \in Nat, calls' >= calls, NEW t \in Task,
         ReadSource(t) \/ CheckAbsent(t)
  PROVE  TellInv'
<1>1. h \in [Task -> HandlerType] /\ h[t] \in HandlerType /\ (h[t].pc # "fan" => h[t].left = {})
  BY Typed DEF TellTyped, HandlersInv, TellInv, FanInv
<1>2. CASE ReadSource(t) \/ CheckAbsent(t)
  <2>1. UNCHANGED <<connVars, owed>> /\ calls' = calls /\ h[t].pc \in {"read", "check"} /\ h[t].left = {}
    BY <1>1, <1>2 DEF ReadSource, CheckAbsent, vars, countVars
  <2>2. /\ OthersServe(t)
        /\ h'[t] = NoHandler \/ (h'[t].pc \in {"check", "call"} /\ h'[t].left = {} /\ h'[t].id = h[t].id)
    <3>1. CASE ReadSource(t)
      <4> DEFINE f == IF state = "dangerous" THEN NoFile ELSE tree[h[t].req.from]
                 new == [h[t] EXCEPT !.pc = "check", !.seen = f]
      <4>1. h' = [h EXCEPT ![t] = NoHandler] \/ h' = [h EXCEPT ![t] = new]
        BY <3>1 DEF ReadSource
      <4>2. new.pc = "check" /\ new.left = {} /\ new.id = h[t].id
        BY <1>1, <2>1 DEF HandlerType
      <4> HIDE DEF new
      <4> QED BY <1>1, <4>1, <4>2 DEF OthersServe
    <3>2. CASE CheckAbsent(t)
      <4> DEFINE new == [h[t] EXCEPT !.pc = "call", !.seen = NoFile]
      <4>1. h' = [h EXCEPT ![t] = NoHandler] \/ h' = [h EXCEPT ![t].pc = "call", ![t].seen = NoFile]
        BY <3>2 DEF CheckAbsent
      <4>2. h' = [h EXCEPT ![t] = NoHandler] \/ h' = [h EXCEPT ![t] = new]
        BY <1>1, <4>1
      <4>3. new.pc = "call" /\ new.left = {} /\ new.id = h[t].id
        BY <1>1, <2>1 DEF HandlerType
      <4> HIDE DEF new
      <4> QED BY <1>1, <4>2, <4>3 DEF OthersServe
    <3> QED BY <1>2, <3>1, <3>2
  <2> QED BY <2>1, <2>2, ChangeTells DEF Changes, NoHandler
<1> QED BY <1>2

\* The acknowledgement of a call: its event becomes due to everyone who listens.
LEMMA StoreTells ==
  ASSUME TellTyped, calls' \in Nat, calls' >= calls, TasksInv, DiskInv, NEW t \in Task, StoreStep(t)
  PROVE  TellInv'
<1> DEFINE done == InCrit(t) /\ tk[t].todo = <<>>
           new == IF tk'[t].pc # "idle" THEN h[t]
                  ELSE IF done THEN [h[t] EXCEPT !.pc = "publish"] ELSE NoHandler
<1>1. h \in [Task -> HandlerType] /\ h[t] \in HandlerType /\ h[t].pc = "call" /\ h[t].left = {}
  BY Typed DEF TellTyped, HandlersInv, TellInv, FanInv, StoreStep
<1>2. h' = [h EXCEPT ![t] = new] /\ UNCHANGED connVars
  BY DEF StoreStep
<1>3. /\ h'[t] = new /\ OthersServe(t)
      /\ live' = live /\ sub' = sub /\ reg' = reg /\ reap' = reap /\ told' = told /\ lapsed' = lapsed
  BY <1>1, <1>2 DEF OthersServe, connVars
<1>4. ASSUME done PROVE tk'[t].pc = "idle"
  <2>1. tk[t].pc = "crit" /\ tk[t].todo = <<>> /\ tk \in [Task -> TaskType] /\ Idle.pc = "idle"
    BY <1>4, Types DEF InCrit, TasksInv
  <2>2. ~\E s : Does(t, s)
    BY <2>1, DoesTakes, Lists DEF Takes, ToDo
  <2>3. Return(t) \/ StepFails(t)
    BY <2>1, <2>2 DEF StoreStep, TaskStep, Admit, Refuse, LazyRescan, Enter, Put, Remove, Log, Own, Disown, CatalogStep
  <2> QED BY <2>1, <2>3 DEF Return, StepFails
<1>5. CASE ~done
  <2>1. owed' = owed
    BY <1>5 DEF StoreStep
  <2>2. new \in {h[t], NoHandler}
    BY <1>5
  <2> HIDE DEF new, done
  <2> QED BY <1>1, <1>2, <1>3, <2>1, <2>2, ChangeTells DEF Changes, NoHandler
<1>6. CASE done
  <2>1. h'[t].pc = "publish" /\ h'[t].id = h[t].id /\ h'[t].left = {} /\ h'[t].req = h[t].req
    BY <1>1, <1>3, <1>4, <1>6 DEF HandlerType
  <2> DEFINE hear == {s \in Session : s # h[t].req.sess /\ Listens(s, h[t].req.path)}
  <2>2. \A s \in Session : owed'[s] = IF s \in hear THEN owed[s] \cup {Event(t)} ELSE owed[s]
    BY <1>6 DEF StoreStep
  <2>3. \A u \in Task \ {t} : h'[u] = h[u] /\ Changes(u)' = Changes(u) /\ Tells(u)' = Tells(u) /\ Event(u)' = Event(u)
    BY <1>3 DEF OthersServe, Changes, Tells, Event
  <2>4. Event(t)' = Event(t) /\ Changes(t) /\ ~Changes(t)' /\ ~Tells(t) /\ Tells(t)'
        /\ Event(t).id = h[t].id /\ Event(t).path = h[t].req.path
    BY <1>1, <2>1 DEF Event, Changes, Tells
  <2>5. \A s \in hear : s \in live /\ Heard(s, Event(t))'
    BY <1>3, <2>4 DEF Listens, Heard
  <2>6. FanInv'
    BY <1>1, <1>3, <2>1, <2>3 DEF TellTyped, TellInv, FanInv
  <2>7. SlotsInv'
    <3>1. \A s \in Session \ live' : told'[s] = {} /\ owed'[s] = {}
      BY <1>3, <2>2, <2>5 DEF TellTyped, TellInv, SlotsInv
    <3>2. \A u \in Task : h'[u].pc \in {"tear", "add"} => h'[u] = h[u]
      BY <2>1, <2>3
    <3> HIDE DEF hear
    <3> QED BY <1>3, <3>1, <3>2, SlotsKept
  <2> HIDE DEF hear, done, new
  <2>8. IdsInv'
    <3>1. \A u \in Task : h[u].id \in Nat
      BY Typed
    <3>2. \A u \in Task : h'[u].id = h[u].id /\ h'[u].req = h[u].req
          /\ (Changes(u)' \/ Tells(u)' <=> Changes(u) \/ Tells(u))
      BY <2>1, <2>3, <2>4
    <3>3. IdsInv /\ calls \in Nat
      BY DEF TellTyped, TellInv
    <3>4. ASSUME NEW s \in Session, NEW e \in owed'[s]
          PROVE  /\ e.id <= calls' /\ Heard(s, e)'
                 /\ \A u \in Task : h'[u].id = e.id =>
                      ~Changes(u)' /\ (Tells(u)' => e = Event(u)' /\ s # h'[u].req.sess)
      <4>1. CASE e \in owed[s]
        <5>1. e.id \in Nat /\ e.id <= calls /\ Heard(s, e)
          BY <3>3, <4>1, Typed DEF IdsInv
        <5>2. \A u \in Task : h[u].id = e.id => ~Changes(u) /\ (Tells(u) => e = Event(u) /\ s # h[u].req.sess)
          BY <3>3, <4>1 DEF IdsInv
        <5>3. Heard(s, e)'
          BY <1>3, <5>1 DEF Heard
        <5>4. h'[t].id # e.id
          BY <2>1, <2>4, <5>2
        <5> QED BY <2>3, <3>3, <5>1, <5>2, <5>3, <5>4
      <4>2. CASE e \notin owed[s]
        <5>1. s \in hear /\ e = Event(t) /\ s # h[t].req.sess
          BY <2>2, <3>4, <4>2 DEF hear
        <5>2. \A u \in Task \ {t} : Changes(u) \/ Tells(u) => h[u].id # e.id
          BY <2>4, <3>3, <5>1 DEF IdsInv
        <5>3. h[t].id <= calls
          BY <2>4, <3>3 DEF IdsInv
        <5> QED BY <2>1, <2>3, <2>4, <2>5, <3>1, <3>3, <5>1, <5>2, <5>3
      <4> QED BY <4>1, <4>2
    <3>5. \A u \in Task : Changes(u)' \/ Tells(u)' => h'[u].id <= calls'
      BY <3>1, <3>2, <3>3 DEF IdsInv
    <3>6. \A u, v \in Task : u # v /\ (Changes(u)' \/ Tells(u)') /\ (Changes(v)' \/ Tells(v)') => h'[u].id # h'[v].id
      BY <3>2, <3>3 DEF IdsInv
    <3> QED BY <3>4, <3>5, <3>6 DEF IdsInv
  <2>9. SubscriptionsHold'
    BY <1>3 DEF TellTyped, TellInv, SubscriptionsHold
  <2>10. DueInv'
    <3>1. ASSUME NEW s \in live \ lapsed, NEW e \in owed'[s] PROVE Due(s, e)'
      <4>0. s \in Session
        BY DEF TellTyped, ConnInv
      <4>1. CASE e \in owed[s]
        <5>1. Due(s, e)
          BY <4>1 DEF TellTyped, TellInv, DueInv
        <5>2. \A u \in Task : Tells(u) => h'[u] = h[u]
          BY <2>3, <2>4
        <5> QED BY <1>3, <5>1, <5>2, DueKept
      <4>2. CASE e \notin owed[s]
        <5>1. s \in hear /\ e = Event(t)
          BY <2>2, <3>1, <4>0, <4>2
        <5>2. reg[s] # 0
          <6>1. CASE s \in Web
            BY <6>1 DEF TellTyped, TellInv, SlotsInv
          <6>2. CASE s \notin Web
            <7>1. told[s] # {}
              BY <5>1, <6>2 DEF hear, Listens
            <7> QED BY <6>2, <7>1 DEF TellTyped, TellInv, SubscriptionsHold
          <6> QED BY <6>1, <6>2
        <5>3. h'[t].id = e.id
          BY <2>1, <2>4, <5>1
        <5> QED BY <1>3, <2>1, <5>2, <5>3 DEF Due
      <4> QED BY <4>1, <4>2
    <3> QED BY <1>3, <3>1 DEF DueInv
  <2> QED BY <2>6, <2>7, <2>8, <2>9, <2>10 DEF TellInv
<1> QED BY <1>5, <1>6

LEMMA FanOutTells ==
  ASSUME TellTyped, NEW t \in Task, FanOut(t) PROVE TellInv'
<1> DEFINE all == {i \in Slot : sub[i].on}
           new == IF all = {} THEN NoHandler ELSE [h[t] EXCEPT !.pc = "fan", !.left = all]
<1>1. h \in [Task -> HandlerType] /\ h[t] \in HandlerType /\ h[t].pc = "publish" /\ h[t].left = {}
  BY Typed DEF TellTyped, HandlersInv, TellInv, FanInv, FanOut
<1>2. /\ h' = [h EXCEPT ![t] = new]
      /\ live' = live /\ sub' = sub /\ reg' = reg /\ reap' = reap /\ told' = told /\ lapsed' = lapsed /\ owed' = owed
  BY DEF FanOut, connVars
<1>3. calls' = calls
  BY DEF FanOut, vars, countVars
<1>4. h'[t] = new /\ OthersServe(t) /\ \A u \in Task \ {t} : h'[u] = h[u]
  BY <1>1, <1>2 DEF OthersServe
<1>5. \/ all = {} /\ new.pc = "none" /\ new.left = {}
      \/ /\ all # {} /\ new.pc = "fan" /\ new.left = all
         /\ new.id = h[t].id /\ new.req = h[t].req
  BY <1>1 DEF HandlerType, NoHandler
<1> HIDE DEF new
<1>6. FanInv'
  BY <1>2, <1>4, <1>5 DEF TellTyped, TellInv, FanInv
<1>7. SlotsInv'
  <2>1. \A u \in Task : h'[u].pc \in {"tear", "add"} => h'[u] = h[u]
    BY <1>4, <1>5
  <2> QED BY <1>2, <2>1, SlotsKept DEF TellTyped, TellInv, SlotsInv
<1>8. IdsInv'
  <2>1. \A s \in Session : \A e \in owed'[s] : Heard(s, e)'
    BY <1>2 DEF TellTyped, TellInv, IdsInv, Heard
  <2>2. Tells(t) /\ ~Changes(t)' /\ (Tells(t)' => h'[t].id = h[t].id /\ h'[t].req = h[t].req)
    BY <1>1, <1>4, <1>5 DEF Tells, Changes
  <2>3. calls' \in Nat /\ calls' >= calls
    BY <1>3 DEF TellTyped
  <2> QED BY <1>2, <1>4, <2>1, <2>2, <2>3, IdsKept
<1>9. SubscriptionsHold'
  BY <1>2 DEF TellTyped, TellInv, SubscriptionsHold
<1>10. ASSUME NEW s \in live \ lapsed, NEW e \in owed[s] PROVE Due(s, e)'
  <2>1. Due(s, e) /\ s \in Session
    BY DEF TellTyped, TellInv, DueInv, ConnInv
  <2>2. CASE h[t].id = e.id
    <3>1. reg[s] # 0 /\ reg[s] \in all
      BY <2>1, SlotsApart DEF Due
    <3> QED BY <1>2, <1>4, <1>5, <2>2, <3>1 DEF Due
  <2>3. CASE h[t].id # e.id
    BY <1>2, <1>4, <2>1, <2>3 DEF Due, Elements
  <2> QED BY <2>2, <2>3
<1>11. DueInv'
  BY <1>2, <1>10 DEF DueInv
<1> QED BY <1>6, <1>7, <1>8, <1>9, <1>11 DEF TellInv

\* A subscriber gets the event, or drops it when its channel is full.
LEMMA DeliverTells ==
  ASSUME TellTyped, NEW t \in Task, NEW i \in Slot, Deliver(t, i) PROVE TellInv'
<1> DEFINE e == Event(t)
           wanted == ~Excluded(i, h[t].req.sess) /\ Matched(i, e.path)
           new == IF h[t].left = {i} THEN NoHandler ELSE [h[t] EXCEPT !.left = h[t].left \ {i}]
           n == [sub[i] EXCEPT !.ch = Append(sub[i].ch, e)]
<1>1. /\ h \in [Task -> HandlerType] /\ h[t] \in HandlerType /\ h[t].pc = "fan" /\ i \in h[t].left
      /\ sub \in [Slot -> SubType] /\ sub[i] \in SubType /\ owed \in [Session -> SUBSET EventType]
      /\ Len(sub[i].ch) \in Nat /\ Buffer \in Nat
  BY Typed DEF TellTyped, HandlersInv, Deliver, ConnInv
<1>2. e \in EventType /\ e.id = h[t].id
  BY <1>1, EventIs DEF TellTyped, Event
<1>3. /\ live' = live /\ reg' = reg /\ reap' = reap /\ told' = told /\ lapsed' = lapsed /\ calls' = calls
  BY DEF Deliver, vars, countVars
<1>4. h' = [h EXCEPT ![t] = new]
  <2>1. h' = IF h[t].left = {i} THEN [h EXCEPT ![t] = NoHandler] ELSE [h EXCEPT ![t].left = h[t].left \ {i}]
    BY DEF Deliver
  <2> QED BY <2>1
<1>5. /\ sub' = IF wanted /\ room(i) THEN [sub EXCEPT ![i] = n] ELSE sub
      /\ owed' = IF wanted /\ Len(sub[i].ch) >= Buffer
                 THEN [owed EXCEPT ![sub[i].sess] = owed[sub[i].sess] \ {e}] ELSE owed
  BY DEF Deliver
<1>6. h'[t] = new /\ OthersServe(t) /\ \A u \in Task \ {t} : h'[u] = h[u]
  BY <1>1, <1>4 DEF OthersServe
<1>7. \/ h[t].left = {i} /\ new.pc = "none" /\ new.left = {}
      \/ /\ new.pc = "fan" /\ new.left = h[t].left \ {i}
         /\ new.id = h[t].id /\ new.req = h[t].req
  BY <1>1 DEF HandlerType, NoHandler
<1>8. n.on = sub[i].on /\ n.sess = sub[i].sess /\ n.pats = sub[i].pats /\ n.ch = Append(sub[i].ch, e)
  BY <1>1 DEF SubType
<1> HIDE DEF new, n, wanted
<1>9. \A j \in Slot : /\ sub'[j].on = sub[j].on /\ sub'[j].sess = sub[j].sess /\ sub'[j].pats = sub[j].pats
                      /\ sub'[j].ch = sub[j].ch \/ (j = i /\ wanted /\ room(i) /\ sub'[j].ch = Append(sub[i].ch, e))
  BY <1>1, <1>5, <1>8
<1>10. wanted /\ room(i) => sub'[i].ch = Append(sub[i].ch, e)
  BY <1>1, <1>5, <1>8
<1>11. \A s \in Session : owed'[s] \subseteq owed[s]
  BY <1>1, <1>5
<1> HIDE DEF e
<1>12. FanInv'
  <2>1. \A j \in Slot : Len(sub'[j].ch) <= Buffer
    <3>1. room(i) => Len(Append(sub[i].ch, e)) <= Buffer
      <4>1. sub[i].ch \in Seq(EventType)
        BY Typed
      <4>2. Len(Append(sub[i].ch, e)) = Len(sub[i].ch) + 1
        BY <1>2, <4>1
      <4> QED BY <1>1, <4>2 DEF room
    <3> QED BY <1>9, <3>1 DEF TellTyped, TellInv, FanInv
  <2>2. \A u \in Task : h'[u].left \subseteq h[u].left /\ (h'[u].pc = "fan" => h[u].pc = "fan")
        /\ (h'[u].pc # "fan" => h'[u].left = {})
    BY <1>1, <1>6, <1>7 DEF TellTyped, TellInv, FanInv
  <2>3. \A u \in Task : \A j \in h[u].left : sub'[j].on
    BY <1>9, Typed DEF TellTyped, TellInv, FanInv
  <2> QED BY <2>1, <2>2, <2>3, FanKept
<1>13. SlotsInv'
  <2>1. \A u \in Task : h'[u].pc \in {"tear", "add"} => h'[u] = h[u]
    BY <1>6, <1>7
  <2>2. \A s \in Session \ live' : told'[s] = {} /\ owed'[s] = {}
    BY <1>3, <1>11 DEF TellTyped, TellInv, SlotsInv
  <2> QED BY <1>3, <1>9, <2>1, <2>2, SlotsKept
<1>14. IdsInv'
  <2>1. \A s \in Session : \A d \in owed'[s] : Heard(s, d)'
    BY <1>3, <1>11 DEF TellTyped, TellInv, IdsInv, Heard
  <2>2. Tells(t) /\ ~Changes(t)' /\ (Tells(t)' => h'[t].id = h[t].id /\ h'[t].req = h[t].req)
    BY <1>1, <1>6, <1>7 DEF Tells, Changes
  <2>3. calls' \in Nat /\ calls' >= calls
    BY <1>3 DEF TellTyped
  <2> QED BY <1>6, <1>11, <2>1, <2>2, <2>3, IdsKept
<1>15. SubscriptionsHold'
  <2>1. \A s \in live \ (Web \cup lapsed) : reg[s] # 0 =>
           sub'[reg[s]].on = sub[reg[s]].on /\ sub'[reg[s]].pats = sub[reg[s]].pats
    BY <1>9, Typed DEF TellTyped, ConnInv
  <2> QED BY <1>3, <2>1, HoldKept
\* A session that is still owed the event after the delivery has it in its channel, or its
\* subscriber is still to come.
<1>16. ASSUME NEW s \in live \ lapsed, NEW d \in owed'[s] PROVE Due(s, d)'
  <2>1. s \in Session /\ d \in owed[s] /\ Due(s, d) /\ d \in EventType
    BY <1>11, Typed DEF TellTyped, TellInv, DueInv, ConnInv
  <2>2. /\ reg[s] # 0 /\ reg[s] \in Slot /\ sub[reg[s]].sess = s
    BY <2>1, SlotsApart DEF Due
  <2>3. sub[reg[s]].ch \in Seq(EventType)
    BY <2>2, Typed
  <2>4. Elements(sub[reg[s]].ch) \subseteq Elements(sub'[reg[s]].ch)
    <3> DEFINE q == sub[reg[s]].ch
    <3>1. Elements(q) \subseteq Elements(Append(q, e))
      BY <1>2, <2>3, ElementsOf
    <3>2. sub'[reg[s]].ch \in {q, Append(q, e)}
      BY <1>9, <2>2
    <3> HIDE DEF q
    <3>3. Elements(q) \subseteq Elements(sub'[reg[s]].ch)
      BY <3>1, <3>2
    <3> QED BY <3>3 DEF q
  <2>5. CASE h[t].id # d.id
    BY <1>3, <1>6, <2>1, <2>4, <2>5 DEF Due
  <2>6. CASE h[t].id = d.id
    <3>1. d = Event(t) /\ s # h[t].req.sess /\ Heard(s, d)
      BY <1>1, <2>1, <2>6 DEF TellTyped, TellInv, IdsInv, Tells
    <3>2. CASE reg[s] = i
      <4>1. ~Excluded(i, h[t].req.sess)
        BY <2>2, <3>1, <3>2 DEF Excluded
      <4>2. Matched(i, d.path)
        <5>1. CASE s \in Web
          BY <2>2, <3>2, <5>1 DEF Matched
        <5>2. CASE s \notin Web
          <6>1. PICK p \in told[s] : d.path \in p
            BY <3>1, <5>2 DEF Heard
          <6>2. told[s] \subseteq sub[i].pats
            BY <3>2, <5>2, <6>1 DEF TellTyped, TellInv, SubscriptionsHold
          <6> QED BY <6>1, <6>2 DEF Matched
        <5> QED BY <5>1, <5>2
      <4>3. wanted
        BY <3>1, <4>1, <4>2 DEF wanted, e
      <4>4. room(i)
        <5>1. CASE Len(sub[i].ch) >= Buffer
          <6>1. owed'[s] = owed[s] \ {e}
            BY <1>1, <1>5, <2>1, <2>2, <3>2, <4>3, <5>1
          <6> QED BY <1>16, <3>1, <6>1 DEF e
        <5>2. CASE ~(Len(sub[i].ch) >= Buffer)
          BY <1>1, <5>2 DEF room
        <5> QED BY <5>1, <5>2
      <4>5. d \in Elements(sub'[reg[s]].ch)
        BY <1>2, <1>10, <2>3, <3>1, <3>2, <4>3, <4>4, ElementsOf DEF e
      <4> QED BY <1>3, <2>2, <4>5 DEF Due
    <3>3. CASE reg[s] # i
      <4>1. CASE reg[s] \in h[t].left
        <5>1. h'[t].pc = "fan" /\ h'[t].id = d.id /\ reg[s] \in h'[t].left
          BY <1>6, <1>7, <2>6, <3>3, <4>1
        <5> QED BY <1>3, <2>2, <5>1 DEF Due
      <4>2. CASE reg[s] \notin h[t].left
        BY <1>1, <1>3, <1>6, <2>1, <2>4, <4>2 DEF Due
      <4> QED BY <4>1, <4>2
    <3> QED BY <3>2, <3>3
  <2> QED BY <2>5, <2>6
<1>17. DueInv'
  BY <1>3, <1>16 DEF DueInv
<1> QED BY <1>12, <1>13, <1>14, <1>15, <1>17 DEF TellInv

\* The client gets the event at the head of its channel.
LEMMA DrainTells ==
  ASSUME TellTyped, NEW i \in Slot, Drain(i) PROVE TellInv'
<1> DEFINE n == [sub[i] EXCEPT !.ch = Tail(sub[i].ch)]
<1>1. /\ sub \in [Slot -> SubType] /\ sub[i] \in SubType /\ owed \in [Session -> SUBSET EventType]
      /\ sub[i].ch \in Seq(EventType) /\ sub[i].ch # <<>>
  BY Typed DEF TellTyped, ConnInv, Drain
<1>2. /\ live' = live /\ reg' = reg /\ reap' = reap /\ told' = told /\ lapsed' = lapsed /\ h' = h /\ calls' = calls
  BY DEF Drain, vars, countVars
<1>3. /\ sub' = [sub EXCEPT ![i] = n]
      /\ owed' = [owed EXCEPT ![sub[i].sess] = owed[sub[i].sess] \ {Head(sub[i].ch)}]
  BY DEF Drain
<1>4. n.on = sub[i].on /\ n.sess = sub[i].sess /\ n.pats = sub[i].pats /\ n.ch = Tail(sub[i].ch)
  BY <1>1 DEF SubType
<1> HIDE DEF n
<1>5. /\ \A j \in Slot : sub'[j].on = sub[j].on /\ sub'[j].sess = sub[j].sess /\ sub'[j].pats = sub[j].pats
      /\ \A j \in Slot \ {i} : sub'[j].ch = sub[j].ch
      /\ sub'[i].ch = Tail(sub[i].ch)
  BY <1>1, <1>3, <1>4
<1>6. \A s \in Session : owed'[s] \subseteq owed[s]
  BY <1>1, <1>3
<1>7. FanInv'
  <2>1. Len(Tail(sub[i].ch)) <= Len(sub[i].ch) /\ Len(sub[i].ch) \in Nat /\ Len(Tail(sub[i].ch)) \in Nat
    BY <1>1
  <2>2. \A j \in Slot : Len(sub'[j].ch) <= Buffer
    <3>1. \A j \in Slot : Len(sub[j].ch) <= Buffer
      BY DEF TellTyped, TellInv, FanInv
    <3>2. Len(sub'[i].ch) <= Buffer
      <4>1. Len(sub'[i].ch) = Len(Tail(sub[i].ch))
        BY <1>5
      <4>2. Len(sub[i].ch) <= Buffer /\ Buffer \in Nat
        BY <3>1, Typed
      <4> QED BY <2>1, <4>1, <4>2
    <3> QED BY <1>5, <3>1, <3>2
  <2>3. \A u \in Task : \A j \in h[u].left : sub'[j].on
    BY <1>5, Typed DEF TellTyped, TellInv, FanInv
  <2> QED BY <1>2, <2>2, <2>3 DEF TellTyped, TellInv, FanInv
<1>8. SlotsInv'
  <2>1. \A s \in Session \ live' : told'[s] = {} /\ owed'[s] = {}
    BY <1>2, <1>6 DEF TellTyped, TellInv, SlotsInv
  <2> QED BY <1>2, <1>5, <2>1, SlotsKept
<1>9. IdsInv'
  <2>1. \A s \in Session : \A e \in owed'[s] : Heard(s, e)'
    BY <1>2, <1>6 DEF TellTyped, TellInv, IdsInv, Heard
  <2>2. calls' \in Nat /\ calls' >= calls
    BY <1>2 DEF TellTyped
  <2>3. IdsInv
    BY DEF TellTyped, TellInv
  <2> QED BY <1>2, <1>6, <2>1, <2>2, <2>3 DEF IdsInv, Changes, Tells, Event
<1>10. SubscriptionsHold'
  <2>1. \A s \in live \ (Web \cup lapsed) : reg[s] # 0 =>
           sub'[reg[s]].on = sub[reg[s]].on /\ sub'[reg[s]].pats = sub[reg[s]].pats
    BY <1>5, Typed DEF TellTyped, ConnInv
  <2> QED BY <1>2, <2>1, HoldKept
<1>11. ASSUME NEW s \in live \ lapsed, NEW e \in owed'[s] PROVE Due(s, e)'
  <2>1. s \in Session /\ e \in owed[s] /\ Due(s, e)
    BY <1>6 DEF TellTyped, TellInv, DueInv, ConnInv
  <2>2. reg[s] \in Slot /\ sub[reg[s]].sess = s
    BY <2>1, SlotsApart DEF Due
  <2>3. e \in Elements(sub[reg[s]].ch) => e \in Elements(sub'[reg[s]].ch)
    <3>1. CASE reg[s] = i
      <4>1. owed'[s] = owed[s] \ {Head(sub[i].ch)}
        BY <1>1, <1>3, <2>1, <2>2, <3>1
      <4>2. \A x \in EventType : Elements(sub[i].ch) \subseteq Elements(Tail(sub[i].ch)) \cup {Head(sub[i].ch)}
        BY <1>1, ElementsOf
      <4>3. e \in EventType
        BY <2>1, Typed
      <4> QED BY <1>5, <1>11, <3>1, <4>1, <4>2, <4>3
    <3>2. CASE reg[s] # i
      BY <1>5, <2>2, <3>2 DEF Elements
    <3> QED BY <3>1, <3>2
  <2> QED BY <1>2, <2>1, <2>3, DueKept
<1>12. DueInv'
  BY <1>2, <1>11 DEF DueInv
<1> QED BY <1>7, <1>8, <1>9, <1>10, <1>12 DEF TellInv

\* Steps that change subscribers, and no handler that changes files or tells of it.
LEMMA SubsTell ==
  ASSUME TellTyped, calls' \in Nat, calls' >= calls,
         \A t \in Task : Changes(t) \/ Tells(t) \/ Changes(t)' \/ Tells(t)' => h'[t] = h[t],
         \A t \in Task : h'[t] = h[t] \/ h'[t].left = {},
         \A t \in Task : \A i \in h[t].left : sub'[i].on,
         \A i \in Slot : Len(sub'[i].ch) <= Buffer,
         SlotsInv', SubscriptionsHold',
         \A s \in Session : owed'[s] \subseteq owed[s] /\ \A e \in owed'[s] : Heard(s, e)',
         \A s \in live' \ lapsed' :
           owed'[s] = {} \/ /\ s \in live \ lapsed /\ reg'[s] = reg[s]
                            /\ reg[s] # 0 => sub'[reg[s]].ch = sub[reg[s]].ch,
         live' \subseteq Session
  PROVE  TellInv'
<1>1. FanInv'
  <2>1. \A t \in Task : /\ h'[t].left \subseteq h[t].left /\ (h'[t].pc = "fan" => h[t].pc = "fan")
                        /\ h'[t].pc # "fan" => h'[t].left = {}
    BY DEF TellTyped, TellInv, FanInv, Tells
  <2> QED BY <2>1, FanKept
<1>2. IdsInv'
  <2>1. IdsInv /\ calls \in Nat /\ \A t \in Task : h[t].id \in Nat
    BY Typed DEF TellTyped, TellInv
  <2>2. \A t \in Task : /\ Changes(t)' \/ Tells(t)' => h'[t] = h[t]
                        /\ Changes(t)' => Changes(t)
                        /\ Tells(t)' => Tells(t) /\ Event(t)' = Event(t)
    BY DEF Changes, Tells, Event
  <2>3. \A s \in Session : \A e \in owed[s] : e.id \in Nat
    BY Typed
  <2>4. \A t \in Task : Changes(t)' \/ Tells(t)' => h'[t].id <= calls'
    BY <2>1, <2>2 DEF IdsInv
  <2>5. \A t, u \in Task : t # u /\ (Changes(t)' \/ Tells(t)') /\ (Changes(u)' \/ Tells(u)') => h'[t].id # h'[u].id
    BY <2>1, <2>2 DEF IdsInv
  <2>6. ASSUME NEW s \in Session, NEW e \in owed'[s]
        PROVE  /\ e.id <= calls' /\ Heard(s, e)'
               /\ \A t \in Task : h'[t].id = e.id =>
                    ~Changes(t)' /\ (Tells(t)' => e = Event(t)' /\ s # h'[t].req.sess)
    <3>1. e \in owed[s] /\ e.id \in Nat /\ Heard(s, e)'
      BY <2>3, <2>6
    <3>2. e.id <= calls
          /\ \A t \in Task : h[t].id = e.id => ~Changes(t) /\ (Tells(t) => e = Event(t) /\ s # h[t].req.sess)
      BY <2>1, <3>1 DEF IdsInv
    <3> QED BY <2>1, <2>2, <3>1, <3>2
  <2> QED BY <2>4, <2>5, <2>6 DEF IdsInv
<1>3. ASSUME NEW s \in live' \ lapsed', NEW e \in owed'[s] PROVE Due(s, e)'
  <2>1. s \in Session /\ s \in live \ lapsed /\ reg'[s] = reg[s] /\ e \in owed[s]
        /\ (reg[s] # 0 => sub'[reg[s]].ch = sub[reg[s]].ch)
    BY <1>3
  <2>2. Due(s, e) /\ reg[s] # 0
    BY <2>1 DEF TellTyped, TellInv, DueInv, Due
  <2>3. sub'[reg[s]].ch = sub[reg[s]].ch
    BY <2>1, <2>2
  <2> QED BY <2>1, <2>2, <2>3, DueKept
<1>4. DueInv'
  BY <1>3 DEF DueInv
<1> QED BY <1>1, <1>2, <1>4 DEF TellInv

\* The lock keeps every fan-out away.
LEMMA UnlockedIdle ==
  ASSUME TellTyped, SubUnlocked
  PROVE  \A t \in Task : h[t].left = {} /\ h[t].pc # "fan"
BY DEF SubUnlocked, TellTyped, TellInv, FanInv

LEMMA HeardStill ==
  ASSUME TellTyped, told' = told, NEW s \in Session, NEW e \in owed[s] PROVE Heard(s, e)'
BY DEF TellTyped, TellInv, IdsInv, Heard

LEMMA ConnectTells ==
  ASSUME TellTyped, NEW s \in Session, Connect(s) PROVE TellInv'
<1> DEFINE n == [NoSub EXCEPT !.sess = s, !.on = TRUE]
<1>1. /\ s \notin live /\ reg[s] = 0 /\ live' = live \cup {s} /\ h' = h /\ reap' = reap
      /\ told' = told /\ lapsed' = lapsed /\ owed' = owed /\ calls' = calls
      /\ live \subseteq Session
  BY DEF Connect, vars, countVars, TellTyped, ConnInv
<1>2. told[s] = {} /\ owed[s] = {} /\ \A u \in Session \ live' : told[u] = {} /\ owed[u] = {}
  BY <1>1 DEF TellTyped, TellInv, SlotsInv
<1>3. \A u \in Session : \A e \in owed'[u] : Heard(u, e)'
  BY <1>1, HeardStill
<1>4. CASE s \notin Web
  <2>1. sub' = sub /\ reg' = reg
    BY <1>4 DEF Connect
  <2>2. SlotsInv'
    BY <1>1, <1>2, <1>4, <2>1, SlotsKept
  <2>3. SubscriptionsHold'
    BY <1>1, <1>2, <2>1 DEF TellTyped, TellInv, SubscriptionsHold
  <2>4. \A u \in live' \ lapsed' : owed'[u] = {} \/ u \in live \ lapsed
    BY <1>1, <1>2
  <2>5. \A t \in Task : \A i \in h[t].left : sub'[i].on
    BY <2>1 DEF TellTyped, TellInv, FanInv
  <2>6. \A i \in Slot : Len(sub'[i].ch) <= Buffer
    BY <2>1 DEF TellTyped, TellInv, FanInv
  <2>7. calls' \in Nat /\ calls' >= calls /\ live' \subseteq Session
    BY <1>1 DEF TellTyped
  <2> QED BY <1>1, <1>3, <2>1, <2>2, <2>3, <2>4, <2>5, <2>6, <2>7, SubsTell
<1>5. CASE s \in Web
  <2> DEFINE k == NewSlot
  <2>1. /\ SubUnlocked /\ FreeSlots # {} /\ sub' = [sub EXCEPT ![k] = n] /\ reg' = [reg EXCEPT ![s] = k]
        /\ sub \in [Slot -> SubType] /\ reg \in [Session -> Slot \cup {0}]
    BY <1>5 DEF Connect, TellTyped, ConnInv
  <2>2. k \in Slot /\ k # 0 /\ sub[k] = NoSub /\ (\A t \in Task : h[t].slot # k)
        /\ ~NoSub.on /\ n.sess = s /\ n.on /\ n.ch = <<>>
    <3>1. k \in Slot /\ k # 0 /\ sub[k] = NoSub /\ \A t \in Task : h[t].slot # k
      BY <2>1, NewSlotIs
    <3>2. ~NoSub.on /\ n.sess = s /\ n.on /\ n.ch = <<>>
      BY DEF NoSub
    <3> QED BY <3>1, <3>2
  <2> HIDE DEF k, n
  <2>3. /\ sub'[k] = n /\ \A i \in Slot \ {k} : sub'[i] = sub[i]
        /\ reg'[s] = k /\ \A u \in Session \ {s} : reg'[u] = reg[u]
    BY <2>1, <2>2
  <2>4. \A u \in Session : reg[u] # k
    BY <2>2, SlotsApart
  <2>5. k \notin reap.dead /\ reap.dead \subseteq Slot
    BY <2>2 DEF TellTyped, TellInv, SlotsInv, ConnInv, ReapType
  <2>6. SlotsInv'
    <3>1. \A u \in Session : reg'[u] # 0 => sub'[reg'[u]].on /\ sub'[reg'[u]].sess = u
      BY <2>2, <2>3, <2>4, Typed DEF TellTyped, TellInv, SlotsInv
    <3>2. \A t \in Task : h[t].pc = "tear" => h[t].slot \in Slot \ reap.dead /\ \A u \in Session : reg'[u] # h[t].slot
      BY <2>2, <2>3 DEF TellTyped, TellInv, SlotsInv
    <3>3. \A i \in reap.dead : sub'[i].on /\ \A u \in Session : reg'[u] # i
      BY <2>3, <2>5 DEF TellTyped, TellInv, SlotsInv
    <3>4. \A u \in Web \cap live' : reg'[u] # 0
      BY <1>1, <2>2, <2>3 DEF TellTyped, TellInv, SlotsInv
    <3>5. \A t \in Task : h[t].pc = "add" => h[t].slot # 0
      BY DEF TellTyped, TellInv, SlotsInv
    <3> QED BY <1>1, <1>2, <3>1, <3>2, <3>3, <3>4, <3>5 DEF SlotsInv
  <2>7. SubscriptionsHold'
    <3>1. \A u \in live' \ (Web \cup lapsed') : u \in live \ (Web \cup lapsed) /\ u # s /\ reg'[u] = reg[u] /\ u \in Session
      BY <1>1, <1>5, <2>3
    <3>2. \A u \in Session \ {s} : reg[u] # 0 => sub'[reg[u]] = sub[reg[u]]
      BY <2>3, <2>4, Typed
    <3>3. \A u \in live' \ (Web \cup lapsed') : reg[u] # 0 =>
            sub'[reg[u]].on = sub[reg[u]].on /\ sub[reg[u]].pats \subseteq sub'[reg[u]].pats
      BY <3>1, <3>2
    <3>4. live' \ lapsed' \subseteq live' /\ told' = told
      BY <1>1
    <3> QED BY <1>1, <3>1, <3>3 DEF TellTyped, TellInv, SubscriptionsHold
  <2>8. \A u \in live' \ lapsed' :
          owed'[u] = {} \/ /\ u \in live \ lapsed /\ reg'[u] = reg[u]
                           /\ reg[u] # 0 => sub'[reg[u]].ch = sub[reg[u]].ch
    BY <1>1, <1>2, <2>3, <2>4, Typed
  <2>9. \A i \in Slot : Len(sub'[i].ch) <= Buffer
    <3>1. Len(<<>>) <= Buffer
      BY Typed
    <3> QED BY <2>2, <2>3, <3>1 DEF TellTyped, TellInv, FanInv
  <2>10. \A t \in Task : h[t].left = {}
    BY <2>1, UnlockedIdle
  <2>11. calls' \in Nat /\ calls' >= calls /\ live' \subseteq Session
    BY <1>1 DEF TellTyped
  <2> QED BY <1>1, <1>3, <2>6, <2>7, <2>8, <2>9, <2>10, <2>11, SubsTell
<1> QED BY <1>4, <1>5

\* A slot that nobody has any more is given up.
LEMMA FreeTells ==
  ASSUME TellTyped, NEW X \in SUBSET Slot, SubUnlocked, calls' = calls,
         UNCHANGED <<live, told, lapsed, owed>>,
         \A i \in Slot : sub'[i] = IF i \in X THEN NoSub ELSE sub[i],
         \A s \in Session : reg'[s] # 0 => reg'[s] = reg[s] /\ reg[s] \notin X,
         \A s \in live \ lapsed : reg'[s] = reg[s],
         \A s \in live \cap Web : reg'[s] = reg[s],
         reap'.dead \subseteq reap.dead \ X,
         \A t \in Task : h'[t] = h[t] \/ (h[t].pc \in {"add", "tear"} /\ h'[t] = NoHandler),
         \A s \in Session : reg'[s] \in Slot \cup {0}
  PROVE  TellInv'
<1>1. reap.dead \subseteq Slot /\ live \subseteq Session
  BY DEF TellTyped, ConnInv, ReapType
<1>2. \A s \in Session : reg'[s] # 0 => reg'[s] \in Slot /\ sub'[reg'[s]] = sub[reg[s]]
  BY Typed
<1>3. SlotsInv'
  <2>1. \A s \in Session : reg'[s] # 0 => sub'[reg'[s]].on /\ sub'[reg'[s]].sess = s
    BY <1>2 DEF TellTyped, TellInv, SlotsInv
  <2>2. \A t \in Task : h'[t].pc = "tear" =>
          h'[t].slot \in Slot \ reap'.dead /\ \A s \in Session : reg'[s] # h'[t].slot
    <3>1. ASSUME NEW t \in Task, h'[t].pc = "tear" PROVE h'[t] = h[t]
      BY <3>1 DEF NoHandler
    <3>2. \A t \in Task : h[t].pc = "tear" => h[t].slot \in Slot \ reap.dead /\ \A s \in Session : reg[s] # h[t].slot
      BY DEF TellTyped, TellInv, SlotsInv
    <3>3. 0 \notin Slot
      BY SessionsAssumption
    <3> QED BY <3>1, <3>2, <3>3
  <2>3. \A t \in Task : h'[t].pc = "add" => h'[t].slot # 0
    BY DEF NoHandler, TellTyped, TellInv, SlotsInv
  <2>4. \A i \in reap'.dead : sub'[i].on /\ \A s \in Session : reg'[s] # i
    <3>1. 0 \notin Slot
      BY SessionsAssumption
    <3> QED BY <1>1, <3>1 DEF TellTyped, TellInv, SlotsInv
  <2>5. \A s \in Web \cap live : reg'[s] # 0
    BY DEF TellTyped, TellInv, SlotsInv
  <2>6. \A s \in Session \ live : told[s] = {} /\ owed[s] = {}
    BY DEF TellTyped, TellInv, SlotsInv
  <2> QED BY <2>1, <2>2, <2>3, <2>4, <2>5, <2>6 DEF SlotsInv
<1>4. SubscriptionsHold'
  <2>1. \A s \in live \ (Web \cup lapsed) : reg[s] # 0 => sub'[reg[s]] = sub[reg[s]]
    BY <1>1, <1>2
  <2> QED BY <2>1, HoldKept
<1>5. \A s \in live \ lapsed : reg'[s] = reg[s] /\ (reg[s] # 0 => sub'[reg[s]].ch = sub[reg[s]].ch)
  BY <1>1, <1>2
<1>6. \A i \in Slot : Len(sub'[i].ch) <= Buffer
  <2>1. Len(NoSub.ch) <= Buffer
    <3>1. NoSub.ch = <<>> /\ Len(<<>>) = 0
      BY DEF NoSub
    <3> QED BY <3>1, Typed
  <2> QED BY <2>1 DEF TellTyped, TellInv, FanInv
<1>7. /\ \A t \in Task : h[t].left = {} /\ (h'[t] = h[t] \/ h'[t].left = {})
      /\ \A t \in Task : Changes(t) \/ Tells(t) \/ Changes(t)' \/ Tells(t)' => h'[t] = h[t]
  BY UnlockedIdle DEF NoHandler, Changes, Tells
<1>8. calls' \in Nat /\ calls' >= calls
  BY DEF TellTyped
<1>9. \A s \in Session : \A e \in owed[s] : Heard(s, e)'
  BY HeardStill
<1> QED BY <1>1, <1>3, <1>4, <1>5, <1>6, <1>7, <1>8, <1>9, SubsTell

LEMMA TearTells ==
  ASSUME TellTyped,
         \/ \E s \in Session : UnsubscribeWeb(s)
         \/ \E t \in Task : TearDown(t)
         \/ ReapTear
  PROVE  TellInv'
<1>1. /\ sub \in [Slot -> SubType] /\ reg \in [Session -> Slot \cup {0}] /\ h \in [Task -> HandlerType]
      /\ reap.dead \subseteq Slot
  BY DEF TellTyped, ConnInv, HandlersInv, ReapType
<1>2. ASSUME NEW s \in Session, UnsubscribeWeb(s) PROVE TellInv'
  <2>1. /\ s \in Web \ live /\ reg[s] # 0 /\ SubUnlocked /\ h' = h /\ reap' = reap /\ calls' = calls
        /\ UNCHANGED <<live, told, lapsed, owed>>
        /\ sub' = [sub EXCEPT ![reg[s]] = NoSub] /\ reg' = [reg EXCEPT ![s] = 0]
    BY <1>2 DEF UnsubscribeWeb, vars, countVars
  <2>2. reg[s] \in Slot /\ \A u \in Session : u # s => reg[u] # reg[s]
    BY <2>1, SlotsApart
  <2>3. reg[s] \notin reap.dead
    BY DEF TellTyped, TellInv, SlotsInv
  <2> DEFINE X == {reg[s]}
  <2>4. X \in SUBSET Slot /\ \A i \in Slot : sub'[i] = IF i \in X THEN NoSub ELSE sub[i]
    BY <1>1, <2>1, <2>2
  <2>5. \A u \in Session : reg'[u] # 0 => reg'[u] = reg[u] /\ reg[u] \notin X
    BY <1>1, <2>1, <2>2
  <2>6. /\ \A u \in live \ lapsed : reg'[u] = reg[u]
        /\ \A u \in live \cap Web : reg'[u] = reg[u]
        /\ \A u \in Session : reg'[u] \in Slot \cup {0}
    BY <1>1, <2>1
  <2>7. reap'.dead \subseteq reap.dead \ X
    BY <2>1, <2>3
  <2> HIDE DEF X
  <2> QED BY <2>1, <2>4, <2>5, <2>6, <2>7, FreeTells
<1>3. ASSUME NEW t \in Task, TearDown(t) PROVE TellInv'
  <2>1. /\ h[t].pc = "tear" /\ SubUnlocked /\ calls' = calls /\ reg' = reg /\ reap' = reap
        /\ UNCHANGED <<live, told, lapsed, owed>>
        /\ sub' = [sub EXCEPT ![h[t].slot] = NoSub] /\ h' = [h EXCEPT ![t] = NoHandler]
    BY <1>3 DEF TearDown, vars, countVars
  <2>2. h[t].slot \in Slot \ reap.dead /\ \A s \in Session : reg[s] # h[t].slot
    BY <2>1 DEF TellTyped, TellInv, SlotsInv
  <2> DEFINE X == {h[t].slot}
  <2>3. X \in SUBSET Slot /\ \A i \in Slot : sub'[i] = IF i \in X THEN NoSub ELSE sub[i]
    BY <1>1, <2>1, <2>2
  <2>4. \A u \in Session : reg'[u] = reg[u] /\ reg[u] \notin X /\ reg'[u] \in Slot \cup {0}
    BY <1>1, <2>1, <2>2
  <2>5. reap'.dead \subseteq reap.dead \ X
    BY <2>1, <2>2
  <2>6. \A u \in Task : h'[u] = h[u] \/ (h[u].pc \in {"add", "tear"} /\ h'[u] = NoHandler)
    BY <1>1, <2>1
  <2>7. live \subseteq Session
    BY DEF TellTyped, ConnInv
  <2> HIDE DEF X
  <2>8. (\A u \in live \ lapsed : reg'[u] = reg[u]) /\ (\A u \in live \cap Web : reg'[u] = reg[u])
    BY <2>4, <2>7
  <2> QED BY <2>1, <2>3, <2>4, <2>5, <2>6, <2>8, FreeTells
<1>4. CASE ReapTear
  <2>1. /\ SubUnlocked /\ calls' = calls /\ reg' = reg /\ h' = h /\ reap' = NoReap
        /\ UNCHANGED <<live, told, lapsed, owed>>
        /\ sub' = [i \in Slot |-> IF i \in reap.dead THEN NoSub ELSE sub[i]]
    BY <1>4 DEF ReapTear, vars, countVars
  <2>2. \A s \in Session : reg[s] \notin reap.dead
    BY DEF TellTyped, TellInv, SlotsInv
  <2>3. reap'.dead = {}
    BY <2>1 DEF NoReap
  <2>4. live \subseteq Session
    BY DEF TellTyped, ConnInv
  <2>5. \A u \in Session : reg'[u] = reg[u] /\ reg[u] \notin reap.dead /\ reg'[u] \in Slot \cup {0}
    BY <1>1, <2>1, <2>2
  <2>6. (\A u \in live \ lapsed : reg'[u] = reg[u]) /\ (\A u \in live \cap Web : reg'[u] = reg[u])
    BY <2>4, <2>5
  <2>7. \A i \in Slot : sub'[i] = IF i \in reap.dead THEN NoSub ELSE sub[i]
    BY <2>1
  <2>8. \A u \in Task : h'[u] = h[u]
    BY <2>1
  <2>9. reap'.dead \subseteq reap.dead \ reap.dead
    BY <2>3
  <2> QED BY <1>1, <2>1, <2>5, <2>6, <2>7, <2>8, <2>9, FreeTells
<1> QED BY <1>2, <1>3, <1>4

\* A session that goes away is told nothing any more.
LEMMA LeaveTells ==
  ASSUME TellTyped, calls' \in Nat, NEW s \in Session, Leave(s) PROVE TellInv'
<1>1. /\ live' = live \ {s} /\ lapsed' = lapsed \ {s} /\ calls' = calls + 1
      /\ told' = [told EXCEPT ![s] = {}] /\ owed' = [owed EXCEPT ![s] = {}]
      /\ h' = h /\ sub' = sub /\ reg' = reg /\ reap' = reap /\ live \subseteq Session
  BY DEF Leave, TellTyped, ConnInv
<1>2. /\ told'[s] = {} /\ owed'[s] = {}
      /\ \A u \in Session \ {s} : told'[u] = told[u] /\ owed'[u] = owed[u]
  BY <1>1 DEF TellTyped, ConnInv
<1>3. SlotsInv'
  <2>1. \A u \in Session \ live' : told'[u] = {} /\ owed'[u] = {}
    BY <1>1, <1>2 DEF TellTyped, TellInv, SlotsInv
  <2> QED BY <1>1, <2>1, SlotsKept
<1>4. SubscriptionsHold'
  <2>1. \A u \in live' \ (Web \cup lapsed') : u \in live \ (Web \cup lapsed) /\ told'[u] = told[u]
    BY <1>1, <1>2
  <2> QED BY <1>1, <2>1 DEF TellTyped, TellInv, SubscriptionsHold
<1>5. \A u \in Session : owed'[u] \subseteq owed[u] /\ \A e \in owed'[u] : Heard(u, e)'
  BY <1>2 DEF TellTyped, TellInv, IdsInv, Heard
<1>6. \A u \in live' \ lapsed' : u \in live \ lapsed
  BY <1>1
<1>7. /\ \A t \in Task : \A i \in h[t].left : sub'[i].on
      /\ \A i \in Slot : Len(sub'[i].ch) <= Buffer
  BY <1>1 DEF TellTyped, TellInv, FanInv
<1>8. calls' >= calls /\ live' \subseteq Session
  BY <1>1 DEF TellTyped
<1> QED BY <1>1, <1>3, <1>4, <1>5, <1>6, <1>7, <1>8, SubsTell

\* The reaper loses a session that came back during its pass, which lapses with it.
LEMMA ReapTells ==
  ASSUME TellTyped, ReapList \/ ReapTake PROVE TellInv'
<1>1. /\ h' = h /\ sub' = sub /\ live' = live /\ told' = told /\ owed' = owed /\ calls' = calls
      /\ live \subseteq Session /\ reap.dead \subseteq Slot
  BY DEF ReapList, ReapTake, vars, countVars, TellTyped, ConnInv, ReapType
<1>2. /\ \A t \in Task : \A i \in h[t].left : sub'[i].on
      /\ \A i \in Slot : Len(sub'[i].ch) <= Buffer
  BY <1>1 DEF TellTyped, TellInv, FanInv
<1>3. \A u \in Session : owed'[u] \subseteq owed[u] /\ \A e \in owed'[u] : Heard(u, e)'
  BY <1>1, HeardStill
<1>4. calls' \in Nat /\ calls' >= calls
  BY <1>1 DEF TellTyped
<1>5. CASE ReapList
  <2>1. reg' = reg /\ lapsed' = lapsed /\ reap'.dead = reap.dead
    BY <1>5 DEF ReapList, TellTyped, ConnInv, ReapType
  <2>2. SlotsInv'
    BY <1>1, <2>1 DEF TellTyped, TellInv, SlotsInv
  <2>3. SubscriptionsHold'
    BY <1>1, <2>1 DEF TellTyped, TellInv, SubscriptionsHold
  <2> QED BY <1>1, <1>2, <1>3, <1>4, <2>1, <2>2, <2>3, SubsTell
<1>6. CASE ReapTake
  <2> DEFINE dead == {s \in Session \ Web : reg[s] # 0 /\ s \notin reap.seen}
  <2>1. /\ \A s \in Session : reg'[s] = IF s \in dead THEN 0 ELSE reg[s]
        /\ reap'.dead = {reg[s] : s \in dead} /\ lapsed' = lapsed \cup (dead \cap live)
    BY <1>6 DEF ReapTake
  <2>2. 0 \notin Slot /\ dead \subseteq Session \ Web /\ \A s \in dead : reg[s] # 0
    BY SessionsAssumption
  <2>3. \A s \in dead : reg[s] \in Slot /\ sub[reg[s]].on /\ \A u \in Session : u # s => reg[u] # reg[s]
    BY <2>2, SlotsApart
  <2> HIDE DEF dead
  <2>4. SlotsInv'
    <3>1. \A s \in Session : reg'[s] # 0 => sub'[reg'[s]].on /\ sub'[reg'[s]].sess = s
      BY <1>1, <2>1 DEF TellTyped, TellInv, SlotsInv
    <3>2. \A t \in Task : h[t].pc = "tear" =>
            h[t].slot \in Slot \ reap'.dead /\ \A s \in Session : reg'[s] # h[t].slot
      BY <2>1, <2>2 DEF TellTyped, TellInv, SlotsInv
    <3>3. \A i \in reap'.dead : sub'[i].on /\ \A s \in Session : reg'[s] # i
      BY <1>1, <2>1, <2>2, <2>3
    <3>4. \A s \in Web \cap live : reg'[s] # 0
      BY <1>1, <2>1, <2>2 DEF TellTyped, TellInv, SlotsInv
    <3>5. /\ \A t \in Task : h[t].pc = "add" => h[t].slot # 0
          /\ \A s \in Session \ live : told[s] = {} /\ owed[s] = {}
      BY DEF TellTyped, TellInv, SlotsInv
    <3> QED BY <1>1, <3>1, <3>2, <3>3, <3>4, <3>5 DEF SlotsInv
  <2>5. \A s \in live' \ lapsed' : s \in live \ lapsed /\ reg'[s] = reg[s]
    BY <1>1, <2>1
  <2>6. SubscriptionsHold'
    BY <1>1, <2>5, HoldKept
  <2> QED BY <1>1, <1>2, <1>3, <1>4, <2>4, <2>5, <2>6, SubsTell
<1> QED BY <1>5, <1>6

\* addPattern finds the session's subscriber or makes one.
LEMMA SubscribeTells ==
  ASSUME TellTyped, calls' \in Nat, NEW t \in Task, NEW r \in Request, Subscribe(t, r) PROVE TellInv'
<1> DEFINE s == r.sess
           n == [NoSub EXCEPT !.sess = s, !.on = TRUE]
           new == [NoHandler EXCEPT !.pc = "add", !.req = r, !.slot = reg'[s]]
<1>1. /\ h[t].pc = "none" /\ s \in live /\ s \in Session /\ calls' = calls + 1
      /\ h' = [h EXCEPT ![t] = new]
      /\ live' = live /\ reap' = reap /\ told' = told /\ lapsed' = lapsed /\ owed' = owed
  BY DEF Subscribe, Asks, subOnly, TellTyped, ConnInv
<1>2. s \notin Web
  BY SessionsAssumption DEF Subscribe, Asks
<1>3. new.pc = "add" /\ new.left = {} /\ new.slot = reg'[s]
  BY DEF NoHandler
<1>4. h'[t] = new /\ \A u \in Task \ {t} : h'[u] = h[u]
  BY <1>1 DEF TellTyped, HandlersInv
<1>5. live \subseteq Session /\ reap.dead \subseteq Slot /\ sub \in [Slot -> SubType] /\ reg \in [Session -> Slot \cup {0}]
  BY DEF TellTyped, ConnInv, ReapType
<1>6. \A u \in Session : \A e \in owed'[u] : Heard(u, e)'
  BY <1>1, HeardStill
<1>7. /\ \A u \in Task : Changes(u) \/ Tells(u) \/ Changes(u)' \/ Tells(u)' => h'[u] = h[u]
      /\ \A u \in Task : h'[u] = h[u] \/ h'[u].left = {}
  BY <1>1, <1>3, <1>4 DEF Changes, Tells
<1>8. calls' >= calls
  BY <1>1 DEF TellTyped
<1> DEFINE k == reg'[s]
<1>9. \/ reg[s] # 0 /\ sub' = sub /\ reg' = reg
      \/ /\ reg[s] = 0 /\ SubUnlocked /\ FreeSlots # {} /\ k = NewSlot
         /\ sub' = [sub EXCEPT ![NewSlot] = n] /\ reg' = [reg EXCEPT ![s] = NewSlot]
  <2>1. CASE reg[s] # 0
    BY <2>1 DEF Subscribe
  <2>2. CASE reg[s] = 0
    <3>1. SubUnlocked /\ FreeSlots # {} /\ sub' = [sub EXCEPT ![NewSlot] = n] /\ reg' = [reg EXCEPT ![s] = NewSlot]
      BY <2>2 DEF Subscribe
    <3> QED BY <1>1, <1>5, <2>2, <3>1
  <2> QED BY <2>1, <2>2
<1> HIDE DEF new
<1>10. CASE reg[s] # 0 /\ sub' = sub /\ reg' = reg
  <2>1. SlotsInv'
    <3>1. h'[t].pc # "tear" /\ h'[t].slot # 0
      BY <1>3, <1>4, <1>10
    <3>2. \A u \in Task : h'[u].pc = "tear" => h'[u].slot \in Slot \ reap.dead /\ \A v \in Session : reg[v] # h'[u].slot
      BY <1>4, <3>1 DEF TellTyped, TellInv, SlotsInv
    <3>3. \A u \in Task : h'[u].pc = "add" => h'[u].slot # 0
      BY <1>4, <3>1 DEF TellTyped, TellInv, SlotsInv
    <3> QED BY <1>1, <1>10, <3>2, <3>3 DEF TellTyped, TellInv, SlotsInv
  <2>2. SubscriptionsHold'
    BY <1>1, <1>10 DEF TellTyped, TellInv, SubscriptionsHold
  <2>3. /\ \A u \in Task : \A i \in h[u].left : sub'[i].on
        /\ \A i \in Slot : Len(sub'[i].ch) <= Buffer
    BY <1>10 DEF TellTyped, TellInv, FanInv
  <2> QED BY <1>1, <1>5, <1>6, <1>7, <1>8, <1>10, <2>1, <2>2, <2>3, SubsTell
<1>11. CASE /\ reg[s] = 0 /\ SubUnlocked /\ FreeSlots # {} /\ k = NewSlot
            /\ sub' = [sub EXCEPT ![NewSlot] = n] /\ reg' = [reg EXCEPT ![s] = NewSlot]
  <2>1. /\ k \in Slot /\ k # 0 /\ sub[k] = NoSub /\ (\A u \in Task : h[u].slot # k)
        /\ ~NoSub.on /\ n.sess = s /\ n.on /\ n.ch = <<>>
    <3>1. NewSlot \in Slot /\ NewSlot # 0 /\ sub[NewSlot] = NoSub /\ \A u \in Task : h[u].slot # NewSlot
      BY <1>11, NewSlotIs
    <3>2. ~NoSub.on /\ n.sess = s /\ n.on /\ n.ch = <<>>
      BY DEF NoSub
    <3> QED BY <1>11, <3>1, <3>2
  <2>2. sub' = [sub EXCEPT ![k] = n] /\ reg' = [reg EXCEPT ![s] = k]
    BY <1>11
  <2> HIDE DEF k, n
  <2>3. /\ sub'[k] = n /\ \A i \in Slot \ {k} : sub'[i] = sub[i]
        /\ reg'[s] = k /\ \A u \in Session \ {s} : reg'[u] = reg[u]
    BY <1>1, <1>5, <2>1, <2>2
  <2>4. \A u \in Session : reg[u] # k
    BY <2>1, SlotsApart
  <2>5. k \notin reap.dead
    BY <2>1 DEF TellTyped, TellInv, SlotsInv
  <2>6. SlotsInv'
    <3>1. \A u \in Session : reg'[u] # 0 => sub'[reg'[u]].on /\ sub'[reg'[u]].sess = u
      BY <2>1, <2>3, <2>4, Typed DEF TellTyped, TellInv, SlotsInv
    <3>2. h'[t].pc = "add" /\ h'[t].slot = k
      BY <1>3, <1>4, <2>3
    <3>3. \A u \in Task : h'[u].pc = "tear" => h'[u].slot \in Slot \ reap.dead /\ \A v \in Session : reg'[v] # h'[u].slot
      BY <1>4, <2>1, <2>3, <3>2 DEF TellTyped, TellInv, SlotsInv
    <3>4. \A i \in reap.dead : sub'[i].on /\ \A u \in Session : reg'[u] # i
      BY <1>5, <2>3, <2>5 DEF TellTyped, TellInv, SlotsInv
    <3>5. \A u \in Web \cap live : reg'[u] # 0
      BY <1>2, <1>5, <2>3 DEF TellTyped, TellInv, SlotsInv
    <3>6. \A u \in Task : h'[u].pc = "add" => h'[u].slot # 0
      BY <1>4, <2>1, <3>2 DEF TellTyped, TellInv, SlotsInv
    <3>7. \A u \in Session \ live : told[u] = {} /\ owed[u] = {}
      BY DEF TellTyped, TellInv, SlotsInv
    <3> QED BY <1>1, <3>1, <3>3, <3>4, <3>5, <3>6, <3>7 DEF SlotsInv
  <2>7. s \notin lapsed => told[s] = {} /\ owed[s] = {}
    <3>1. ASSUME s \notin lapsed PROVE told[s] = {} /\ owed[s] = {}
      <4>1. s \in live \ (Web \cup lapsed)
        BY <1>1, <1>2, <3>1
      <4>2. told[s] = {}
        BY <1>11, <4>1 DEF TellTyped, TellInv, SubscriptionsHold
      <4>3. \A e \in owed[s] : Due(s, e)
        BY <4>1 DEF TellTyped, TellInv, DueInv
      <4>4. owed[s] = {}
        BY <1>11, <4>3 DEF Due
      <4> QED BY <4>2, <4>4
    <3> QED BY <3>1
  <2>8. \A u \in Session \ {s} : reg[u] # 0 => sub'[reg[u]] = sub[reg[u]]
    BY <2>3, <2>4, Typed
  <2>9. SubscriptionsHold'
    <3>1. ASSUME NEW u \in live \ (Web \cup lapsed), told[u] # {}
          PROVE  reg'[u] # 0 /\ sub'[reg'[u]].on /\ told[u] \subseteq sub'[reg'[u]].pats
      <4>1. u # s /\ u \in Session
        BY <1>5, <2>7, <3>1
      <4>2. reg[u] # 0 /\ sub[reg[u]].on /\ told[u] \subseteq sub[reg[u]].pats
        BY <3>1 DEF TellTyped, TellInv, SubscriptionsHold
      <4> QED BY <2>3, <2>8, <4>1, <4>2
    <3> QED BY <1>1, <3>1 DEF SubscriptionsHold
  <2>10. \A u \in live' \ lapsed' :
           owed'[u] = {} \/ /\ u \in live \ lapsed /\ reg'[u] = reg[u]
                            /\ reg[u] # 0 => sub'[reg[u]].ch = sub[reg[u]].ch
    BY <1>1, <1>5, <2>3, <2>7, <2>8
  <2>11. \A i \in Slot : Len(sub'[i].ch) <= Buffer
    <3>1. Len(<<>>) <= Buffer
      BY Typed
    <3> QED BY <2>1, <2>3, <3>1 DEF TellTyped, TellInv, FanInv
  <2>12. \A u \in Task : h[u].left = {}
    BY <1>11, UnlockedIdle
  <2> HIDE DEF s
  <2> QED BY <1>1, <1>5, <1>6, <1>7, <1>8, <2>6, <2>9, <2>10, <2>11, <2>12, SubsTell
<1> QED BY <1>9, <1>10, <1>11

\* ... and adds the pattern to the subscriber the session still has, or the session lapses.
LEMMA AddTells ==
  ASSUME TellTyped, NEW t \in Task, AddPattern(t) PROVE TellInv'
<1> DEFINE s == h[t].req.sess
           i == h[t].slot
           pat == h[t].req.pat
           n == [sub[i] EXCEPT !.pats = sub[i].pats \cup {pat}]
<1>1. /\ h[t].pc = "add" /\ h' = [h EXCEPT ![t] = NoHandler]
      /\ live' = live /\ reg' = reg /\ reap' = reap /\ owed' = owed /\ calls' = calls
      /\ sub' = IF sub[i].sess = s /\ sub[i].on THEN [sub EXCEPT ![i] = n] ELSE sub
      /\ told' = IF s \in live THEN [told EXCEPT ![s] = told[s] \cup {pat}] ELSE told
      /\ lapsed' = IF reg[s] = i \/ s \notin live THEN lapsed ELSE lapsed \cup {s}
  BY DEF AddPattern, vars, countVars
<1>2. /\ sub \in [Slot -> SubType] /\ told \in [Session -> SUBSET Pats] /\ h \in [Task -> HandlerType]
      /\ live \subseteq Session /\ i \in Slot
  BY <1>1 DEF TellTyped, ConnInv, HandlersInv, HandlerType, TellInv, SlotsInv
<1>3. s \in Session
  <2>1. h[t].req \in Request
    BY <1>1 DEF TellTyped, HandlersInv, Serves
  <2> QED BY <2>1, SessionsAssumption
<1>4. sub[i] \in SubType
  BY <1>2
<1>5. n.on = sub[i].on /\ n.sess = sub[i].sess /\ n.ch = sub[i].ch /\ n.pats = sub[i].pats \cup {pat}
  BY <1>4 DEF SubType
<1> HIDE DEF n, s, i, pat
<1>6. /\ \A j \in Slot : /\ sub'[j].on = sub[j].on /\ sub'[j].sess = sub[j].sess /\ sub'[j].ch = sub[j].ch
                         /\ sub[j].pats \subseteq sub'[j].pats
      /\ sub[i].sess = s /\ sub[i].on => pat \in sub'[i].pats
  BY <1>1, <1>2, <1>5
<1>7. /\ \A u \in Session \ {s} : told'[u] = told[u]
      /\ told'[s] = IF s \in live THEN told[s] \cup {pat} ELSE told[s]
      /\ \A u \in Session : told[u] \subseteq told'[u]
  BY <1>1, <1>2, <1>3
<1>8. h'[t] = NoHandler /\ \A u \in Task \ {t} : h'[u] = h[u]
  BY <1>1, <1>2
<1>9. SlotsInv'
  <2>1. \A u \in Task : h'[u].pc \in {"tear", "add"} => h'[u] = h[u]
    BY <1>8 DEF NoHandler
  <2>2. \A u \in Session \ live' : told'[u] = {} /\ owed'[u] = {}
    BY <1>1, <1>3, <1>7 DEF TellTyped, TellInv, SlotsInv
  <2> QED BY <1>1, <1>6, <2>1, <2>2, SlotsKept
<1>10. SubscriptionsHold'
  <2>1. ASSUME NEW u \in live \ (Web \cup lapsed'), told'[u] # {}
        PROVE  reg[u] # 0 /\ sub'[reg[u]].on /\ told'[u] \subseteq sub'[reg[u]].pats
    <3>1. u \in Session /\ u \in live \ (Web \cup lapsed)
      BY <1>1, <1>2, <2>1
    <3>2. told[u] # {} => reg[u] # 0 /\ sub[reg[u]].on /\ told[u] \subseteq sub[reg[u]].pats
      BY <3>1 DEF TellTyped, TellInv, SubscriptionsHold
    <3>3. CASE u # s
      BY <1>6, <1>7, <2>1, <3>1, <3>2, <3>3, Typed
    <3>4. CASE u = s
      <4>1. reg[s] = i
        BY <1>1, <2>1, <3>4
      <4>2. reg[s] # 0 /\ sub[i].sess = s /\ sub[i].on
        BY <1>2, <1>3, <4>1, SessionsAssumption DEF TellTyped, TellInv, SlotsInv
      <4>3. told'[s] \subseteq sub'[i].pats
        BY <1>2, <1>6, <1>7, <3>2, <3>4, <4>1, <4>2
      <4> QED BY <1>2, <1>6, <3>4, <4>1, <4>2, <4>3
    <3> QED BY <3>3, <3>4
  <2> QED BY <1>1, <2>1 DEF SubscriptionsHold
<1>11. \A u \in Session : \A e \in owed'[u] : Heard(u, e)'
  BY <1>1, <1>7 DEF TellTyped, TellInv, IdsInv, Heard
<1>12. \A u \in live' \ lapsed' : u \in live \ lapsed /\ (reg[u] # 0 => sub'[reg[u]].ch = sub[reg[u]].ch)
  BY <1>1, <1>2, <1>6, Typed
<1>13. /\ \A u \in Task : \A j \in h[u].left : sub'[j].on
       /\ \A j \in Slot : Len(sub'[j].ch) <= Buffer
  BY <1>6, Typed DEF TellTyped, TellInv, FanInv
<1>14. /\ \A u \in Task : Changes(u) \/ Tells(u) \/ Changes(u)' \/ Tells(u)' => h'[u] = h[u]
       /\ \A u \in Task : h'[u] = h[u] \/ h'[u].left = {}
  BY <1>1, <1>8 DEF Changes, Tells, NoHandler
<1>15. calls' \in Nat /\ calls' >= calls
  BY <1>1 DEF TellTyped
<1> QED BY <1>1, <1>2, <1>9, <1>10, <1>11, <1>12, <1>13, <1>14, <1>15, SubsTell

\* removePattern and clearSession: a session that loses its subscriber was told of no
\* pattern any more, and is owed nothing.
LEMMA UnsubscribeTells ==
  ASSUME TellTyped, calls' \in Nat, NEW t \in Task, NEW r \in Request, Unsubscribe(t, r) PROVE TellInv'
<1> DEFINE s == r.sess
           i == reg[s]
           gone == IF r.op = "clear" THEN sub[i].pats \cup told[s] ELSE {r.pat}
           n == [sub[i] EXCEPT !.pats = sub[i].pats \ gone]
           new == [NoHandler EXCEPT !.pc = "tear", !.req = r, !.slot = i]
<1>1. /\ h[t].pc = "none" /\ s \in live /\ calls' = calls + 1
      /\ live' = live /\ reap' = reap /\ lapsed' = lapsed
      /\ r.op \in {"unsubscribe", "clear"}
  BY DEF Unsubscribe, Asks, subOnly
<1>2. /\ s \notin Web /\ s \in Session /\ live \subseteq Session
      /\ sub \in [Slot -> SubType] /\ reg \in [Session -> Slot \cup {0}] /\ h \in [Task -> HandlerType]
      /\ told \in [Session -> SUBSET Pats] /\ owed \in [Session -> SUBSET EventType]
      /\ reap.dead \subseteq Slot /\ 0 \notin Slot
  BY <1>1, SessionsAssumption DEF TellTyped, ConnInv, HandlersInv, ReapType
<1>3. calls' >= calls
  BY <1>1 DEF TellTyped
<1>4. CASE i = 0
  <2>1. UNCHANGED <<sub, reg, h, told, owed>>
    BY <1>4 DEF Unsubscribe
  <2>2. UNCHANGED sessionVars
    BY <1>1, <2>1 DEF sessionVars, connVars
  <2> QED BY <1>3, <2>2, RestTells
<1>5. CASE i # 0
  <2>1. /\ sub' = [sub EXCEPT ![i] = n]
        /\ told' = [told EXCEPT ![s] = told[s] \ gone]
        /\ owed' = [owed EXCEPT ![s] = {e \in owed[s] : \E p \in told[s] \ gone : e.path \in p}]
    BY <1>5 DEF Unsubscribe, GiveUp
  <2>2. \/ reg' = reg /\ h' = h
        \/ /\ r.op = "clear" \/ emptied(sub[i].pats \ gone)
           /\ reg' = [reg EXCEPT ![s] = 0] /\ h' = [h EXCEPT ![t] = new]
    BY <1>5 DEF Unsubscribe
  <2>3. /\ i \in Slot /\ sub[i] \in SubType /\ sub[i].on /\ sub[i].sess = s
        /\ \A u \in Session : u # s => reg[u] # i
    BY <1>2, <1>5, SlotsApart
  <2>4. n.on = sub[i].on /\ n.sess = sub[i].sess /\ n.ch = sub[i].ch /\ n.pats = sub[i].pats \ gone
    BY <2>3 DEF SubType
  <2>5. new.pc = "tear" /\ new.slot = i /\ new.left = {}
    BY DEF NoHandler
  <2>6. /\ \A j \in Slot : sub'[j].on = sub[j].on /\ sub'[j].sess = sub[j].sess /\ sub'[j].ch = sub[j].ch
        /\ \A j \in Slot \ {i} : sub'[j] = sub[j]
        /\ sub'[i].pats = sub[i].pats \ gone
    BY <1>2, <2>1, <2>3, <2>4
  <2>7. /\ told'[s] = told[s] \ gone
        /\ owed'[s] = {e \in owed[s] : \E p \in told[s] \ gone : e.path \in p}
        /\ \A u \in Session \ {s} : told'[u] = told[u] /\ owed'[u] = owed[u]
    BY <1>2, <2>1
  <2>8. s \notin lapsed /\ told[s] # {} => told[s] \subseteq sub[i].pats
    BY <1>1, <1>2 DEF TellTyped, TellInv, SubscriptionsHold
  <2>9. reg' # reg \/ h' # h => s \in lapsed \/ (told'[s] = {} /\ owed'[s] = {})
    <3>1. CASE r.op = "clear"
      <4>1. told[s] \ gone = {}
        BY <3>1
      <4> QED BY <2>7, <4>1
    <3>2. CASE emptied(sub[i].pats \ gone) /\ s \notin lapsed
      <4>1. told[s] \ gone = {}
        BY <2>8, <3>2 DEF emptied
      <4> QED BY <2>7, <4>1
    <3> QED BY <2>2, <3>1, <3>2
  <2> HIDE DEF n, new, gone
  <2>10. \/ reg' = reg /\ h' = h
         \/ /\ reg'[s] = 0 /\ h'[t] = new
            /\ \A u \in Session \ {s} : reg'[u] = reg[u]
            /\ \A u \in Task \ {t} : h'[u] = h[u]
    BY <1>2, <2>2
  <2>11. i \notin reap.dead
    BY <1>2 DEF TellTyped, TellInv, SlotsInv
  <2>12. \A u \in Session : owed'[u] \subseteq owed[u] /\ told'[u] \subseteq told[u]
    BY <2>7
  <2>13. \A u \in Session \ live : told'[u] = {} /\ owed'[u] = {}
    BY <2>12 DEF TellTyped, TellInv, SlotsInv
  <2>14. SlotsInv'
    <3>1. CASE reg' = reg /\ h' = h
      BY <1>1, <2>6, <2>13, <3>1, SlotsKept
    <3>2. CASE /\ reg'[s] = 0 /\ h'[t] = new
               /\ \A u \in Session \ {s} : reg'[u] = reg[u]
               /\ \A u \in Task \ {t} : h'[u] = h[u]
      <4>1. \A u \in Session : reg'[u] # 0 => u # s /\ reg'[u] = reg[u]
        BY <3>2
      <4>2. \A u \in Session : reg'[u] # 0 => sub'[reg'[u]].on /\ sub'[reg'[u]].sess = u
        BY <2>6, <4>1, Typed DEF TellTyped, TellInv, SlotsInv
      <4>3. \A u \in Task \ {t} : h[u].pc = "tear" =>
              h[u].slot \in Slot \ reap.dead /\ \A v \in Session : reg'[v] # h[u].slot
        BY <1>2, <4>1 DEF TellTyped, TellInv, SlotsInv
      <4>4. \A v \in Session : reg'[v] # i
        BY <1>5, <2>3, <4>1
      <4>5. \A u \in Task : h'[u].pc = "tear" =>
              h'[u].slot \in Slot \ reap.dead /\ \A v \in Session : reg'[v] # h'[u].slot
        BY <2>3, <2>5, <2>11, <3>2, <4>3, <4>4
      <4>6. \A u \in Task : h'[u].pc = "add" => h'[u].slot # 0
        BY <2>5, <3>2 DEF TellTyped, TellInv, SlotsInv
      <4>7. \A j \in reap.dead : sub'[j].on /\ \A u \in Session : reg'[u] # j
        BY <1>2, <2>6, <4>1 DEF TellTyped, TellInv, SlotsInv
      <4>8. \A u \in Web \cap live : reg'[u] # 0
        BY <1>2, <3>2 DEF TellTyped, TellInv, SlotsInv
      <4> QED BY <1>1, <2>13, <4>2, <4>5, <4>6, <4>7, <4>8 DEF SlotsInv
    <3> QED BY <2>10, <3>1, <3>2
  <2>15. SubscriptionsHold'
    <3>1. ASSUME NEW u \in live \ (Web \cup lapsed), told'[u] # {}
          PROVE  reg'[u] # 0 /\ sub'[reg'[u]].on /\ told'[u] \subseteq sub'[reg'[u]].pats
      <4>1. u \in Session /\ told[u] # {}
        BY <1>2, <2>12, <3>1
      <4>2. reg[u] # 0 /\ sub[reg[u]].on /\ told[u] \subseteq sub[reg[u]].pats
        BY <3>1, <4>1 DEF TellTyped, TellInv, SubscriptionsHold
      <4>3. CASE u = s
        <5>1. reg' = reg /\ h' = h
          BY <2>2, <2>9, <3>1, <4>3
        <5> QED BY <2>3, <2>6, <2>7, <4>2, <4>3, <5>1
      <4>4. CASE u # s
        BY <2>3, <2>6, <2>7, <2>10, <4>1, <4>2, <4>4, Typed
      <4> QED BY <4>3, <4>4
    <3> QED BY <1>1, <3>1 DEF SubscriptionsHold
  <2>16. \A u \in Session : \A e \in owed'[u] : Heard(u, e)'
    <3>1. \A u \in Session : \A e \in owed[u] : Heard(u, e)
      BY DEF TellTyped, TellInv, IdsInv
    <3>2. \A e \in owed'[s] : Heard(s, e)'
      BY <2>7 DEF Heard
    <3>3. \A u \in Session \ {s} : \A e \in owed'[u] : Heard(u, e)'
      BY <2>7, <3>1 DEF Heard
    <3> QED BY <3>2, <3>3
  <2>17. \A u \in live' \ lapsed' :
           owed'[u] = {} \/ /\ u \in live \ lapsed /\ reg'[u] = reg[u]
                            /\ reg[u] # 0 => sub'[reg[u]].ch = sub[reg[u]].ch
    <3>1. \A u \in Session : reg[u] # 0 => sub'[reg[u]].ch = sub[reg[u]].ch
      BY <2>6, Typed
    <3>2. ASSUME NEW u \in live \ lapsed, owed'[u] # {} PROVE reg'[u] = reg[u]
      BY <1>2, <2>2, <2>9, <2>10, <3>2
    <3> QED BY <1>1, <1>2, <3>1, <3>2
  <2>18. /\ \A u \in Task : \A j \in h[u].left : sub'[j].on
         /\ \A j \in Slot : Len(sub'[j].ch) <= Buffer
    BY <2>6, Typed DEF TellTyped, TellInv, FanInv
  <2>19. /\ \A u \in Task : Changes(u) \/ Tells(u) \/ Changes(u)' \/ Tells(u)' => h'[u] = h[u]
         /\ \A u \in Task : h'[u] = h[u] \/ h'[u].left = {}
    BY <1>1, <2>5, <2>10 DEF Changes, Tells
  <2> HIDE DEF s, i
  <2> QED BY <1>1, <1>2, <1>3, <2>12, <2>14, <2>15, <2>16, <2>17, <2>18, <2>19, SubsTell
<1> QED BY <1>4, <1>5

\* The program just started: nobody was told anything.
Started ==
  /\ h = [t \in Task |-> NoHandler] /\ sub = [i \in Slot |-> NoSub] /\ reg = [s \in Session |-> 0]
  /\ reap = NoReap /\ told = [s \in Session |-> {}] /\ owed = [s \in Session |-> {}]
  /\ live \cap Web = {} /\ live \subseteq Session

LEMMA NothingTold == Started => TellInv
<1> SUFFICES ASSUME Started PROVE TellInv
  OBVIOUS
<1>1. /\ \A t \in Task : h[t].pc = "none" /\ h[t].left = {}
      /\ \A s \in Session : reg[s] = 0 /\ told[s] = {} /\ owed[s] = {}
      /\ reap.dead = {} /\ live \cap Web = {} /\ live \subseteq Session
  BY DEF Started, NoHandler, NoReap
<1>2. \A i \in Slot : Len(sub[i].ch) <= Buffer
  <2>1. NoSub.ch = <<>> /\ Len(<<>>) = 0 /\ Buffer \in Nat
    BY SessionsAssumption DEF NoSub
  <2> QED BY <2>1 DEF Started
<1>3. FanInv
  BY <1>1, <1>2 DEF FanInv
<1>4. SlotsInv
  BY <1>1 DEF SlotsInv
<1>5. IdsInv
  BY <1>1 DEF IdsInv, Changes, Tells
<1>6. SubscriptionsHold /\ DueInv
  BY <1>1 DEF SubscriptionsHold, DueInv
<1> QED BY <1>3, <1>4, <1>5, <1>6 DEF TellInv

LEMMA TellStep ==
  ASSUME TellTyped, TasksInv, DiskInv, calls' \in Nat, calls' >= calls, [SessionsNext]_allVars
  PROVE  TellInv'
<1>1. ASSUME UNCHANGED sessionVars PROVE TellInv'
  BY <1>1, RestTells
<1>2. (CommitOldest /\ UNCHANGED sessionVars) \/ UNCHANGED allVars => TellInv'
  BY <1>1 DEF allVars
<1>3. CASE Crash
  <2>1. Started'
    BY <1>3 DEF Crash, Started
  <2>2. Started' => TellInv'
    BY NothingTold, PTL
  <2> QED BY <2>1, <2>2
<1>4. ASSUME NEW s \in Session, Connect(s) \/ Leave(s) PROVE TellInv'
  BY <1>4, ConnectTells, LeaveTells
<1>5. ASSUME NEW t \in Task,
             \/ \E r \in Request : Receive(t, r) \/ Subscribe(t, r) \/ Unsubscribe(t, r)
             \/ ReadSource(t) \/ CheckAbsent(t) \/ AddPattern(t)
      PROVE  TellInv'
  BY <1>5, ReceiveTells, SubscribeTells, UnsubscribeTells, FileTells, AddTells
<1>6. ASSUME NEW t \in Task, StoreStep(t) \/ FanOut(t) \/ \E i \in Slot : Deliver(t, i) PROVE TellInv'
  BY <1>6, StoreTells, FanOutTells, DeliverTells
<1>7. (\E i \in Slot : Drain(i)) => TellInv'
  BY DrainTells
<1>8. ReapList \/ ReapTake => TellInv'
  BY ReapTells
<1>9. (\E s \in Session : UnsubscribeWeb(s)) \/ (\E t \in Task : TearDown(t)) \/ ReapTear => TellInv'
  BY TearTells
<1> QED BY <1>2, <1>3, <1>4, <1>5, <1>6, <1>7, <1>8, <1>9 DEF SessionsNext

\* The inductive invariant of connections and subscriptions.
ClientsInv == StoreInv /\ TellInv

LEMMA ClientsInvInit ==
  ASSUME SessionsInit PROVE ClientsInv
<1>1. Started
  BY DEF SessionsInit, Started
<1> QED BY <1>1, StoreInvInit, NothingTold DEF ClientsInv

LEMMA ClientsInvStep ==
  ASSUME ClientsInv, [SessionsNext]_allVars PROVE ClientsInv'
<1>1. StoreInv' /\ StoreInv
  BY StoreInvStep DEF ClientsInv
<1>2. TasksInv /\ DiskInv /\ calls \in Nat /\ TellTyped
  BY <1>1, FileStoreAssumption DEF StoreInv, ShapeInv, CountsInv, TellTyped, ClientsInv
<1>3. calls' \in Nat
  BY <1>1, FileStoreAssumption DEF StoreInv, CountsInv
<1>4. calls' >= calls
  <2>1. [Next]_vars \/ Counts
    BY <1>1, ClientSteps DEF StoreInv
  <2>2. [Next]_vars => calls' = calls \/ calls' = calls + 1
    BY StepCounts DEF Counted
  <2> QED BY <1>2, <1>3, <2>1, <2>2 DEF Counts
<1>5. TellInv'
  BY <1>2, <1>3, <1>4, TellStep
<1> QED BY <1>1, <1>5 DEF ClientsInv

\* Types, with the bound of the channels, and that a fan-out goes to subscribers that are
\* there: the unsubscribe of ServeHTTP and of the manager waits for it.
THEOREM ClientsTypeCorrect == SessionsSpec => []ClientsTypeOK
<1>1. SessionsInit => ClientsInv
  BY ClientsInvInit
<1>2. ClientsInv /\ [SessionsNext]_allVars => ClientsInv'
  BY ClientsInvStep
<1>3. ClientsInv => ClientsTypeOK
  <2> SUFFICES ASSUME ClientsInv PROVE ClientsTypeOK
    OBVIOUS
  <2>1. TypeOK
    BY InvsAreTypes DEF ClientsInv, StoreInv
  <2>2. ConnInv /\ HandlersInv /\ FanInv
    BY DEF ClientsInv, StoreInv, TellInv
  <2>3. \A t \in Task :
         /\ h[t].pc \in {"none", "read", "check", "call", "publish", "fan", "add", "tear"}
         /\ h[t].left \subseteq Slot /\ h[t].id \in 0..MaxCalls /\ h[t].slot \in Slot \cup {0}
    BY <2>2 DEF HandlersInv, HandlerType, HandlerPC
  <2>4. \A t \in Task : h[t].pc \in {"none", "publish", "fan"} => tk[t].pc = "idle"
    BY <2>2 DEF HandlersInv, Serves
  <2>5. \A i \in Slot : Len(sub[i].ch) <= Buffer /\ sub[i].on \in BOOLEAN
    BY <2>2 DEF ConnInv, SubType, FanInv
  <2>6. reap.pc \in {"idle", "take", "tear"} /\ reap.seen \subseteq Session /\ reap.dead \subseteq Slot
    BY <2>2 DEF ConnInv, ReapType
  <2> QED BY <2>1, <2>2, <2>3, <2>4, <2>5, <2>6 DEF ClientsTypeOK, ConnInv, FanInv
<1> QED BY <1>1, <1>2, <1>3, PTL DEF SessionsSpec

\* What a session was told it subscribed to stays in effect, until it unsubscribes, ends or
\* lapses (addPattern, removePattern, clearSession, ReapOnce).
THEOREM ToldIsSubscribed == SessionsSpec => []SubscriptionsHold
<1>1. SessionsInit => ClientsInv
  BY ClientsInvInit
<1>2. ClientsInv /\ [SessionsNext]_allVars => ClientsInv'
  BY ClientsInvStep
<1>3. ClientsInv => SubscriptionsHold
  BY DEF ClientsInv, TellInv
<1> QED BY <1>1, <1>2, <1>3, PTL DEF SessionsSpec

\* Every acknowledged change reaches everyone else who listens to its path, or is dropped
\* at a full channel: what is owed is still to be fanned out to the session's subscriber or
\* waits in its channel (publishFrom, onEvent).
THEOREM NobodyIsMissed == SessionsSpec => []NothingMissed
<1>1. SessionsInit => ClientsInv
  BY ClientsInvInit
<1>2. ClientsInv /\ [SessionsNext]_allVars => ClientsInv'
  BY ClientsInvStep
<1>3. ClientsInv => NothingMissed
  <2> SUFFICES ASSUME ClientsInv, NEW s \in live \ lapsed, NEW e \in owed[s]
               PROVE  \/ \E t \in Task : h[t].pc = "publish" /\ h[t].id = e.id
                      \/ \E t \in Task : h[t].pc = "fan" /\ h[t].id = e.id /\ \E i \in h[t].left : sub[i].sess = s
                      \/ \E i \in Slot : sub[i].sess = s /\ e \in Elements(sub[i].ch)
    BY DEF NothingMissed
  <2>1. Due(s, e) /\ s \in Session
    BY DEF ClientsInv, StoreInv, ConnInv, TellInv, DueInv
  <2>2. TellTyped
    BY FileStoreAssumption DEF ClientsInv, StoreInv, CountsInv, TellTyped
  <2>3. reg[s] \in Slot /\ sub[reg[s]].sess = s
    BY <2>1, <2>2, SlotsApart DEF Due
  <2> QED BY <2>1, <2>3 DEF Due
<1> QED BY <1>1, <1>2, <1>3, PTL DEF SessionsSpec
=============================================================================
