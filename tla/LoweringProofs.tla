---------------------------- MODULE LoweringProofs ----------------------------
(***************************************************************************)
(* Proofs about the lowering of bodies of every length.                    *)
(***************************************************************************)
EXTENDS LoweringInvariant, WellFoundedInduction, TLAPS

-----------------------------------------------------------------------------
(* Induction over numbers, for a set of them.                               *)

\* The order of the numbers.
Less == {p \in Nat \X Nat : p[1] < p[2]}

LEMMA LessWellFounded == IsWellFoundedOn(Less, Nat)
  <1>1. IsWellFoundedOn(OpToRel(<, Nat), Nat)
    BY NatLessThanWellFounded, Zenon
  <1> QED  BY <1>1 DEF OpToRel, Less

\* A set of numbers that has 0 and with a number below n the next one has all
\* numbers up to n.
LEMMA EveryUpTo ==
  ASSUME NEW n \in Nat, NEW S, 0 \in S, \A k \in 0 .. n : k < n /\ k \in S => k + 1 \in S
  PROVE  \A k \in 0 .. n : k \in S
  <1> DEFINE T == {k \in Nat : k <= n /\ k \notin S}
  <1>1. SUFFICES ASSUME T # {} PROVE FALSE
    OBVIOUS
  <1>2. T \subseteq Nat
    OBVIOUS
  <1>3. \E x \in T : \A y \in T : ~(<<y, x>> \in Less)
    <2> HIDE DEF T
    <2> QED  BY <1>1, <1>2, LessWellFounded, WFMin
  <1>4. PICK x \in T : \A y \in T : ~(<<y, x>> \in Less)
    BY <1>3
  <1>5. x \in Nat /\ x <= n /\ x \notin S /\ x # 0
    BY <1>4
  <1>6. x - 1 \in 0 .. n /\ x - 1 < n /\ (x - 1) + 1 = x /\ x - 1 \notin S
    BY <1>5
  <1>7. <<x - 1, x>> \in Less
    BY <1>5 DEF Less
  <1> QED  BY <1>4, <1>5, <1>6, <1>7

-----------------------------------------------------------------------------
(* The recursive functions of BocLowering.                                  *)

LEMMA MethodStates ==
  ASSUME Len(body) \in Nat
  PROVE  methodState = [i \in 0 .. Len(body) |->
           IF i = 0 THEN [ir |-> IF HasBocCalls THEN <<Group(1)>> ELSE <<>>,
                          pending |-> FALSE, waited |-> FALSE]
           ELSE MethodElement(methodState[i - 1], i)]
  <1> DEFINE n == Len(body)
             start == [ir |-> IF HasBocCalls THEN <<Group(1)>> ELSE <<>>,
                       pending |-> FALSE, waited |-> FALSE]
             F(g, k) == [i \in 0 .. k |-> IF i = 0 THEN start ELSE MethodElement(g[i - 1], i)]
             S == {k \in 0 .. n : \E g : g = F(g, k)}
  <1> HIDE DEF n, start
  <1>0. n \in Nat
    BY DEF n
  <1>1. 0 \in S
    <2>1. [i \in 0 .. 0 |-> start] = F([i \in 0 .. 0 |-> start], 0)
      OBVIOUS
    <2>2. \E g : g = F(g, 0)
      <3> HIDE DEF F
      <3> QED  BY <2>1
    <2>3. 0 \in 0 .. n
      BY <1>0
    <2> HIDE DEF F
    <2> QED  BY <2>2, <2>3
  <1>2. ASSUME NEW k \in 0 .. n, k < n, k \in S  PROVE k + 1 \in S
    <2>1. PICK g : g = F(g, k)
      BY <1>2
    <2> DEFINE h == [i \in 0 .. k + 1 |-> IF i = k + 1 THEN MethodElement(g[k], k + 1) ELSE g[i]]
    <2>2. ASSUME NEW i \in 0 .. k + 1
          PROVE  h[i] = IF i = 0 THEN start ELSE MethodElement(h[i - 1], i)
      <3>1. CASE i = k + 1
        BY <1>0, <3>1
      <3>2. CASE i # k + 1
        <4>1. g[i] = IF i = 0 THEN start ELSE MethodElement(g[i - 1], i)
          BY <1>0, <2>1, <3>2
        <4>2. h[i] = g[i] /\ (i # 0 => h[i - 1] = g[i - 1])
          BY <1>0, <3>2
        <4> HIDE DEF h
        <4> QED  BY <4>1, <4>2
      <3> QED  BY <3>1, <3>2
    <2>3. h = F(h, k + 1)
      <3> DEFINE v(i) == IF i = k + 1 THEN MethodElement(g[k], k + 1) ELSE g[i]
      <3>1. h = [i \in 0 .. k + 1 |-> v(i)]
        OBVIOUS
      <3> HIDE DEF v, h
      <3> QED  BY <2>2, <3>1
    <2>4. \E f : f = F(f, k + 1)
      <3> HIDE DEF F, h
      <3> QED  BY <2>3
    <2>5. k + 1 \in 0 .. n
      BY <1>0, <1>2
    <2> HIDE DEF F
    <2> QED  BY <2>4, <2>5
  <1>3. n \in S
    <2> HIDE DEF S
    <2> QED  BY <1>0, <1>1, <1>2, EveryUpTo
  <1>4. \E g : g = F(g, n)
    BY <1>3
  <1>5. methodState = CHOOSE g : g = F(g, n)
    BY DEF methodState, n, start
  <1>6. methodState = F(methodState, n)
    BY <1>4, <1>5
  <1> QED  BY <1>6 DEF n, start

LEMMA SingletonStates ==
  ASSUME Len(body) \in Nat
  PROVE  singletonState = [i \in 0 .. Len(body) |->
           IF i = 0 THEN [ir |-> <<>>, batch |-> {}, groups |-> 0]
           ELSE SingletonElement(singletonState[i - 1], i)]
  <1> DEFINE n == Len(body)
             start == [ir |-> <<>>, batch |-> {}, groups |-> 0]
             F(g, k) == [i \in 0 .. k |-> IF i = 0 THEN start ELSE SingletonElement(g[i - 1], i)]
             S == {k \in 0 .. n : \E g : g = F(g, k)}
  <1> HIDE DEF n, start
  <1>0. n \in Nat
    BY DEF n
  <1>1. 0 \in S
    <2>1. [i \in 0 .. 0 |-> start] = F([i \in 0 .. 0 |-> start], 0)
      OBVIOUS
    <2>2. \E g : g = F(g, 0)
      <3> HIDE DEF F
      <3> QED  BY <2>1
    <2>3. 0 \in 0 .. n
      BY <1>0
    <2> HIDE DEF F
    <2> QED  BY <2>2, <2>3
  <1>2. ASSUME NEW k \in 0 .. n, k < n, k \in S  PROVE k + 1 \in S
    <2>1. PICK g : g = F(g, k)
      BY <1>2
    <2> DEFINE h == [i \in 0 .. k + 1 |-> IF i = k + 1 THEN SingletonElement(g[k], k + 1) ELSE g[i]]
    <2>2. ASSUME NEW i \in 0 .. k + 1
          PROVE  h[i] = IF i = 0 THEN start ELSE SingletonElement(h[i - 1], i)
      <3>1. CASE i = k + 1
        BY <1>0, <3>1
      <3>2. CASE i # k + 1
        <4>1. g[i] = IF i = 0 THEN start ELSE SingletonElement(g[i - 1], i)
          BY <1>0, <2>1, <3>2
        <4>2. h[i] = g[i] /\ (i # 0 => h[i - 1] = g[i - 1])
          BY <1>0, <3>2
        <4> HIDE DEF h
        <4> QED  BY <4>1, <4>2
      <3> QED  BY <3>1, <3>2
    <2>3. h = F(h, k + 1)
      <3> DEFINE v(i) == IF i = k + 1 THEN SingletonElement(g[k], k + 1) ELSE g[i]
      <3>1. h = [i \in 0 .. k + 1 |-> v(i)]
        OBVIOUS
      <3> HIDE DEF v, h
      <3> QED  BY <2>2, <3>1
    <2>4. \E f : f = F(f, k + 1)
      <3> HIDE DEF F, h
      <3> QED  BY <2>3
    <2>5. k + 1 \in 0 .. n
      BY <1>0, <1>2
    <2> HIDE DEF F
    <2> QED  BY <2>4, <2>5
  <1>3. n \in S
    <2> HIDE DEF S
    <2> QED  BY <1>0, <1>1, <1>2, EveryUpTo
  <1>4. \E g : g = F(g, n)
    BY <1>3
  <1>5. singletonState = CHOOSE g : g = F(g, n)
    BY DEF singletonState, n, start
  <1>6. singletonState = F(singletonState, n)
    BY <1>4, <1>5
  <1> QED  BY <1>6 DEF n, start

LEMMA RunsUpTo ==
  ASSUME NEW m, NEW ir, NEW places, Len(ir) \in Nat
  PROVE  LET r == RunUpTo(m, ir, places) IN
         r = [i \in 0 .. Len(ir) |->
           IF i = 0 THEN m
           ELSE IF i \in places THEN RunStmt(r[i - 1], ir[i]) ELSE r[i - 1]]
  <1> DEFINE n == Len(ir)
             start == m
             Step(x, i) == IF i \in places THEN RunStmt(x, ir[i]) ELSE x
             r == RunUpTo(m, ir, places)
             F(g, k) == [i \in 0 .. k |-> IF i = 0 THEN start ELSE Step(g[i - 1], i)]
             S == {k \in 0 .. n : \E g : g = F(g, k)}
  <1> HIDE DEF n, start, Step, r
  <1>0. n \in Nat
    BY DEF n
  <1>1. 0 \in S
    <2>1. [i \in 0 .. 0 |-> start] = F([i \in 0 .. 0 |-> start], 0)
      OBVIOUS
    <2>2. \E g : g = F(g, 0)
      <3> HIDE DEF F
      <3> QED  BY <2>1
    <2>3. 0 \in 0 .. n
      BY <1>0
    <2> HIDE DEF F
    <2> QED  BY <2>2, <2>3
  <1>2. ASSUME NEW k \in 0 .. n, k < n, k \in S  PROVE k + 1 \in S
    <2>1. PICK g : g = F(g, k)
      BY <1>2
    <2> DEFINE h == [i \in 0 .. k + 1 |-> IF i = k + 1 THEN Step(g[k], k + 1) ELSE g[i]]
    <2>2. ASSUME NEW i \in 0 .. k + 1
          PROVE  h[i] = IF i = 0 THEN start ELSE Step(h[i - 1], i)
      <3>1. CASE i = k + 1
        BY <1>0, <3>1
      <3>2. CASE i # k + 1
        <4>1. g[i] = IF i = 0 THEN start ELSE Step(g[i - 1], i)
          BY <1>0, <2>1, <3>2
        <4>2. h[i] = g[i] /\ (i # 0 => h[i - 1] = g[i - 1])
          BY <1>0, <3>2
        <4> HIDE DEF h
        <4> QED  BY <4>1, <4>2
      <3> QED  BY <3>1, <3>2
    <2>3. h = F(h, k + 1)
      <3> DEFINE v(i) == IF i = k + 1 THEN Step(g[k], k + 1) ELSE g[i]
      <3>1. h = [i \in 0 .. k + 1 |-> v(i)]
        OBVIOUS
      <3> HIDE DEF v, h
      <3> QED  BY <2>2, <3>1
    <2>4. \E f : f = F(f, k + 1)
      <3> HIDE DEF F, h
      <3> QED  BY <2>3
    <2>5. k + 1 \in 0 .. n
      BY <1>0, <1>2
    <2> HIDE DEF F
    <2> QED  BY <2>4, <2>5
  <1>3. n \in S
    <2> HIDE DEF S
    <2>1. \A k \in 0 .. n : k < n /\ k \in S => k + 1 \in S
      BY <1>2
    <2>2. \A k \in 0 .. n : k \in S
      BY ONLY <1>0, <1>1, <2>1, EveryUpTo
    <2> QED  BY <1>0, <2>2
  <1>4. \E g : g = F(g, n)
    BY <1>3
  <1>5. r = CHOOSE g : g = F(g, n)
    BY DEF r, RunUpTo, n, start, Step
  <1>6. r = F(r, n)
    BY <1>4, <1>5
  <1> QED  BY <1>6 DEF n, start, Step, r

-----------------------------------------------------------------------------
(* Appending a statement.                                                   *)

LEMMA Appended ==
  ASSUME NEW ir \in Seq(Statement), NEW st \in Statement, NEW r, r = Append(ir, st)
  PROVE  /\ r \in Seq(Statement) /\ Len(r) = Len(ir) + 1 /\ Len(ir) \in Nat
         /\ DOMAIN ir = 1 .. Len(ir) /\ DOMAIN r = 1 .. Len(ir) + 1
         /\ \A k \in 1 .. Len(ir) : r[k] = ir[k] /\ ir[k] \in Statement
         /\ r[Len(ir) + 1] = st
  <1> HIDE DEF Statement
  <1> QED  OBVIOUS

\* The Waits between old statements are the old ones.
LEMMA AppendedWaits ==
  ASSUME NEW ir \in Seq(Statement), NEW st \in Statement, NEW r, r = Append(ir, st),
         NEW j \in DOMAIN ir, NEW k \in 1 .. Len(ir) + 1
  PROVE  Waited(r, j, k) <=> Waited(ir, j, k)
  <1>1. ASSUME NEW w \in j + 1 .. k - 1
        PROVE  w \in 1 .. Len(ir)
    BY Appended
  <1> QED  BY <1>1, Appended DEF Waited, IsWait

LEMMA TranslatesWork ==
  ASSUME NEW st, Translates(st), body \in Seq(Element)
  PROVE  Work(st)
  <1>1. st.el \in Nat /\ st.el # 0
    BY DEF Translates
  <1>2. st.op # "returnvar"
    BY DEF Translates, Decl, Bare, Assign, If, Expr, Return, Stmt
  <1> QED  BY <1>1, <1>2 DEF Work

\* What appending a statement may break.
LEMMA AppendKeeps ==
  ASSUME body \in Seq(Element), NEW n \in Nat, NEW ir, LoweredTo(ir, n),
         NEW st \in Statement, NEW n2 \in Nat,
         \/ Helper(st) /\ n2 = n
         \/ Translates(st) /\ st.el = n + 1 /\ n2 = n + 1,
         Work(st) /\ st.op # "spawn" => Closed(ir),
         st.op = "spawn" /\ ~ReadsCall(st.el) =>
           \A j \in DOMAIN ir : ir[j].op = "spawn" /\ ir[j].el = n =>
             \A w \in j .. Len(ir) : ir[w].op # "wait",
         st.op \in {"spawn", "wait"} =>
           \E j \in DOMAIN ir : ir[j].op = "group" /\ ir[j].grp = st.grp,
         lowering = "singleton" /\ st.op \in {"spawn", "wait"} =>
           \A k \in DOMAIN ir : ~IsWait(ir, k, st.grp),
         lowering = "singleton" /\ st.op = "spawn" /\ body[st.el].form = "plain"
           /\ ReadsCall(st.el) =>
           \A j \in DOMAIN ir : ir[j].op = "spawn" /\ ir[j].el = body[st.el].reads =>
             Waited(ir, j, Len(ir) + 1)
  PROVE  LoweredTo(Append(ir, st), n2)
  <1> DEFINE r == Append(ir, st)
  <1>0. ir \in Seq(Statement)
    BY DEF LoweredTo, WellFormed
  <1>1. /\ r \in Seq(Statement) /\ Len(r) = Len(ir) + 1 /\ Len(ir) \in Nat
        /\ DOMAIN ir = 1 .. Len(ir) /\ DOMAIN r = 1 .. Len(ir) + 1
        /\ \A k \in 1 .. Len(ir) : r[k] = ir[k] /\ ir[k] \in Statement
        /\ r[Len(ir) + 1] = st
    BY <1>0, Appended
  <1>2. \A j \in DOMAIN ir : \A k \in 1 .. Len(ir) + 1 : Waited(r, j, k) <=> Waited(ir, j, k)
    BY <1>0, AppendedWaits
  <1>3. \A k \in DOMAIN ir : Work(ir[k]) => ir[k].el \in Nat /\ ir[k].el <= n
    BY <1>0, <1>1 DEF LoweredTo, WellFormed, Helper, Statement
  <1>4. Work(st) <=> n2 # n
    BY TranslatesWork DEF Helper
  <1> HIDE DEF r
  <1>5. WellFormed(r, n2)
    <2>1. ASSUME NEW k \in DOMAIN r
          PROVE  Helper(r[k]) \/ (Translates(r[k]) /\ r[k].el <= n2)
      <3>1. CASE k \in DOMAIN ir
        <4>1. Helper(r[k]) \/ (Translates(r[k]) /\ r[k].el <= n)
          BY <1>1, <3>1 DEF LoweredTo, WellFormed
        <4>2. r[k].el \in Nat
          BY <1>1, <3>1 DEF Statement
        <4> QED  BY <4>1, <4>2
      <3>2. CASE k = Len(ir) + 1
        BY <1>1, <3>2
      <3> QED  BY <1>1, <3>1, <3>2
    <2>2. ASSUME NEW i \in 1 .. n2
          PROVE  \E k \in DOMAIN r : Work(r[k]) /\ r[k].el = i
      <3>1. CASE i <= n
        <4>1. PICK k \in DOMAIN ir : Work(ir[k]) /\ ir[k].el = i
          BY <3>1 DEF LoweredTo, WellFormed
        <4> QED  BY <1>1, <4>1
      <3>2. CASE i = n + 1
        <4>1. Work(st) /\ st.el = i
          BY <1>4, <3>2 DEF Helper
        <4> QED  BY <1>1, <4>1
      <3> QED  BY <3>1, <3>2
    <2> QED  BY <1>1, <2>1, <2>2 DEF WellFormed
  <1>6. InOrder(r)
    <2> SUFFICES ASSUME NEW j \in DOMAIN r, NEW k \in DOMAIN r, j < k, Work(r[j]), Work(r[k])
                 PROVE  r[j].el < r[k].el
      BY DEF InOrder
    <2>1. j \in DOMAIN ir /\ r[j] = ir[j]
      BY <1>1
    <2>2. CASE k \in DOMAIN ir
      BY <1>1, <2>1, <2>2 DEF LoweredTo, InOrder
    <2>3. CASE k = Len(ir) + 1
      <3>1. Work(st) /\ st.el = n + 1
        BY <1>1, <1>4, <2>3
      <3> QED  BY <1>1, <1>3, <2>1, <2>3, <3>1
    <2> QED  BY <1>1, <2>2, <2>3
  <1>7. Barriers(r)
    <2> SUFFICES ASSUME NEW j \in DOMAIN r, NEW k \in DOMAIN r, j < k, r[j].op = "spawn",
                        Work(r[k]), r[k].op # "spawn"
                 PROVE  Waited(r, j, k)
      BY DEF Barriers
    <2>1. j \in DOMAIN ir /\ r[j] = ir[j]
      BY <1>1
    <2>2. CASE k \in DOMAIN ir
      BY <1>1, <1>2, <2>1, <2>2 DEF LoweredTo, Barriers
    <2>3. CASE k = Len(ir) + 1
      BY <1>1, <1>2, <2>1, <2>3 DEF Closed
    <2> QED  BY <1>1, <2>2, <2>3
  <1>8. Together(r)
    <2> SUFFICES ASSUME NEW j \in DOMAIN r, NEW k \in DOMAIN r, r[j].op = "spawn",
                        r[k].op = "spawn", r[k].el = r[j].el + 1, ~ReadsCall(r[k].el),
                        NEW w \in j .. k
                 PROVE  r[w].op # "wait"
      BY DEF Together
    <2>0. Work(r[j]) /\ Work(r[k])
      <3>1. ASSUME NEW i \in DOMAIN r, r[i].op = "spawn"  PROVE Work(r[i])
        BY <1>5, <3>1, TranslatesWork DEF WellFormed, Helper
      <3> QED  BY <3>1
    <2>1. CASE k \in DOMAIN ir /\ j \in DOMAIN ir
      <3>1. w \in DOMAIN ir
        BY <1>1, <2>1
      <3> QED  BY <1>1, <2>1, <3>1 DEF LoweredTo, Together
    <2>2. CASE k = Len(ir) + 1 /\ j \in DOMAIN ir
      <3>1. r[j] = ir[j] /\ r[k] = st /\ st.el = n + 1 /\ ir[j].el \in Nat
        BY <1>1, <1>3, <1>4, <2>0, <2>2
      <3>2. ir[j].el = n
        BY <3>1
      <3>3. CASE w = Len(ir) + 1
        BY <1>1, <3>1, <3>3, <2>2
      <3>4. CASE w # Len(ir) + 1
        <4>1. w \in j .. Len(ir) /\ r[w] = ir[w]
          BY <1>1, <2>2, <3>4
        <4> QED  BY <3>1, <3>2, <4>1, <2>2
      <3> QED  BY <3>3, <3>4
    <2>3. CASE j = Len(ir) + 1
      <3>1. k = j \/ (k \in DOMAIN ir /\ r[k] = ir[k])
        BY <1>1, <2>3
      <3>2. st.el = n + 1 /\ r[j] = st
        BY <1>1, <1>4, <2>0, <2>3
      <3>3. CASE k = j
        BY <3>2, <3>3
      <3>4. CASE k \in DOMAIN ir /\ r[k] = ir[k]
        BY <1>3, <2>0, <3>2, <3>4
      <3> QED  BY <3>1, <3>3, <3>4
    <2> QED  BY <1>1, <2>1, <2>2, <2>3
  <1>9. Grouped(r)
    <2> SUFFICES ASSUME NEW k \in DOMAIN r, r[k].op \in {"spawn", "wait"}
                 PROVE  \E j \in 1 .. k - 1 : r[j].op = "group" /\ r[j].grp = r[k].grp
      BY DEF Grouped
    <2>1. CASE k \in DOMAIN ir
      <3>1. PICK j \in 1 .. k - 1 : ir[j].op = "group" /\ ir[j].grp = ir[k].grp
        BY <1>1, <2>1 DEF LoweredTo, Grouped
      <3> QED  BY <1>1, <2>1, <3>1
    <2>2. CASE k = Len(ir) + 1
      <3>1. PICK j \in DOMAIN ir : ir[j].op = "group" /\ ir[j].grp = st.grp
        BY <1>1, <2>2
      <3> QED  BY <1>1, <2>2, <3>1
    <2> QED  BY <1>1, <2>1, <2>2
  <1>10. OneWait(r)
    <2> SUFFICES ASSUME lowering = "singleton"
                 PROVE  OneWait(r)
      BY DEF OneWait
    <2>1. ASSUME NEW j \in DOMAIN r, NEW k \in DOMAIN r, r[k].op = "wait", j < k
          PROVE  ~IsWait(r, j, r[k].grp)
      <3>1. j \in DOMAIN ir /\ r[j] = ir[j]
        BY <1>1, <2>1
      <3> QED  BY <1>1, <2>1, <3>1 DEF LoweredTo, OneWait, IsWait
    <2>2. ASSUME NEW j \in DOMAIN r, NEW w \in DOMAIN r, r[j].op = "spawn",
                 IsWait(r, w, r[j].grp)
          PROVE  j < w
      <3>1. CASE j \in DOMAIN ir /\ w \in DOMAIN ir
        BY <1>1, <2>2, <3>1 DEF LoweredTo, OneWait, IsWait
      <3>2. CASE j \in DOMAIN ir /\ w = Len(ir) + 1
        BY <1>1, <3>2
      <3>3. CASE j = Len(ir) + 1
        <4>1. w \in DOMAIN ir
          BY <1>1, <2>2, <3>3 DEF IsWait
        <4> QED  BY <1>1, <2>2, <3>3, <4>1 DEF IsWait
      <3> QED  BY <1>1, <3>1, <3>2, <3>3
    <2>3. ASSUME NEW j \in DOMAIN r, NEW k \in DOMAIN r, j < k,
                 r[j].op = "spawn", r[k].op = "spawn", body[r[k].el].form = "plain",
                 body[r[k].el].reads = r[j].el, ReadsCall(r[k].el)
          PROVE  Waited(r, j, k)
      <3>1. j \in DOMAIN ir /\ r[j] = ir[j]
        BY <1>1, <2>3
      <3>2. CASE k \in DOMAIN ir
        BY <1>1, <1>2, <2>3, <3>1, <3>2 DEF LoweredTo, OneWait
      <3>3. CASE k = Len(ir) + 1
        BY <1>1, <1>2, <2>3, <3>1, <3>3
      <3> QED  BY <1>1, <3>2, <3>3
    <2> QED  BY <2>1, <2>2, <2>3 DEF OneWait
  <1> QED  BY <1>5, <1>6, <1>7, <1>8, <1>9, <1>10 DEF LoweredTo, r

LEMMA Concatenated ==
  ASSUME NEW ir \in Seq(Statement), NEW a \in Statement, NEW b \in Statement
  PROVE  /\ ir \o <<a>> = Append(ir, a)
         /\ ir \o <<a, b>> = Append(Append(ir, a), b)
  <1> HIDE DEF Statement
  <1> QED  OBVIOUS

-----------------------------------------------------------------------------
(* The statements of an element.                                            *)

LEMMA Bodies ==
  ASSUME BodyInv
  PROVE  /\ lowering \in {"method", "singleton"} /\ result \in {"unit", "scalar", "struct"}
         /\ body \in Seq(Element) /\ Len(body) \in Nat /\ DOMAIN body = 1 .. Len(body)
         /\ \A i \in DOMAIN body :
              /\ i \in Nat /\ i > 0 /\ i \in Indices \ {0} /\ body[i].tgt \in Nat
              /\ body[i].reads \in Nat
              /\ body[i].kind \in CallKinds \cup DeclKinds \cup BranchKinds \cup {"assign", "do"}
  <1>1. MaxLen[lowering] \in Nat /\ lowering \in {"method", "singleton"}
    BY LoweringAssumption DEF BodyInv
  <1>2. body \in Seq(Element) /\ Len(body) <= MaxLen[lowering]
    BY DEF BodyInv
  <1>3. ASSUME NEW i \in DOMAIN body  PROVE body[i] \in Element /\ i \in 1 .. Len(body)
    BY <1>2
  <1>4. Kinds[lowering] \subseteq CallKinds \cup DeclKinds \cup BranchKinds \cup {"assign", "do"}
    BY LoweringAssumption DEF BodyInv
  <1>5. Len(body) \in Nat /\ DOMAIN body = 1 .. Len(body)
    BY <1>2
  <1>6. result \in {"unit", "scalar", "struct"}
    BY LoweringAssumption DEF BodyInv
  <1> HIDE DEF BodyInv
  <1>7. ASSUME NEW i \in DOMAIN body
        PROVE  /\ i \in Nat /\ i > 0 /\ i \in Indices \ {0} /\ body[i].tgt \in Nat
               /\ body[i].reads \in Nat
               /\ body[i].kind \in CallKinds \cup DeclKinds \cup BranchKinds \cup {"assign", "do"}
    <2>1. i \in Nat /\ i > 0 /\ i \in Indices \ {0}
      BY <1>1, <1>2, <1>3, <1>5 DEF Indices
    <2>2. body[i].tgt \in Indices /\ body[i].reads \in Indices /\ body[i].kind \in Kinds[lowering]
      BY <1>3 DEF Element
    <2> QED  BY <1>1, <1>4, <2>1, <2>2 DEF Indices
  <1> QED  BY <1>1, <1>2, <1>5, <1>6, <1>7

LEMMA IsStatement ==
  ASSUME NEW op \in Ops, NEW i \in Nat, NEW v \in Nat, NEW g \in Nat, NEW lazy \in BOOLEAN
  PROVE  [op |-> op, el |-> i, var |-> v, grp |-> g, lazy |-> lazy, then |-> <<>>] \in Statement
  <1>1. <<>> \in Seq(Simple)
    <2> HIDE DEF Simple
    <2> QED  OBVIOUS
  <1> HIDE DEF Simple
  <1> QED  BY <1>1 DEF Statement

LEMMA HelperStatements ==
  ASSUME BodyInv, NEW v \in Nat, NEW g \in Indices \ {0}
  PROVE  /\ Var(v) \in Statement /\ Helper(Var(v)) /\ Var(v).op = "var" /\ Var(v).grp = 0
         /\ Group(g) \in Statement /\ Helper(Group(g))
         /\ Group(g).op = "group" /\ Group(g).grp = g
         /\ Wait(g) \in Statement /\ Helper(Wait(g)) /\ Wait(g).op = "wait" /\ Wait(g).grp = g
         /\ ReturnUnit \in Statement /\ Helper(ReturnUnit)
         /\ ReturnUnit.op = "return" /\ ReturnUnit.grp = 0
         /\ v \in DOMAIN body => /\ ReturnVar(v) \in Statement /\ Helper(ReturnVar(v))
                                 /\ ReturnVar(v).op = "returnvar" /\ ReturnVar(v).var = v
                                 /\ ReturnVar(v).grp = 0
  <1>1. g \in Nat
    BY LoweringAssumption DEF BodyInv, Indices
  <1>2. /\ Var(v) \in Statement /\ Group(g) \in Statement /\ Wait(g) \in Statement
        /\ ReturnUnit \in Statement /\ ReturnVar(v) \in Statement
    <2> HIDE DEF Statement
    <2> QED  BY <1>1, IsStatement DEF Ops, Stmt, Var, Group, Wait, ReturnUnit, Return, ReturnVar
  <1>3. Helper(Var(v)) /\ Var(v).op = "var" /\ Var(v).grp = 0
    BY DEF Helper, Work, Stmt, Var
  <1>4. Helper(Group(g)) /\ Group(g).op = "group" /\ Group(g).grp = g
    BY DEF Helper, Work, Stmt, Group
  <1>5. Helper(Wait(g)) /\ Wait(g).op = "wait" /\ Wait(g).grp = g
    BY DEF Helper, Work, Stmt, Wait
  <1>6. Helper(ReturnUnit) /\ ReturnUnit.op = "return" /\ ReturnUnit.grp = 0
    BY DEF Helper, Work, Stmt, ReturnUnit, Return
  <1>7. v \in DOMAIN body => /\ Helper(ReturnVar(v)) /\ ReturnVar(v).op = "returnvar"
                             /\ ReturnVar(v).var = v /\ ReturnVar(v).grp = 0
    BY DEF Helper, Work, Stmt, ReturnVar
  <1> QED  BY <1>2, <1>3, <1>4, <1>5, <1>6, <1>7

LEMMA Branches ==
  ASSUME BodyInv, NEW i \in DOMAIN body, body[i].kind \in BranchKinds, NEW g \in Nat
  PROVE  /\ Branch(i, g) \in Seq(Simple) /\ Branch(i, g) # <<>>
         /\ body[i].kind = "ifbind" => Branch(i, g)[1] = Var(i)
         /\ body[i].kind # "ifbind" =>
              Branch(i, g)[1] = [op |-> IF g # 0 THEN "spawn"
                                        ELSE IF body[i].kind = "if" THEN "force" ELSE "start",
                                 el |-> i, var |-> 0, grp |-> g, lazy |-> g # 0, then |-> <<>>]
  <1>1. i \in Nat
    BY Bodies
  <1>2. CASE body[i].kind = "ifbind"
    <2>1. Branch(i, g) = <<Var(i)>>
      BY <1>2 DEF Branch
    <2>2. Var(i) \in Simple
      BY <1>1 DEF Ops, Simple, Var, Stmt
    <2> HIDE DEF Simple
    <2> QED  BY <1>2, <2>1, <2>2
  <1>3. CASE body[i].kind # "ifbind" /\ g # 0
    <2> DEFINE st == [op |-> "spawn", el |-> i, var |-> 0, grp |-> g, lazy |-> TRUE, then |-> <<>>]
    <2>1. Branch(i, g) = <<st>>
      BY <1>3 DEF Branch
    <2>2. st \in Simple
      BY <1>1 DEF Ops, Simple
    <2>3. st = [op |-> IF g # 0 THEN "spawn" ELSE IF body[i].kind = "if" THEN "force" ELSE "start",
                el |-> i, var |-> 0, grp |-> g, lazy |-> g # 0, then |-> <<>>]
      BY <1>3
    <2> HIDE DEF Simple, st
    <2> QED  BY <1>3, <2>1, <2>2, <2>3
  <1>4. CASE body[i].kind # "ifbind" /\ g = 0
    <2> DEFINE op == IF body[i].kind = "if" THEN "force" ELSE "start"
               st == Stmt(op, i, 0, 0)
    <2>1. Branch(i, g) = <<st>>
      BY <1>4 DEF Branch, BranchKinds
    <2>2. st \in Simple
      BY <1>1 DEF Ops, Simple, Stmt
    <2>3. st = [op |-> IF g # 0 THEN "spawn" ELSE IF body[i].kind = "if" THEN "force" ELSE "start",
                el |-> i, var |-> 0, grp |-> g, lazy |-> g # 0, then |-> <<>>]
      BY <1>4 DEF Stmt
    <2> HIDE DEF Simple, st
    <2> QED  BY <1>4, <2>1, <2>2, <2>3
  <1> QED  BY <1>2, <1>3, <1>4

\* The statements that lower an element.
LEMMA WorkStatements ==
  ASSUME BodyInv, NEW i \in DOMAIN body
  PROVE  /\ \A v \in {0, i}, g \in Indices \ {0} :
              body[i].kind \in CallKinds /\ (body[i].kind \in {"bind", "lazy"} => v = i)
              => /\ Spawn(i, v, g) \in Statement /\ Translates(Spawn(i, v, g))
                 /\ Spawn(i, v, g).el = i /\ Spawn(i, v, g).op = "spawn" /\ Spawn(i, v, g).grp = g
                 /\ Spawn(i, v, g).var = v
         /\ body[i].kind \in DeclKinds =>
              Decl(i) \in Statement /\ Translates(Decl(i)) /\ Decl(i).el = i /\ Decl(i).op = "decl"
         /\ body[i].kind = "typed" /\ lowering = "method" =>
              Bare(i) \in Statement /\ Translates(Bare(i)) /\ Bare(i).el = i /\ Bare(i).op = "bare"
         /\ body[i].kind = "assign" =>
              /\ Assign(i) \in Statement /\ Translates(Assign(i)) /\ Assign(i).el = i
              /\ Assign(i).op = "assign"
         /\ body[i].kind \in BranchKinds =>
              LET st == If(i, IF lowering = "method" THEN MethodGroup ELSE 0) IN
              st \in Statement /\ Translates(st) /\ st.el = i /\ st.op = "if"
         /\ body[i].kind = "do" =>
              /\ Expr(i) \in Statement /\ Translates(Expr(i)) /\ Expr(i).el = i
              /\ Expr(i).op = "do"
         /\ IsLast(i) /\ body[i].kind \notin Binders \cup {"assign"} =>
              /\ Return(i) \in Statement /\ Translates(Return(i))
              /\ Return(i).el = i /\ Return(i).op = "return"
  <1>1. i \in Nat /\ body[i].tgt \in Nat /\ \A g \in Indices : g \in Nat
    BY Bodies, LoweringAssumption DEF Indices, BodyInv
  <1>2. ASSUME NEW v \in {0, i}, NEW g \in Indices \ {0},
               body[i].kind \in CallKinds, body[i].kind \in {"bind", "lazy"} => v = i
        PROVE  /\ Spawn(i, v, g) \in Statement /\ Translates(Spawn(i, v, g))
               /\ Spawn(i, v, g).el = i /\ Spawn(i, v, g).op = "spawn" /\ Spawn(i, v, g).grp = g
               /\ Spawn(i, v, g).var = v
    <2>1. v \in Nat /\ g \in Nat
      BY <1>1
    <2>3. IsScalar(i) \in BOOLEAN
      BY DEF IsScalar
    <2>4. Spawn(i, v, g) \in Statement
      <3> HIDE DEF Statement, IsScalar
      <3> QED  BY <1>1, <2>1, <2>3, IsStatement DEF Ops, Spawn
    <2>5. /\ Spawn(i, v, g).el = i /\ Spawn(i, v, g).op = "spawn" /\ Spawn(i, v, g).grp = g
          /\ Spawn(i, v, g).var = v /\ Spawn(i, v, g).lazy = IsScalar(i)
      BY DEF Spawn
    <2>6. Translates(Spawn(i, v, g))
      BY <1>2, <2>5 DEF Translates
    <2> QED  BY <2>4, <2>5, <2>6
  <1>3. /\ Decl(i) \in Statement /\ Bare(i) \in Statement /\ Assign(i) \in Statement
        /\ Expr(i) \in Statement /\ Return(i) \in Statement
    <2> HIDE DEF Statement
    <2> QED  BY <1>1, IsStatement DEF Ops, Stmt, Decl, Bare, Assign, Expr, Return
  <1>4. body[i].kind \in DeclKinds => Translates(Decl(i)) /\ Decl(i).el = i /\ Decl(i).op = "decl"
    <2>1. Decl(i).el = i /\ Decl(i).op = "decl"
      BY DEF Decl, Stmt
    <2> QED  BY <2>1 DEF Translates
  <1>5. body[i].kind = "typed" /\ lowering = "method" =>
          Translates(Bare(i)) /\ Bare(i).el = i /\ Bare(i).op = "bare"
    <2>1. Bare(i).el = i /\ Bare(i).op = "bare"
      BY DEF Bare, Stmt
    <2> QED  BY <2>1 DEF Translates
  <1>6. body[i].kind = "assign" =>
           Translates(Assign(i)) /\ Assign(i).el = i /\ Assign(i).op = "assign"
    <2>1. Assign(i).el = i /\ Assign(i).op = "assign"
      BY DEF Assign, Stmt
    <2> QED  BY <2>1 DEF Translates
  <1>7. body[i].kind = "do" => Translates(Expr(i)) /\ Expr(i).el = i /\ Expr(i).op = "do"
    <2>1. Expr(i).el = i /\ Expr(i).op = "do"
      BY DEF Expr, Stmt
    <2> QED  BY <2>1 DEF Translates
  <1>8. IsLast(i) /\ body[i].kind \notin Binders \cup {"assign"} =>
           Translates(Return(i)) /\ Return(i).el = i /\ Return(i).op = "return"
    <2>1. Return(i).el = i /\ Return(i).op = "return"
      BY DEF Return, Stmt
    <2> QED  BY <2>1 DEF Translates
  <1>9. ASSUME body[i].kind \in BranchKinds
        PROVE  LET st == If(i, IF lowering = "method" THEN MethodGroup ELSE 0) IN
               st \in Statement /\ Translates(st) /\ st.el = i /\ st.op = "if"
    <2> DEFINE g == IF lowering = "method" THEN MethodGroup ELSE 0
    <2>1. g \in Nat
      BY DEF MethodGroup
    <2> HIDE DEF g
    <2>2. Branch(i, g) \in Seq(Simple)
      BY <1>9, <2>1, Branches
    <2>3. If(i, g) \in Statement
      <3> HIDE DEF Simple
      <3> QED  BY <1>1, <2>2 DEF Ops, Statement, If
    <2>4. If(i, g).el = i /\ If(i, g).op = "if"
      BY DEF If
    <2>5. Translates(If(i, g))
      BY <1>9, <2>4 DEF Translates, g
    <2> QED  BY <2>3, <2>4, <2>5 DEF g
  <1> QED  BY <1>2, <1>3, <1>4, <1>5, <1>6, <1>7, <1>8, <1>9

-----------------------------------------------------------------------------
(* The body of a method.                                                    *)

LEMMA TheGroup ==
  ASSUME BodyInv, HasBocCalls
  PROVE  MethodGroup = 1 /\ 1 \in Indices \ {0}
  <1>1. PICK i \in DOMAIN body : TRUE
    BY DEF HasBocCalls
  <1>2. i \in Nat /\ i > 0 /\ i \in Indices
    BY Bodies
  <1>3. MaxLen[lowering] \in Nat
    BY LoweringAssumption DEF BodyInv
  <1> QED  BY <1>2, <1>3 DEF MethodGroup, Indices

\* What calls are.
LEMMA CallsAre ==
  ASSUME NEW n \in Nat, NEW ir, LoweredTo(ir, n), body \in Seq(Element)
  PROVE  /\ ir \in Seq(Statement) /\ Len(ir) \in Nat /\ DOMAIN ir = 1 .. Len(ir)
         /\ \A k \in DOMAIN ir : ir[k] \in Statement
         /\ \A k \in DOMAIN ir : ir[k].op = "spawn" =>
              /\ Work(ir[k]) /\ Translates(ir[k]) /\ ir[k].el \in 1 .. n
              /\ ir[k].el \in DOMAIN body /\ body[ir[k].el].kind \in CallKinds
  <1>1. ir \in Seq(Statement)
    BY DEF LoweredTo, WellFormed
  <1>2. Len(ir) \in Nat /\ DOMAIN ir = 1 .. Len(ir) /\ \A k \in DOMAIN ir : ir[k] \in Statement
    <2> HIDE DEF Statement
    <2> QED  BY <1>1
  <1>3. ASSUME NEW k \in DOMAIN ir, ir[k].op = "spawn"
        PROVE  /\ Work(ir[k]) /\ Translates(ir[k]) /\ ir[k].el \in 1 .. n
               /\ ir[k].el \in DOMAIN body /\ body[ir[k].el].kind \in CallKinds
    <2>1. Translates(ir[k]) /\ ir[k].el <= n
      BY <1>3 DEF LoweredTo, WellFormed, Helper
    <2>2. Work(ir[k])
      BY <2>1, TranslatesWork
    <2>3. ir[k].el \in DOMAIN body
      BY <2>1 DEF Translates
    <2>4. ir[k].el \in 1 .. n
      BY <2>1, <2>3
    <2>5. body[ir[k].el].kind \in CallKinds
      <3> DEFINE st == ir[k]
                 i == ir[k].el
      <3>1. st # Decl(i) /\ st # Bare(i) /\ st # Assign(i) /\ st # Expr(i) /\ st # Return(i)
        BY <1>3 DEF Decl, Bare, Assign, Expr, Return, Stmt
      <3>2. \A g : st # If(i, g)
        BY <1>3 DEF If
      <3> QED  BY <2>1, <3>1, <3>2 DEF Translates
    <2> QED  BY <2>1, <2>2, <2>3, <2>4, <2>5
  <1> QED  BY <1>1, <1>2, <1>3

LEMMA Closing ==
  ASSUME NEW ir \in Seq(Statement), NEW g \in Indices \ {0}, BodyInv,
         \A k \in DOMAIN ir : ir[k].op = "spawn" =>
           ir[k].grp = g \/ Waited(ir, k, Len(ir) + 1)
  PROVE  Closed(Append(ir, Wait(g)))
  <1> DEFINE r == Append(ir, Wait(g))
  <1>1. Wait(g) \in Statement /\ Wait(g).op = "wait" /\ Wait(g).grp = g
    BY HelperStatements
  <1>2. /\ r \in Seq(Statement) /\ Len(r) = Len(ir) + 1 /\ Len(ir) \in Nat
        /\ DOMAIN ir = 1 .. Len(ir) /\ DOMAIN r = 1 .. Len(ir) + 1
        /\ \A k \in 1 .. Len(ir) : r[k] = ir[k] /\ ir[k] \in Statement
        /\ r[Len(ir) + 1] = Wait(g)
    BY <1>1, Appended
  <1> HIDE DEF r
  <1>3. ASSUME NEW j \in DOMAIN r, r[j].op = "spawn"
        PROVE  \E w \in j + 1 .. (Len(r) + 1) - 1 : IsWait(r, w, r[j].grp)
    <2>1. j \in DOMAIN ir /\ r[j] = ir[j]
      BY <1>1, <1>2, <1>3
    <2>2. CASE ir[j].grp = g
      <3>1. Len(ir) + 1 \in j + 1 .. (Len(r) + 1) - 1 /\ IsWait(r, Len(ir) + 1, r[j].grp)
        BY <1>1, <1>2, <2>1, <2>2 DEF IsWait
      <3> QED  BY <3>1
    <2>3. CASE Waited(ir, j, Len(ir) + 1)
      <3>1. PICK w \in j + 1 .. (Len(ir) + 1) - 1 : IsWait(ir, w, ir[j].grp)
        BY <2>3 DEF Waited
      <3>2. w \in DOMAIN ir /\ w \in j + 1 .. (Len(r) + 1) - 1
        BY <1>2, <2>1, <3>1
      <3>3. IsWait(r, w, r[j].grp)
        BY <1>2, <2>1, <3>1, <3>2 DEF IsWait
      <3> QED  BY <3>2, <3>3
    <2> QED  BY <1>3, <2>1, <2>2, <2>3
  <1> QED  BY <1>3 DEF Closed, Waited, r

LEMMA StaysWaited ==
  ASSUME NEW ir \in Seq(Statement), NEW st \in Statement, NEW r, r = Append(ir, st),
         NEW j \in DOMAIN ir, Waited(ir, j, Len(ir) + 1)
  PROVE  Waited(r, j, Len(r) + 1)
  <1>1. /\ r \in Seq(Statement) /\ Len(r) = Len(ir) + 1 /\ Len(ir) \in Nat
        /\ DOMAIN ir = 1 .. Len(ir) /\ DOMAIN r = 1 .. Len(ir) + 1
        /\ \A k \in 1 .. Len(ir) : r[k] = ir[k] /\ ir[k] \in Statement
        /\ r[Len(ir) + 1] = st
    BY Appended
  <1>2. PICK w \in j + 1 .. (Len(ir) + 1) - 1 : IsWait(ir, w, ir[j].grp)
    BY DEF Waited
  <1>3. w \in 1 .. Len(ir) /\ w \in j + 1 .. (Len(r) + 1) - 1
    BY <1>1, <1>2
  <1>4. IsWait(r, w, r[j].grp)
    BY <1>1, <1>2, <1>3 DEF IsWait
  <1> QED  BY <1>3, <1>4 DEF Waited

LEMMA StaysClosed ==
  ASSUME NEW ir \in Seq(Statement), NEW st \in Statement, Closed(ir), st.op # "spawn"
  PROVE  Closed(Append(ir, st))
  <1> DEFINE r == Append(ir, st)
  <1>1. /\ r \in Seq(Statement) /\ Len(r) = Len(ir) + 1 /\ Len(ir) \in Nat
        /\ DOMAIN ir = 1 .. Len(ir) /\ DOMAIN r = 1 .. Len(ir) + 1
        /\ \A k \in 1 .. Len(ir) : r[k] = ir[k] /\ ir[k] \in Statement
        /\ r[Len(ir) + 1] = st
    BY Appended
  <1>2. \A j \in DOMAIN ir : Waited(ir, j, Len(ir) + 1) => Waited(r, j, Len(r) + 1)
    BY StaysWaited
  <1> HIDE DEF r
  <1>3. ASSUME NEW j \in DOMAIN r, r[j].op = "spawn"
        PROVE  Waited(r, j, Len(r) + 1)
    <2>1. j \in DOMAIN ir /\ r[j] = ir[j]
      BY <1>1, <1>3
    <2> QED  BY <1>2, <1>3, <2>1 DEF Closed
  <1> QED  BY <1>3 DEF Closed, r

\* A statement that is no call changes nothing for the group.
LEMMA StaysOneGroup ==
  ASSUME NEW ir \in Seq(Statement), NEW st \in Statement, OneGroup(ir),
         st.op = "spawn" => st.grp = 1
  PROVE  OneGroup(Append(ir, st))
  <1> DEFINE r == Append(ir, st)
  <1>1. /\ r \in Seq(Statement) /\ Len(r) = Len(ir) + 1 /\ Len(ir) \in Nat
        /\ DOMAIN ir = 1 .. Len(ir) /\ DOMAIN r = 1 .. Len(ir) + 1
        /\ \A k \in 1 .. Len(ir) : r[k] = ir[k] /\ ir[k] \in Statement
        /\ r[Len(ir) + 1] = st
    BY Appended
  <1> HIDE DEF r
  <1>2. ASSUME NEW k \in DOMAIN r, r[k].op = "spawn"  PROVE r[k].grp = 1
    BY <1>1, <1>2 DEF OneGroup, Declared
  <1>3. ASSUME HasBocCalls  PROVE \E k \in DOMAIN r : r[k].op = "group" /\ r[k].grp = 1
    <2>1. PICK k \in DOMAIN ir : ir[k].op = "group" /\ ir[k].grp = 1
      BY <1>3 DEF OneGroup, Declared
    <2> QED  BY <1>1, <2>1
  <1> QED  BY <1>2, <1>3 DEF OneGroup, Declared, r

\* The call of the next element.
LEMMA MethodSpawned ==
  ASSUME BodyInv, lowering = "method", NEW n \in Nat, n + 1 \in DOMAIN body,
         NEW ir, LoweredTo(ir, n), OpenEnd(ir, n), OneGroup(ir), HasBocCalls,
         NEW v \in {0, n + 1}, body[n + 1].kind \in CallKinds,
         body[n + 1].kind \in {"bind", "lazy"} => v = n + 1
  PROVE  LET r == Append(ir, Spawn(n + 1, v, MethodGroup)) IN
         r \in Seq(Statement) /\ LoweredTo(r, n + 1) /\ OpenEnd(r, n + 1) /\ OneGroup(r)
  <1> DEFINE st == Spawn(n + 1, v, MethodGroup)
             r == Append(ir, st)
  <1>1. MethodGroup = 1 /\ 1 \in Indices \ {0}
    BY TheGroup
  <1>2. /\ st \in Statement /\ Translates(st) /\ st.el = n + 1 /\ st.op = "spawn" /\ st.grp = 1
    BY <1>1, WorkStatements
  <1>3. body \in Seq(Element) /\ Len(body) \in Nat /\ DOMAIN body = 1 .. Len(body)
    BY Bodies
  <1>4. /\ ir \in Seq(Statement) /\ Len(ir) \in Nat /\ DOMAIN ir = 1 .. Len(ir)
        /\ \A k \in DOMAIN ir : ir[k] \in Statement
        /\ \A k \in DOMAIN ir : ir[k].op = "spawn" => ir[k].el \in 1 .. n
    BY <1>3, CallsAre
  <1> HIDE DEF st
  <1>5. /\ r \in Seq(Statement) /\ Len(r) = Len(ir) + 1
        /\ DOMAIN r = 1 .. Len(ir) + 1
        /\ \A k \in 1 .. Len(ir) : r[k] = ir[k]
        /\ r[Len(ir) + 1] = st
    BY <1>2, <1>4, Appended
  <1>6. LoweredTo(r, n + 1)
    <2>1. Work(st) /\ st.op # "spawn" => Closed(ir)
      BY <1>2
    <2>2. \A j \in DOMAIN ir : ir[j].op = "spawn" /\ ir[j].el = n =>
            \A w \in j .. Len(ir) : ir[w].op # "wait"
      <3>1. n < Len(body)
        BY <1>3
      <3> QED  BY <3>1 DEF OpenEnd
    <2>3. \E j \in DOMAIN ir : ir[j].op = "group" /\ ir[j].grp = st.grp
      BY <1>2 DEF OneGroup, Declared
    <2> QED  BY <1>2, <1>3, <2>1, <2>2, <2>3, AppendKeeps
  <1>7. OpenEnd(r, n + 1)
    <2> HIDE DEF r
    <2>1. ASSUME NEW j \in DOMAIN r, r[j].op = "spawn", r[j].el = n + 1, NEW w \in j .. Len(r)
          PROVE  r[w].op # "wait"
      <3>1. j = Len(ir) + 1
        BY <1>4, <1>5, <2>1
      <3>2. w = j
        BY <1>4, <1>5, <3>1
      <3> QED  BY <1>2, <1>5, <3>1, <3>2
    <2> QED  BY <2>1 DEF OpenEnd
  <1>8. OneGroup(r)
    BY <1>2, <1>4, StaysOneGroup
  <1> QED  BY <1>5, <1>6, <1>7, <1>8 DEF st

\* A statement that is no call, after all calls were awaited.
LEMMA MethodPut ==
  ASSUME BodyInv, lowering = "method", NEW n \in Nat, n + 1 \in DOMAIN body,
         NEW ir, LoweredTo(ir, n), Closed(ir), OneGroup(ir),
         NEW st \in Statement, Translates(st), st.el = n + 1, st.op \notin {"spawn", "wait"}
  PROVE  LET r == Append(ir, st) IN
         /\ r \in Seq(Statement) /\ LoweredTo(r, n + 1) /\ OpenEnd(r, n + 1)
         /\ OneGroup(r) /\ Closed(r)
  <1> DEFINE r == Append(ir, st)
  <1>1. body \in Seq(Element) /\ Len(body) \in Nat /\ DOMAIN body = 1 .. Len(body)
    BY Bodies
  <1>2. /\ ir \in Seq(Statement) /\ Len(ir) \in Nat /\ DOMAIN ir = 1 .. Len(ir)
        /\ \A k \in DOMAIN ir : ir[k] \in Statement
        /\ \A k \in DOMAIN ir : ir[k].op = "spawn" => ir[k].el \in 1 .. n
    BY <1>1, CallsAre
  <1>3. /\ r \in Seq(Statement) /\ Len(r) = Len(ir) + 1
        /\ DOMAIN r = 1 .. Len(ir) + 1
        /\ \A k \in 1 .. Len(ir) : r[k] = ir[k]
        /\ r[Len(ir) + 1] = st
    BY <1>2, Appended
  <1>4. LoweredTo(r, n + 1)
    BY <1>1, AppendKeeps
  <1>5. OpenEnd(r, n + 1)
    <2> HIDE DEF r
    <2>1. ASSUME NEW j \in DOMAIN r, r[j].op = "spawn", r[j].el = n + 1
          PROVE  FALSE
      BY <1>2, <1>3, <2>1
    <2> QED  BY <2>1 DEF OpenEnd
  <1>6. OneGroup(r)
    BY <1>2, StaysOneGroup
  <1>7. Closed(r)
    BY <1>2, StaysClosed
  <1> QED  BY <1>3, <1>4, <1>5, <1>6, <1>7

-----------------------------------------------------------------------------
(* Putting a declaration in front of a body, and changing statements in it  *)
(* that neither start calls nor await them.                                 *)

LEMMA Framed ==
  ASSUME body \in Seq(Element), NEW n \in Nat, NEW ir, LoweredTo(ir, n), NEW d \in {0, 1},
         NEW r \in Seq(Statement), Len(r) = Len(ir) + d,
         d = 1 => Helper(r[1]) /\ r[1].op = "var",
         \A k \in DOMAIN ir : Alike(r[k + d], ir[k]) /\ (Helper(r[k + d]) \/ Translates(r[k + d]))
  PROVE  /\ LoweredTo(r, n)
         /\ \A j, k \in DOMAIN ir : Waited(r, j + d, k + d) <=> Waited(ir, j, k)
         /\ Closed(ir) => Closed(r)
         /\ OpenEnd(ir, n) => OpenEnd(r, n)
  <1>1. /\ ir \in Seq(Statement) /\ Len(ir) \in Nat /\ DOMAIN ir = 1 .. Len(ir)
        /\ \A k \in DOMAIN ir : ir[k] \in Statement
    BY CallsAre
  <1>2. Len(r) \in Nat /\ DOMAIN r = 1 .. Len(ir) + d /\ \A k \in DOMAIN r : r[k] \in Statement
    <2> HIDE DEF Statement
    <2> QED  BY <1>1
  <1>3. ASSUME NEW k \in DOMAIN r, Work(r[k]) \/ r[k].op # "var"
        PROVE  k - d \in DOMAIN ir /\ (k - d) + d = k /\ Alike(r[k], ir[k - d])
    <2>1. ~(d = 1 /\ k = 1)
      BY <1>3 DEF Helper
    <2>2. k - d \in DOMAIN ir /\ (k - d) + d = k
      BY <1>1, <1>2, <2>1
    <2> QED  BY <2>2
  <1>4. ASSUME NEW k \in DOMAIN ir
        PROVE  k + d \in DOMAIN r /\ Alike(r[k + d], ir[k])
    BY <1>1, <1>2
  <1>5. ASSUME NEW j \in DOMAIN ir, NEW k \in 1 .. Len(ir) + 1, ir[j].op = "spawn"
        PROVE  Waited(ir, j, k) => Waited(r, j + d, k + d)
    <2> SUFFICES ASSUME Waited(ir, j, k)  PROVE Waited(r, j + d, k + d)
      OBVIOUS
    <2>1. PICK w \in j + 1 .. k - 1 : IsWait(ir, w, ir[j].grp)
      BY DEF Waited
    <2>2. w \in DOMAIN ir /\ w + d \in (j + d) + 1 .. (k + d) - 1
      BY <1>1, <2>1
    <2>3. IsWait(r, w + d, r[j + d].grp)
      BY <1>4, <2>1, <2>2 DEF IsWait, Alike
    <2> QED  BY <2>2, <2>3 DEF Waited
  <1>6. ASSUME NEW j \in DOMAIN ir, NEW k \in DOMAIN ir
        PROVE  Waited(r, j + d, k + d) <=> Waited(ir, j, k)
    <2>1. ASSUME Waited(r, j + d, k + d)  PROVE Waited(ir, j, k)
      <3>1. PICK w \in (j + d) + 1 .. (k + d) - 1 : IsWait(r, w, r[j + d].grp)
        BY <2>1 DEF Waited
      <3>2. w - d \in DOMAIN ir /\ w - d \in j + 1 .. k - 1 /\ (w - d) + d = w
        BY <1>1, <3>1
      <3>3. IsWait(ir, w - d, ir[j].grp)
        BY <1>4, <3>1, <3>2 DEF IsWait, Alike
      <3> QED  BY <3>2, <3>3 DEF Waited
    <2>2. ASSUME Waited(ir, j, k)  PROVE Waited(r, j + d, k + d)
      <3>1. PICK w \in j + 1 .. k - 1 : IsWait(ir, w, ir[j].grp)
        BY <2>2 DEF Waited
      <3>2. w \in DOMAIN ir /\ w + d \in (j + d) + 1 .. (k + d) - 1
        BY <1>1, <3>1
      <3>3. IsWait(r, w + d, r[j + d].grp)
        BY <1>4, <3>1, <3>2 DEF IsWait, Alike
      <3> QED  BY <3>2, <3>3 DEF Waited
    <2> QED  BY <2>1, <2>2
  <1>7. WellFormed(r, n)
    <2>1. ASSUME NEW k \in DOMAIN r
          PROVE  Helper(r[k]) \/ (Translates(r[k]) /\ r[k].el <= n)
      <3>1. CASE d = 1 /\ k = 1
        BY <3>1
      <3>2. CASE ~(d = 1 /\ k = 1)
        <4>1. k - d \in DOMAIN ir /\ (k - d) + d = k
          BY <1>1, <1>2, <3>2
        <4>2. Alike(r[k], ir[k - d]) /\ (Helper(r[k]) \/ Translates(r[k]))
          BY <4>1
        <4>3. Translates(r[k]) => Work(ir[k - d])
          BY <4>2, TranslatesWork DEF Alike
        <4>4. Work(ir[k - d]) => ir[k - d].el <= n
          BY <4>1 DEF LoweredTo, WellFormed, Helper
        <4> QED  BY <4>2, <4>3, <4>4 DEF Alike
      <3> QED  BY <3>1, <3>2
    <2>2. ASSUME NEW i \in 1 .. n
          PROVE  \E k \in DOMAIN r : Work(r[k]) /\ r[k].el = i
      <3>1. PICK k \in DOMAIN ir : Work(ir[k]) /\ ir[k].el = i
        BY DEF LoweredTo, WellFormed
      <3> QED  BY <1>4, <3>1 DEF Alike
    <2> QED  BY <2>1, <2>2 DEF WellFormed
  <1>8. InOrder(r)
    <2> SUFFICES ASSUME NEW j \in DOMAIN r, NEW k \in DOMAIN r, j < k, Work(r[j]), Work(r[k])
                 PROVE  r[j].el < r[k].el
      BY DEF InOrder
    <2>1. /\ j - d \in DOMAIN ir /\ Alike(r[j], ir[j - d])
          /\ k - d \in DOMAIN ir /\ Alike(r[k], ir[k - d])
      BY <1>3
    <2>2. j - d < k - d
      BY <1>2
    <2> QED  BY <2>1, <2>2 DEF LoweredTo, InOrder, Alike
  <1>9. Barriers(r)
    <2> SUFFICES ASSUME NEW j \in DOMAIN r, NEW k \in DOMAIN r, j < k, r[j].op = "spawn",
                        Work(r[k]), r[k].op # "spawn"
                 PROVE  Waited(r, j, k)
      BY DEF Barriers
    <2>1. /\ j - d \in DOMAIN ir /\ Alike(r[j], ir[j - d]) /\ (j - d) + d = j
          /\ k - d \in DOMAIN ir /\ Alike(r[k], ir[k - d]) /\ (k - d) + d = k
      BY <1>3
    <2>2. j - d < k - d
      BY <1>2
    <2>3. Waited(ir, j - d, k - d)
      BY <2>1, <2>2 DEF LoweredTo, Barriers, Alike
    <2> QED  BY <1>6, <2>1, <2>3
  <1>10. Together(r)
    <2> SUFFICES ASSUME NEW j \in DOMAIN r, NEW k \in DOMAIN r, r[j].op = "spawn",
                        r[k].op = "spawn", r[k].el = r[j].el + 1, ~ReadsCall(r[k].el),
                        NEW w \in j .. k, r[w].op = "wait"
                 PROVE  FALSE
      BY DEF Together
    <2>1. /\ j - d \in DOMAIN ir /\ Alike(r[j], ir[j - d])
          /\ k - d \in DOMAIN ir /\ Alike(r[k], ir[k - d])
      BY <1>3
    <2>2. w \in DOMAIN r
      BY <1>2
    <2>3. w - d \in DOMAIN ir /\ Alike(r[w], ir[w - d])
      BY <1>3, <2>2
    <2>4. w - d \in j - d .. k - d
      BY <1>2
    <2> QED  BY <2>1, <2>3, <2>4 DEF LoweredTo, Together, Alike
  <1>11. Grouped(r)
    <2> SUFFICES ASSUME NEW k \in DOMAIN r, r[k].op \in {"spawn", "wait"}
                 PROVE  \E j \in 1 .. k - 1 : r[j].op = "group" /\ r[j].grp = r[k].grp
      BY DEF Grouped
    <2>1. k - d \in DOMAIN ir /\ Alike(r[k], ir[k - d])
      BY <1>3
    <2>2. PICK j \in 1 .. (k - d) - 1 : ir[j].op = "group" /\ ir[j].grp = ir[k - d].grp
      BY <2>1 DEF LoweredTo, Grouped, Alike
    <2>3. j \in DOMAIN ir /\ j + d \in 1 .. k - 1
      BY <1>1, <1>2, <2>1, <2>2
    <2>4. Alike(r[j + d], ir[j])
      BY <1>4, <2>3
    <2> QED  BY <2>1, <2>2, <2>3, <2>4 DEF Alike
  <1>12. OneWait(r)
    <2> SUFFICES ASSUME lowering = "singleton"  PROVE OneWait(r)
      BY DEF OneWait
    <2>1. ASSUME NEW j \in DOMAIN r, NEW k \in DOMAIN r, r[k].op = "wait", j < k
          PROVE  ~IsWait(r, j, r[k].grp)
      <3> SUFFICES ASSUME IsWait(r, j, r[k].grp)  PROVE FALSE
        OBVIOUS
      <3>1. /\ j - d \in DOMAIN ir /\ Alike(r[j], ir[j - d])
            /\ k - d \in DOMAIN ir /\ Alike(r[k], ir[k - d])
        BY <1>3, <2>1 DEF IsWait
      <3>2. j - d < k - d
        BY <1>2, <2>1
      <3> QED  BY <2>1, <3>1, <3>2 DEF LoweredTo, OneWait, Alike, IsWait
    <2>2. ASSUME NEW j \in DOMAIN r, NEW w \in DOMAIN r, r[j].op = "spawn", IsWait(r, w, r[j].grp)
          PROVE  j < w
      <3>1. /\ j - d \in DOMAIN ir /\ Alike(r[j], ir[j - d])
            /\ w - d \in DOMAIN ir /\ Alike(r[w], ir[w - d])
        BY <1>3, <2>2 DEF IsWait
      <3>2. j - d < w - d
        BY <2>2, <3>1 DEF LoweredTo, OneWait, Alike, IsWait
      <3> QED  BY <1>2, <3>2
    <2>3. ASSUME NEW j \in DOMAIN r, NEW k \in DOMAIN r, j < k,
                 r[j].op = "spawn", r[k].op = "spawn", body[r[k].el].form = "plain",
                 body[r[k].el].reads = r[j].el, ReadsCall(r[k].el)
          PROVE  Waited(r, j, k)
      <3>1. /\ j - d \in DOMAIN ir /\ Alike(r[j], ir[j - d]) /\ (j - d) + d = j
            /\ k - d \in DOMAIN ir /\ Alike(r[k], ir[k - d]) /\ (k - d) + d = k
        BY <1>3, <2>3
      <3>2. j - d < k - d
        BY <1>2, <2>3
      <3>3. Waited(ir, j - d, k - d)
        BY <2>3, <3>1, <3>2 DEF LoweredTo, OneWait, Alike
      <3> QED  BY <1>6, <3>1, <3>3
    <2> QED  BY <2>1, <2>2, <2>3 DEF OneWait
  <1>13. Closed(ir) => Closed(r)
    <2> SUFFICES ASSUME Closed(ir), NEW j \in DOMAIN r, r[j].op = "spawn"
                 PROVE  Waited(r, j, Len(r) + 1)
      BY DEF Closed
    <2>1. j - d \in DOMAIN ir /\ Alike(r[j], ir[j - d]) /\ (j - d) + d = j
      BY <1>3
    <2>2. Waited(ir, j - d, Len(ir) + 1) /\ ir[j - d].op = "spawn"
      BY <2>1 DEF Closed, Alike
    <2>3. Waited(r, (j - d) + d, (Len(ir) + 1) + d)
      BY <1>1, <1>5, <2>1, <2>2
    <2>4. (Len(ir) + 1) + d = Len(r) + 1
      BY <1>1
    <2> QED  BY <2>1, <2>3, <2>4
  <1>14. OpenEnd(ir, n) => OpenEnd(r, n)
    <2> SUFFICES ASSUME OpenEnd(ir, n), n < Len(body), NEW j \in DOMAIN r, r[j].op = "spawn",
                        r[j].el = n, NEW w \in j .. Len(r), r[w].op = "wait"
                 PROVE  FALSE
      BY DEF OpenEnd
    <2>1. j - d \in DOMAIN ir /\ Alike(r[j], ir[j - d])
      BY <1>3
    <2>2. w \in DOMAIN r
      BY <1>2
    <2>3. w - d \in DOMAIN ir /\ Alike(r[w], ir[w - d])
      BY <1>3, <2>2
    <2>4. w - d \in j - d .. Len(ir)
      BY <1>1, <1>2
    <2> QED  BY <2>1, <2>3, <2>4 DEF OpenEnd, Alike
  <1> QED  BY <1>6, <1>7, <1>8, <1>9, <1>10, <1>11, <1>12, <1>13, <1>14 DEF LoweredTo

LEMMA MethodWaits ==
  ASSUME BodyInv, lowering = "method", NEW n \in Nat, NEW s, MethodInv(s, n)
  PROVE  LET t == PendingWait(s) IN
         /\ t \in [ir : Seq(Statement), pending : BOOLEAN, waited : BOOLEAN]
         /\ LoweredTo(t.ir, n) /\ Closed(t.ir) /\ OneGroup(t.ir) /\ ~t.pending
         /\ IF s.pending THEN t.ir = Append(s.ir, Wait(1)) /\ t.waited ELSE t = s
  <1> DEFINE t == PendingWait(s)
  <1>1. CASE s.pending
    <2>1. HasBocCalls /\ MethodGroup = 1 /\ 1 \in Indices \ {0}
      BY <1>1, TheGroup DEF MethodInv
    <2>2. Wait(1) \in Statement /\ Helper(Wait(1)) /\ Wait(1).op = "wait" /\ Wait(1).grp = 1
      BY <2>1, HelperStatements
    <2>3. s.ir \in Seq(Statement) /\ body \in Seq(Element)
      BY Bodies DEF MethodInv
    <2> HIDE DEF Statement
    <2>4. Append(s.ir, Wait(1)) \in Seq(Statement)
      BY <2>2, <2>3
    <2>5. t = [ir |-> Append(s.ir, Wait(1)), pending |-> FALSE, waited |-> TRUE]
      BY <1>1, <2>1 DEF PendingWait
    <2>6. LoweredTo(Append(s.ir, Wait(1)), n)
      <3>1. LoweredTo(s.ir, n) /\ ~Work(Wait(1))
        BY <2>2 DEF MethodInv, Helper
      <3>2. \E j \in DOMAIN s.ir : s.ir[j].op = "group" /\ s.ir[j].grp = Wait(1).grp
        BY <2>1, <2>2 DEF MethodInv, OneGroup, Declared
      <3> QED  BY <2>2, <2>3, <3>1, <3>2, AppendKeeps
    <2>7. Closed(Append(s.ir, Wait(1)))
      <3>1. \A k \in DOMAIN s.ir : s.ir[k].op = "spawn" => s.ir[k].grp = 1
        BY DEF MethodInv, OneGroup, Declared
      <3> QED  BY <2>1, <2>3, <3>1, Closing
    <2>8. OneGroup(Append(s.ir, Wait(1)))
      <3>1. OneGroup(s.ir)
        BY DEF MethodInv
      <3> QED  BY <2>2, <2>3, <3>1, StaysOneGroup
    <2> QED  BY <1>1, <2>4, <2>5, <2>6, <2>7, <2>8
  <1>2. CASE ~s.pending
    <2>1. t = s
      BY <1>2 DEF PendingWait
    <2> QED  BY <1>2, <2>1 DEF MethodInv
  <1> QED  BY <1>1, <1>2

\* The value of the last call, on an instance, carried past the Wait.
LEMMA MethodLast ==
  ASSUME BodyInv, lowering = "method", NEW n \in Nat, n + 1 = Len(body),
         NEW s, MethodInv(s, n), body[n + 1].kind = "inst"
  PROVE  MethodInv(LastInstance(s, n + 1), n + 1)
  <1> DEFINE i == n + 1
  <1>0. /\ i \in DOMAIN body /\ i \in Nat /\ body \in Seq(Element)
        /\ Len(body) \in Nat /\ DOMAIN body = 1 .. Len(body)
        /\ body[i].kind \in CallKinds /\ body[i].kind \notin {"bind", "lazy"}
    BY Bodies DEF CallKinds
  <1>1. HasBocCalls
    BY <1>0 DEF HasBocCalls
  <1>2. MethodGroup = 1 /\ 1 \in Indices \ {0}
    BY <1>1, TheGroup
  <1>3. /\ LoweredTo(s.ir, n) /\ OpenEnd(s.ir, n) /\ OneGroup(s.ir)
        /\ s.ir \in Seq(Statement)
        /\ s \in [ir : Seq(Statement), pending : BOOLEAN, waited : BOOLEAN]
        /\ \A k \in DOMAIN s.ir : s.ir[k].op # "returnvar"
    BY <1>0 DEF MethodInv
  <1>4. /\ Spawn(i, 0, 1) \in Statement /\ Spawn(i, i, 1) \in Statement
        /\ Spawn(i, i, 1).op = "spawn" /\ Spawn(i, i, 1).el = i /\ Spawn(i, i, 1).var = i
        /\ Spawn(i, 0, 1).op = "spawn"
    BY <1>0, <1>2, WorkStatements
  <1>5. CASE result # "unit" /\ IsScalar(i)
    <2> DEFINE a == <<Var(i)>> \o s.ir
               b == Append(a, Spawn(i, i, 1))
               c == Append(b, Wait(1))
               e == Append(c, ReturnVar(i))
    <2>1. /\ Var(i) \in Statement /\ Helper(Var(i)) /\ Var(i).op = "var"
          /\ Wait(1) \in Statement /\ Helper(Wait(1)) /\ Wait(1).op = "wait" /\ Wait(1).grp = 1
          /\ ReturnVar(i) \in Statement /\ Helper(ReturnVar(i))
          /\ ReturnVar(i).op = "returnvar" /\ ReturnVar(i).var = i
      BY <1>0, <1>2, HelperStatements
    <2>2. /\ a \in Seq(Statement) /\ Len(a) = Len(s.ir) + 1 /\ Len(s.ir) \in Nat
          /\ DOMAIN a = 1 .. Len(s.ir) + 1 /\ DOMAIN s.ir = 1 .. Len(s.ir)
          /\ a[1] = Var(i) /\ \A k \in DOMAIN s.ir : a[k + 1] = s.ir[k]
      <3> HIDE DEF Statement
      <3> QED  BY <1>3, <2>1
    <2>3. LoweredTo(a, n) /\ OpenEnd(a, n)
      <3>1. ASSUME NEW k \in DOMAIN s.ir
            PROVE  Alike(a[k + 1], s.ir[k]) /\ (Helper(a[k + 1]) \/ Translates(a[k + 1]))
        BY <1>3, <2>2 DEF Alike, LoweredTo, WellFormed
      <3> HIDE DEF a
      <3> QED  BY <1>0, <1>3, <2>1, <2>2, <3>1, Framed
    <2>4. OneGroup(a)
      <3>1. ASSUME NEW k \in DOMAIN a, a[k].op = "spawn"  PROVE a[k].grp = 1
        <4>1. k - 1 \in DOMAIN s.ir /\ a[k] = s.ir[k - 1]
          BY <2>1, <2>2, <3>1
        <4> QED  BY <1>3, <3>1, <4>1 DEF OneGroup, Declared
      <3>2. \E k \in DOMAIN a : a[k].op = "group" /\ a[k].grp = 1
        <4>1. PICK k \in DOMAIN s.ir : s.ir[k].op = "group" /\ s.ir[k].grp = 1
          BY <1>1, <1>3 DEF OneGroup, Declared
        <4>2. k + 1 \in DOMAIN a
          BY <2>2, <4>1
        <4> HIDE DEF a
        <4> QED  BY <2>2, <4>1, <4>2
      <3> QED  BY <3>1, <3>2 DEF OneGroup, Declared
    <2>5. b \in Seq(Statement) /\ LoweredTo(b, i) /\ OneGroup(b)
      <3> HIDE DEF a
      <3> QED  BY <1>0, <1>1, <1>2, <2>3, <2>4, MethodSpawned
    <2>6. c \in Seq(Statement) /\ LoweredTo(c, i) /\ OneGroup(c) /\ Closed(c)
      <3> HIDE DEF b
      <3>1. c \in Seq(Statement)
        BY <2>1, <2>5, Appended
      <3>2. OneGroup(c)
        BY <2>1, <2>5, StaysOneGroup
      <3>3. Closed(c)
        <4>1. \A k \in DOMAIN b : b[k].op = "spawn" => b[k].grp = 1
          BY <2>5 DEF OneGroup, Declared
        <4> QED  BY <1>2, <2>5, <4>1, Closing
      <3>4. LoweredTo(c, i)
        <4>1. ~Work(Wait(1))
          BY <2>1 DEF Helper
        <4>2. \E j \in DOMAIN b : b[j].op = "group" /\ b[j].grp = Wait(1).grp
          BY <1>1, <2>1, <2>5 DEF OneGroup, Declared
        <4> QED  BY <1>0, <2>1, <2>5, <4>1, <4>2, AppendKeeps
      <3> QED  BY <3>1, <3>2, <3>3, <3>4
    <2>7. e \in Seq(Statement) /\ LoweredTo(e, i) /\ OneGroup(e) /\ Closed(e)
      <3> HIDE DEF c
      <3>1. e \in Seq(Statement)
        BY <2>1, <2>6, Appended
      <3>2. OneGroup(e)
        BY <2>1, <2>6, StaysOneGroup
      <3>3. Closed(e)
        BY <2>1, <2>6, StaysClosed
      <3>4. ~Work(ReturnVar(i))
        BY <2>1 DEF Helper
      <3>5. LoweredTo(e, i)
        BY <1>0, <2>1, <2>6, <3>4, AppendKeeps
      <3> QED  BY <3>1, <3>2, <3>3, <3>5
    <2>8. LastInstance(s, i) = [ir |-> e, pending |-> FALSE, waited |-> TRUE]
      <3>1. a \o <<Spawn(i, i, 1), Wait(1), ReturnVar(i)>> = e
        <4> HIDE DEF a, Statement
        <4> QED  BY <1>4, <2>1, <2>2
      <3> QED  BY <1>2, <1>5, <3>1 DEF LastInstance
    <2>9. /\ Len(e) = Len(s.ir) + 4 /\ DOMAIN e = 1 .. Len(s.ir) + 4
          /\ e[Len(s.ir) + 2] = Spawn(i, i, 1) /\ e[Len(s.ir) + 3] = Wait(1)
          /\ e[Len(s.ir) + 4] = ReturnVar(i)
          /\ \A k \in 1 .. Len(s.ir) + 1 : e[k] = a[k]
      <3> HIDE DEF a, Statement
      <3> QED  BY <1>4, <2>1, <2>2
    <2>10. ASSUME NEW k \in DOMAIN e, e[k].op = "returnvar"
           PROVE  k = Len(e) /\ e[k].var = i
      <3>1. k # Len(s.ir) + 2 /\ k # Len(s.ir) + 3
        BY <1>4, <2>1, <2>9, <2>10
      <3>2. k \notin 1 .. Len(s.ir) + 1
        <4>1. ASSUME k \in 1 .. Len(s.ir) + 1  PROVE FALSE
          <5>1. k # 1
            BY <2>1, <2>2, <2>9, <2>10
          <5>2. k - 1 \in DOMAIN s.ir /\ e[k] = s.ir[k - 1]
            BY <2>2, <2>9, <4>1, <5>1
          <5> QED  BY <1>3, <2>10, <5>2
        <4> QED  BY <4>1
      <3>3. k = Len(s.ir) + 4
        BY <2>2, <2>9, <3>1, <3>2
      <3> QED  BY <2>1, <2>9, <3>3
    <2>11. \E j \in DOMAIN e : e[j].op = "spawn" /\ e[j].el = i /\ e[j].var = i
      <3>1. Len(s.ir) + 2 \in DOMAIN e
        BY <2>2, <2>9
      <3> QED  BY <1>4, <2>9, <3>1
    <2>12. e # <<>> /\ e[Len(e)].op = "returnvar"
      <3>1. Len(e) # 0 /\ e[Len(e)] = ReturnVar(i)
        BY <2>2, <2>9
      <3> QED  BY <2>1, <3>1
    <2> HIDE DEF e
    <2>13. CarriesOver(e, Len(e), i)
      <3>1. Len(e) \in DOMAIN e
        BY <2>2, <2>9
      <3> QED  BY <2>10, <2>11, <2>12, <3>1 DEF CarriesOver
    <2> DEFINE t == LastInstance(s, i)
    <2>14. t.ir = e /\ t.pending = FALSE /\ t \in [ir : Seq(Statement), pending : BOOLEAN, waited : BOOLEAN]
      <3>1. t = [ir |-> e, pending |-> FALSE, waited |-> TRUE]
        BY <2>8
      <3>2. e \in Seq(Statement)
        BY <2>7
      <3> HIDE DEF Statement, t
      <3> QED  BY <3>1, <3>2
    <2>15. OpenEnd(e, i)
      BY DEF OpenEnd
    <2>16. \A k \in DOMAIN e : e[k].op = "returnvar" => CarriesOver(e, k, i)
      BY <2>10, <2>13
    <2> HIDE DEF t, i
    <2>17. n + 1 = i
      BY DEF i
    <2> QED  BY <2>7, <2>12, <2>14, <2>15, <2>16, <2>17 DEF MethodInv, t
  <1>6. CASE ~(result # "unit" /\ IsScalar(i))
    <2> DEFINE e == Append(s.ir, Spawn(i, 0, 1))
               t == LastInstance(s, i)
    <2>1. t = [s EXCEPT !.ir = e, !.pending = TRUE]
      <3>1. s.ir \o <<Spawn(i, 0, 1)>> = e
        BY <1>3, <1>4, Concatenated
      <3> QED  BY <1>2, <1>6, <3>1 DEF LastInstance, Spawned
    <2>2. e \in Seq(Statement) /\ LoweredTo(e, i) /\ OpenEnd(e, i) /\ OneGroup(e)
      BY <1>0, <1>1, <1>2, <1>3, MethodSpawned
    <2>3. \A k \in DOMAIN e : e[k].op # "returnvar"
      <3>1. /\ DOMAIN e = 1 .. Len(s.ir) + 1 /\ Len(s.ir) \in Nat /\ DOMAIN s.ir = 1 .. Len(s.ir)
            /\ \A k \in 1 .. Len(s.ir) : e[k] = s.ir[k]
            /\ e[Len(s.ir) + 1] = Spawn(i, 0, 1)
        BY <1>3, <1>4, Appended
      <3> HIDE DEF e
      <3>2. ASSUME NEW k \in DOMAIN e  PROVE k = Len(s.ir) + 1 \/ (k \in DOMAIN s.ir /\ e[k] = s.ir[k])
        BY <3>1
      <3> QED  BY <1>3, <1>4, <3>1, <3>2
    <2>4. result # "unit" => result = "struct"
      BY <1>6, <1>0 DEF IsScalar
    <2> HIDE DEF e
    <2>5. t.ir = e /\ t.pending = TRUE /\ t \in [ir : Seq(Statement), pending : BOOLEAN, waited : BOOLEAN]
      <3> HIDE DEF Statement
      <3> QED  BY <1>3, <2>1, <2>2
    <2>6. body[i].kind = "inst"
      OBVIOUS
    <2> HIDE DEF t, i
    <2>7. n + 1 = i
      BY DEF i
    <2> QED  BY <1>1, <2>2, <2>3, <2>4, <2>5, <2>6, <2>7 DEF MethodInv, t
  <1> QED  BY <1>5, <1>6

\* A statement put after a pending Wait.
LEMMA MethodPuts ==
  ASSUME BodyInv, lowering = "method", NEW n \in Nat, n + 1 \in DOMAIN body,
         NEW s, MethodInv(s, n), NEW st \in Statement, Translates(st), st.el = n + 1,
         st.op \notin {"spawn", "wait", "returnvar"},
         body[n + 1].kind \in {"unit", "inst", "do", "ifval"} /\ n + 1 = Len(body)
           /\ result # "unit" => st = Return(n + 1)
  PROVE  MethodInv(Put(PendingWait(s), <<st>>), n + 1)
  <1> DEFINE p == PendingWait(s)
             t == Put(p, <<st>>)
             r == Append(p.ir, st)
  <1>1. /\ p \in [ir : Seq(Statement), pending : BOOLEAN, waited : BOOLEAN]
        /\ LoweredTo(p.ir, n) /\ Closed(p.ir) /\ OneGroup(p.ir) /\ ~p.pending
        /\ IF s.pending THEN p.ir = Append(s.ir, Wait(1)) ELSE p = s
    BY MethodWaits
  <1>2. p.ir \in Seq(Statement) /\ s.ir \in Seq(Statement)
    <2> HIDE DEF Statement, p
    <2> QED  BY <1>1 DEF MethodInv
  <1>3. /\ r \in Seq(Statement) /\ LoweredTo(r, n + 1) /\ OpenEnd(r, n + 1)
        /\ OneGroup(r) /\ Closed(r)
    <2> HIDE DEF p
    <2> QED  BY <1>1, MethodPut
  <1>4. /\ t \in [ir : Seq(Statement), pending : BOOLEAN, waited : BOOLEAN]
        /\ t.ir = r /\ ~t.pending
    <2>1. p.ir \o <<st>> = r
      BY <1>2, Concatenated
    <2>2. r \in Seq(Statement)
      BY <1>3
    <2> HIDE DEF p, r, Statement
    <2> QED  BY <1>1, <2>1, <2>2 DEF Put
  <1>5. /\ Len(r) = Len(p.ir) + 1 /\ Len(p.ir) \in Nat
        /\ DOMAIN p.ir = 1 .. Len(p.ir) /\ DOMAIN r = 1 .. Len(p.ir) + 1
        /\ \A k \in 1 .. Len(p.ir) : r[k] = p.ir[k]
        /\ r[Len(p.ir) + 1] = st
    BY <1>2, Appended
  <1>6. \A k \in DOMAIN s.ir : s.ir[k].op # "returnvar"
    <2>1. n # Len(body)
      BY Bodies
    <2> QED  BY <2>1 DEF MethodInv
  <1>7. \A k \in DOMAIN p.ir : p.ir[k].op # "returnvar"
    <2>1. CASE s.pending
      <3>1. HasBocCalls /\ 1 \in Indices \ {0}
        BY <2>1, TheGroup DEF MethodInv
      <3>2. Wait(1) \in Statement /\ Wait(1).op = "wait"
        BY <3>1, HelperStatements
      <3>3. /\ DOMAIN Append(s.ir, Wait(1)) = 1 .. Len(s.ir) + 1 /\ Len(s.ir) \in Nat
            /\ DOMAIN s.ir = 1 .. Len(s.ir)
            /\ \A k \in 1 .. Len(s.ir) : Append(s.ir, Wait(1))[k] = s.ir[k]
            /\ Append(s.ir, Wait(1))[Len(s.ir) + 1] = Wait(1)
        BY <1>2, <3>2, Appended
      <3>4. p.ir = Append(s.ir, Wait(1))
        BY <1>1, <2>1
      <3> HIDE DEF p
      <3>5. ASSUME NEW k \in DOMAIN p.ir
            PROVE  k = Len(s.ir) + 1 \/ (k \in DOMAIN s.ir /\ p.ir[k] = s.ir[k])
        BY <3>3, <3>4
      <3> QED  BY <1>6, <3>2, <3>3, <3>4, <3>5
    <2>2. CASE ~s.pending
      BY <1>1, <1>6, <2>2
    <2> QED  BY <2>1, <2>2
  <1> HIDE DEF p, r
  <1>8. \A k \in DOMAIN r : r[k].op # "returnvar"
    <2>1. ASSUME NEW k \in DOMAIN r  PROVE k = Len(p.ir) + 1 \/ (k \in DOMAIN p.ir /\ r[k] = p.ir[k])
      BY <1>5
    <2> QED  BY <1>5, <1>7, <2>1
  <1>9. r # <<>> /\ r[Len(r)] = st
    BY <1>5
  <1> HIDE DEF t
  <1>10. body[n + 1].kind \in {"unit", "inst", "do", "ifval"} /\ n + 1 = Len(body)
           /\ result # "unit" => r[Len(r)] = Return(n + 1)
    BY <1>9
  <1> QED  BY <1>3, <1>4, <1>8, <1>9, <1>10 DEF MethodInv, t, p

\* A call that is followed by other elements, or whose result is bound.
LEMMA MethodCalls ==
  ASSUME BodyInv, lowering = "method", NEW n \in Nat, n + 1 \in DOMAIN body,
         NEW s, MethodInv(s, n), HasBocCalls, body[n + 1].kind \in CallKinds
  PROVE  /\ body[n + 1].kind \in {"bind", "lazy"} =>
              MethodInv(Spawned(s, <<Var(n + 1), Spawn(n + 1, n + 1, MethodGroup)>>), n + 1)
         /\ body[n + 1].kind \in {"unit", "inst"} /\ ~IsLast(n + 1) =>
              MethodInv(Spawned(s, <<Spawn(n + 1, 0, MethodGroup)>>), n + 1)
  <1> DEFINE i == n + 1
  <1>0. /\ i \in Nat /\ body \in Seq(Element) /\ Len(body) \in Nat /\ DOMAIN body = 1 .. Len(body)
    BY Bodies
  <1>1. MethodGroup = 1 /\ 1 \in Indices \ {0}
    BY TheGroup
  <1>2. /\ LoweredTo(s.ir, n) /\ OpenEnd(s.ir, n) /\ OneGroup(s.ir)
        /\ s.ir \in Seq(Statement)
        /\ s \in [ir : Seq(Statement), pending : BOOLEAN, waited : BOOLEAN]
        /\ \A k \in DOMAIN s.ir : s.ir[k].op # "returnvar"
    <2>1. s.ir \in Seq(Statement)
      <3> HIDE DEF Statement
      <3> QED  BY DEF MethodInv
    <2>2. n # Len(body)
      <3>1. n + 1 \in 1 .. Len(body) /\ Len(body) \in Nat
        BY ONLY <1>0, n + 1 \in DOMAIN body
      <3> QED  BY ONLY <3>1, n \in Nat
    <2> QED  BY <2>1, <2>2 DEF MethodInv
  <1>3. ASSUME NEW ir \in Seq(Statement), LoweredTo(ir, n), OpenEnd(ir, n), OneGroup(ir),
               \A k \in DOMAIN ir : ir[k].op # "returnvar",
               NEW v \in {0, i}, body[i].kind \in {"bind", "lazy"} => v = i,
               NEW t, t = [s EXCEPT !.ir = Append(ir, Spawn(i, v, MethodGroup)), !.pending = TRUE],
               body[i].kind \in {"bind", "lazy"} \/ i # Len(body)
        PROVE  MethodInv(t, i)
    <2> DEFINE e == Append(ir, Spawn(i, v, MethodGroup))
    <2>1. e \in Seq(Statement) /\ LoweredTo(e, i) /\ OpenEnd(e, i) /\ OneGroup(e)
      BY <1>3, MethodSpawned
    <2>2. Spawn(i, v, 1) \in Statement /\ Spawn(i, v, 1).op = "spawn"
      BY <1>1, <1>3, WorkStatements
    <2>3. \A k \in DOMAIN e : e[k].op # "returnvar"
      <3>1. /\ DOMAIN e = 1 .. Len(ir) + 1 /\ Len(ir) \in Nat /\ DOMAIN ir = 1 .. Len(ir)
            /\ \A k \in 1 .. Len(ir) : e[k] = ir[k]
            /\ e[Len(ir) + 1] = Spawn(i, v, 1)
        BY <1>1, <1>3, <2>2, Appended
      <3> HIDE DEF e
      <3>2. ASSUME NEW k \in DOMAIN e  PROVE k = Len(ir) + 1 \/ (k \in DOMAIN ir /\ e[k] = ir[k])
        BY <3>1
      <3> QED  BY <1>3, <2>2, <3>1, <3>2
    <2> HIDE DEF e
    <2>4. /\ t \in [ir : Seq(Statement), pending : BOOLEAN, waited : BOOLEAN]
          /\ t.ir = e /\ t.pending = TRUE
      <3> HIDE DEF Statement
      <3> QED  BY <1>2, <1>3, <2>1 DEF e
    <2>5. ~(i = Len(body) /\ body[i].kind \in {"unit", "inst", "do", "ifval"})
      BY <1>3
    <2> HIDE DEF i
    <2> QED  BY <2>1, <2>3, <2>4, <2>5 DEF MethodInv
  <1>4. ASSUME body[i].kind \in {"bind", "lazy"}
        PROVE  MethodInv(Spawned(s, <<Var(i), Spawn(i, i, MethodGroup)>>), i)
    <2> DEFINE a == Append(s.ir, Var(i))
    <2>1. Var(i) \in Statement /\ Helper(Var(i)) /\ Var(i).op = "var"
      BY <1>0, <1>1, HelperStatements
    <2>2. Spawn(i, i, 1) \in Statement
      BY <1>1, WorkStatements
    <2>3. /\ a \in Seq(Statement) /\ Len(a) = Len(s.ir) + 1 /\ Len(s.ir) \in Nat
          /\ DOMAIN a = 1 .. Len(s.ir) + 1 /\ DOMAIN s.ir = 1 .. Len(s.ir)
          /\ \A k \in 1 .. Len(s.ir) : a[k] = s.ir[k]
          /\ a[Len(s.ir) + 1] = Var(i)
      BY <1>2, <2>1, Appended
    <2>4. LoweredTo(a, n)
      <3>1. ~Work(Var(i))
        BY <2>1 DEF Helper
      <3> QED  BY <1>0, <1>2, <2>1, <3>1, AppendKeeps
    <2>5. OneGroup(a)
      BY <1>2, <2>1, StaysOneGroup
    <2>6. s.ir \o <<Var(i), Spawn(i, i, 1)>> = Append(a, Spawn(i, i, 1))
      BY <1>2, <2>1, <2>2, Concatenated
    <2> HIDE DEF a
    <2>7. ASSUME NEW k \in DOMAIN a  PROVE k = Len(s.ir) + 1 \/ (k \in DOMAIN s.ir /\ a[k] = s.ir[k])
      BY <2>3
    <2>8. OpenEnd(a, n)
      <3>1. ASSUME NEW j \in DOMAIN a, a[j].op = "spawn", a[j].el = n, NEW w \in j .. Len(a),
                   n < Len(body)
            PROVE  a[w].op # "wait"
        <4>1. j \in DOMAIN s.ir /\ a[j] = s.ir[j]
          BY <2>1, <2>3, <2>7, <3>1
        <4>2. w = Len(s.ir) + 1 \/ (w \in j .. Len(s.ir) /\ a[w] = s.ir[w])
          BY <2>3, <4>1
        <4> QED  BY <1>2, <2>1, <2>3, <3>1, <4>1, <4>2 DEF OpenEnd
      <3> QED  BY <3>1 DEF OpenEnd
    <2>9. \A k \in DOMAIN a : a[k].op # "returnvar"
      BY <1>2, <2>1, <2>3, <2>7
    <2>10. Spawned(s, <<Var(i), Spawn(i, i, MethodGroup)>>) =
             [s EXCEPT !.ir = Append(a, Spawn(i, i, MethodGroup)), !.pending = TRUE]
      BY <1>1, <2>6 DEF Spawned
    <2> QED  BY <1>3, <1>4, <2>3, <2>4, <2>5, <2>8, <2>9, <2>10
  <1>5. ASSUME body[i].kind \in {"unit", "inst"}, ~IsLast(i)
        PROVE  MethodInv(Spawned(s, <<Spawn(i, 0, MethodGroup)>>), i)
    <2>1. Spawn(i, 0, 1) \in Statement
      BY <1>1, <1>5, WorkStatements
    <2>2. s.ir \o <<Spawn(i, 0, 1)>> = Append(s.ir, Spawn(i, 0, 1))
      BY <1>2, <2>1, Concatenated
    <2>3. Spawned(s, <<Spawn(i, 0, MethodGroup)>>) =
            [s EXCEPT !.ir = Append(s.ir, Spawn(i, 0, MethodGroup)), !.pending = TRUE]
      BY <1>1, <2>2 DEF Spawned
    <2>4. i # Len(body) /\ body[i].kind \notin {"bind", "lazy"}
      BY <1>5 DEF IsLast
    <2> QED  BY <1>2, <1>3, <2>3, <2>4
  <1> QED  BY <1>4, <1>5

LEMMA MethodStep ==
  ASSUME BodyInv, lowering = "method", NEW n \in Nat, n + 1 \in DOMAIN body,
         NEW s, MethodInv(s, n)
  PROVE  MethodInv(MethodElement(s, n + 1), n + 1)
  <1> DEFINE i == n + 1
             kind == body[i].kind
  <1>1. kind \in CallKinds \cup DeclKinds \cup BranchKinds \cup {"assign", "do"}
    BY Bodies
  <1>2. CASE kind \in {"bind", "lazy"}
    <2>1. HasBocCalls /\ kind \in CallKinds
      BY <1>2 DEF HasBocCalls, CallKinds
    <2>2. MethodElement(s, i) = Spawned(s, <<Var(i), Spawn(i, i, MethodGroup)>>)
      BY <1>2 DEF MethodElement, BranchKinds
    <2> QED  BY <1>2, <2>1, <2>2, MethodCalls
  <1>3. CASE kind \in {"unit", "inst"} /\ ~IsLast(i)
    <2>1. HasBocCalls /\ kind \in CallKinds
      BY <1>3 DEF HasBocCalls, CallKinds
    <2>2. MethodElement(s, i) = Spawned(s, <<Spawn(i, 0, MethodGroup)>>)
      BY <1>3 DEF MethodElement, BranchKinds
    <2> QED  BY <1>3, <2>1, <2>2, MethodCalls
  <1>4. CASE kind = "inst" /\ IsLast(i)
    <2>1. MethodElement(s, i) = LastInstance(s, i)
      BY <1>4 DEF MethodElement, BranchKinds
    <2> QED  BY <1>4, <2>1, MethodLast DEF IsLast
  <1>5. CASE kind = "local"
    <2>1. MethodElement(s, i) = Put(PendingWait(s), <<Decl(i)>>)
      BY <1>5 DEF MethodElement, BranchKinds
    <2>2. Decl(i) \in Statement /\ Translates(Decl(i)) /\ Decl(i).el = i /\ Decl(i).op = "decl"
      BY <1>5, WorkStatements DEF DeclKinds
    <2> QED  BY <1>5, <2>1, <2>2, MethodPuts
  <1>6. CASE kind = "typed"
    <2>1. MethodElement(s, i) = Put(PendingWait(s), <<Bare(i)>>)
      BY <1>6 DEF MethodElement, BranchKinds
    <2>2. Bare(i) \in Statement /\ Translates(Bare(i)) /\ Bare(i).el = i /\ Bare(i).op = "bare"
      BY <1>6, WorkStatements
    <2> QED  BY <1>6, <2>1, <2>2, MethodPuts
  <1>7. CASE kind = "assign"
    <2>1. MethodElement(s, i) = Put(PendingWait(s), <<Assign(i)>>)
      BY <1>7 DEF MethodElement, BranchKinds
    <2>2. /\ Assign(i) \in Statement /\ Translates(Assign(i)) /\ Assign(i).el = i
          /\ Assign(i).op = "assign"
      BY <1>7, WorkStatements
    <2> QED  BY <1>7, <2>1, <2>2, MethodPuts
  <1>8. CASE kind \in BranchKinds /\ (IsLast(i) => result = "unit")
    <2> DEFINE st == If(i, MethodGroup)
    <2>1. MethodElement(s, i) = Put(PendingWait(s), <<st>>)
      BY <1>8 DEF MethodElement, BranchKinds
    <2>2. st \in Statement /\ Translates(st) /\ st.el = i /\ st.op = "if"
      BY <1>8, WorkStatements
    <2>3. ~(n + 1 = Len(body) /\ result # "unit")
      BY <1>8 DEF IsLast
    <2> HIDE DEF st
    <2> QED  BY <2>1, <2>2, <2>3, MethodPuts
  <1>9. CASE kind = "do" /\ ~IsLast(i)
    <2>1. MethodElement(s, i) = Put(PendingWait(s), <<Expr(i)>>)
      BY <1>9 DEF MethodElement, BranchKinds
    <2>2. Expr(i) \in Statement /\ Translates(Expr(i)) /\ Expr(i).el = i /\ Expr(i).op = "do"
      BY <1>9, WorkStatements
    <2>3. n + 1 # Len(body)
      BY <1>9 DEF IsLast
    <2> QED  BY <2>1, <2>2, <2>3, MethodPuts
  <1>10. CASE IsLast(i) /\ (kind \in {"unit", "do"} \/ (kind \in BranchKinds /\ result # "unit"))
    <2>1. MethodElement(s, i) = Put(PendingWait(s), <<Return(i)>>)
      BY <1>10 DEF MethodElement, BranchKinds
    <2>2. kind \notin Binders \cup {"assign"}
      BY <1>10 DEF Binders, DeclKinds, BranchKinds
    <2>3. /\ Return(i) \in Statement /\ Translates(Return(i)) /\ Return(i).el = i
          /\ Return(i).op = "return"
      BY <1>10, <2>2, WorkStatements
    <2> QED  BY <2>1, <2>3, MethodPuts
  <1> QED
    BY <1>1, <1>2, <1>3, <1>4, <1>5, <1>6, <1>7, <1>8, <1>9, <1>10 DEF CallKinds, DeclKinds

LEMMA EveryMethodState ==
  ASSUME BodyInv, lowering = "method"
  PROVE  MethodInv(methodState[Len(body)], Len(body))
  <1> DEFINE N == Len(body)
             S == {k \in 0 .. N : MethodInv(methodState[k], k)}
  <1>1. N \in Nat /\ DOMAIN body = 1 .. N
    BY Bodies
  <1>2. methodState = [i \in 0 .. N |->
           IF i = 0 THEN [ir |-> IF HasBocCalls THEN <<Group(1)>> ELSE <<>>,
                          pending |-> FALSE, waited |-> FALSE]
           ELSE MethodElement(methodState[i - 1], i)]
    BY <1>1, MethodStates
  <1>3. MethodInv(methodState[0], 0)
    <2> DEFINE ir == IF HasBocCalls THEN <<Group(1)>> ELSE <<>>
               s == [ir |-> ir, pending |-> FALSE, waited |-> FALSE]
    <2>1. methodState[0] = s
      BY <1>1, <1>2
    <2>2. /\ ir \in Seq(Statement) /\ DOMAIN ir \subseteq {1}
          /\ \A k \in DOMAIN ir : Helper(ir[k]) /\ ir[k].op = "group" /\ ir[k].grp = 1
          /\ HasBocCalls => 1 \in DOMAIN ir
      <3>1. CASE HasBocCalls
        <4>1. Group(1) \in Statement /\ Helper(Group(1)) /\ Group(1).op = "group" /\ Group(1).grp = 1
          BY <3>1, TheGroup, HelperStatements
        <4> HIDE DEF Statement
        <4> QED  BY <3>1, <4>1
      <3>2. CASE ~HasBocCalls
        <4> HIDE DEF Statement
        <4> QED  BY <3>2
      <3> QED  BY <3>1, <3>2
    <2> HIDE DEF ir
    <2>3. LoweredTo(ir, 0)
      <3>1. \A k \in DOMAIN ir : ~Work(ir[k])
        BY <2>2 DEF Helper
      <3>2. WellFormed(ir, 0)
        BY <2>2 DEF WellFormed
      <3>3. InOrder(ir) /\ Barriers(ir) /\ Together(ir) /\ Grouped(ir) /\ OneWait(ir)
        BY <2>2, <3>1 DEF InOrder, Barriers, Together, Grouped, OneWait, IsWait
      <3> QED  BY <3>2, <3>3 DEF LoweredTo
    <2>4. OpenEnd(ir, 0) /\ Closed(ir) /\ OneGroup(ir)
      BY <2>2 DEF OpenEnd, Closed, OneGroup, Declared
    <2>5. \A k \in DOMAIN ir : ir[k].op # "returnvar"
      BY <2>2
    <2>6. /\ s \in [ir : Seq(Statement), pending : BOOLEAN, waited : BOOLEAN]
          /\ s.ir = ir /\ s.pending = FALSE
      <3> HIDE DEF Statement
      <3> QED  BY <2>2
    <2> HIDE DEF s
    <2> QED  BY <2>1, <2>3, <2>4, <2>5, <2>6 DEF MethodInv
  <1>4. ASSUME NEW k \in 0 .. N, k < N, k \in S  PROVE k + 1 \in S
    <2>1. k \in Nat /\ k + 1 \in DOMAIN body /\ k + 1 \in 0 .. N /\ MethodInv(methodState[k], k)
      BY <1>1, <1>4
    <2>2. methodState[k + 1] = MethodElement(methodState[k], k + 1)
      <3>1. k + 1 # 0 /\ (k + 1) - 1 = k
        BY <2>1
      <3> HIDE DEF N
      <3> QED  BY <1>2, <2>1, <3>1
    <2>3. MethodInv(methodState[k + 1], k + 1)
      BY <2>1, <2>2, MethodStep
    <2> QED  BY <2>1, <2>3
  <1>5. 0 \in S
    BY <1>1, <1>3
  <1> HIDE DEF S, N
  <1>6. \A k \in 0 .. N : k \in S
    BY <1>1, <1>4, <1>5, EveryUpTo
  <1>7. N \in S
    BY <1>1, <1>6
  <1> QED  BY <1>7 DEF S, N

LEMMA Ended ==
  ASSUME BodyInv, NEW n \in Nat, NEW ir, LoweredTo(ir, n), Closed(ir),
         \A k \in DOMAIN ir : ir[k].op # "returnvar"
  PROVE  LET r == Append(ir, ReturnUnit) IN
         LoweredTo(r, n) /\ Closed(r) /\ Ending(r) /\ r # <<>> /\ r[Len(r)].op = "return"
  <1> DEFINE r == Append(ir, ReturnUnit)
  <1>1. body \in Seq(Element)
    BY Bodies
  <1>2. ir \in Seq(Statement)
    BY <1>1, CallsAre
  <1>3. ReturnUnit \in Statement /\ Helper(ReturnUnit) /\ ReturnUnit.op = "return"
    <2>1. ReturnUnit.op = "return" /\ ReturnUnit.el = 0
      BY DEF ReturnUnit, Return, Stmt
    <2>2. Helper(ReturnUnit)
      BY <2>1 DEF Helper, Work
    <2>3. ReturnUnit \in Statement
      <3> HIDE DEF Statement
      <3> QED  BY IsStatement DEF Ops, ReturnUnit, Return, Stmt
    <2> QED  BY <2>1, <2>2, <2>3
  <1>4. /\ r \in Seq(Statement) /\ Len(r) = Len(ir) + 1 /\ Len(ir) \in Nat
        /\ DOMAIN ir = 1 .. Len(ir) /\ DOMAIN r = 1 .. Len(ir) + 1
        /\ \A k \in 1 .. Len(ir) : r[k] = ir[k] /\ ir[k] \in Statement
        /\ r[Len(ir) + 1] = ReturnUnit
    BY <1>2, <1>3, Appended
  <1>5. LoweredTo(r, n)
    <2>1. ~Work(ReturnUnit)
      BY <1>3 DEF Helper
    <2> QED  BY <1>1, <1>3, <2>1, AppendKeeps
  <1>6. Closed(r)
    BY <1>2, <1>3, StaysClosed
  <1> HIDE DEF r
  <1>7. \A k \in DOMAIN r : r[k].op # "returnvar"
    <2>1. ASSUME NEW k \in DOMAIN r  PROVE k = Len(ir) + 1 \/ (k \in DOMAIN ir /\ r[k] = ir[k])
      BY <1>4
    <2> QED  BY <1>3, <1>4, <2>1
  <1>8. r # <<>> /\ r[Len(r)].op = "return"
    BY <1>3, <1>4
  <1> QED  BY <1>5, <1>6, <1>7, <1>8 DEF Ending, r

LEMMA MethodShape ==
  ASSUME BodyInv, lowering = "method"
  PROVE  Shape(MethodBody)
  <1> DEFINE N == Len(body)
             q == methodState[N]
             p == PendingWait(q)
             e == IF HasBocCalls /\ ~p.waited /\ ~EndsInReturn(p.ir)
                  THEN Append(p.ir, Wait(1)) ELSE p.ir
             r == IF EndsInReturn(e) THEN e ELSE Append(e, ReturnUnit)
  <1>1. N \in Nat /\ DOMAIN body = 1 .. N /\ body \in Seq(Element)
    BY Bodies
  <1>2. MethodInv(q, N)
    BY EveryMethodState
  <1> HIDE DEF q
  <1>3. /\ LoweredTo(p.ir, N) /\ Closed(p.ir) /\ OneGroup(p.ir)
        /\ IF q.pending THEN p.ir = Append(q.ir, Wait(1)) /\ p.waited ELSE p = q
    BY <1>1, <1>2, MethodWaits
  <1> HIDE DEF p
  <1>4. p.ir \in Seq(Statement) /\ q.ir \in Seq(Statement)
    <2>1. p.ir \in Seq(Statement)
      BY <1>1, <1>3, CallsAre
    <2>2. q.ir \in Seq(Statement)
      <3> HIDE DEF Statement
      <3> QED  BY <1>2 DEF MethodInv
    <2> QED  BY <2>1, <2>2
  <1>5. HasBocCalls => /\ Wait(1) \in Statement /\ Helper(Wait(1))
                       /\ Wait(1).op = "wait" /\ Wait(1).grp = 1
    BY TheGroup, HelperStatements
  <1>6. \A k \in DOMAIN p.ir : p.ir[k].op = "returnvar" => ~q.pending /\ CarriesOver(p.ir, k, N)
    <2>1. CASE q.pending
      <3>1. /\ DOMAIN Append(q.ir, Wait(1)) = 1 .. Len(q.ir) + 1 /\ Len(q.ir) \in Nat
            /\ DOMAIN q.ir = 1 .. Len(q.ir)
            /\ \A k \in 1 .. Len(q.ir) : Append(q.ir, Wait(1))[k] = q.ir[k]
            /\ Append(q.ir, Wait(1))[Len(q.ir) + 1] = Wait(1)
        BY <1>2, <1>4, <1>5, <2>1, Appended DEF MethodInv
      <3>2. p.ir = Append(q.ir, Wait(1)) /\ Wait(1).op = "wait"
        BY <1>2, <1>3, <1>5, <2>1 DEF MethodInv
      <3>3. \A k \in DOMAIN q.ir : q.ir[k].op # "returnvar"
        BY <1>2, <2>1 DEF MethodInv
      <3>4. ASSUME NEW k \in DOMAIN p.ir
            PROVE  k = Len(q.ir) + 1 \/ (k \in DOMAIN q.ir /\ p.ir[k] = q.ir[k])
        BY <3>1, <3>2
      <3> QED  BY <3>1, <3>2, <3>3, <3>4
    <2>2. CASE ~q.pending
      BY <1>2, <1>3, <2>2 DEF MethodInv
    <2> QED  BY <2>1, <2>2
  <1>7. Ending(p.ir)
    BY <1>6 DEF Ending, CarriesOver
  <1>8. ~EndsInReturn(p.ir) => \A k \in DOMAIN p.ir : p.ir[k].op # "returnvar"
    <2> SUFFICES ASSUME NEW k \in DOMAIN p.ir, p.ir[k].op = "returnvar"
                 PROVE  EndsInReturn(p.ir)
      OBVIOUS
    <2>1. k = Len(p.ir)
      BY <1>6 DEF CarriesOver
    <2>2. p.ir # <<>>
      OBVIOUS
    <2> QED  BY <2>1, <2>2 DEF EndsInReturn, Last
  <1>9. /\ LoweredTo(e, N) /\ Closed(e) /\ Ending(e)
        /\ ~EndsInReturn(e) => \A k \in DOMAIN e : e[k].op # "returnvar"
    <2>1. CASE HasBocCalls /\ ~p.waited /\ ~EndsInReturn(p.ir)
      <3>1. e = Append(p.ir, Wait(1))
        BY <2>1
      <3>2. LoweredTo(Append(p.ir, Wait(1)), N)
        <4>1. ~Work(Wait(1))
          BY <1>5, <2>1 DEF Helper
        <4>2. \E j \in DOMAIN p.ir : p.ir[j].op = "group" /\ p.ir[j].grp = Wait(1).grp
          BY <1>3, <1>5, <2>1 DEF OneGroup, Declared
        <4> QED  BY <1>1, <1>3, <1>5, <2>1, <4>1, <4>2, AppendKeeps
      <3>3. Closed(Append(p.ir, Wait(1)))
        BY <1>3, <1>4, <1>5, <2>1, StaysClosed
      <3>4. \A k \in DOMAIN e : e[k].op # "returnvar"
        <4>1. /\ DOMAIN e = 1 .. Len(p.ir) + 1 /\ Len(p.ir) \in Nat
              /\ DOMAIN p.ir = 1 .. Len(p.ir)
              /\ \A k \in 1 .. Len(p.ir) : e[k] = p.ir[k]
              /\ e[Len(p.ir) + 1] = Wait(1)
          BY <1>4, <1>5, <2>1, <3>1, Appended
        <4>2. ASSUME NEW k \in DOMAIN e
              PROVE  k = Len(p.ir) + 1 \/ (k \in DOMAIN p.ir /\ e[k] = p.ir[k])
          <5> HIDE DEF e
          <5> QED  BY <4>1
        <4> HIDE DEF e
        <4> QED  BY <1>5, <1>8, <2>1, <4>1, <4>2
      <3> QED  BY <3>1, <3>2, <3>3, <3>4 DEF Ending
    <2>2. CASE ~(HasBocCalls /\ ~p.waited /\ ~EndsInReturn(p.ir))
      <3>1. e = p.ir
        BY <2>2
      <3> QED  BY <1>3, <1>7, <1>8, <3>1
    <2> QED  BY <2>1, <2>2
  <1>10. /\ LoweredTo(r, N) /\ Closed(r) /\ Ending(r)
         /\ r # <<>> /\ r[Len(r)].op \in {"return", "returnvar"}
    <2>1. CASE EndsInReturn(e)
      <3>1. r = e
        BY <2>1
      <3>2. e # <<>> /\ e[Len(e)].op \in {"return", "returnvar"}
        BY <2>1 DEF EndsInReturn, Last
      <3> HIDE DEF e, r
      <3> QED  BY <1>9, <3>1, <3>2
    <2>2. CASE ~EndsInReturn(e)
      <3>1. r = Append(e, ReturnUnit)
        BY <2>2
      <3> HIDE DEF e, r
      <3> QED  BY <1>1, <1>9, <2>2, <3>1, Ended
    <2> QED  BY <2>1, <2>2
  <1>11. ASSUME ResultsKept, WellTyped, result # "unit"
         PROVE  \/ r[Len(r)].op = "return" /\ r[Len(r)].el = N
                \/ r[Len(r)].op = "returnvar" /\ r[Len(r)].var = N
    <2>1. N > 0 /\ N \in DOMAIN body
      BY <1>1, <1>11 DEF WellTyped
    <2>2. body[N].kind \in {"unit", "inst", "do", "ifval"}
      BY <1>11 DEF WellTyped, Last
    <2>3. result = "struct" => body[N].kind # "inst"
      <3>1. body[N].kind \in Kinds["method"]
        <4>1. body[N] \in Element
          <5> HIDE DEF N
          <5> QED  BY <1>1, <2>1
        <4> QED  BY <4>1 DEF Element
      <3>2. "method" \in Lowerings /\ result \in Results
        BY DEF BodyInv
      <3> QED  BY <1>11, <3>1, <3>2 DEF ResultsKept
    <2>4. /\ q.ir # <<>> /\ ~q.pending
          /\ q.ir[Len(q.ir)] = Return(N) \/ q.ir[Len(q.ir)].op = "returnvar"
      BY <1>2, <1>11, <2>1, <2>2, <2>3 DEF MethodInv
    <2>5. p.ir = q.ir
      BY <1>3, <2>4
    <2>6. EndsInReturn(p.ir)
      BY <2>4, <2>5 DEF EndsInReturn, Last, Return, Stmt
    <2>7. r = p.ir
      BY <2>6
    <2>8. Return(N).op = "return" /\ Return(N).el = N
      BY DEF Return, Stmt
    <2>9. p.ir[Len(p.ir)].op = "returnvar" => p.ir[Len(p.ir)].var = N
      <3>1. Len(p.ir) \in DOMAIN p.ir
        <4> HIDE DEF Statement
        <4> QED  BY <1>4, <2>4, <2>5
      <3> QED  BY <1>6, <3>1 DEF CarriesOver
    <2> HIDE DEF r, e
    <2> QED  BY <2>4, <2>5, <2>7, <2>8, <2>9
  <1>12. MethodBody = r
    BY DEF MethodBody, p, q
  <1> HIDE DEF r
  <1> QED  BY <1>10, <1>11, <1>12 DEF Shape, Ending

-----------------------------------------------------------------------------
(* The body of a singleton.                                                 *)

\* Declarations keep a body ready.
LEMMA ReadyPut ==
  ASSUME BodyInv, NEW n \in Nat, NEW g \in Nat, NEW batch, NEW ir, Ready(ir, n, g, batch),
         OpenEnd(ir, n) \/ ReadsCall(n + 1),
         NEW st \in Statement, Helper(st), st.op \in {"group", "var"}, st.grp <= g
  PROVE  LET r == Append(ir, st) IN
         /\ r \in Seq(Statement) /\ Ready(r, n, g, batch)
         /\ OpenEnd(r, n) \/ ReadsCall(n + 1)
         /\ \A k \in DOMAIN ir : k \in DOMAIN r /\ r[k] = ir[k]
         /\ Len(r) \in DOMAIN r /\ r[Len(r)] = st
  <1> DEFINE r == Append(ir, st)
  <1>1. body \in Seq(Element) /\ LoweredTo(ir, n)
    BY Bodies DEF Ready
  <1>2. ir \in Seq(Statement)
    BY <1>1, CallsAre
  <1>3. /\ r \in Seq(Statement) /\ Len(r) = Len(ir) + 1 /\ Len(ir) \in Nat
        /\ DOMAIN ir = 1 .. Len(ir) /\ DOMAIN r = 1 .. Len(ir) + 1
        /\ \A k \in 1 .. Len(ir) : r[k] = ir[k] /\ ir[k] \in Statement
        /\ r[Len(ir) + 1] = st
    BY <1>2, Appended
  <1>4. \A j \in DOMAIN ir : Waited(ir, j, Len(ir) + 1) => Waited(r, j, Len(r) + 1)
    BY <1>2, StaysWaited
  <1>5. LoweredTo(r, n)
    <2>1. ~Work(st)
      BY DEF Helper
    <2> QED  BY <1>1, <2>1, AppendKeeps
  <1> HIDE DEF r
  <1>6. ASSUME NEW k \in DOMAIN r  PROVE k = Len(ir) + 1 \/ (k \in DOMAIN ir /\ r[k] = ir[k])
    BY <1>3
  <1>7. \A k \in DOMAIN r : r[k].grp <= g /\ ~IsWait(r, k, g)
    <2>1. ASSUME NEW k \in DOMAIN r, k = Len(ir) + 1  PROVE r[k].grp <= g /\ ~IsWait(r, k, g)
      BY <1>3, <2>1 DEF IsWait
    <2>2. ASSUME NEW k \in DOMAIN ir, r[k] = ir[k]  PROVE r[k].grp <= g /\ ~IsWait(r, k, g)
      BY <2>2 DEF IsWait, Ready
    <2> QED  BY <1>6, <2>1, <2>2
  <1>8. \A k \in DOMAIN r : r[k].op = "spawn" => k \in DOMAIN ir /\ r[k] = ir[k]
    BY <1>3, <1>6
  <1>9. /\ \A k \in DOMAIN r : r[k].op = "spawn" =>
             (r[k].el \in batch /\ r[k].grp = g) \/ Waited(r, k, Len(r) + 1)
        /\ \A k \in DOMAIN r : r[k].op = "spawn" =>
             (r[k].var = 0 <=> body[r[k].el].kind \in {"unit", "inst"})
    BY <1>4, <1>8 DEF Ready
  <1>10. \A k \in DOMAIN r : r[k].op \notin {"return", "returnvar", "bare"}
    BY <1>3, <1>6 DEF Ready
  <1>11. OpenEnd(ir, n) => OpenEnd(r, n)
    <2> SUFFICES ASSUME OpenEnd(ir, n), n < Len(body), NEW j \in DOMAIN r, r[j].op = "spawn",
                        r[j].el = n, NEW w \in j .. Len(r)
                 PROVE  r[w].op # "wait"
      BY DEF OpenEnd
    <2>1. j \in DOMAIN ir /\ r[j] = ir[j]
      BY <1>8
    <2>2. w = Len(ir) + 1 \/ (w \in j .. Len(ir) /\ r[w] = ir[w])
      BY <1>3, <2>1
    <2> QED  BY <1>3, <2>1, <2>2 DEF OpenEnd
  <1>12. Ready(r, n, g, batch)
    BY <1>5, <1>7, <1>9, <1>10 DEF Ready
  <1> QED  BY <1>3, <1>11, <1>12 DEF r

\* The call of the next element joins group g.
LEMMA SingletonSpawned ==
  ASSUME BodyInv, lowering = "singleton", NEW n \in Nat, n + 1 \in DOMAIN body,
         NEW g \in 1 .. n + 1, NEW batch \in SUBSET (1 .. n), NEW ir, Ready(ir, n, g, batch),
         OpenEnd(ir, n) \/ ReadsCall(n + 1),
         Declared(ir, g),
         body[n + 1].kind \in CallKinds,
         ~(body[n + 1].form = "plain" /\ ReadsCall(n + 1) /\ body[n + 1].reads \in batch),
         NEW v \in {0, n + 1}, v = 0 <=> body[n + 1].kind \in {"unit", "inst"},
         NEW r, r = Append(ir, Spawn(n + 1, v, g))
  PROVE  /\ r \in Seq(Statement) /\ Ready(r, n + 1, g, batch \cup {n + 1})
         /\ OpenEnd(r, n + 1)
         /\ Declared(r, g)
  <1> DEFINE i == n + 1
             st == Spawn(i, v, g)
  <1>0. r = Append(ir, st)
    OBVIOUS
  <1>1. /\ body \in Seq(Element) /\ LoweredTo(ir, n) /\ i \in Nat /\ i > 0
        /\ Len(body) \in Nat /\ DOMAIN body = 1 .. Len(body) /\ i \in Indices \ {0}
    BY Bodies DEF Ready
  <1>2. g \in Indices \ {0}
    <2>1. MaxLen[lowering] \in Nat /\ i <= MaxLen[lowering]
      BY <1>1, LoweringAssumption DEF BodyInv, Indices
    <2> QED  BY <2>1 DEF Indices
  <1>3. body[i].kind \in {"bind", "lazy"} => v = i
    BY DEF CallKinds
  <1>4. /\ st \in Statement /\ Translates(st) /\ st.el = i /\ st.op = "spawn" /\ st.grp = g
        /\ st.var = v
    BY <1>2, <1>3, WorkStatements
  <1>5. /\ ir \in Seq(Statement)
        /\ \A k \in DOMAIN ir : ir[k].op = "spawn" => ir[k].el \in 1 .. n
    BY <1>1, CallsAre
  <1> HIDE DEF st
  <1>6. /\ r \in Seq(Statement) /\ Len(r) = Len(ir) + 1 /\ Len(ir) \in Nat
        /\ DOMAIN ir = 1 .. Len(ir) /\ DOMAIN r = 1 .. Len(ir) + 1
        /\ \A k \in 1 .. Len(ir) : r[k] = ir[k] /\ ir[k] \in Statement
        /\ r[Len(ir) + 1] = st
    BY <1>0, <1>4, <1>5, Appended
  <1>7. LoweredTo(r, i)
    <2>1. ~ReadsCall(st.el) => \A j \in DOMAIN ir : ir[j].op = "spawn" /\ ir[j].el = n =>
            \A w \in j .. Len(ir) : ir[w].op # "wait"
      <3>1. n < Len(body)
        BY <1>1
      <3> QED  BY <1>4, <3>1 DEF OpenEnd
    <2>2. \E j \in DOMAIN ir : ir[j].op = "group" /\ ir[j].grp = st.grp
      BY <1>4 DEF Declared
    <2>3. \A k \in DOMAIN ir : ~IsWait(ir, k, st.grp)
      BY <1>4 DEF Ready
    <2>4. body[st.el].form = "plain" /\ ReadsCall(st.el) =>
            \A j \in DOMAIN ir : ir[j].op = "spawn" /\ ir[j].el = body[st.el].reads =>
              Waited(ir, j, Len(ir) + 1)
      BY <1>4 DEF Ready
    <2>5. Work(st) /\ st.op # "spawn" => Closed(ir)
      BY <1>4
    <2> QED  BY <1>0, <1>1, <1>4, <2>1, <2>2, <2>3, <2>4, <2>5, AppendKeeps
  <1>8. \A j \in DOMAIN ir : Waited(ir, j, Len(ir) + 1) => Waited(r, j, Len(r) + 1)
    BY <1>0, <1>4, <1>5, StaysWaited
  <1>9. ASSUME NEW k \in DOMAIN r  PROVE k = Len(ir) + 1 \/ (k \in DOMAIN ir /\ r[k] = ir[k])
    BY <1>6
  <1>10. ASSUME NEW k \in DOMAIN r
         PROVE  /\ r[k].grp <= g /\ ~IsWait(r, k, g)
                /\ r[k].op = "spawn" =>
                     (r[k].el \in batch \cup {i} /\ r[k].grp = g) \/ Waited(r, k, Len(r) + 1)
                /\ r[k].op = "spawn" => (r[k].var = 0 <=> body[r[k].el].kind \in {"unit", "inst"})
                /\ r[k].op \notin {"return", "returnvar", "bare"}
    <2>1. CASE k = Len(ir) + 1
      <3>1. r[k] = st
        BY <1>6, <2>1
      <3> HIDE DEF i
      <3> QED  BY <1>4, <3>1 DEF IsWait, i
    <2>2. CASE k \in DOMAIN ir /\ r[k] = ir[k]
      <3>1. ir[k].grp <= g /\ ~IsWait(ir, k, g) /\ ir[k].op \notin {"return", "returnvar", "bare"}
        BY <2>2 DEF Ready
      <3>2. ir[k].op = "spawn" => (ir[k].el \in batch /\ ir[k].grp = g) \/ Waited(r, k, Len(r) + 1)
        BY <1>8, <2>2 DEF Ready
      <3>3. ir[k].op = "spawn" => (ir[k].var = 0 <=> body[ir[k].el].kind \in {"unit", "inst"})
        BY <2>2 DEF Ready
      <3> QED  BY <2>2, <3>1, <3>2, <3>3 DEF IsWait
    <2> QED  BY <1>9, <2>1, <2>2
  <1>11. Ready(r, i, g, batch \cup {i})
    BY <1>7, <1>10 DEF Ready
  <1>12. OpenEnd(r, i)
    <2>1. ASSUME NEW j \in DOMAIN r, r[j].op = "spawn", r[j].el = i, NEW w \in j .. Len(r)
          PROVE  r[w].op # "wait"
      <3>1. j = Len(ir) + 1
        BY <1>5, <1>9, <2>1
      <3>2. w = j
        BY <1>6, <3>1
      <3> QED  BY <1>4, <1>6, <3>1, <3>2
    <2> QED  BY <2>1 DEF OpenEnd
  <1>13. Declared(r, g)
    <2>1. PICK k \in DOMAIN ir : ir[k].op = "group" /\ ir[k].grp = g
      BY DEF Declared
    <2> QED  BY <1>6, <2>1 DEF Declared
  <1> QED  BY <1>6, <1>11, <1>12, <1>13

\* flushGroup closes the batch.
LEMMA Flushes ==
  ASSUME BodyInv, lowering = "singleton", NEW n \in Nat, n <= Len(body), NEW s, Batching(s, n)
  PROVE  LET t == Flush(s) IN
         /\ Batching(t, n) /\ t.batch = {} /\ Closed(t.ir) /\ t.groups = s.groups
         /\ IF s.batch = {} THEN t = s ELSE t.ir = Append(s.ir, Wait(s.groups))
  <1> DEFINE t == Flush(s)
             g == s.groups
             r == Append(s.ir, Wait(g))
  <1>1. /\ s.batch \in SUBSET (1 .. n) /\ g \in 0 .. n
        /\ body \in Seq(Element) /\ LoweredTo(s.ir, n)
    BY Bodies DEF Batching, Ready
  <1>2. s.ir \in Seq(Statement)
    BY <1>1, CallsAre
  <1>3. CASE s.batch = {}
    <2>1. t = s
      BY <1>3 DEF Flush
    <2>2. Closed(s.ir)
      BY <1>3 DEF Closed, Batching, Ready
    <2> QED  BY <1>3, <2>1, <2>2
  <1>4. CASE s.batch # {}
    <2>1. Ready(s.ir, n, g, s.batch)
      BY <1>4 DEF Batching, NextGroup
    <2>2. PICK j \in DOMAIN s.ir : s.ir[j].op = "group" /\ s.ir[j].grp = g
      BY <1>4 DEF Batching, Declared
    <2>3. g \in Indices \ {0}
      <3>1. Helper(s.ir[j])
        <4>1. s.ir[j].op = "group"
          BY <2>2
        <4>2. ~Translates(s.ir[j])
          BY <4>1 DEF Translates, Decl, Bare, Assign, If, Expr, Return, Stmt
        <4> QED  BY <1>1, <4>2 DEF LoweredTo, WellFormed
      <3> QED  BY <2>2, <3>1 DEF Helper
    <2>4. Wait(g) \in Statement /\ Helper(Wait(g)) /\ Wait(g).op = "wait" /\ Wait(g).grp = g
      BY <2>3, HelperStatements
    <2>5. t = [s EXCEPT !.ir = r, !.batch = {}]
      BY <1>4 DEF Flush
    <2>6. /\ r \in Seq(Statement) /\ Len(r) = Len(s.ir) + 1 /\ Len(s.ir) \in Nat
          /\ DOMAIN s.ir = 1 .. Len(s.ir) /\ DOMAIN r = 1 .. Len(s.ir) + 1
          /\ \A k \in 1 .. Len(s.ir) : r[k] = s.ir[k] /\ s.ir[k] \in Statement
          /\ r[Len(s.ir) + 1] = Wait(g)
      BY <1>2, <2>4, Appended
    <2>7. LoweredTo(r, n)
      <3>1. ~Work(Wait(g))
        BY <2>4 DEF Helper
      <3>2. \A k \in DOMAIN s.ir : ~IsWait(s.ir, k, Wait(g).grp)
        BY <2>1, <2>4 DEF Ready
      <3>3. \E k \in DOMAIN s.ir : s.ir[k].op = "group" /\ s.ir[k].grp = Wait(g).grp
        BY <2>2, <2>4
      <3> HIDE DEF g
      <3> QED  BY <1>1, <2>4, <3>1, <3>2, <3>3, AppendKeeps
    <2>8. Closed(r)
      <3>1. \A k \in DOMAIN s.ir : s.ir[k].op = "spawn" =>
              s.ir[k].grp = g \/ Waited(s.ir, k, Len(s.ir) + 1)
        BY <2>1 DEF Ready
      <3> HIDE DEF g
      <3> QED  BY <1>2, <2>3, <3>1, Closing
    <2> HIDE DEF r
    <2>9. ASSUME NEW k \in DOMAIN r
          PROVE  k = Len(s.ir) + 1 \/ (k \in DOMAIN s.ir /\ r[k] = s.ir[k])
      BY <2>6
    <2>10. ASSUME NEW k \in DOMAIN r
           PROVE  /\ r[k].grp <= g + 1 /\ ~IsWait(r, k, g + 1)
                  /\ r[k].op = "spawn" => Waited(r, k, Len(r) + 1)
                  /\ r[k].op = "spawn" => (r[k].var = 0 <=> body[r[k].el].kind \in {"unit", "inst"})
                  /\ r[k].op \notin {"return", "returnvar", "bare"}
      <3>1. r[k].op = "spawn" => Waited(r, k, Len(r) + 1)
        BY <2>8 DEF Closed
      <3>2. CASE k = Len(s.ir) + 1
        <4>1. r[k].op = "wait" /\ r[k].grp = g
          BY <2>4, <2>6, <3>2
        <4> QED  BY <1>1, <3>1, <4>1 DEF IsWait
      <3>3. CASE k \in DOMAIN s.ir /\ r[k] = s.ir[k]
        <4>1. /\ s.ir[k].grp <= g /\ s.ir[k].op \notin {"return", "returnvar", "bare"}
              /\ s.ir[k].op = "spawn" =>
                   (s.ir[k].var = 0 <=> body[s.ir[k].el].kind \in {"unit", "inst"})
          BY <2>1, <3>3 DEF Ready
        <4>2. s.ir[k].grp \in Nat
          BY <2>6, <3>3 DEF Statement
        <4> QED  BY <1>1, <3>1, <3>3, <4>1, <4>2 DEF IsWait
      <3> QED  BY <2>9, <3>2, <3>3
    <2>11. Ready(r, n, g + 1, {})
      BY <2>7, <2>10 DEF Ready
    <2>12. /\ t \in [ir : Seq(Statement), batch : SUBSET (1 .. n), groups : 0 .. n]
           /\ t.ir = r /\ t.batch = {} /\ t.groups = g
      <3>1. s \in [ir : Seq(Statement), batch : SUBSET (1 .. n), groups : 0 .. n]
        BY DEF Batching
      <3> HIDE DEF Statement
      <3> QED  BY <2>5, <2>6, <3>1
    <2>13. Batching(t, n)
      <3>1. NextGroup(t) = g + 1
        BY <2>12 DEF NextGroup
      <3> HIDE DEF t, g
      <3> QED  BY <2>11, <2>12, <3>1 DEF Batching
    <2> QED  BY <1>4, <2>8, <2>12, <2>13 DEF r
  <1> QED  BY <1>3, <1>4

\* A statement that is no call, after the batch was closed.
LEMMA SingletonPuts ==
  ASSUME BodyInv, lowering = "singleton", NEW n \in Nat, n + 1 \in DOMAIN body,
         NEW s, SingletonInv(s, n), NEW st \in Statement, Translates(st), st.el = n + 1,
         st.op \in {"decl", "assign", "do", "if"}, st.grp = 0,
         body[n + 1].kind \notin CallKinds, body[n + 1].kind = "do" => st = Expr(n + 1)
  PROVE  SingletonInv(Put(Flush(s), <<st>>), n + 1)
  <1> DEFINE p == Flush(s)
             t == Put(p, <<st>>)
             r == Append(p.ir, st)
             g == p.groups
  <1>1. body \in Seq(Element) /\ n <= Len(body) /\ Len(body) \in Nat /\ DOMAIN body = 1 .. Len(body)
    BY Bodies
  <1>2. Batching(p, n) /\ p.batch = {} /\ Closed(p.ir)
    BY <1>1, Flushes DEF SingletonInv
  <1> HIDE DEF p
  <1>3. /\ p \in [ir : Seq(Statement), batch : SUBSET (1 .. n), groups : 0 .. n]
        /\ g \in 0 .. n /\ Ready(p.ir, n, g + 1, {}) /\ LoweredTo(p.ir, n)
    BY <1>2 DEF Batching, NextGroup, Ready
  <1>4. /\ p.ir \in Seq(Statement)
        /\ \A k \in DOMAIN p.ir : p.ir[k].op = "spawn" => p.ir[k].el \in 1 .. n
    BY <1>1, <1>3, CallsAre
  <1>5. /\ r \in Seq(Statement) /\ Len(r) = Len(p.ir) + 1 /\ Len(p.ir) \in Nat
        /\ DOMAIN p.ir = 1 .. Len(p.ir) /\ DOMAIN r = 1 .. Len(p.ir) + 1
        /\ \A k \in 1 .. Len(p.ir) : r[k] = p.ir[k] /\ p.ir[k] \in Statement
        /\ r[Len(p.ir) + 1] = st
    BY <1>4, Appended
  <1>6. LoweredTo(r, n + 1)
    BY <1>1, <1>2, <1>3, AppendKeeps
  <1>7. Closed(r)
    BY <1>2, <1>4, StaysClosed
  <1>8. /\ t \in [ir : Seq(Statement), batch : SUBSET (1 .. n + 1), groups : 0 .. n + 1]
        /\ t.ir = r /\ t.batch = {} /\ t.groups = g
    <2>1. p.ir \o <<st>> = r
      BY <1>4, Concatenated
    <2>2. r \in Seq(Statement)
      BY <1>5
    <2> HIDE DEF r, Statement
    <2>3. t = [p EXCEPT !.ir = r]
      BY <2>1 DEF Put
    <2> HIDE DEF t
    <2>4. t.ir = r /\ t.batch = {} /\ t.groups = g
      BY <1>2, <1>3, <2>3
    <2>5. t \in [ir : Seq(Statement), batch : SUBSET (1 .. n), groups : 0 .. n]
      BY <1>3, <2>2, <2>3
    <2>6. SUBSET (1 .. n) \subseteq SUBSET (1 .. n + 1) /\ 0 .. n \subseteq 0 .. n + 1
      OBVIOUS
    <2> QED  BY <2>4, <2>5, <2>6
  <1> HIDE DEF r
  <1>9. ASSUME NEW k \in DOMAIN r  PROVE k = Len(p.ir) + 1 \/ (k \in DOMAIN p.ir /\ r[k] = p.ir[k])
    BY <1>5
  <1>10. ASSUME NEW k \in DOMAIN r
         PROVE  /\ r[k].grp <= g + 1 /\ ~IsWait(r, k, g + 1)
                /\ r[k].op = "spawn" => Waited(r, k, Len(r) + 1)
                /\ r[k].op = "spawn" => (r[k].var = 0 <=> body[r[k].el].kind \in {"unit", "inst"})
                /\ r[k].op \notin {"return", "returnvar", "bare"}
    <2>1. r[k].op = "spawn" => Waited(r, k, Len(r) + 1)
      BY <1>7 DEF Closed
    <2>2. CASE k = Len(p.ir) + 1
      BY <1>3, <1>5, <2>1, <2>2 DEF IsWait
    <2>3. CASE k \in DOMAIN p.ir /\ r[k] = p.ir[k]
      <3>1. /\ p.ir[k].grp <= g + 1 /\ ~IsWait(p.ir, k, g + 1)
            /\ p.ir[k].op \notin {"return", "returnvar", "bare"}
            /\ p.ir[k].op = "spawn" =>
                 (p.ir[k].var = 0 <=> body[p.ir[k].el].kind \in {"unit", "inst"})
        BY <1>3, <2>3 DEF Ready
      <3> QED  BY <2>1, <2>3, <3>1 DEF IsWait
    <2> QED  BY <1>9, <2>2, <2>3
  <1>11. Ready(r, n + 1, g + 1, {})
    BY <1>6, <1>10 DEF Ready
  <1>12. OpenEnd(r, n + 1)
    <2>1. ASSUME NEW j \in DOMAIN r, r[j].op = "spawn", r[j].el = n + 1  PROVE FALSE
      BY <1>4, <1>5, <1>9, <2>1
    <2> QED  BY <2>1 DEF OpenEnd
  <1>13. r # <<>> /\ r[Len(r)] = st
    BY <1>5
  <1> HIDE DEF t
  <1>14. NextGroup(t) = g + 1
    BY <1>8 DEF NextGroup
  <1>15. Batching(t, n + 1)
    BY <1>8, <1>11, <1>14 DEF Batching
  <1> QED  BY <1>8, <1>12, <1>13, <1>15 DEF SingletonInv, t, p

\* A call joins the open batch or opens one.
LEMMA SingletonCalls ==
  ASSUME BodyInv, lowering = "singleton", NEW n \in Nat, n + 1 \in DOMAIN body,
         NEW s, Batching(s, n), body[n + 1].kind \in CallKinds,
         OpenEnd(s.ir, n) \/ ReadsCall(n + 1), ~DependsOn(n + 1, s.batch)
  PROVE  SingletonInv(Batched(s, n + 1), n + 1)
  <1> DEFINE i == n + 1
             g == NextGroup(s)
             a == IF s.batch = {} THEN Append(s.ir, Group(g)) ELSE s.ir
             bound == body[i].kind \in {"bind", "lazy"}
             b == IF bound THEN Append(a, Var(i)) ELSE a
             v == IF bound THEN i ELSE 0
             e == Append(b, Spawn(i, v, g))
             t == Batched(s, i)
  <1>1. /\ body \in Seq(Element) /\ Len(body) \in Nat /\ DOMAIN body = 1 .. Len(body)
        /\ i \in Nat /\ i > 0 /\ i \in Indices \ {0}
    BY Bodies
  <1>2. /\ s \in [ir : Seq(Statement), batch : SUBSET (1 .. n), groups : 0 .. n]
        /\ Ready(s.ir, n, g, s.batch)
        /\ s.batch # {} => Declared(s.ir, g)
        /\ LoweredTo(s.ir, n)
    BY DEF Batching, NextGroup, Ready
  <1>3. s.ir \in Seq(Statement) /\ s.batch \in SUBSET (1 .. n) /\ s.groups \in 0 .. n
    <2> HIDE DEF Statement
    <2> QED  BY <1>2
  <1>4. g \in 1 .. i /\ g \in Indices \ {0} /\ g \in Nat
    <2>1. g \in 1 .. i
      <3>1. s.batch # {} => s.groups # 0
        <4> SUFFICES ASSUME s.batch # {}  PROVE s.groups # 0
          OBVIOUS
        <4>1. PICK k \in DOMAIN s.ir : s.ir[k].op = "group" /\ s.ir[k].grp = s.groups
          BY DEF Batching, Declared
        <4>2. ~Translates(s.ir[k])
          BY <4>1 DEF Translates, Decl, Bare, Assign, If, Expr, Return, Stmt
        <4>3. Helper(s.ir[k])
          BY <1>2, <4>2 DEF LoweredTo, WellFormed
        <4> QED  BY <4>1, <4>3 DEF Helper
      <3> QED  BY <1>3, <3>1 DEF NextGroup
    <2>2. MaxLen[lowering] \in Nat /\ i <= MaxLen[lowering]
      BY <1>1, LoweringAssumption DEF BodyInv, Indices
    <2> QED  BY <1>1, <2>1, <2>2 DEF Indices
  <1>5. /\ Group(g) \in Statement /\ Helper(Group(g)) /\ Group(g).op = "group" /\ Group(g).grp = g
        /\ Var(i) \in Statement /\ Helper(Var(i)) /\ Var(i).op = "var" /\ Var(i).grp = 0
    BY <1>1, <1>4, HelperStatements
  <1> HIDE DEF g
  <1>6. /\ a \in Seq(Statement) /\ Ready(a, n, g, s.batch) /\ (OpenEnd(a, n) \/ ReadsCall(i))
        /\ Declared(a, g)
    <2>1. CASE s.batch = {}
      <3> DEFINE x == Append(s.ir, Group(g))
      <3>1. /\ x \in Seq(Statement) /\ Ready(x, n, g, s.batch) /\ (OpenEnd(x, n) \/ ReadsCall(i))
            /\ Len(x) \in DOMAIN x /\ x[Len(x)] = Group(g)
        BY <1>2, <1>4, <1>5, ReadyPut
      <3>2. Declared(x, g)
        BY <1>5, <3>1 DEF Declared
      <3> QED  BY <2>1, <3>1, <3>2
    <2>2. CASE s.batch # {}
      BY <1>2, <1>3, <2>2
    <2> QED  BY <2>1, <2>2
  <1> HIDE DEF a
  <1>7. /\ b \in Seq(Statement) /\ Ready(b, n, g, s.batch) /\ (OpenEnd(b, n) \/ ReadsCall(i))
        /\ Declared(b, g)
    <2>1. CASE bound
      <3> DEFINE x == Append(a, Var(i))
      <3>1. /\ x \in Seq(Statement) /\ Ready(x, n, g, s.batch) /\ (OpenEnd(x, n) \/ ReadsCall(i))
            /\ \A k \in DOMAIN a : k \in DOMAIN x /\ x[k] = a[k]
        <4>1. Var(i).op \in {"group", "var"} /\ Var(i).grp <= g
          BY <1>4, <1>5
        <4> QED  BY <1>4, <1>5, <1>6, <4>1, ReadyPut
      <3>2. Declared(x, g)
        BY <1>6, <3>1 DEF Declared
      <3> QED  BY <2>1, <3>1, <3>2
    <2>2. CASE ~bound
      BY <1>6, <2>2
    <2> QED  BY <2>1, <2>2
  <1> HIDE DEF b
  <1>8. v \in {0, i} /\ (v = 0 <=> body[i].kind \in {"unit", "inst"})
    BY <1>1 DEF CallKinds
  <1>9. ~(body[i].form = "plain" /\ ReadsCall(i) /\ body[i].reads \in s.batch)
    BY DEF DependsOn, ReadsCall
  <1>10. /\ e \in Seq(Statement) /\ Ready(e, i, g, s.batch \cup {i}) /\ OpenEnd(e, i)
         /\ Declared(e, g)
    <2>1. s.batch \in SUBSET (1 .. n) /\ g \in 1 .. n + 1 /\ v \in {0, n + 1}
      BY <1>3, <1>4, <1>8
    <2>2. v = 0 <=> body[n + 1].kind \in {"unit", "inst"}
      BY <1>8
    <2>3. ~(body[n + 1].form = "plain" /\ ReadsCall(n + 1) /\ body[n + 1].reads \in s.batch)
      BY <1>9
    <2>4. OpenEnd(b, n) \/ ReadsCall(n + 1)
      BY <1>7
    <2>5. Ready(b, n, g, s.batch) /\ Declared(b, g)
      BY <1>7
    <2>6. e = Append(b, Spawn(n + 1, v, g))
      OBVIOUS
    <2> HIDE DEF v, bound, e, i
    <2> QED  BY <2>1, <2>2, <2>3, <2>4, <2>5, <2>6, SingletonSpawned DEF i
  <1>11. Spawn(i, v, g) \in Statement
    <2>1. bound => v = i
      OBVIOUS
    <2> HIDE DEF v
    <2> QED  BY <1>4, <1>8, <2>1, WorkStatements
  <1>12. /\ a \o BatchedCall(i, g) = e
         /\ s.batch = {} => a = s.ir \o <<Group(g)>>
         /\ s.batch # {} => a = s.ir
    <2>1. a \o BatchedCall(i, g) = e
      <3>1. CASE bound
        <4>1. BatchedCall(i, g) = <<Var(i), Spawn(i, i, g)>> /\ Spawn(i, i, g) \in Statement
          BY <1>11, <3>1 DEF BatchedCall
        <4>2. e = Append(Append(a, Var(i)), Spawn(i, i, g))
          BY <3>1 DEF b
        <4>3. a \o <<Var(i), Spawn(i, i, g)>> = Append(Append(a, Var(i)), Spawn(i, i, g))
          BY <1>5, <1>6, <4>1, Concatenated
        <4> HIDE DEF e
        <4> QED  BY <4>1, <4>2, <4>3
      <3>2. CASE ~bound
        <4>1. BatchedCall(i, g) = <<Spawn(i, 0, g)>> /\ Spawn(i, 0, g) \in Statement
          BY <1>11, <3>2 DEF BatchedCall
        <4>2. e = Append(a, Spawn(i, 0, g))
          BY <3>2 DEF b
        <4>3. a \o <<Spawn(i, 0, g)>> = Append(a, Spawn(i, 0, g))
          BY <1>6, <4>1, Concatenated
        <4> HIDE DEF e
        <4> QED  BY <4>1, <4>2, <4>3
      <3> QED  BY <3>1, <3>2
    <2>2. s.batch = {} => a = s.ir \o <<Group(g)>>
      BY <1>3, <1>5, Concatenated DEF a
    <2> QED  BY <2>1, <2>2 DEF a
  <1> HIDE DEF e, v, bound
  <1>13. /\ t.ir = e /\ t.batch = s.batch \cup {i} /\ t.groups = g
         /\ t \in [ir : Seq(Statement), batch : SUBSET (1 .. i), groups : 0 .. i]
    <2>1. CASE s.batch = {}
      <3>1. t = [ir |-> e, batch |-> {i}, groups |-> g]
        BY <1>12, <2>1 DEF Batched, g, NextGroup
      <3>2. e \in Seq(Statement) /\ {i} \in SUBSET (1 .. i) /\ g \in 0 .. i
        BY <1>1, <1>4, <1>10
      <3> HIDE DEF t, i, Statement
      <3> QED  BY <2>1, <3>1, <3>2
    <2>2. CASE s.batch # {}
      <3>1. t = [s EXCEPT !.ir = e, !.batch = s.batch \cup {i}] /\ g = s.groups
        BY <1>12, <2>2 DEF Batched, g, NextGroup
      <3>2. e \in Seq(Statement) /\ s.batch \cup {i} \in SUBSET (1 .. i) /\ g \in 0 .. i
        BY <1>1, <1>3, <1>4, <1>10
      <3> HIDE DEF t, i, Statement
      <3> QED  BY <1>2, <2>2, <3>1, <3>2
    <2> QED  BY <2>1, <2>2
  <1> HIDE DEF t
  <1>14. NextGroup(t) = g
    BY <1>13 DEF NextGroup
  <1>15. Batching(t, i)
    <2> HIDE DEF i
    <2> QED  BY <1>10, <1>13, <1>14 DEF Batching
  <1>16. body[i].kind # "do"
    BY DEF CallKinds
  <1> QED  BY <1>10, <1>13, <1>15, <1>16 DEF SingletonInv, t

LEMMA SingletonStep ==
  ASSUME BodyInv, lowering = "singleton", NEW n \in Nat, n + 1 \in DOMAIN body,
         NEW s, SingletonInv(s, n)
  PROVE  SingletonInv(SingletonElement(s, n + 1), n + 1)
  <1> DEFINE i == n + 1
             kind == body[i].kind
  <1>0. /\ n <= Len(body) /\ i \in Nat
        /\ kind \in CallKinds \cup DeclKinds \cup BranchKinds \cup {"assign", "do"}
    BY Bodies
  <1>1. Batching(s, n) /\ OpenEnd(s.ir, n)
    BY DEF SingletonInv
  <1>2. CASE kind \in CallKinds /\ DependsOn(i, s.batch)
    <2> DEFINE p == Flush(s)
    <2>1. Batching(p, n) /\ p.batch = {}
      BY <1>0, <1>1, Flushes
    <2>2. ReadsCall(i)
      <3>1. s.batch \in SUBSET (1 .. n)
        BY <1>1 DEF Batching
      <3> QED  BY <1>2, <3>1 DEF DependsOn, ReadsCall
    <2>3. ~DependsOn(i, p.batch)
      BY <2>1 DEF DependsOn
    <2>4. SingletonElement(s, i) = Batched(p, i)
      BY <1>2 DEF SingletonElement
    <2> HIDE DEF p
    <2> QED  BY <1>2, <2>1, <2>2, <2>3, <2>4, SingletonCalls
  <1>3. CASE kind \in CallKinds /\ ~DependsOn(i, s.batch)
    <2>1. SingletonElement(s, i) = Batched(s, i)
      BY <1>3 DEF SingletonElement
    <2> QED  BY <1>1, <1>3, <2>1, SingletonCalls
  <1>4. CASE kind \notin CallKinds
    <2> DEFINE st == MainStmt(i)
    <2>1. SingletonElement(s, i) = Put(Flush(s), <<st>>)
      BY <1>4 DEF SingletonElement
    <2>2. /\ st \in Statement /\ Translates(st) /\ st.el = i /\ st.grp = 0
          /\ st.op \in {"decl", "assign", "do", "if"} /\ (kind = "do" => st = Expr(i))
      <3>1. CASE kind \in DeclKinds
        <4>1. st = Decl(i) /\ kind # "do"
          BY <3>1 DEF MainStmt, DeclKinds, BranchKinds
        <4>2. Decl(i).grp = 0
          BY DEF Decl, Stmt
        <4> HIDE DEF st
        <4> QED  BY <3>1, <4>1, <4>2, WorkStatements
      <3>2. CASE kind = "assign"
        <4>1. st = Assign(i)
          BY <3>2 DEF MainStmt, DeclKinds, BranchKinds
        <4>2. Assign(i).grp = 0
          BY DEF Assign, Stmt
        <4> HIDE DEF st
        <4> QED  BY <3>2, <4>1, <4>2, WorkStatements
      <3>3. CASE kind = "do"
        <4>1. st = Expr(i)
          BY <3>3 DEF MainStmt, DeclKinds, BranchKinds
        <4>2. Expr(i).grp = 0
          BY DEF Expr, Stmt
        <4> HIDE DEF st
        <4> QED  BY <3>3, <4>1, <4>2, WorkStatements
      <3>4. CASE kind \in BranchKinds
        <4>1. st = If(i, 0) /\ kind # "do"
          BY <3>4 DEF MainStmt, DeclKinds, BranchKinds
        <4>2. If(i, 0).grp = 0
          BY DEF If
        <4> HIDE DEF st
        <4> QED  BY <3>4, <4>1, <4>2, WorkStatements
      <3> HIDE DEF st
      <3> QED  BY <1>0, <1>4, <3>1, <3>2, <3>3, <3>4
    <2> HIDE DEF st
    <2> QED  BY <1>4, <2>1, <2>2, SingletonPuts
  <1> QED  BY <1>2, <1>3, <1>4

LEMMA EverySingletonState ==
  ASSUME BodyInv, lowering = "singleton"
  PROVE  SingletonInv(singletonState[Len(body)], Len(body))
  <1> DEFINE N == Len(body)
             S == {k \in 0 .. N : SingletonInv(singletonState[k], k)}
  <1>1. N \in Nat /\ DOMAIN body = 1 .. N
    BY Bodies
  <1>2. singletonState = [i \in 0 .. N |->
           IF i = 0 THEN [ir |-> <<>>, batch |-> {}, groups |-> 0]
           ELSE SingletonElement(singletonState[i - 1], i)]
    BY <1>1, SingletonStates
  <1>3. SingletonInv(singletonState[0], 0)
    <2> DEFINE ir == <<>>
               s == [ir |-> ir, batch |-> {}, groups |-> 0]
    <2>1. singletonState[0] = s
      BY <1>1, <1>2
    <2>2. ir \in Seq(Statement) /\ DOMAIN ir = {}
      <3> HIDE DEF Statement
      <3> QED  OBVIOUS
    <2> HIDE DEF ir
    <2>3. LoweredTo(ir, 0)
      <3>1. WellFormed(ir, 0)
        BY <2>2 DEF WellFormed
      <3>2. InOrder(ir) /\ Barriers(ir) /\ Together(ir) /\ Grouped(ir) /\ OneWait(ir)
        BY <2>2 DEF InOrder, Barriers, Together, Grouped, OneWait
      <3> QED  BY <3>1, <3>2 DEF LoweredTo
    <2>4. OpenEnd(ir, 0) /\ Ready(ir, 0, 1, {})
      BY <2>2, <2>3 DEF OpenEnd, Ready
    <2>5. /\ s \in [ir : Seq(Statement), batch : SUBSET (1 .. 0), groups : 0 .. 0]
          /\ s.ir = ir /\ s.batch = {} /\ s.groups = 0
      <3> HIDE DEF Statement
      <3> QED  BY <2>2
    <2> HIDE DEF s
    <2>6. NextGroup(s) = 1
      BY <2>5 DEF NextGroup
    <2>7. Batching(s, 0)
      BY <2>4, <2>5, <2>6 DEF Batching
    <2> QED  BY <2>1, <2>4, <2>5, <2>7 DEF SingletonInv
  <1>4. ASSUME NEW k \in 0 .. N, k < N, k \in S  PROVE k + 1 \in S
    <2>1. k \in Nat /\ k + 1 \in DOMAIN body /\ k + 1 \in 0 .. N /\ SingletonInv(singletonState[k], k)
      BY <1>1, <1>4
    <2>2. singletonState[k + 1] = SingletonElement(singletonState[k], k + 1)
      <3>1. k + 1 # 0 /\ (k + 1) - 1 = k
        BY <2>1
      <3> HIDE DEF N
      <3> QED  BY <1>2, <2>1, <3>1
    <2>3. SingletonInv(singletonState[k + 1], k + 1)
      BY <2>1, <2>2, SingletonStep
    <2> QED  BY <2>1, <2>3
  <1>5. 0 \in S
    BY <1>1, <1>3
  <1> HIDE DEF S, N
  <1>6. \A k \in 0 .. N : k \in S
    BY <1>1, <1>4, <1>5, EveryUpTo
  <1>7. N \in S
    BY <1>1, <1>6
  <1> QED  BY <1>7 DEF S, N

\* A set of numbers up to n has a greatest one.
LEMMA Greatest ==
  ASSUME NEW n \in Nat, NEW S \in SUBSET (1 .. n), S # {}
  PROVE  \E x \in S : \A y \in S : y <= x
  <1> DEFINE T == {m \in 0 .. n : \A y \in S : y <= m}
  <1>1. T # {} /\ T \subseteq Nat
    <2>1. n \in T
      OBVIOUS
    <2>2. T \subseteq Nat
      OBVIOUS
    <2> HIDE DEF T
    <2> QED  BY <2>1, <2>2
  <1>2. PICK x \in T : \A y \in T : ~(<<y, x>> \in Less)
    <2> HIDE DEF T
    <2>1. \E x \in T : \A y \in T : ~(<<y, x>> \in Less)
      BY <1>1, LessWellFounded, WFMin
    <2> QED  BY <2>1
  <1>3. x \in 0 .. n /\ \A y \in S : y <= x
    BY <1>2
  <1>4. ASSUME x \notin S  PROVE FALSE
    <2>1. PICK z \in S : TRUE
      OBVIOUS
    <2>2. x # 0
      BY <1>3, <2>1
    <2>3. \A y \in S : y <= x - 1
      BY <1>3, <1>4
    <2>4. x - 1 \in T /\ <<x - 1, x>> \in Less
      BY <1>3, <2>2, <2>3 DEF Less
    <2> HIDE DEF T
    <2> QED  BY <1>2, <2>4
  <1> QED  BY <1>3, <1>4

\* The statement of the last element, when it is no helper, is where it ends.
LEMMA LastWork ==
  ASSUME BodyInv, NEW ir, LoweredTo(ir, Len(body)), NEW k \in DOMAIN ir, Work(ir[k]),
         NEW j \in DOMAIN ir, Work(ir[j]), ir[j].el = Len(body)
  PROVE  k <= j /\ (k = Len(ir) => k = j)
  <1>1. Len(body) \in Nat /\ body \in Seq(Element)
    BY Bodies
  <1>2. DOMAIN ir = 1 .. Len(ir) /\ Len(ir) \in Nat
    BY <1>1, CallsAre
  <1>3. ir[k].el \in Nat /\ ir[k].el <= Len(body)
    BY <1>1 DEF LoweredTo, WellFormed, Helper, Translates
  <1>4. ~(j < k)
    BY <1>1, <1>3 DEF LoweredTo, InOrder
  <1> QED  BY <1>2, <1>4

\* The result of a singleton that is its last expression.
LEMMA ReturnedExpression ==
  ASSUME BodyInv, lowering = "singleton", NEW ir, LoweredTo(ir, Len(body)), Closed(ir),
         \A k \in DOMAIN ir : ir[k].op # "returnvar",
         ir # <<>>, ir[Len(ir)].op = "do"
  PROVE  LET r == Append(Front(ir), Return(Last(ir).el)) IN
         /\ LoweredTo(r, Len(body)) /\ Closed(r) /\ Ending(r) /\ r # <<>>
         /\ r[Len(r)].op = "return" /\ r[Len(r)].el = Len(body)
  <1> DEFINE N == Len(body)
             L == Len(ir)
             i == ir[L].el
             r == Append(Front(ir), Return(Last(ir).el))
  <1>1. N \in Nat /\ body \in Seq(Element)
    BY Bodies
  <1>2. ir \in Seq(Statement) /\ L \in Nat /\ DOMAIN ir = 1 .. L
    BY <1>1, CallsAre
  <1>3. L \in DOMAIN ir
    BY <1>2
  <1>4. Translates(ir[L]) /\ Work(ir[L]) /\ i \in DOMAIN body /\ i \in 1 .. N
    <2>1. Translates(ir[L])
      BY <1>3 DEF LoweredTo, WellFormed, Helper
    <2>2. Work(ir[L])
      BY <1>1, <2>1, TranslatesWork
    <2>3. i \in DOMAIN body
      BY <2>1 DEF Translates
    <2> QED  BY <2>1, <2>2, <2>3, Bodies
  <1>5. i = N
    <2>1. PICK j \in DOMAIN ir : Work(ir[j]) /\ ir[j].el = N
      BY <1>4 DEF LoweredTo, WellFormed
    <2> QED  BY <1>3, <1>4, <2>1, LastWork
  <1>6. body[i].kind = "do"
    <2>1. ir[L] # Decl(i) /\ ir[L] # Bare(i) /\ ir[L] # Assign(i) /\ ir[L] # Return(i)
      BY DEF Decl, Bare, Assign, Return, Stmt
    <2>2. \A g : ir[L] # If(i, g)
      BY DEF If
    <2> QED  BY <1>4, <2>1, <2>2 DEF Translates
  <1>7. /\ Return(i) \in Statement /\ Translates(Return(i)) /\ Return(i).el = i
        /\ Return(i).op = "return" /\ Return(i).grp = 0 /\ ir[L].grp = 0
    <2>1. body[i].kind \notin Binders \cup {"assign"}
      BY <1>6 DEF Binders, DeclKinds
    <2>2. Return(i).grp = 0
      BY DEF Return, Stmt
    <2>3. ir[L] = Expr(i)
      <3>1. ir[L] # Decl(i) /\ ir[L] # Bare(i) /\ ir[L] # Assign(i) /\ ir[L] # Return(i)
        BY DEF Decl, Bare, Assign, Return, Stmt
      <3>2. \A g : ir[L] # If(i, g)
        BY DEF If
      <3> QED  BY <1>4, <3>1, <3>2 DEF Translates
    <2>4. Expr(i).grp = 0
      BY DEF Expr, Stmt
    <2> QED  BY <1>4, <1>5, <2>1, <2>2, <2>3, <2>4, WorkStatements DEF IsLast
  <1>8. /\ r \in Seq(Statement) /\ Len(r) = L /\ DOMAIN r = 1 .. L
        /\ \A k \in 1 .. L - 1 : r[k] = ir[k]
        /\ r[L] = Return(i)
    <2> HIDE DEF Statement
    <2>1. Front(ir) \in Seq(Statement) /\ Len(Front(ir)) = L - 1
          /\ \A k \in 1 .. L - 1 : Front(ir)[k] = ir[k]
      BY <1>2, <1>3 DEF Front
    <2>2. Last(ir).el = i
      BY DEF Last
    <2> HIDE DEF i, L
    <2>3. L - 1 \in Nat
      BY <1>2, <1>3
    <2> QED  BY <1>2, <1>3, <1>7, <2>1, <2>2, <2>3
  <1> HIDE DEF r
  <1>9. ASSUME NEW k \in DOMAIN ir
        PROVE  Alike(r[k], ir[k]) /\ (Helper(r[k]) \/ Translates(r[k]))
    <2>1. CASE k = L
      <3>1. Work(Return(i))
        BY <1>1, <1>7, TranslatesWork
      <3> QED  BY <1>4, <1>7, <1>8, <2>1, <3>1 DEF Alike
    <2>2. CASE k # L
      <3>1. r[k] = ir[k]
        BY <1>2, <1>8, <2>2
      <3> QED  BY <3>1 DEF Alike, LoweredTo, WellFormed
    <2> QED  BY <2>1, <2>2
  <1>10. LoweredTo(r, N) /\ Closed(r)
    <2>1. Len(r) = Len(ir) + 0 /\ \A k \in DOMAIN ir : k + 0 = k
      BY <1>2, <1>8
    <2> QED  BY <1>1, <1>8, <1>9, <2>1, Framed
  <1>11. \A k \in DOMAIN r : r[k].op # "returnvar"
    <2>1. ASSUME NEW k \in DOMAIN r  PROVE k = L \/ (k \in DOMAIN ir /\ r[k] = ir[k])
      BY <1>2, <1>8
    <2> QED  BY <1>7, <1>8, <2>1
  <1>12. r # <<>> /\ r[Len(r)].op = "return" /\ r[Len(r)].el = N
    BY <1>2, <1>3, <1>5, <1>7, <1>8
  <1> QED  BY <1>10, <1>11, <1>12 DEF Ending, r

\* A statement in front of others.
LEMMA Prepended ==
  ASSUME NEW b \in Seq(Statement), NEW x \in Statement
  PROVE  LET a == <<x>> \o b IN
         /\ a \in Seq(Statement) /\ Len(a) = Len(b) + 1 /\ DOMAIN a = 1 .. Len(b) + 1
         /\ a[1] = x /\ \A j \in 1 .. Len(b) : a[j + 1] = b[j]
  <1> HIDE DEF Statement
  <1> QED  OBVIOUS

\* The result of a singleton that is the value of a call.
LEMMA ReturnedCall ==
  ASSUME BodyInv, lowering = "singleton", NEW ir, LoweredTo(ir, Len(body)), Closed(ir),
         \A k \in DOMAIN ir : ir[k].op # "returnvar",
         NEW k \in DOMAIN ir, ir[k].op = "spawn", NEW v, v = ir[k].el,
         NEW r, r = ResultOfCall(ir, k, v)
  PROVE  /\ LoweredTo(r, Len(body)) /\ Closed(r) /\ Ending(r) /\ r # <<>>
         /\ r[Len(r)].op = "returnvar" /\ r[Len(r)].var = v
  <1> DEFINE N == Len(body)
             L == Len(ir)
             st == [ir[k] EXCEPT !.var = v]
             b == [ir EXCEPT ![k] = st]
             a == <<Var(v)>> \o b
  <1>1. N \in Nat /\ body \in Seq(Element) /\ DOMAIN body = 1 .. N
    BY Bodies
  <1>2. /\ ir \in Seq(Statement) /\ L \in Nat /\ DOMAIN ir = 1 .. L
        /\ \A j \in DOMAIN ir : ir[j] \in Statement
        /\ Work(ir[k]) /\ Translates(ir[k]) /\ v \in 1 .. N /\ v \in DOMAIN body
        /\ body[v].kind \in CallKinds
    BY <1>1, CallsAre
  <1>3. \E g : g \in Indices \ {0}
    BY <1>2, Bodies
  <1>4. /\ Var(v) \in Statement /\ Helper(Var(v)) /\ Var(v).op = "var"
        /\ ReturnVar(v) \in Statement /\ Helper(ReturnVar(v)) /\ ReturnVar(v).op = "returnvar"
        /\ ReturnVar(v).var = v
    BY <1>2, <1>3, HelperStatements
  <1>5. /\ st \in Statement /\ st.op = "spawn" /\ st.el = v /\ st.var = v
        /\ st.grp = ir[k].grp /\ st.lazy = ir[k].lazy
    <2>1. ir[k] \in Statement /\ v \in Nat
      BY <1>2
    <2> QED  BY <2>1 DEF Statement
  <1> HIDE DEF st
  <1>6. Translates(st) /\ Work(st)
    <2>1. ir[k].lazy = IsScalar(v) /\ ir[k].grp \in Indices \ {0}
      <3>1. ir[k] # Decl(v) /\ ir[k] # Bare(v) /\ ir[k] # Assign(v) /\ ir[k] # Expr(v)
            /\ ir[k] # Return(v)
        BY DEF Decl, Bare, Assign, Expr, Return, Stmt
      <3>2. \A g : ir[k] # If(v, g)
        BY DEF If
      <3> QED  BY <1>2, <3>1, <3>2 DEF Translates
    <2>2. Translates(st)
      BY <1>2, <1>5, <2>1 DEF Translates
    <2> QED  BY <1>1, <2>2, TranslatesWork
  <1>7. /\ b \in Seq(Statement) /\ Len(b) = L
        /\ b[k] = st /\ \A j \in DOMAIN ir : j # k => b[j] = ir[j]
    <2> HIDE DEF Statement
    <2> QED  BY <1>2, <1>5
  <1> HIDE DEF b
  <1>8. /\ a \in Seq(Statement) /\ Len(a) = L + 1 /\ DOMAIN a = 1 .. L + 1
        /\ a[1] = Var(v) /\ \A j \in DOMAIN ir : a[j + 1] = b[j]
    <2> DEFINE x == Var(v)
    <2>1. a = <<x>> \o b /\ x \in Statement
      BY <1>4 DEF a
    <2> HIDE DEF a, x
    <2>2. /\ a \in Seq(Statement) /\ Len(a) = Len(b) + 1 /\ DOMAIN a = 1 .. Len(b) + 1
          /\ a[1] = x /\ \A j \in 1 .. Len(b) : a[j + 1] = b[j]
      BY ONLY <1>7, <2>1, Prepended
    <2> QED  BY <1>2, <1>7, <2>2 DEF x
  <1>0. r = Append(a, ReturnVar(v))
    <2>1. [ir EXCEPT ![k].var = v] = b
      BY DEF b, st
    <2>2. a \o <<ReturnVar(v)>> = Append(a, ReturnVar(v))
      <3> HIDE DEF Statement, a
      <3> QED  BY <1>4, <1>8, Concatenated
    <2> QED  BY <2>1, <2>2 DEF a, ResultOfCall
  <1> HIDE DEF a
  <1>9. ASSUME NEW j \in DOMAIN ir
        PROVE  Alike(a[j + 1], ir[j]) /\ (Helper(a[j + 1]) \/ Translates(a[j + 1]))
    <2>1. CASE j = k
      BY <1>2, <1>5, <1>6, <1>7, <1>8, <2>1 DEF Alike
    <2>2. CASE j # k
      <3>1. a[j + 1] = ir[j]
        BY <1>7, <1>8, <2>2
      <3> QED  BY <3>1 DEF Alike, LoweredTo, WellFormed
    <2> QED  BY <2>1, <2>2
  <1>10. LoweredTo(a, N) /\ Closed(a)
    <2>1. Len(a) = Len(ir) + 1
      BY <1>8
    <2> QED  BY <1>1, <1>4, <1>8, <1>9, <2>1, Framed
  <1>11. LoweredTo(r, N)
    <2>1. ~Work(ReturnVar(v))
      BY <1>4 DEF Helper
    <2>2. ReturnVar(v).op = "returnvar" /\ N \in Nat
      BY <1>1, <1>4
    <2> QED  BY ONLY <1>0, <1>1, <1>4, <1>10, <2>1, <2>2, AppendKeeps
  <1>12. Closed(r)
    BY <1>0, <1>4, <1>8, <1>10, StaysClosed
  <1>13. /\ Len(r) = L + 2 /\ DOMAIN r = 1 .. L + 2
         /\ \A j \in 1 .. L + 1 : r[j] = a[j]
         /\ r[L + 2] = ReturnVar(v)
    <2>1. /\ Len(r) = Len(a) + 1 /\ DOMAIN r = 1 .. Len(a) + 1
          /\ \A j \in 1 .. Len(a) : r[j] = a[j]
          /\ r[Len(a) + 1] = ReturnVar(v)
      BY ONLY <1>4, <1>8, <1>0, Appended
    <2> QED  BY <1>2, <1>8, <2>1
  <1>14. ASSUME NEW j \in DOMAIN r, r[j].op = "returnvar"  PROVE j = L + 2
    <2> SUFFICES ASSUME j \in 1 .. L + 1  PROVE FALSE
      BY <1>2, <1>13
    <2>1. j # 1
      BY <1>2, <1>4, <1>8, <1>13, <1>14
    <2>2. j - 1 \in DOMAIN ir /\ (j - 1) + 1 = j
      BY <1>2, <2>1
    <2>3. r[j] = b[j - 1]
      BY <1>8, <1>13, <2>2
    <2>4. j - 1 = k => r[j].op = "spawn"
      BY <1>5, <1>7, <2>3
    <2>5. j - 1 # k => r[j] = ir[j - 1]
      BY <1>7, <2>2, <2>3
    <2> QED  BY <1>14, <2>2, <2>4, <2>5
  <1>15. \E j \in DOMAIN r : r[j].op = "spawn" /\ r[j].el = v /\ r[j].var = v
    <2>1. k + 1 \in DOMAIN r /\ r[k + 1] = st
      BY <1>2, <1>7, <1>8, <1>13
    <2> QED  BY <1>5, <2>1
  <1>16. r # <<>> /\ r[Len(r)].op = "returnvar" /\ r[Len(r)].var = v
    BY <1>2, <1>4, <1>13
  <1>17. Ending(r)
    BY <1>13, <1>14, <1>15, <1>16 DEF Ending, CarriesOver
  <1> QED  BY <1>11, <1>12, <1>16, <1>17

\* The body of a singleton, whichever elements it has: complete, and its result
\* is its last element (lowerSingletonBodyStmts, lowerBodyOnlySingleton).
LEMMA SingletonShape ==
  ASSUME BodyInv, lowering = "singleton"
  PROVE  Shape(SingletonBody)
  <1> DEFINE N == Len(body)
             q == singletonState[N]
             t == Flush(q)
             ir == t.ir
             voids == {k \in DOMAIN ir : ir[k].op = "spawn" /\ ir[k].var = 0}
             r == IF result = "unit" THEN Append(ir, ReturnUnit) ELSE WithResult(ir)
             Kept == ResultsKept /\ WellTyped /\ result # "unit"
             Good(x) == /\ LoweredTo(x, N) /\ Closed(x) /\ Ending(x) /\ x # <<>>
                        /\ x[Len(x)].op \in {"return", "returnvar"}
             Ends(x) == \/ x[Len(x)].op = "return" /\ x[Len(x)].el = N
                        \/ x[Len(x)].op = "returnvar" /\ x[Len(x)].var = N
  <1>1. N \in Nat /\ body \in Seq(Element) /\ DOMAIN body = 1 .. N
    BY Bodies
  <1>2. SingletonInv(q, N)
    BY EverySingletonState
  <1>3. /\ Batching(t, N) /\ t.batch = {} /\ Closed(ir)
        /\ IF q.batch = {} THEN t = q ELSE ir = Append(q.ir, Wait(q.groups))
    <2>1. Batching(q, N)
      BY <1>2 DEF SingletonInv
    <2> HIDE DEF q
    <2> QED  BY <1>1, <2>1, Flushes
  <1>4. q.ir \in Seq(Statement) /\ q.groups \in Nat
    <2> HIDE DEF q, Statement
    <2> QED  BY <1>1, <1>2 DEF SingletonInv, Batching
  <1>5. LoweredTo(ir, N)
    BY <1>3 DEF Batching, Ready
  <1>6. \A k \in DOMAIN ir : ir[k].op \notin {"return", "returnvar", "bare"}
    <2> HIDE DEF t
    <2> QED  BY <1>3 DEF Batching, Ready
  <1>7. \A k \in DOMAIN ir : ir[k].op = "spawn" =>
          (ir[k].var = 0 <=> body[ir[k].el].kind \in {"unit", "inst"})
    <2> HIDE DEF t
    <2> QED  BY <1>3 DEF Batching, Ready
  <1>8. ir \in Seq(Statement) /\ Len(ir) \in Nat /\ DOMAIN ir = 1 .. Len(ir)
    <2> HIDE DEF t
    <2> QED  BY <1>1, <1>5, CallsAre
  <1>9. SingletonBody = r
    BY DEF SingletonBody
  <1>10. Kept => N > 0 /\ body[N].kind \in {"unit", "inst", "do"}
    <2> SUFFICES ASSUME Kept  PROVE N > 0 /\ body[N].kind \in {"unit", "inst", "do"}
      OBVIOUS
    <2>1. body # <<>> /\ body[N].kind \in {"unit", "inst", "do", "ifval"}
      BY DEF WellTyped, Last
    <2>2. N > 0
      BY <1>1, <2>1
    <2>3. body[N].kind \in Kinds[lowering]
      <3>1. body[N] \in Element
        BY <1>1, <2>2
      <3> QED  BY <3>1 DEF Element
    <2>4. "ifval" \notin Kinds["singleton"]
      BY DEF ResultsKept, BodyInv
    <2> QED  BY <2>1, <2>2, <2>3, <2>4
  <1>11. Kept /\ body[N].kind = "do" => ir # <<>> /\ Last(ir).op = "do"
    <2> SUFFICES ASSUME Kept, body[N].kind = "do"
                 PROVE  ir # <<>> /\ Last(ir).op = "do"
      OBVIOUS
    <2>1. q.batch = {} /\ q.ir # <<>> /\ q.ir[Len(q.ir)] = Expr(N)
      BY <1>2, <1>10 DEF SingletonInv, CallKinds
    <2>2. Expr(N).op = "do"
      BY DEF Expr, Stmt
    <2>3. t = q
      BY <1>3, <2>1
    <2> HIDE DEF t, q
    <2> QED  BY <2>1, <2>2, <2>3 DEF Last
  <1>12. Kept /\ body[N].kind \in {"unit", "inst"} =>
           /\ ir # <<>> /\ Last(ir).op = "wait"
           /\ \E j \in voids : ir[j].el = N /\ \A k \in voids : k <= j
    <2> SUFFICES ASSUME Kept, body[N].kind \in {"unit", "inst"}
                 PROVE  /\ ir # <<>> /\ Last(ir).op = "wait"
                        /\ \E j \in voids : ir[j].el = N /\ \A k \in voids : k <= j
      OBVIOUS
    <2>1. q.batch # {}
      BY <1>2, <1>10 DEF SingletonInv, CallKinds
    <2>2. ir = Append(q.ir, Wait(q.groups))
      BY <1>3, <2>1
    <2>3. ir # <<>> /\ Last(ir).op = "wait"
      <3>1. Wait(q.groups).op = "wait"
        BY DEF Wait, Stmt
      <3>2. Len(ir) = Len(q.ir) + 1 /\ ir[Len(ir)] = Wait(q.groups)
        <4> HIDE DEF t, q, Statement
        <4>1. Wait(q.groups) \in Statement
          <5> USE DEF Statement
          <5>1. "wait" \in Ops
            BY DEF Ops
          <5> QED  BY <1>4, <5>1, IsStatement DEF Wait, Stmt
        <4> QED  BY <1>4, <2>2, <4>1, Appended
      <3> HIDE DEF t, q
      <3> QED  BY <1>4, <1>8, <3>1, <3>2 DEF Last
    <2>4. PICK j \in DOMAIN ir : Work(ir[j]) /\ ir[j].el = N
      <3>1. N \in 1 .. N
        BY <1>1, <1>10
      <3> HIDE DEF t, N
      <3> QED  BY <1>5, <3>1 DEF LoweredTo, WellFormed
    <2>5. ir[j].op = "spawn"
      <3>1. Translates(ir[j])
        <4> HIDE DEF t
        <4> QED  BY <1>5, <2>4 DEF LoweredTo, WellFormed, Helper
      <3>2. ir[j] # Return(N)
        BY <1>6, <2>4 DEF Return, Stmt
      <3> HIDE DEF t, N
      <3> QED  BY <2>4, <3>1, <3>2 DEF Translates, DeclKinds, BranchKinds
    <2>6. j \in voids
      <3> HIDE DEF t
      <3> QED  BY <1>7, <2>4, <2>5
    <2>7. ASSUME NEW k \in voids  PROVE k <= j
      <3>1. k \in DOMAIN ir /\ Work(ir[k])
        <4> HIDE DEF t
        <4> QED  BY <1>1, <1>5, CallsAre
      <3> HIDE DEF t
      <3> QED  BY <1>5, <2>4, <3>1, LastWork
    <2> QED  BY <2>3, <2>4, <2>6, <2>7
  <1> HIDE DEF t, q
  <1>13. CASE result = "unit"
    <2>1. Good(r)
      BY <1>1, <1>3, <1>5, <1>6, <1>13, Ended
    <2> QED  BY <1>9, <1>13, <2>1 DEF Shape
  <1>14. CASE result # "unit" /\ ir # <<>> /\ Last(ir).op = "do"
    <2>1. r = Append(Front(ir), Return(Last(ir).el))
      BY <1>14 DEF WithResult
    <2>2. ir[Len(ir)].op = "do"
      BY <1>14 DEF Last
    <2>3. \A k \in DOMAIN ir : ir[k].op # "returnvar"
      BY <1>6
    <2> HIDE DEF r
    <2>4. Good(r) /\ Ends(r)
      BY <1>3, <1>5, <1>14, <2>1, <2>2, <2>3, ReturnedExpression
    <2> QED  BY <1>9, <2>4 DEF Shape
  <1>15. CASE /\ result # "unit" /\ ~(ir # <<>> /\ Last(ir).op = "do")
              /\ ir # <<>> /\ Last(ir).op = "wait" /\ voids # {}
    <2> DEFINE k == CHOOSE x \in voids : \A y \in voids : y <= x
               v == ir[k].el
    <2>1. r = ResultOfCall(ir, k, v)
      BY <1>15 DEF WithResult
    <2>2. k \in voids /\ \A y \in voids : y <= k
      <3>1. voids \in SUBSET (1 .. Len(ir))
        BY <1>8
      <3>2. \E x \in voids : \A y \in voids : y <= x
        <4> HIDE DEF voids
        <4> QED  BY <1>8, <1>15, <3>1, Greatest
      <3> HIDE DEF voids
      <3> QED  BY <3>2
    <2> HIDE DEF k, r
    <2>3. k \in DOMAIN ir /\ ir[k].op = "spawn" /\ \A j \in DOMAIN ir : ir[j].op # "returnvar"
      BY <1>6, <2>2
    <2>4. v = ir[k].el
      OBVIOUS
    <2> HIDE DEF v
    <2>5. Good(r) /\ r[Len(r)].op = "returnvar" /\ r[Len(r)].var = v
      <3> HIDE DEF ir
      <3>1. BodyInv /\ lowering = "singleton"
        OBVIOUS
      <3> QED  BY ONLY <1>3, <1>5, <2>1, <2>3, <2>4, <3>1, ReturnedCall
    <2>6. Kept => v = N
      <3> SUFFICES ASSUME Kept  PROVE v = N
        OBVIOUS
      <3>1. body[N].kind \in {"unit", "inst"}
        BY <1>10, <1>11, <1>15
      <3>2. PICK j \in voids : ir[j].el = N /\ \A x \in voids : x <= j
        BY <1>12, <3>1
      <3>3. j \in Nat /\ k \in Nat /\ j <= k /\ k <= j
        BY <1>8, <2>2, <3>2
      <3> QED  BY <2>4, <3>2, <3>3
    <2> QED  BY <1>9, <2>5, <2>6 DEF Shape
  <1>16. CASE /\ result # "unit" /\ ~(ir # <<>> /\ Last(ir).op = "do")
              /\ ~(ir # <<>> /\ Last(ir).op = "wait" /\ voids # {})
    <2>1. r = Append(ir, ReturnUnit)
      BY <1>16 DEF WithResult
    <2>2. ~Kept
      BY <1>10, <1>11, <1>12, <1>16
    <2> HIDE DEF r
    <2>3. Good(r)
      BY <1>1, <1>3, <1>5, <1>6, <2>1, Ended
    <2> QED  BY <1>9, <2>2, <2>3 DEF Shape
  <1> QED  BY <1>13, <1>14, <1>15, <1>16

\* Whatever the body, its lowering is complete (lower.go).
LEMMA LoweredShape ==
  ASSUME BodyInv
  PROVE  Shape(Lowered)
  <1>1. lowering \in {"method", "singleton"}
    BY Bodies
  <1> QED  BY <1>1, MethodShape, SingletonShape DEF Lowered

-----------------------------------------------------------------------------
(* The order in which the generated code has the statements run.            *)

\* What the statements of the lowering of a body are.
LEMMA Works ==
  ASSUME BodyInv, NEW ir, Shape(ir), NEW k \in DOMAIN ir, NEW st, st = ir[k]
  PROVE  /\ st \in Statement /\ Len(ir) \in Nat /\ DOMAIN ir = 1 .. Len(ir)
         /\ Work(st) => /\ Translates(st) /\ st.el \in DOMAIN body
                        /\ st.op \in {"spawn", "decl", "bare", "assign", "if", "do", "return"}
                        /\ st.op = "decl" => body[st.el].kind \in DeclKinds
                        /\ st.op = "bare" => body[st.el].kind = "typed" /\ lowering = "method"
                        /\ st.op = "assign" => body[st.el].kind = "assign"
                        /\ st.op \in {"decl", "bare"} => st.var = st.el
                        /\ st.op = "assign" => st.var = body[st.el].tgt
                        /\ st.op \in {"if", "do", "return"} => st.var = 0
                        /\ st.op = "spawn" => /\ st.var \in {0, st.el} /\ st.grp \in Indices
                                              /\ body[st.el].kind \in CallKinds
                        /\ body[st.el].kind \in Binders =>
                             st.op \in {"spawn", "decl", "bare"} /\ st.var = st.el
                        /\ st.op = "if" =>
                             /\ body[st.el].kind \in BranchKinds
                             /\ st = If(st.el, IF lowering = "method" THEN MethodGroup ELSE 0)
         /\ st.op = "spawn" => Work(st)
         /\ st.op \in {"decl", "bare", "assign", "if", "do"} => Work(st)
         /\ ~Work(st) => /\ st.op \in {"group", "var", "wait", "return", "returnvar"}
                         /\ st.op = "wait" => st.grp \in Indices
                         /\ st.op = "returnvar" => st.var \in DOMAIN body
                         /\ st.op # "returnvar" => st.el = 0
  <1>1. body \in Seq(Element) /\ Len(body) \in Nat
    BY Bodies
  <1>2. LoweredTo(ir, Len(body))
    BY DEF Shape
  <1>3. ir \in Seq(Statement) /\ Len(ir) \in Nat /\ DOMAIN ir = 1 .. Len(ir) /\ st \in Statement
    BY <1>1, <1>2, CallsAre
  <1>4. Helper(st) \/ Translates(st)
    BY <1>2 DEF LoweredTo, WellFormed
  <1>5. Translates(st) => Work(st)
    BY <1>1, TranslatesWork
  <1>6. Helper(st) => /\ ~Work(st) /\ st.op \in {"group", "var", "wait", "return", "returnvar"}
                      /\ st.op = "wait" => st.grp \in Indices
                      /\ st.op = "returnvar" => st.var \in DOMAIN body
                      /\ st.op # "returnvar" => st.el = 0
    BY DEF Helper, Work
  <1>7. ASSUME Translates(st)
        PROVE  /\ st.el \in DOMAIN body
               /\ st.op \in {"spawn", "decl", "bare", "assign", "if", "do", "return"}
               /\ st.op = "decl" => body[st.el].kind \in DeclKinds
               /\ st.op = "bare" => body[st.el].kind = "typed" /\ lowering = "method"
               /\ st.op = "assign" => body[st.el].kind = "assign"
               /\ st.op \in {"decl", "bare"} => st.var = st.el
               /\ st.op = "assign" => st.var = body[st.el].tgt
               /\ st.op \in {"if", "do", "return"} => st.var = 0
               /\ st.op = "spawn" => /\ st.var \in {0, st.el} /\ st.grp \in Indices
                                     /\ body[st.el].kind \in CallKinds
               /\ body[st.el].kind \in Binders =>
                    st.op \in {"spawn", "decl", "bare"} /\ st.var = st.el
               /\ st.op = "if" =>
                    /\ body[st.el].kind \in BranchKinds
                    /\ st = If(st.el, IF lowering = "method" THEN MethodGroup ELSE 0)
    <2> DEFINE i == st.el
               h == IF lowering = "method" THEN MethodGroup ELSE 0
    <2>1. /\ Decl(i).op = "decl" /\ Bare(i).op = "bare" /\ Assign(i).op = "assign"
          /\ Expr(i).op = "do" /\ Return(i).op = "return" /\ If(i, h).op = "if"
          /\ Decl(i).var = i /\ Bare(i).var = i /\ Assign(i).var = body[i].tgt
          /\ Expr(i).var = 0 /\ Return(i).var = 0 /\ If(i, h).var = 0
      BY DEF Decl, Bare, Assign, Expr, Return, If, Stmt
    <2>2. i \in DOMAIN body
      BY <1>7 DEF Translates
    <2>3. CASE st.op = "spawn"
      <3>1. /\ body[i].kind \in CallKinds /\ st.var \in {0, i} /\ st.grp \in Indices
            /\ body[i].kind \in {"bind", "lazy"} => st.var = i
        <4>1. \A g : If(i, g).op = "if"
          BY DEF If
        <4> HIDE DEF h
        <4> QED  BY <1>7, <2>1, <2>3, <4>1 DEF Translates
      <3>2. body[i].kind \in Binders => body[i].kind \in {"bind", "lazy"}
        BY <3>1 DEF CallKinds, Binders, DeclKinds
      <3> QED  BY <2>2, <2>3, <3>1, <3>2
    <2>4. CASE st = Decl(i) /\ body[i].kind \in DeclKinds
      BY <2>1, <2>2, <2>4
    <2>5. CASE st = Bare(i) /\ body[i].kind = "typed" /\ lowering = "method"
      BY <2>1, <2>2, <2>5
    <2>6. CASE st = Assign(i) /\ body[i].kind = "assign"
      BY <2>1, <2>2, <2>6 DEF Binders, DeclKinds
    <2>7. CASE body[i].kind \in BranchKinds /\ st = If(i, h)
      BY <2>1, <2>2, <2>7 DEF Binders, DeclKinds, BranchKinds
    <2>8. CASE st = Expr(i) /\ body[i].kind = "do"
      BY <2>1, <2>2, <2>8 DEF Binders, DeclKinds
    <2>9. CASE st = Return(i) /\ body[i].kind \notin Binders \cup {"assign"}
      BY <2>1, <2>2, <2>9
    <2> HIDE DEF h
    <2>10. \/ st.op = "spawn" \/ (st = Decl(i) /\ body[i].kind \in DeclKinds)
           \/ (st = Bare(i) /\ body[i].kind = "typed" /\ lowering = "method")
           \/ (st = Assign(i) /\ body[i].kind = "assign")
           \/ (body[i].kind \in BranchKinds /\ st = If(i, h))
           \/ (st = Expr(i) /\ body[i].kind = "do")
           \/ (st = Return(i) /\ body[i].kind \notin Binders \cup {"assign"})
      BY <1>7 DEF Translates, h
    <2> QED  BY <2>3, <2>4, <2>5, <2>6, <2>7, <2>8, <2>9, <2>10
  <1> QED  BY <1>3, <1>4, <1>5, <1>6, <1>7

\* The statements of elements are in the order of the elements.
LEMMA Ordered ==
  ASSUME BodyInv, NEW ir, Shape(ir), NEW j \in DOMAIN ir, NEW k \in DOMAIN ir,
         Work(ir[j]), Work(ir[k])
  PROVE  /\ j < k <=> ir[j].el < ir[k].el
         /\ ir[j].el = ir[k].el => j = k
  <1>1. ir[j].el \in DOMAIN body /\ ir[k].el \in DOMAIN body /\ DOMAIN ir \subseteq Nat
    BY Works
  <1>2. ir[j].el \in Nat /\ ir[k].el \in Nat
    BY <1>1, Bodies
  <1>3. (j < k => ir[j].el < ir[k].el) /\ (k < j => ir[k].el < ir[j].el)
    BY DEF Shape, LoweredTo, InOrder
  <1> QED  BY <1>1, <1>2, <1>3

\* Every element has a statement.
LEMMA WorkOf ==
  ASSUME BodyInv, NEW ir, Shape(ir), NEW i \in DOMAIN body
  PROVE  \E k \in DOMAIN ir : Work(ir[k]) /\ ir[k].el = i
  BY Bodies DEF Shape, LoweredTo, WellFormed

\* What runs out of turn: declarations before the first Wait.
LEMMA Turns ==
  ASSUME BodyInv, NEW ir, Shape(ir), NEW k \in DOMAIN ir
  PROVE  /\ Turn(ir, k) \in {1, 2, 3}
         /\ ir[k].op \notin {"group", "var", "decl"} => Turn(ir, k) = 3
         /\ Turn(ir, k) = 1 => ir[k].op \in {"group", "var"}
         /\ Turn(ir, k) = 2 => ir[k].op = "decl" /\ \A w \in 1 .. k : ir[w].op # "wait"
         /\ Turn(ir, k) = 2 => \A j \in 1 .. k : ir[j].op = "decl" => Turn(ir, j) = 2
  <1>1. DOMAIN ir = 1 .. Len(ir) /\ Len(ir) \in Nat
    BY Works
  <1>2. \A j \in DOMAIN ir :
          /\ j \in HoistedAt(ir) => ir[j].op \in {"group", "var"}
          /\ j \in SplitAt(ir) => ir[j].op = "decl" /\ \A w \in 1 .. j : ir[w].op # "wait"
    BY DEF HoistedAt, SplitAt, BeforeWait, Hoisted, Split
  <1>3. ASSUME k \in SplitAt(ir), NEW j \in 1 .. k, ir[j].op = "decl"
        PROVE  j \in SplitAt(ir) /\ j \notin HoistedAt(ir)
    <2>1. j \in DOMAIN ir /\ 1 .. j \subseteq 1 .. k
      BY <1>1
    <2> QED  BY <1>3, <2>1 DEF HoistedAt, SplitAt, BeforeWait, Hoisted, Split
  <1> QED  BY <1>2, <1>3 DEF Turn

LEMMA Turned ==
  ASSUME BodyInv, NEW ir, Shape(ir), NEW k \in DOMAIN ir, NEW j \in DOMAIN ir
  PROVE  /\ j \in Past(ir, k) /\ ir[j].op \notin {"group", "var", "decl"} => j < k
         /\ j < k /\ ir[k].op \notin {"group", "var", "decl"} => j \in Past(ir, k)
         /\ Turn(ir, k) = 2 /\ j < k /\ ir[j].op = "decl" => j \in Past(ir, k)
         /\ k \notin Past(ir, k)
  <1>1. DOMAIN ir = 1 .. Len(ir) /\ Len(ir) \in Nat
    BY Works
  <1>2. Turn(ir, j) \in {1, 2, 3} /\ Turn(ir, k) \in {1, 2, 3}
    BY Turns
  <1>3. /\ ir[j].op \notin {"group", "var", "decl"} => Turn(ir, j) = 3
        /\ ir[k].op \notin {"group", "var", "decl"} => Turn(ir, k) = 3
        /\ Turn(ir, k) = 2 /\ j < k /\ ir[j].op = "decl" => Turn(ir, j) = 2
    BY <1>1, Turns
  <1> QED  BY <1>1, <1>2, <1>3 DEF Past

-----------------------------------------------------------------------------
(* What one statement changes.                                              *)

LEMMA FreshMachine ==
  ASSUME BodyInv
  PROVE  Fresh \in Machine /\ Fresh.started = <<>> /\ \A g \in Indices : Fresh.group[g] = {}
  <1>1. <<>> \in Seq(Nat)
    OBVIOUS
  <1> QED  BY <1>1 DEF Fresh, Machine

LEMMA Observed ==
  ASSUME BodyInv, NEW m \in Machine, NEW i, i = 0 \/ i \in DOMAIN body,
         NEW n, n = Observe(m, i)
  PROVE  /\ n \in Machine /\ n.store = m.store /\ n.group = m.group
         /\ n.started = m.started /\ n.done = m.done /\ n.result = m.result
         /\ \A j \in DOMAIN body :
              n.seen[j] = IF j = i /\ body[j].reads # 0 THEN m.store[body[j].reads]
                                                        ELSE m.seen[j]
  <1>1. CASE i # 0 /\ body[i].reads # 0
    <2>1. n = [m EXCEPT !.seen[i] = m.store[body[i].reads]]
      BY <1>1 DEF Observe
    <2>2. i \in DOMAIN body /\ body[i].reads \in 1 .. i - 1
      BY <1>1 DEF BodyInv
    <2>3. body[i].reads \in DOMAIN body
      BY <2>2, Bodies
    <2>4. m.store[body[i].reads] \in Nat
      BY <2>3 DEF Machine
    <2> DEFINE x == m.store[body[i].reads]
    <2> HIDE DEF x
    <2>5. n = [m EXCEPT !.seen[i] = x] /\ x \in Nat
      BY <2>1, <2>4 DEF x
    <2>6. /\ n \in Machine /\ n.store = m.store /\ n.group = m.group
          /\ n.started = m.started /\ n.done = m.done /\ n.result = m.result
      BY <2>2, <2>5 DEF Machine
    <2>7. \A j \in DOMAIN body : n.seen[j] = IF j = i THEN x ELSE m.seen[j]
      BY <2>2, <2>5 DEF Machine
    <2> QED  BY <1>1, <2>6, <2>7 DEF x
  <1>2. CASE ~(i # 0 /\ body[i].reads # 0)
    <2>1. n = m
      BY <1>2 DEF Observe
    <2>2. 0 \notin DOMAIN body
      BY Bodies
    <2> QED  BY <1>2, <2>1, <2>2
  <1> QED  BY <1>1, <1>2

LEMMA Stored ==
  ASSUME BodyInv, NEW m \in Machine, NEW v, v = 0 \/ v \in DOMAIN body, NEW i \in Nat
  PROVE  LET n == Store(m, v, i) IN
         /\ n \in Machine /\ n.seen = m.seen /\ n.group = m.group
         /\ n.started = m.started /\ n.done = m.done /\ n.result = m.result
         /\ \A w \in DOMAIN body : n.store[w] = IF w = v THEN i ELSE m.store[w]
  <1>1. 0 \notin DOMAIN body
    BY Bodies
  <1> QED  BY <1>1 DEF Store, Machine

\* A call that is spawned: emitSpawnStmt.
LEMMA Spawns ==
  ASSUME BodyInv, NEW m \in Machine, NEW st \in Statement, st.el \in DOMAIN body,
         st.var = 0 \/ st.var \in DOMAIN body, st.grp \in Indices
  PROVE  LET n == RunSpawn(m, st) IN
         /\ n \in Machine /\ n.done = m.done /\ n.result = m.result
         /\ n.started = Append(m.started, st.el)
         /\ \A g \in Indices :
              n.group[g] = IF g = st.grp THEN m.group[g] \cup {st} ELSE m.group[g]
         /\ \A w \in DOMAIN body :
              n.store[w] = IF st.lazy /\ w = st.var THEN st.el ELSE m.store[w]
         /\ \A j \in DOMAIN body :
              n.seen[j] = IF j = st.el /\ body[j].reads # 0 THEN m.store[body[j].reads]
                                                            ELSE m.seen[j]
  <1> DEFINE n == RunSpawn(m, st)
             a == Observe(m, st.el)
             b == Store(a, st.var, st.el)
             c == IF st.lazy THEN b ELSE a
  <1>1. st.el \in Nat /\ st.lazy \in BOOLEAN
    BY Bodies DEF Statement
  <1>2. /\ a \in Machine /\ a.store = m.store /\ a.group = m.group
        /\ a.started = m.started /\ a.done = m.done /\ a.result = m.result
        /\ \A j \in DOMAIN body :
             a.seen[j] = IF j = st.el /\ body[j].reads # 0 THEN m.store[body[j].reads]
                                                           ELSE m.seen[j]
    <2>1. a = Observe(m, st.el)
      OBVIOUS
    <2>2. st.el \in DOMAIN body /\ m \in Machine /\ BodyInv
      OBVIOUS
    <2> HIDE DEF a
    <2> QED  BY ONLY <2>1, <2>2, Observed
  <1>9. b = Store(a, st.var, st.el)
    OBVIOUS
  <1> HIDE DEF a
  <1>3. /\ b \in Machine /\ b.seen = a.seen /\ b.group = a.group
        /\ b.started = a.started /\ b.done = a.done /\ b.result = a.result
        /\ \A w \in DOMAIN body : b.store[w] = IF w = st.var THEN st.el ELSE a.store[w]
    <2>2. (st.var = 0 \/ st.var \in DOMAIN body) /\ a \in Machine /\ BodyInv /\ st.el \in Nat
      BY <1>1, <1>2
    <2> HIDE DEF b
    <2> QED  BY ONLY <2>2, <1>9, Stored
  <1> HIDE DEF b
  <1>4. /\ c \in Machine /\ c.seen = a.seen /\ c.group = m.group
        /\ c.started = m.started /\ c.done = m.done /\ c.result = m.result
        /\ \A w \in DOMAIN body :
             c.store[w] = IF st.lazy /\ w = st.var THEN st.el ELSE m.store[w]
    BY <1>1, <1>2, <1>3
  <1>5. n = [c EXCEPT !.group[st.grp] = @ \cup {st}, !.started = Append(@, st.el)]
    BY DEF RunSpawn, a, b
  <1> HIDE DEF c, n
  <1>6. Append(m.started, st.el) \in Seq(Nat)
    BY <1>1 DEF Machine
  <1>7. c.group[st.grp] \cup {st} \in SUBSET Statement
    BY <1>4 DEF Machine
  <1>8. n \in Machine /\ n.done = c.done /\ n.result = c.result /\ n.store = c.store
        /\ n.seen = c.seen /\ n.started = Append(c.started, st.el)
        /\ \A g \in Indices :
             n.group[g] = IF g = st.grp THEN c.group[g] \cup {st} ELSE c.group[g]
    <2> DEFINE G == c.group[st.grp] \cup {st}
               A == Append(c.started, st.el)
    <2>1. n = [c EXCEPT !.group[st.grp] = G, !.started = A]
      BY <1>5
    <2>2. G \in SUBSET Statement /\ A \in Seq(Nat)
      BY <1>4, <1>6, <1>7
    <2> HIDE DEF G, A
    <2>4. n.group = [c.group EXCEPT ![st.grp] = G]
      BY <1>4, <2>1 DEF Machine
    <2>6. n.done = c.done /\ n.result = c.result /\ n.store = c.store /\ n.seen = c.seen
      BY <1>4, <2>1 DEF Machine
    <2>7. n.started = A
      BY <1>4, <2>1 DEF Machine
    <2>8. n.group \in [Indices -> SUBSET Statement]
      BY <1>4, <2>2, <2>4 DEF Machine
    <2>9. n \in Machine
      BY <1>4, <2>1, <2>2, <2>6, <2>7, <2>8 DEF Machine
    <2>3. /\ n \in Machine /\ n.done = c.done /\ n.result = c.result /\ n.store = c.store
          /\ n.seen = c.seen /\ n.started = A
      BY <2>6, <2>7, <2>9
    <2>5. \A g \in Indices : n.group[g] = IF g = st.grp THEN G ELSE c.group[g]
      BY <1>4, <2>4 DEF Machine
    <2> QED  BY <2>3, <2>5 DEF G, A
  <1>10. n \in Machine /\ n.done = m.done /\ n.result = m.result
         /\ n.started = Append(m.started, st.el)
    BY ONLY <1>4, <1>8
  <1>11. \A g \in Indices :
           n.group[g] = IF g = st.grp THEN m.group[g] \cup {st} ELSE m.group[g]
    BY ONLY <1>4, <1>8
  <1>12. \A w \in DOMAIN body :
           n.store[w] = IF st.lazy /\ w = st.var THEN st.el ELSE m.store[w]
    BY ONLY <1>4, <1>8
  <1>13. \A j \in DOMAIN body :
           n.seen[j] = IF j = st.el /\ body[j].reads # 0 THEN m.store[body[j].reads]
                                                         ELSE m.seen[j]
    BY ONLY <1>2, <1>4, <1>8
  <1> QED  BY <1>10, <1>11, <1>12, <1>13 DEF n

LEMMA WaitsFor ==
  ASSUME BodyInv, NEW m \in Machine, NEW st \in Statement, st.grp \in Indices
  PROVE  LET n == RunWait(m, st) IN
         /\ n \in Machine /\ n.seen = m.seen /\ n.group = m.group
         /\ n.started = m.started /\ n.result = m.result /\ m.done \subseteq n.done
         /\ \A c \in m.group[st.grp] : c.el \in n.done
         /\ \A v \in DOMAIN body :
              n.store[v] = IF \E c \in m.group[st.grp] : ~c.lazy /\ c.var = v
                           THEN v ELSE m.store[v]
  <1> DEFINE n == RunWait(m, st)
             calls == m.group[st.grp]
             els == {c.el : c \in calls}
             store == [v \in DOMAIN body |->
                        IF \E c \in calls : ~c.lazy /\ c.var = v THEN v ELSE m.store[v]]
  <1>1. els \subseteq Nat
    BY DEF Machine, Statement
  <1>2. store \in [DOMAIN body -> Nat]
    BY Bodies DEF Machine
  <1>3. n = [m EXCEPT !.done = @ \cup els, !.store = store]
    BY DEF RunWait, Machine
  <1> HIDE DEF store, els, n
  <1>4. n \in Machine /\ n.seen = m.seen /\ n.group = m.group /\ n.started = m.started
        /\ n.result = m.result /\ n.done = m.done \cup els /\ n.store = store
    BY <1>1, <1>2, <1>3 DEF Machine
  <1> QED  BY <1>4 DEF store, els, n

\* A statement that only observes and stores at once.
LEMMA Observes ==
  ASSUME BodyInv, NEW m \in Machine, NEW st, NEW n,
         st.el = 0 \/ st.el \in DOMAIN body, Work(st) <=> st.el # 0,
         st.op \in {"group", "var", "do", "return", "decl", "bare", "assign"},
         Stores(st) => st.var \in DOMAIN body /\ st.el # 0,
         n = RunStmt(m, st)
  PROVE  Effect(m, st, n)
  <1> DEFINE o == Observe(m, st.el)
  <1>1. 0 \notin DOMAIN body /\ st.el \in Nat
    BY Bodies
  <1>2. /\ o \in Machine /\ o.store = m.store /\ o.group = m.group
        /\ o.started = m.started /\ o.done = m.done /\ o.result = m.result
        /\ \A j \in DOMAIN body :
             o.seen[j] = IF j = st.el /\ body[j].reads # 0 THEN m.store[body[j].reads]
                                                           ELSE m.seen[j]
    <2>1. o = Observe(m, st.el)
      OBVIOUS
    <2> HIDE DEF o
    <2> QED  BY <2>1, Observed
  <1>3. \A j \in DOMAIN body :
          o.seen[j] = IF Work(st) /\ j = st.el /\ body[j].reads # 0
                      THEN m.store[body[j].reads] ELSE m.seen[j]
    <2> HIDE DEF o
    <2> QED  BY ONLY <1>1, <1>2, Work(st) <=> st.el # 0
  <1>4. Inner(st) = st /\ st.op # "if" /\ st.op # "wait" /\ st.op # "spawn" /\ st.op # "force"
        /\ st.op # "returnvar"
    BY DEF Inner
  <1>5. CASE st.op \in {"group", "var", "do"}
    <2>1. n = o
      BY <1>4, <1>5 DEF RunStmt, RunSimple
    <2>2. ~Stores(st) /\ st.op # "return"
      BY <1>5 DEF Stores
    <2> HIDE DEF o
    <2> QED  BY ONLY <1>2, <1>3, <1>4, <2>1, <2>2 DEF Effect
  <1>6. CASE st.op = "return"
    <2>1. n = [o EXCEPT !.result = st.el, !.done = @ \cup {st.el}]
      BY <1>4, <1>6 DEF RunStmt, RunSimple
    <2>2. ~Stores(st)
      BY <1>6 DEF Stores
    <2> HIDE DEF o
    <2>3. n.store = o.store /\ n.group = o.group /\ n.started = o.started /\ n.seen = o.seen
          /\ n.result = st.el /\ n.done = o.done \cup {st.el}
      BY <1>2, <2>1 DEF Machine
    <2>4. n \in Machine
      BY <1>1, <1>2, <2>1, <2>3 DEF Machine
    <2> QED  BY ONLY <1>2, <1>3, <1>4, <1>6, <2>2, <2>3, <2>4 DEF Effect
  <1>7. CASE st.op \in {"decl", "bare", "assign"}
    <2>1. n = Store(o, st.var, st.el)
      BY <1>4, <1>7 DEF RunStmt, RunSimple
    <2>2. Stores(st) /\ st.op # "return" /\ st.var \in DOMAIN body
      BY <1>7 DEF Stores
    <2> HIDE DEF o
    <2>3. /\ n \in Machine /\ n.seen = o.seen /\ n.group = o.group
          /\ n.started = o.started /\ n.done = o.done /\ n.result = o.result
          /\ \A w \in DOMAIN body : n.store[w] = IF w = st.var THEN st.el ELSE o.store[w]
      <3>1. /\ st.var = 0 \/ st.var \in DOMAIN body
            /\ o \in Machine /\ BodyInv /\ st.el \in Nat
        BY <1>1, <1>2, <2>2
      <3> QED  BY ONLY <2>1, <3>1, Stored
    <2> QED  BY ONLY <1>2, <1>3, <1>4, <2>2, <2>3 DEF Effect
  <1> QED  BY <1>5, <1>6, <1>7

\* A conditional: its condition, then its branch.
LEMMA Conditionals ==
  ASSUME BodyInv, NEW m \in Machine, NEW i \in DOMAIN body, body[i].kind \in BranchKinds,
         NEW g \in Indices, NEW st, st = If(i, g), NEW n, n = RunStmt(m, st)
  PROVE  Effect(m, st, n)
  <1> DEFINE o == Observe(m, i)
             t == Branch(i, g)[1]
  <1>1. 0 \notin DOMAIN body /\ i \in Nat /\ i # 0 /\ g \in Nat
    BY LoweringAssumption, Bodies DEF Indices, BodyInv
  <1>2. /\ o \in Machine /\ o.store = m.store /\ o.group = m.group
        /\ o.started = m.started /\ o.done = m.done /\ o.result = m.result
        /\ \A j \in DOMAIN body :
             o.seen[j] = IF j = i /\ body[j].reads # 0 THEN m.store[body[j].reads]
                                                       ELSE m.seen[j]
    <2>1. o = Observe(m, i)
      OBVIOUS
    <2> HIDE DEF o
    <2> QED  BY <2>1, Observed
  <1>3. st.op = "if" /\ st.el = i /\ st.then[1] = t /\ Work(st) /\ ~Stores(st) /\ Inner(st) = t
    BY <1>1 DEF If, Work, Stores, Inner
  <1>4. n = RunSimple(o, t)
    BY <1>3 DEF RunStmt
  <1>5. /\ body[i].kind = "ifbind" => t = Var(i)
        /\ body[i].kind # "ifbind" =>
             t = [op |-> IF g # 0 THEN "spawn"
                         ELSE IF body[i].kind = "if" THEN "force" ELSE "start",
                  el |-> i, var |-> 0, grp |-> g, lazy |-> g # 0, then |-> <<>>]
    BY <1>1, Branches
  <1> HIDE DEF o, t
  <1>6. \A j \in DOMAIN body :
          o.seen[j] = IF Work(st) /\ j = st.el /\ body[j].reads # 0
                      THEN m.store[body[j].reads] ELSE m.seen[j]
    BY ONLY <1>2, <1>3
  <1>7. CASE body[i].kind = "ifbind"
    <2>1. t.op = "var" /\ t.el = 0
      BY <1>5, <1>7 DEF Var, Stmt
    <2>2. n = o
      BY <1>4, <2>1 DEF RunSimple, Observe
    <2> QED  BY ONLY <1>2, <1>3, <1>6, <2>1, <2>2 DEF Effect
  <1>8. CASE body[i].kind # "ifbind" /\ g # 0
    <2>1. /\ t.op = "spawn" /\ t.el = i /\ t.var = 0 /\ t.grp = g /\ t.lazy
          /\ t \in Statement
      <3>1. t = [op |-> "spawn", el |-> i, var |-> 0, grp |-> g, lazy |-> TRUE, then |-> <<>>]
        BY <1>5, <1>8
      <3>2. "spawn" \in Ops
        BY DEF Ops
      <3>3. t \in Statement
        BY ONLY <1>1, <3>1, <3>2, IsStatement
      <3> QED  BY <3>1, <3>3
    <2>2. n = RunSpawn(o, t)
      BY <1>4, <2>1 DEF RunSimple
    <2>3. /\ n \in Machine /\ n.done = o.done /\ n.result = o.result
          /\ n.started = Append(o.started, t.el)
          /\ \A h \in Indices :
               n.group[h] = IF h = t.grp THEN o.group[h] \cup {t} ELSE o.group[h]
          /\ \A w \in DOMAIN body :
               n.store[w] = IF t.lazy /\ w = t.var THEN t.el ELSE o.store[w]
          /\ \A j \in DOMAIN body :
               n.seen[j] = IF j = t.el /\ body[j].reads # 0 THEN o.store[body[j].reads]
                                                             ELSE o.seen[j]
      <3>1. /\ t.el \in DOMAIN body /\ (t.var = 0 \/ t.var \in DOMAIN body)
            /\ t.grp \in Indices /\ o \in Machine /\ t \in Statement /\ BodyInv
        BY <1>2, <2>1
      <3> QED  BY ONLY <2>2, <3>1, Spawns
    <2>4. \A w \in DOMAIN body : n.store[w] = m.store[w]
      BY ONLY <1>1, <1>2, <2>1, <2>3
    <2>5. \A j \in DOMAIN body :
            n.seen[j] = IF Work(st) /\ j = st.el /\ body[j].reads # 0
                        THEN m.store[body[j].reads] ELSE m.seen[j]
      BY ONLY <1>2, <1>3, <1>6, <2>1, <2>3
    <2>6. n.started = Append(m.started, st.el)
      BY ONLY <1>2, <1>3, <2>1, <2>3
    <2>7. n.done = m.done /\ n.result = m.result
      BY ONLY <1>2, <2>3
    <2>8. \A h \in Indices :
            n.group[h] = IF h = t.grp THEN m.group[h] \cup {t} ELSE m.group[h]
      BY ONLY <1>2, <2>3
    <2>9. /\ n \in Machine /\ st.op = "if" /\ Inner(st) = t /\ ~Stores(st)
          /\ t.op = "spawn"
      BY ONLY <1>3, <2>1, <2>3
    <2> QED  BY ONLY <2>4, <2>5, <2>6, <2>7, <2>8, <2>9 DEF Effect
  <1>9. CASE body[i].kind = "if" /\ g = 0
    <2>1. t.op = "force" /\ t.el = i
      BY <1>5, <1>9
    <2> DEFINE p == Observe(o, i)
    <2>2. n = [p EXCEPT !.done = @ \cup {i}, !.started = Append(@, i)]
      BY <1>4, <2>1 DEF RunSimple
    <2>3. /\ p \in Machine /\ p.store = o.store /\ p.group = o.group
          /\ p.started = o.started /\ p.done = o.done /\ p.result = o.result
          /\ \A j \in DOMAIN body :
               p.seen[j] = IF j = i /\ body[j].reads # 0 THEN o.store[body[j].reads]
                                                         ELSE o.seen[j]
      <3>1. p = Observe(o, i)
        OBVIOUS
      <3> HIDE DEF p
      <3> QED  BY ONLY BodyInv, i \in DOMAIN body, <1>2, <3>1, Observed
    <2> HIDE DEF p
    <2>4. n.store = p.store /\ n.group = p.group /\ n.seen = p.seen /\ n.result = p.result
          /\ n.started = Append(p.started, i) /\ n.done = p.done \cup {i}
      BY <2>2, <2>3 DEF Machine
    <2>5. n \in Machine
      <3>1. Append(p.started, i) \in Seq(Nat) /\ p.done \cup {i} \in SUBSET Nat
        BY <1>1, <2>3 DEF Machine
      <3> QED  BY <2>2, <2>3, <2>4, <3>1 DEF Machine
    <2>6. \A j \in DOMAIN body :
            n.seen[j] = IF Work(st) /\ j = st.el /\ body[j].reads # 0
                        THEN m.store[body[j].reads] ELSE m.seen[j]
      BY ONLY <1>2, <1>3, <1>6, <2>3, <2>4
    <2> QED  BY ONLY <1>2, <1>3, <2>1, <2>3, <2>4, <2>5, <2>6 DEF Effect
  <1>10. CASE body[i].kind = "ifval" /\ g = 0
    <2>1. t.op = "start" /\ t.el = i
      BY <1>5, <1>10
    <2> DEFINE p == Observe(o, i)
    <2>2. n = [p EXCEPT !.started = Append(@, i)]
      BY <1>4, <2>1 DEF RunSimple
    <2>3. /\ p \in Machine /\ p.store = o.store /\ p.group = o.group
          /\ p.started = o.started /\ p.done = o.done /\ p.result = o.result
          /\ \A j \in DOMAIN body :
               p.seen[j] = IF j = i /\ body[j].reads # 0 THEN o.store[body[j].reads]
                                                         ELSE o.seen[j]
      <3>1. p = Observe(o, i)
        OBVIOUS
      <3> HIDE DEF p
      <3> QED  BY ONLY BodyInv, i \in DOMAIN body, <1>2, <3>1, Observed
    <2> HIDE DEF p
    <2>4. n.store = p.store /\ n.group = p.group /\ n.seen = p.seen /\ n.result = p.result
          /\ n.started = Append(p.started, i) /\ n.done = p.done
      BY <2>2, <2>3 DEF Machine
    <2>5. n \in Machine
      <3>1. Append(p.started, i) \in Seq(Nat)
        BY <1>1, <2>3 DEF Machine
      <3> QED  BY <2>2, <2>3, <2>4, <3>1 DEF Machine
    <2>6. \A j \in DOMAIN body :
            n.seen[j] = IF Work(st) /\ j = st.el /\ body[j].reads # 0
                        THEN m.store[body[j].reads] ELSE m.seen[j]
      BY ONLY <1>2, <1>3, <1>6, <2>3, <2>4
    <2> QED  BY ONLY <1>2, <1>3, <2>1, <2>3, <2>4, <2>5, <2>6 DEF Effect
  <1> QED  BY <1>7, <1>8, <1>9, <1>10 DEF BranchKinds

\* Every statement of a body: RunStmt.
LEMMA Effects ==
  ASSUME BodyInv, NEW ir, Shape(ir), NEW k \in DOMAIN ir, NEW m \in Machine
  PROVE  Effect(m, ir[k], RunStmt(m, ir[k]))
  <1> DEFINE st == ir[k]
             n == RunStmt(m, st)
  <1>1. 0 \notin DOMAIN body /\ \A i \in DOMAIN body : i \in Nat
    BY Bodies
  <1>2. st \in Statement
    BY Works
  <1>3. st.op \in Ops
    BY <1>2 DEF Statement
  <1>4. CASE st.op \in {"group", "var", "do", "return", "decl", "bare", "assign"}
    <2>1. st.el = 0 \/ st.el \in DOMAIN body
      BY <1>4, Works
    <2>2. Work(st) <=> st.el # 0
      BY <1>1, <1>4 DEF Work
    <2>3. Stores(st) => st.var \in DOMAIN body /\ st.el # 0
      <3>1. Stores(st) => Work(st) /\ st.op \in {"decl", "bare", "assign"}
        BY <1>4, Works DEF Stores
      <3>2. Work(st) /\ st.op = "assign" =>
              st.el \in DOMAIN body /\ body[st.el].kind = "assign" /\ st.var = body[st.el].tgt
        BY Works
      <3>3. \A i \in DOMAIN body : body[i].kind = "assign" => body[i].tgt \in DOMAIN body
        <4>1. ASSUME NEW i \in DOMAIN body, body[i].kind = "assign"
              PROVE  body[i].tgt \in 1 .. i - 1 /\ i \in 1 .. Len(body)
                     /\ DOMAIN body = 1 .. Len(body) /\ Len(body) \in Nat
          BY <4>1, Bodies DEF BodyInv
        <4> QED  BY <4>1
      <3>4. Work(st) /\ st.op \in {"decl", "bare"} => st.el \in DOMAIN body /\ st.var = st.el
        BY Works
      <3> QED  BY <1>1, <3>1, <3>2, <3>3, <3>4
    <2> HIDE DEF n, st
    <2>4. n = RunStmt(m, st)
      BY DEF n
    <2> QED  BY ONLY BodyInv, m \in Machine, <1>4, <2>1, <2>2, <2>3, <2>4, Observes DEF n, st
  <1>5. CASE st.op = "if"
    <2>1. /\ st.el \in DOMAIN body /\ body[st.el].kind \in BranchKinds
          /\ st = If(st.el, IF lowering = "method" THEN MethodGroup ELSE 0)
      BY <1>5, Works
    <2>2. MethodGroup \in Indices /\ 0 \in Indices
      <3>1. 0 \in Indices
        BY <2>1, Bodies, LoweringAssumption DEF BodyInv, Indices
      <3> QED  BY <3>1, TheGroup DEF MethodGroup
    <2> DEFINE g == IF lowering = "method" THEN MethodGroup ELSE 0
    <2>3. g \in Indices /\ st = If(st.el, g)
      BY <2>1, <2>2
    <2> HIDE DEF g, n, st
    <2>4. n = RunStmt(m, st)
      BY DEF n
    <2> QED  BY ONLY BodyInv, m \in Machine, <2>1, <2>3, <2>4, Conditionals DEF n, st
  <1>6. CASE st.op = "spawn"
    <2>1. /\ Work(st) /\ st.el \in DOMAIN body /\ st.var \in {0, st.el} /\ st.grp \in Indices
      BY <1>6, Works
    <2>2. st.var = 0 \/ st.var \in DOMAIN body
      BY <2>1
    <2>3. n = RunSpawn(m, st)
      BY <1>6 DEF RunStmt, RunSimple
    <2> HIDE DEF n, st
    <2>4. /\ n \in Machine /\ n.done = m.done /\ n.result = m.result
          /\ n.started = Append(m.started, st.el)
          /\ \A g \in Indices :
               n.group[g] = IF g = st.grp THEN m.group[g] \cup {st} ELSE m.group[g]
          /\ \A w \in DOMAIN body :
               n.store[w] = IF st.lazy /\ w = st.var THEN st.el ELSE m.store[w]
          /\ \A j \in DOMAIN body :
               n.seen[j] = IF j = st.el /\ body[j].reads # 0 THEN m.store[body[j].reads]
                                                             ELSE m.seen[j]
      <3>1. BodyInv /\ m \in Machine
        OBVIOUS
      <3> QED  BY ONLY <1>2, <2>1, <2>2, <2>3, <3>1, Spawns
    <2>5. Inner(st) = st
      BY <1>6 DEF Inner
    <2> QED  BY ONLY <1>6, <2>1, <2>4, <2>5 DEF Effect, Stores, n, st
  <1>7. CASE st.op = "wait"
    <2>1. ~Work(st) /\ st.grp \in Indices
      BY <1>7, Works
    <2>2. n = RunWait(m, st)
      BY <1>7 DEF RunStmt, RunSimple
    <2> HIDE DEF n, st
    <2>3. /\ n \in Machine /\ n.seen = m.seen /\ n.group = m.group
          /\ n.started = m.started /\ n.result = m.result /\ m.done \subseteq n.done
          /\ \A c \in m.group[st.grp] : c.el \in n.done
          /\ \A v \in DOMAIN body :
               n.store[v] = IF \E c \in m.group[st.grp] : ~c.lazy /\ c.var = v
                            THEN v ELSE m.store[v]
      BY ONLY BodyInv, m \in Machine, <1>2, <2>1, <2>2, WaitsFor
    <2>4. Inner(st) = st
      BY <1>7 DEF Inner
    <2> QED  BY ONLY <1>7, <2>1, <2>3, <2>4 DEF Effect, Stores, n, st
  <1>8. CASE st.op = "returnvar"
    <2>1. st.var \in DOMAIN body
      BY <1>8, Works DEF Work
    <2>2. n = [m EXCEPT !.result = m.store[st.var]]
      BY <1>8 DEF RunStmt, RunSimple
    <2>3. ~Work(st) /\ Inner(st) = st
      BY <1>8 DEF Work, Inner
    <2> HIDE DEF st, n
    <2>4. m.store[st.var] \in Nat
      BY <2>1 DEF Machine
    <2>5. n.store = m.store /\ n.group = m.group /\ n.seen = m.seen /\ n.started = m.started
          /\ n.done = m.done /\ n.result = m.store[st.var] /\ n \in Machine
      BY <2>2, <2>4 DEF Machine
    <2> QED  BY ONLY <1>8, <2>3, <2>5 DEF Effect, Stores, n, st
  <1>9. st.op \notin {"force", "start"}
    BY Works DEF Work
  <1> QED  BY <1>3, <1>4, <1>5, <1>6, <1>7, <1>8, <1>9 DEF Ops

-----------------------------------------------------------------------------
(* What holds after some of the statements holds after the next one.        *)

\* A branch declares no variable for its call.
LEMMA BranchCalls ==
  ASSUME BodyInv, NEW ir, Shape(ir), NEW k \in DOMAIN ir, ir[k].op = "if"
  PROVE  Inner(ir[k]).op = "spawn" => Inner(ir[k]).var = 0
  <1> DEFINE i == ir[k].el
             g == IF lowering = "method" THEN MethodGroup ELSE 0
  <1>1. i \in DOMAIN body /\ body[i].kind \in BranchKinds /\ ir[k] = If(i, g)
    BY Works
  <1>2. g \in Nat
    BY DEF MethodGroup
  <1>3. Inner(ir[k]) = Branch(i, g)[1]
    <2>1. If(i, g).then = Branch(i, g)
      BY DEF If
    <2> HIDE DEF g, i
    <2> QED  BY <1>1, <2>1 DEF Inner
  <1> HIDE DEF g, i
  <1>4. body[i].kind = "ifbind" => Branch(i, g)[1].op = "var"
    <2>1. Var(i).op = "var"
      BY DEF Var, Stmt
    <2> QED  BY <1>1, <1>2, <2>1, Branches
  <1>5. body[i].kind # "ifbind" => Branch(i, g)[1].var = 0
    <2> SUFFICES ASSUME body[i].kind # "ifbind"  PROVE Branch(i, g)[1].var = 0
      OBVIOUS
    <2>1. Branch(i, g)[1] = [op |-> IF g # 0 THEN "spawn"
                                    ELSE IF body[i].kind = "if" THEN "force" ELSE "start",
                             el |-> i, var |-> 0, grp |-> g, lazy |-> g # 0, then |-> <<>>]
      BY <1>1, <1>2, Branches
    <2> QED  BY <2>1
  <1> QED  BY <1>3, <1>4, <1>5

LEMMA StepGroup ==
  ASSUME BodyInv, NEW ir, Shape(ir), NEW k \in DOMAIN ir, NEW m, NEW n,
         GroupInv(m, ir, Past(ir, k)), Effect(m, ir[k], n)
  PROVE  GroupInv(n, ir, Past(ir, k) \cup {k})
  <1> DEFINE R == Past(ir, k)
             c0 == Inner(ir[k])
  <1>1. R \subseteq DOMAIN ir
    BY DEF Past
  <1>2. \A g \in Indices :
          n.group[g] = IF c0.op = "spawn" /\ g = c0.grp THEN m.group[g] \cup {c0}
                                                        ELSE m.group[g]
    BY DEF Effect
  <1>3. c0.op = "spawn" /\ c0.var # 0 => c0 = ir[k]
    BY BranchCalls DEF Inner
  <1>4. ir[k].op = "spawn" => c0 = ir[k]
    BY DEF Inner
  <1>5. \A j \in DOMAIN ir : ir[j].op = "spawn" => ir[j].grp \in Indices
    BY Works
  <1> HIDE DEF R, c0
  <1>6. ASSUME NEW g \in Indices, NEW c \in n.group[g], c.var # 0
        PROVE  \E j \in R \cup {k} : ir[j] = c /\ c.op = "spawn" /\ c.grp = g
    <2>1. CASE c \in m.group[g]
      BY <1>6, <2>1 DEF GroupInv, R
    <2>2. CASE c0.op = "spawn" /\ g = c0.grp /\ c = c0
      BY <1>3, <1>6, <2>2
    <2> QED  BY <1>2, <2>1, <2>2
  <1>7. ASSUME NEW j \in R \cup {k}, ir[j].op = "spawn"
        PROVE  ir[j] \in n.group[ir[j].grp]
    <2>1. ir[j].grp \in Indices
      BY <1>1, <1>5, <1>7
    <2>2. CASE j \in R
      <3>1. ir[j] \in m.group[ir[j].grp]
        BY <1>7, <2>2 DEF GroupInv, R
      <3> QED  BY <1>2, <2>1, <3>1
    <2>3. CASE j = k
      BY <1>2, <1>4, <1>7, <2>1, <2>3
    <2> QED  BY <2>2, <2>3
  <1> QED  BY <1>6, <1>7 DEF GroupInv, R

LEMMA StepDone ==
  ASSUME BodyInv, NEW ir, Shape(ir), NEW k \in DOMAIN ir, NEW m, NEW n,
         GroupInv(m, ir, Past(ir, k)), DoneInv(m, ir, Past(ir, k)), Effect(m, ir[k], n)
  PROVE  DoneInv(n, ir, Past(ir, k) \cup {k})
  <1> DEFINE R == Past(ir, k)
  <1>1. R \subseteq DOMAIN ir /\ DOMAIN ir \subseteq Nat
    BY Works DEF Past
  <1>2. /\ m.done \subseteq n.done
        /\ ir[k].op = "wait" => \A c \in m.group[ir[k].grp] : c.el \in n.done
        /\ ir[k].op = "return" \/ Inner(ir[k]).op = "force" => ir[k].el \in n.done
    BY DEF Effect
  <1>3. \A w \in R : ir[w].op = "wait" => w < k
    BY <1>1, Turned
  <1> HIDE DEF R
  <1>4. ASSUME NEW j \in R \cup {k}, ir[j].op = "return" /\ Work(ir[j])
        PROVE  ir[j].el \in n.done
    BY <1>2, <1>4 DEF DoneInv, R
  <1>5. ASSUME NEW j \in R \cup {k}, Inner(ir[j]).op = "force"
        PROVE  ir[j].el \in n.done
    BY <1>2, <1>5 DEF DoneInv, R
  <1>6. ASSUME NEW j \in R \cup {k}, ir[j].op = "spawn",
               NEW w \in R \cup {k}, j < w, IsWait(ir, w, ir[j].grp)
        PROVE  ir[j].el \in n.done
    <2>1. j \in R
      <3> SUFFICES ASSUME j = k  PROVE FALSE
        OBVIOUS
      <3>1. w \in R /\ w < k
        BY <1>1, <1>3, <1>6 DEF IsWait
      <3> QED  BY <1>1, <1>6, <3>1
    <2>2. CASE w \in R
      BY <1>2, <1>6, <2>1, <2>2 DEF DoneInv, R
    <2>3. CASE w = k
      <3>1. ir[j] \in m.group[ir[j].grp]
        BY <1>6, <2>1 DEF GroupInv, R
      <3> QED  BY <1>2, <1>6, <2>3, <3>1 DEF IsWait
    <2> QED  BY <2>2, <2>3
  <1> QED  BY <1>4, <1>5, <1>6 DEF DoneInv, R

LEMMA StepStarted ==
  ASSUME BodyInv, NEW ir, Shape(ir), NEW k \in DOMAIN ir, NEW m \in Machine, NEW n,
         StartedInv(m, ir, Past(ir, k)), Effect(m, ir[k], n)
  PROVE  StartedInv(n, ir, Past(ir, k) \cup {k})
  <1> DEFINE R == Past(ir, k)
             s == m.started
  <1>1. R \subseteq DOMAIN ir
    BY DEF Past
  <1>2. n.started = s \/ (ir[k].op \in {"spawn", "if"} /\ n.started = Append(s, ir[k].el))
    BY DEF Effect
  <1>3. /\ \A a, b \in DOMAIN s : a < b => s[a] < s[b]
        /\ \A a \in DOMAIN s : \E j \in R : Work(ir[j]) /\ ir[j].op # "decl" /\ ir[j].el = s[a]
    BY DEF StartedInv
  <1>4. s \in Seq(Nat)
    BY DEF Machine
  <1> HIDE DEF R, s
  <1>5. CASE n.started = s
    BY <1>3, <1>5 DEF StartedInv, R
  <1>6. CASE ir[k].op \in {"spawn", "if"} /\ n.started = Append(s, ir[k].el)
    <2>1. Work(ir[k]) /\ ir[k].el \in DOMAIN body
      BY <1>6, Works
    <2>2. ir[k].el \in Nat
      BY <2>1, Bodies
    <2> DEFINE t == n.started
    <2>3. /\ Len(s) \in Nat /\ DOMAIN s = 1 .. Len(s) /\ DOMAIN t = 1 .. Len(s) + 1
          /\ \A a \in 1 .. Len(s) : t[a] = s[a]
          /\ t[Len(s) + 1] = ir[k].el
      BY <1>4, <1>6, <2>2
    <2> HIDE DEF t
    <2>4. ASSUME NEW a \in DOMAIN s  PROVE s[a] < ir[k].el
      <3>1. PICK j \in R : Work(ir[j]) /\ ir[j].op # "decl" /\ ir[j].el = s[a]
        BY <1>3
      <3>2. ir[j].op \notin {"group", "var", "decl"}
        BY <1>1, <3>1, Works
      <3>3. j < k
        BY <1>1, <3>2, Turned DEF R
      <3> QED  BY <1>1, <2>1, <3>1, <3>3, Ordered
    <2>5. ASSUME NEW a \in DOMAIN t, NEW b \in DOMAIN t, a < b  PROVE t[a] < t[b]
      <3>1. a \in DOMAIN s /\ t[a] = s[a]
        BY <2>3, <2>5
      <3>2. CASE b \in DOMAIN s
        BY <1>3, <2>3, <2>5, <3>1, <3>2
      <3>3. CASE b = Len(s) + 1
        BY <2>3, <2>4, <3>1, <3>3
      <3> QED  BY <2>3, <3>2, <3>3
    <2>6. ASSUME NEW a \in DOMAIN t
          PROVE  \E j \in R \cup {k} : Work(ir[j]) /\ ir[j].op # "decl" /\ ir[j].el = t[a]
      <3>1. CASE a \in DOMAIN s
        BY <1>3, <2>3, <3>1
      <3>2. CASE a = Len(s) + 1
        BY <1>6, <2>1, <2>3, <3>2
      <3> QED  BY <2>3, <3>1, <3>2
    <2> QED  BY <2>5, <2>6 DEF StartedInv, t, R
  <1> QED  BY <1>2, <1>5, <1>6

\* The reassignments that have run when a statement is to run.
LEMMA AssignsOf ==
  ASSUME BodyInv, NEW ir, Shape(ir), NEW k \in DOMAIN ir, NEW v \in DOMAIN body,
         NEW a \in Assigns(ir, Past(ir, k), v)
  PROVE  /\ a \in DOMAIN ir /\ Work(ir[a]) /\ a < k
         /\ ir[a].el \in DOMAIN body /\ body[ir[a].el].kind = "assign"
         /\ body[ir[a].el].tgt = v /\ v < ir[a].el /\ Reassigned(v)
  <1>1. a \in Past(ir, k) /\ ir[a].op = "assign" /\ ir[a].var = v
    BY DEF Assigns
  <1>2. a \in DOMAIN ir
    BY <1>1 DEF Past
  <1>3. Work(ir[a]) /\ ir[a].el \in DOMAIN body /\ body[ir[a].el].kind = "assign"
        /\ body[ir[a].el].tgt = v
    BY <1>1, <1>2, Works
  <1>4. a < k
    BY <1>1, <1>2, Turned
  <1>5. v \in 1 .. ir[a].el - 1
    BY <1>3 DEF BodyInv
  <1>6. v < ir[a].el
    BY <1>3, <1>5, Bodies
  <1> QED  BY <1>2, <1>3, <1>4, <1>6 DEF Reassigned

LEMMA StepStore ==
  ASSUME BodyInv, NEW ir, Shape(ir), NEW k \in DOMAIN ir, NEW m, NEW n,
         GroupInv(m, ir, Past(ir, k)), StoreInv(m, ir, Past(ir, k)), Effect(m, ir[k], n)
  PROVE  StoreInv(n, ir, Past(ir, k) \cup {k})
  <1> DEFINE R == Past(ir, k)
             S == R \cup {k}
             st == ir[k]
             v(j) == ir[j].var
             Applies(j) == /\ Work(ir[j]) /\ ir[j].el = v(j) /\ v(j) # 0
                           /\ Reassigned(v(j)) => lowering = "singleton"
             Good(x, Q, u) == /\ x.store[u] = u \/ \E a \in Assigns(ir, Q, u) : ir[a].el = x.store[u]
                              /\ \A a \in Assigns(ir, Q, u) : ir[a].el <= x.store[u]
  <1>1. R \subseteq DOMAIN ir /\ DOMAIN ir \subseteq Nat /\ k \notin R
    BY Works, Turned DEF Past
  <1>2. \A u \in DOMAIN body :
          n.store[u] = IF st.op = "wait" /\ \E c \in m.group[st.grp] : ~c.lazy /\ c.var = u
                       THEN u ELSE IF Stores(st) /\ u = st.var THEN st.el ELSE m.store[u]
    BY DEF Effect
  <1>3. \A w \in R : ir[w].op = "wait" => w < k
    BY <1>1, Turned
  <1>4. \A u \in DOMAIN body : \A a \in Assigns(ir, R, u) :
          /\ a \in DOMAIN ir /\ Work(ir[a]) /\ a < k /\ v(a) = u /\ ir[a].op = "assign"
          /\ ir[a].el \in DOMAIN body /\ u < ir[a].el /\ Reassigned(u)
    BY AssignsOf DEF Assigns
  <1>5. \A u : Assigns(ir, S, u)
               = IF st.op = "assign" /\ st.var = u THEN Assigns(ir, R, u) \cup {k}
                                                   ELSE Assigns(ir, R, u)
    BY DEF Assigns
  <1>6. 0 \notin DOMAIN body /\ \A u \in DOMAIN body : u \in Nat
    BY Bodies
  <1>7. ASSUME NEW j \in DOMAIN ir, Applies(j)
        PROVE  /\ v(j) \in DOMAIN body /\ ir[j].el \in DOMAIN body
               /\ ir[j].op \in {"spawn", "decl", "bare"}
    <2>1. /\ ir[j].el \in DOMAIN body
          /\ ir[j].op \in {"spawn", "decl", "bare", "assign", "if", "do", "return"}
          /\ ir[j].op \in {"if", "do", "return"} => v(j) = 0
          /\ ir[j].op = "assign" => body[ir[j].el].kind = "assign" /\ v(j) = body[ir[j].el].tgt
      BY <1>7, Works
    <2>2. body[ir[j].el].kind = "assign" => body[ir[j].el].tgt \in 1 .. ir[j].el - 1
      BY <2>1 DEF BodyInv
    <2>3. ir[j].op # "assign"
      BY <1>6, <1>7, <2>1, <2>2
    <2> QED  BY <1>7, <2>1, <2>3
  <1>8. ASSUME Applies(k), Settled(ir, S, k)
        PROVE  Good(n, S, v(k))
    <2>1. v(k) \in DOMAIN body /\ st.op \in {"spawn", "decl", "bare"} /\ st.el = v(k)
          /\ Work(st)
      BY <1>7, <1>8
    <2>2. st.op = "spawn" => st.lazy
      <3> SUFFICES ASSUME st.op = "spawn", ~st.lazy  PROVE FALSE
        BY Works DEF Statement
      <3>1. PICK w \in S : k < w /\ IsWait(ir, w, st.grp)
        BY <1>8 DEF Settled
      <3> HIDE DEF R, st
      <3> QED  BY <1>1, <1>3, <3>1 DEF IsWait
    <2>3. n.store[v(k)] = v(k)
      <3>1. st.op # "wait" /\ Stores(st)
        BY <2>1, <2>2 DEF Stores
      <3> HIDE DEF st
      <3> QED  BY <1>2, <2>1, <3>1 DEF st
    <2>4. Assigns(ir, S, v(k)) = Assigns(ir, R, v(k))
      BY <1>5, <2>1
    <2>5. Assigns(ir, R, v(k)) = {}
      <3> SUFFICES ASSUME NEW a \in Assigns(ir, R, v(k))  PROVE FALSE
        OBVIOUS
      <3>1. a \in DOMAIN ir /\ Work(ir[a]) /\ a < k /\ v(k) < ir[a].el
            /\ ir[a].el \in DOMAIN body
        BY <1>4, <2>1
      <3>2. ir[a].el < ir[k].el
        BY <2>1, <3>1, Ordered
      <3> QED  BY <1>6, <2>1, <3>1, <3>2
    <2> QED  BY <2>3, <2>4, <2>5
  <1>9. ASSUME NEW j \in R, Applies(j), Settled(ir, S, j)
        PROVE  Good(n, S, v(j))
    <2> DEFINE u == v(j)
    <2>1. j \in DOMAIN ir /\ u \in DOMAIN body /\ ir[j].op \in {"spawn", "decl", "bare"}
          /\ ir[j].el = u /\ Work(ir[j]) /\ j # k /\ j \in Nat
      BY <1>1, <1>7, <1>9
    <2>2. ASSUME NEW c \in m.group[st.grp], st.op = "wait", ~c.lazy, c.var = u
          PROVE  Good(n, S, u)
      <3>1. st.grp \in Indices
        BY <2>2, Works DEF Work
      <3>2. PICK i \in R : ir[i] = c /\ c.op = "spawn" /\ c.grp = st.grp
        BY <1>6, <2>1, <2>2, <3>1 DEF GroupInv
      <3>3. i = j
        <4>1. Work(ir[i]) /\ ir[i].el = u
          BY <1>1, <1>6, <2>1, <2>2, <3>2, Works
        <4> QED  BY <1>1, <2>1, <3>2, <4>1, Ordered
      <3>4. n.store[u] = u
        BY <1>2, <2>1, <2>2
      <3>5. Assigns(ir, S, u) = Assigns(ir, R, u)
        BY <1>5, <2>2
      <3>6. ASSUME NEW a \in Assigns(ir, R, u)  PROVE FALSE
        <4>1. /\ a \in DOMAIN ir /\ Work(ir[a]) /\ a < k /\ ir[a].op = "assign"
              /\ u < ir[a].el /\ Reassigned(u)
          BY <1>4, <2>1
        <4>2. lowering = "singleton"
          BY <1>9, <4>1
        <4>3. j < a
          BY <2>1, <4>1, Ordered
        <4>4. Waited(ir, j, a)
          BY <2>1, <3>2, <3>3, <4>1, <4>3 DEF Shape, LoweredTo, Barriers
        <4>5. PICK w \in j + 1 .. a - 1 : IsWait(ir, w, st.grp)
          BY <3>2, <3>3, <4>4 DEF Waited
        <4>6. w \in DOMAIN ir /\ w < k
          BY <1>1, <2>1, <4>1, <4>5, Works
        <4>7. \A x, y \in DOMAIN ir : ir[y].op = "wait" /\ x < y => ~IsWait(ir, x, ir[y].grp)
          BY <4>2 DEF Shape, LoweredTo, OneWait
        <4> QED  BY <2>2, <4>5, <4>6, <4>7
      <3> QED  BY <3>4, <3>5, <3>6
    <2>3. CASE ~(st.op = "wait" /\ \E c \in m.group[st.grp] : ~c.lazy /\ c.var = u)
      <3>1. Settled(ir, R, j)
        <4> SUFFICES ASSUME ir[j].op = "spawn", ~ir[j].lazy
                     PROVE  \E w \in R : j < w /\ IsWait(ir, w, ir[j].grp)
          BY DEF Settled
        <4>1. PICK w \in S : j < w /\ IsWait(ir, w, ir[j].grp)
          BY <1>9 DEF Settled
        <4>2. w # k
          <5> SUFFICES ASSUME w = k  PROVE FALSE
            OBVIOUS
          <5>1. st.op = "wait" /\ st.grp = ir[j].grp
            BY <4>1 DEF IsWait
          <5>2. ir[j] \in m.group[st.grp]
            BY <5>1 DEF GroupInv
          <5> QED  BY <2>3, <5>1, <5>2
        <4> QED  BY <4>1, <4>2
      <3>2. Good(m, R, u)
        <4> HIDE DEF R
        <4> QED  BY <1>9, <3>1 DEF StoreInv, R
      <3>3. CASE Stores(st) /\ u = st.var
        <4>1. st.op = "assign"
          <5>1. Work(st) /\ st.op \in {"spawn", "decl", "bare", "assign"}
            BY <3>3, Works DEF Stores
          <5>2. st.op # "assign" => st.el = u
            BY <1>6, <2>1, <3>3, <5>1, Works
          <5> QED  BY <2>1, <5>1, <5>2, Ordered
        <4>2. n.store[u] = st.el
          BY <1>2, <2>1, <3>3, <4>1
        <4>3. Assigns(ir, S, u) = Assigns(ir, R, u) \cup {k}
          BY <1>5, <3>3, <4>1
        <4>4. Work(st) /\ st.el \in Nat
          BY <1>6, <4>1, Works
        <4>5. ASSUME NEW a \in Assigns(ir, R, u)  PROVE ir[a].el < st.el
          BY <1>4, <2>1, <4>4, Ordered
        <4>6. \A a \in Assigns(ir, S, u) : ir[a].el <= st.el
          <5>1. \A a \in Assigns(ir, R, u) : ir[a].el \in Nat
            BY <1>4, <1>6, <2>1
          <5> QED  BY <4>3, <4>4, <4>5, <5>1
        <4>7. k \in Assigns(ir, S, u) /\ ir[k].el = n.store[u]
          BY <4>2, <4>3
        <4> HIDE DEF S, st
        <4> QED  BY <4>2, <4>6, <4>7
      <3>4. CASE ~(Stores(st) /\ u = st.var)
        <4>1. n.store[u] = m.store[u]
          BY <1>2, <2>1, <2>3, <3>4
        <4>2. Assigns(ir, S, u) = Assigns(ir, R, u)
          BY <1>5, <3>4 DEF Stores
        <4> HIDE DEF S, R, st
        <4> QED  BY <3>2, <4>1, <4>2
      <3> QED  BY <3>3, <3>4
    <2> QED  BY <2>2, <2>3
  <1> HIDE DEF R
  <1>10. ASSUME NEW j \in S, Applies(j), Settled(ir, S, j)  PROVE Good(n, S, v(j))
    BY <1>8, <1>9, <1>10
  <1> QED  BY <1>10 DEF StoreInv, R

\* The value that a read has to observe is the one that the body gives.
LEMMA LastWriteIs ==
  ASSUME BodyInv, NEW i \in DOMAIN body, NEW q \in 1 .. i - 1,
         Writes(q, body[i].reads), \A x \in q + 1 .. i - 1 : ~Writes(x, body[i].reads)
  PROVE  LastWrite(i) = q
  <1> DEFINE r == body[i].reads
             P(j) == Writes(j, r) /\ \A x \in j + 1 .. i - 1 : ~Writes(x, r)
  <1>1. i \in Nat
    BY Bodies
  <1>2. ASSUME NEW j \in 1 .. i - 1, P(j)  PROVE j = q
    <2>1. ~(j < q)
      <3> SUFFICES ASSUME j < q  PROVE FALSE
        OBVIOUS
      <3>1. q \in j + 1 .. i - 1
        BY <1>1
      <3> QED  BY <1>2, <3>1
    <2>2. ~(q < j)
      <3> SUFFICES ASSUME q < j  PROVE FALSE
        OBVIOUS
      <3>1. j \in q + 1 .. i - 1
        BY <1>1
      <3> QED  BY <1>2, <3>1
    <2> QED  BY <1>1, <2>1, <2>2
  <1>3. LastWrite(i) = CHOOSE j \in 1 .. i - 1 : P(j)
    BY DEF LastWrite
  <1>4. P(q)
    OBVIOUS
  <1> HIDE DEF P
  <1> QED  BY <1>2, <1>3, <1>4

LEMMA StepSeen ==
  ASSUME BodyInv, NEW ir, Shape(ir), NEW k \in DOMAIN ir, NEW m, NEW n,
         StoreInv(m, ir, Past(ir, k)), SeenInv(m, ir, Past(ir, k)), Effect(m, ir[k], n)
  PROVE  SeenInv(n, ir, Past(ir, k) \cup {k})
  <1> DEFINE R == Past(ir, k)
             i == ir[k].el
             r == body[i].reads
  <1>1. R \subseteq DOMAIN ir /\ DOMAIN ir = 1 .. Len(ir) /\ Len(ir) \in Nat /\ k \notin R
    BY Works, Turned DEF Past
  <1>2. \A e \in DOMAIN body :
          n.seen[e] = IF Work(ir[k]) /\ e = i /\ body[e].reads # 0 THEN m.store[body[e].reads]
                                                                   ELSE m.seen[e]
    BY DEF Effect
  <1> SUFFICES ASSUME ReadersKept,
                      NEW j \in R \cup {k}, Work(ir[j]), body[ir[j].el].reads # 0, Reader(ir[j].el)
               PROVE  n.seen[ir[j].el] = LastWrite(ir[j].el)
    BY DEF SeenInv
  <1>3. j \in DOMAIN ir /\ ir[j].el \in DOMAIN body
    BY <1>1, Works
  <1>4. CASE j \in R
    <2>1. ~(Work(ir[k]) /\ ir[j].el = i)
      BY <1>1, <1>3, <1>4, Ordered
    <2>2. m.seen[ir[j].el] = LastWrite(ir[j].el)
      BY <1>4 DEF SeenInv
    <2> QED  BY <1>2, <1>3, <2>1, <2>2
  <1>5. CASE j = k
    <2>1. Work(ir[k]) /\ i \in DOMAIN body /\ r # 0 /\ Reader(i) /\ i \in Nat
      BY <1>3, <1>5, Bodies
    <2>2. n.seen[i] = m.store[r]
      BY <1>2, <2>1
    <2>3. r \in 1 .. i - 1 /\ body[r].kind \in Binders
      BY <2>1 DEF BodyInv
    <2>4. r \in DOMAIN body /\ r \in Nat /\ r < i /\ r # 0
      BY <2>1, <2>3, Bodies
    <2>5. body[i].form = "plain" /\ (lowering = "method" => \A x \in DOMAIN body :
            body[x].kind \notin {"typed", "assign"})
      <3>1. \A x \in DOMAIN body : body[x] \in Element
        BY Bodies
      <3>2. lowering \in Lowerings
        BY DEF BodyInv
      <3> QED  BY <2>1, <3>1, <3>2 DEF ReadersKept, Element
    <2>6. lowering \in {"method", "singleton"}
      BY Bodies
    \* The statement that declares the variable.
    <2>7. PICK p \in DOMAIN ir : Work(ir[p]) /\ ir[p].el = r
      BY <2>4, WorkOf
    <2>8. p < k
      BY <2>1, <2>4, <2>7, Ordered
    <2>9. /\ ir[p].var = r /\ ir[p].op \in {"spawn", "decl"}
          /\ ir[p].op = "spawn" => body[r].kind \in {"bind", "lazy"}
      <3>1. ir[p].op \in {"spawn", "decl", "bare"} /\ ir[p].var = r
        BY <2>3, <2>7, Works
      <3>2. ir[p].op # "bare"
        BY <2>4, <2>5, <2>7, Works
      <3>3. ir[p].op = "spawn" => body[r].kind \in CallKinds
        BY <2>7, Works
      <3> QED  BY <2>3, <3>1, <3>2, <3>3 DEF CallKinds, Binders, DeclKinds
    \* Declarations run out of turn, but only before the first Wait.
    <2>10. Turn(ir, k) \in {2, 3}
      BY <2>1, Turns, Works
    <2>11. Turn(ir, k) = 2 => /\ ir[k].op = "decl" /\ \A w \in 1 .. k : ir[w].op # "wait"
      BY Turns
    <2>12. Turn(ir, k) = 3 => \A x \in DOMAIN ir : x < k => x \in R
      <3> SUFFICES ASSUME Turn(ir, k) = 3, NEW x \in DOMAIN ir, x < k  PROVE x \in R
        OBVIOUS
      <3>1. Turn(ir, x) \in {1, 2, 3}
        BY Turns
      <3> QED  BY <3>1 DEF Past
    <2>13. ir[p].op = "spawn" /\ ir[k].op # "spawn" => Waited(ir, p, k)
      BY <2>1, <2>8 DEF Shape, LoweredTo, Barriers
    <2>14. ir[p].op = "spawn" => Turn(ir, k) = 3
      <3> SUFFICES ASSUME ir[p].op = "spawn", Turn(ir, k) = 2  PROVE FALSE
        BY <2>10
      <3>1. PICK w \in p + 1 .. k - 1 : IsWait(ir, w, ir[p].grp)
        BY <2>11, <2>13 DEF Waited
      <3>2. w \in 1 .. k
        BY <1>1, <3>1
      <3> QED  BY <2>11, <3>1, <3>2 DEF IsWait
    <2>15. p \in R
      <3>1. CASE Turn(ir, k) = 3
        BY <2>8, <2>12, <3>1
      <3>2. CASE Turn(ir, k) = 2
        BY <2>8, <2>9, <2>14, <3>2, Turned
      <3> QED  BY <2>10, <3>1, <3>2
    <2>16. Settled(ir, R, p)
      <3> SUFFICES ASSUME ir[p].op = "spawn"
                   PROVE  \E w \in R : p < w /\ IsWait(ir, w, ir[p].grp)
        BY DEF Settled
      <3>1. Waited(ir, p, k)
        <4>1. CASE ir[k].op # "spawn"
          BY <2>13, <4>1
        <4>2. CASE ir[k].op = "spawn"
          <5>1. body[i].kind \in CallKinds
            BY <2>1, <4>2, Works
          <5>2. lowering = "singleton"
            BY <2>1, <5>1 DEF Reader, CallKinds, BranchKinds, DeclKinds
          <5>3. ReadsCall(i)
            BY <2>1, <2>9 DEF ReadsCall
          <5> QED  BY <2>5, <2>7, <2>8, <4>2, <5>2, <5>3 DEF Shape, LoweredTo, OneWait
        <4> QED  BY <4>1, <4>2
      <3>2. PICK w \in p + 1 .. k - 1 : IsWait(ir, w, ir[p].grp)
        BY <3>1 DEF Waited
      <3>3. w \in DOMAIN ir /\ w < k /\ p < w
        BY <1>1, <3>2
      <3> QED  BY <2>12, <2>14, <3>2, <3>3
    <2>17. Reassigned(r) => lowering = "singleton"
      BY <2>5, <2>6 DEF Reassigned
    <2> DEFINE q == m.store[r]
    <2>18. /\ q = r \/ \E a \in Assigns(ir, R, r) : ir[a].el = q
           /\ \A a \in Assigns(ir, R, r) : ir[a].el <= q
      <3>1. Work(ir[p]) /\ ir[p].el = ir[p].var /\ ir[p].var # 0 /\ ir[p].var = r
        BY <2>4, <2>7, <2>9
      <3> HIDE DEF R, r
      <3> QED  BY <2>15, <2>16, <2>17, <3>1 DEF StoreInv, R
    <2> HIDE DEF q
    <2>19. \A a \in Assigns(ir, R, r) :
             /\ a \in DOMAIN ir /\ Work(ir[a]) /\ a < k /\ ir[a].el \in DOMAIN body
             /\ body[ir[a].el].tgt = r /\ r < ir[a].el
      BY <2>4, AssignsOf
    <2>20. q \in 1 .. i - 1 /\ r <= q /\ Writes(q, r) /\ q \in Nat
      <3>1. CASE q = r
        BY <2>3, <2>4, <3>1 DEF Writes
      <3>2. CASE q # r
        <4>1. PICK a \in Assigns(ir, R, r) : ir[a].el = q
          BY <2>18, <3>2
        <4>2. /\ a \in DOMAIN ir /\ Work(ir[a]) /\ a < k /\ q \in DOMAIN body
              /\ body[q].tgt = r /\ r < q
          BY <2>19, <4>1
        <4>3. q < i
          BY <2>1, <4>1, <4>2, Ordered
        <4>4. q \in Nat /\ q > 0
          BY <4>2, Bodies
        <4> QED  BY <2>1, <2>4, <4>2, <4>3, <4>4 DEF Writes
      <3> QED  BY <3>1, <3>2
    <2>21. ASSUME NEW x \in q + 1 .. i - 1, Writes(x, r)  PROVE FALSE
      <3>1. x \in Nat /\ x > q /\ x < i /\ x # r
        BY <2>1, <2>4, <2>20, <2>21
      <3>2. x \in DOMAIN body
        <4>1. DOMAIN body = 1 .. Len(body) /\ Len(body) \in Nat
          BY Bodies
        <4> QED  BY <2>1, <2>20, <3>1, <4>1
      <3>3. body[x].tgt = r
        BY <2>21, <3>1 DEF Writes
      <3>4. body[x].kind = "assign"
        BY <2>4, <3>2, <3>3 DEF BodyInv
      <3>5. PICK a \in DOMAIN ir : Work(ir[a]) /\ ir[a].el = x
        BY <3>2, WorkOf
      <3>6. ir[a].op = "assign" /\ ir[a].var = r
        <4>1. ir[a].op \in {"spawn", "decl", "bare", "assign", "if", "do", "return"}
          BY <3>5, Works
        <4>2. Translates(ir[a])
          BY <3>5, Works
        <4>3. /\ Decl(x).op = "decl" /\ Bare(x).op = "bare" /\ Expr(x).op = "do"
              /\ Return(x).op = "return" /\ \A g : If(x, g).op = "if"
          BY DEF Decl, Bare, Expr, Return, If, Stmt
        <4>4. ir[a] = Assign(x)
          BY <3>4, <3>5, <4>2 DEF Translates, CallKinds, DeclKinds, BranchKinds
        <4> QED  BY <3>3, <4>4 DEF Assign, Stmt
      <3>7. a < k
        BY <2>1, <3>1, <3>5, Ordered
      <3>8. Turn(ir, k) = 3
        <4> SUFFICES ASSUME Turn(ir, k) = 2  PROVE FALSE
          BY <2>10
        <4>1. body[i].kind \in DeclKinds
          BY <2>1, <2>11, Works
        <4>2. \A y \in DOMAIN body : body[y].kind # "assign"
          BY <2>1, <4>1 DEF Reader, CallKinds, BranchKinds, DeclKinds
        <4> QED  BY <3>2, <3>4, <4>2
      <3>9. a \in Assigns(ir, R, r)
        BY <2>12, <3>6, <3>7, <3>8 DEF Assigns
      <3>10. x <= q
        BY <2>18, <3>5, <3>9
      <3> QED  BY <2>20, <3>1, <3>10
    <2>22. LastWrite(i) = q
      <3> HIDE DEF R
      <3>1. \A x \in q + 1 .. i - 1 : ~Writes(x, r)
        BY <2>21
      <3> QED  BY <2>1, <2>20, <3>1, LastWriteIs
    <2> QED  BY <1>5, <2>2, <2>22 DEF q
  <1> QED  BY <1>4, <1>5

LEMMA StepResult ==
  ASSUME BodyInv, NEW ir, Shape(ir), NEW k \in DOMAIN ir, NEW m, NEW n,
         StoreInv(m, ir, Past(ir, k)), Effect(m, ir[k], n)
  PROVE  ResultInv(n, ir, Past(ir, k) \cup {k})
  <1> DEFINE R == Past(ir, k)
             L == Len(ir)
             N == Len(body)
  <1>1. /\ R \subseteq DOMAIN ir /\ DOMAIN ir = 1 .. L /\ L \in Nat /\ L \in DOMAIN ir
        /\ ir[L].op \in {"return", "returnvar"}
    BY Works DEF Past, Shape
  <1> SUFFICES ASSUME L \in R \cup {k}
               PROVE  /\ ir[L].op = "return" => n.result = ir[L].el
                      /\ ir[L].op = "returnvar" /\ ir[L].var = N => n.result = N
    BY DEF ResultInv
  <1>2. k = L
    <2>1. L \in R => L < k
      BY <1>1, Turned
    <2> QED  BY <1>1, <2>1
  <1>3. ir[L].op = "return" => n.result = ir[L].el
    BY <1>2 DEF Effect
  <1>4. ASSUME ir[L].op = "returnvar", ir[L].var = N  PROVE n.result = N
    <2>1. n.result = m.store[N]
      BY <1>2, <1>4 DEF Effect
    <2>2. PICK j \in DOMAIN ir : ir[j].op = "spawn" /\ ir[j].el = N /\ ir[j].var = N
      BY <1>1, <1>4 DEF Shape, Ending, CarriesOver
    <2>3. PICK w \in j + 1 .. L : IsWait(ir, w, ir[j].grp)
      <3>1. Waited(ir, j, L + 1)
        BY <2>2 DEF Shape, Closed
      <3>2. (L + 1) - 1 = L
        BY <1>1
      <3> QED  BY <3>1, <3>2 DEF Waited
    <2>4. j \in R /\ w \in R /\ j < w
      <3>1. w # L
        BY <1>4, <2>3 DEF IsWait
      <3>2. w \in DOMAIN ir /\ w < k /\ j < k /\ j < w
        <4>1. j \in 1 .. L /\ w \in j + 1 .. L
          BY <1>1, <2>3
        <4> HIDE DEF L
        <4> QED  BY ONLY <1>1, <1>2, <3>1, <4>1
      <3>3. ir[k].op \notin {"group", "var", "decl"}
        BY <1>1, <1>2
      <3> QED  BY <3>2, <3>3, Turned
    <2>5. Work(ir[j]) /\ N \in DOMAIN body /\ N \in Nat /\ N # 0
      BY <2>2, Works, Bodies
    <2>6. ~Reassigned(N)
      <3> SUFFICES ASSUME NEW a \in DOMAIN body, body[a].kind = "assign", body[a].tgt = N
                   PROVE  FALSE
        BY DEF Reassigned
      <3>1. N \in 1 .. a - 1
        BY DEF BodyInv
      <3>2. a \in 1 .. N
        BY Bodies
      <3> QED  BY <2>5, <3>1, <3>2
    <2>7. Settled(ir, R, j)
      BY <2>3, <2>4 DEF Settled
    <2>8. m.store[N] = N \/ \E a \in Assigns(ir, R, N) : ir[a].el = m.store[N]
      <3> HIDE DEF R, N
      <3> QED  BY <2>2, <2>4, <2>5, <2>6, <2>7 DEF StoreInv, R
    <2>9. Assigns(ir, R, N) = {}
      BY <2>5, <2>6, AssignsOf
    <2> QED  BY <2>1, <2>8, <2>9
  <1> QED  BY <1>3, <1>4

\* One statement.
LEMMA RunStep ==
  ASSUME BodyInv, NEW ir, Shape(ir), NEW k \in DOMAIN ir, NEW m, RunInv(m, ir, Past(ir, k))
  PROVE  RunInv(RunStmt(m, ir[k]), ir, Past(ir, k) \cup {k})
  <1> DEFINE n == RunStmt(m, ir[k])
             R == Past(ir, k)
  <1>1. /\ m \in Machine /\ GroupInv(m, ir, R) /\ DoneInv(m, ir, R) /\ StartedInv(m, ir, R)
        /\ StoreInv(m, ir, R) /\ SeenInv(m, ir, R)
    BY DEF RunInv
  <1>2. Effect(m, ir[k], n)
    BY <1>1, Effects
  <1> HIDE DEF n
  <1>3. n \in Machine
    BY <1>2 DEF Effect
  <1>4. GroupInv(n, ir, R \cup {k})
    BY <1>1, <1>2, StepGroup
  <1>5. DoneInv(n, ir, R \cup {k})
    BY <1>1, <1>2, StepDone
  <1>6. StartedInv(n, ir, R \cup {k})
    BY <1>1, <1>2, StepStarted
  <1>7. StoreInv(n, ir, R \cup {k})
    BY <1>1, <1>2, StepStore
  <1>8. SeenInv(n, ir, R \cup {k})
    BY <1>1, <1>2, StepSeen
  <1>9. ResultInv(n, ir, R \cup {k})
    BY <1>1, <1>2, StepResult
  <1> QED  BY <1>3, <1>4, <1>5, <1>6, <1>7, <1>8, <1>9 DEF RunInv, n

LEMMA RunStart ==
  ASSUME BodyInv, NEW ir
  PROVE  RunInv(Fresh, ir, {})
  <1>1. Fresh \in Machine /\ Fresh.started = <<>> /\ \A g \in Indices : Fresh.group[g] = {}
    BY FreshMachine
  <1>2. GroupInv(Fresh, ir, {}) /\ DoneInv(Fresh, ir, {}) /\ StartedInv(Fresh, ir, {})
    BY <1>1 DEF GroupInv, DoneInv, StartedInv
  <1>3. StoreInv(Fresh, ir, {}) /\ SeenInv(Fresh, ir, {}) /\ ResultInv(Fresh, ir, {})
    BY DEF StoreInv, SeenInv, ResultInv
  <1> QED  BY <1>1, <1>2, <1>3 DEF RunInv

\* The statements at the places P, when those at R0 have run.
LEMMA RunPlaces ==
  ASSUME BodyInv, NEW ir, Shape(ir), NEW m, NEW P \in SUBSET (DOMAIN ir), NEW R0,
         RunInv(m, ir, R0), \A k \in P : Past(ir, k) = R0 \cup {j \in P : j < k}
  PROVE  RunInv(RunAt(m, ir, P), ir, R0 \cup P)
  <1> DEFINE L == Len(ir)
             u == RunUpTo(m, ir, P)
             Q(i) == R0 \cup {j \in P : j <= i}
             S == {i \in 0 .. L : RunInv(u[i], ir, Q(i))}
  <1>1. DOMAIN ir = 1 .. L /\ L \in Nat
    <2>1. ir \in Seq(Statement)
      BY DEF Shape, LoweredTo, WellFormed
    <2> QED  BY <2>1
  <1>2. u = [i \in 0 .. L |->
          IF i = 0 THEN m ELSE IF i \in P THEN RunStmt(u[i - 1], ir[i]) ELSE u[i - 1]]
    BY <1>1, RunsUpTo
  <1> HIDE DEF u
  <1>3. u[0] = m
    BY <1>1, <1>2
  <1>4. 0 \in S
    <2>1. Q(0) = R0
      BY <1>1
    <2> HIDE DEF Q
    <2> QED  BY <1>1, <1>3, <2>1
  <1>5. ASSUME NEW i \in 0 .. L, i < L, i \in S  PROVE i + 1 \in S
    <2>1. i + 1 \in 0 .. L /\ i + 1 # 0 /\ (i + 1) - 1 = i /\ i \in Nat
      BY <1>1, <1>5
    <2>2. u[i + 1] = IF i + 1 \in P THEN RunStmt(u[i], ir[i + 1]) ELSE u[i]
      BY <1>2, <2>1
    <2>3. RunInv(u[i], ir, Q(i))
      BY <1>5
    <2>4. CASE i + 1 \in P
      <3>1. Q(i) = Past(ir, i + 1)
        <4>1. \A j \in P : j <= i <=> j < i + 1
          BY <1>1, <2>1
        <4> QED  BY <2>4, <4>1
      <3>2. Q(i + 1) = Q(i) \cup {i + 1}
        <4>1. \A j \in P : j <= i + 1 <=> (j <= i \/ j = i + 1)
          BY <1>1, <2>1
        <4> QED  BY <2>4, <4>1
      <3> HIDE DEF Q
      <3>3. RunInv(RunStmt(u[i], ir[i + 1]), ir, Past(ir, i + 1) \cup {i + 1})
        BY <2>3, <2>4, <3>1, RunStep
      <3> QED  BY <2>1, <2>2, <2>4, <3>1, <3>2, <3>3
    <2>5. CASE i + 1 \notin P
      <3>1. Q(i + 1) = Q(i)
        <4>1. \A j \in P : j <= i + 1 <=> j <= i
          BY <1>1, <2>1, <2>5
        <4> QED  BY <4>1
      <3> HIDE DEF Q
      <3> QED  BY <2>1, <2>2, <2>3, <2>5, <3>1
    <2> QED  BY <2>4, <2>5
  <1>6. L \in S
    <2> HIDE DEF S
    <2>1. \A i \in 0 .. L : i \in S
      BY ONLY <1>1, <1>4, <1>5, EveryUpTo
    <2> QED  BY <1>1, <2>1
  <1>7. Q(L) = R0 \cup P
    BY <1>1
  <1> HIDE DEF Q
  <1> QED  BY <1>6, <1>7 DEF RunAt, u

\* The whole of the generated code: emitThunk.
LEMMA Ran ==
  ASSUME BodyInv, NEW ir, Shape(ir)
  PROVE  RunInv(Run(ir), ir, DOMAIN ir)
  <1> DEFINE A == HoistedAt(ir)
             B == SplitAt(ir)
             C == RestAt(ir)
             a == RunAt(Fresh, ir, A)
             b == RunAt(a, ir, B)
  <1>1. A \subseteq DOMAIN ir /\ B \subseteq DOMAIN ir /\ C = DOMAIN ir \ (A \cup B)
    BY DEF HoistedAt, SplitAt, RestAt, BeforeWait
  <1>2. A \cap B = {}
    BY DEF HoistedAt, SplitAt, Hoisted, Split
  <1> HIDE DEF A, B, C
  <1>3. \A k \in DOMAIN ir : Turn(ir, k) = IF k \in A THEN 1 ELSE IF k \in B THEN 2 ELSE 3
    BY DEF Turn, A, B
  <1>4. \A k \in A : Past(ir, k) = {} \cup {j \in A : j < k}
    BY <1>1, <1>3 DEF Past
  <1>5. \A k \in B : Past(ir, k) = A \cup {j \in B : j < k}
    BY <1>1, <1>2, <1>3 DEF Past
  <1>6. \A k \in C : Past(ir, k) = (A \cup B) \cup {j \in C : j < k}
    BY <1>1, <1>3 DEF Past
  <1>7. RunInv(a, ir, {} \cup A)
    BY <1>1, <1>4, RunStart, RunPlaces
  <1>8. RunInv(a, ir, A)
    <2>1. {} \cup A = A
      OBVIOUS
    <2> QED  BY <1>7, <2>1
  <1> HIDE DEF a
  <1>9. RunInv(b, ir, A \cup B)
    BY <1>1, <1>5, <1>8, RunPlaces
  <1> HIDE DEF b
  <1>10. RunInv(RunAt(b, ir, C), ir, (A \cup B) \cup C)
    BY <1>1, <1>6, <1>9, RunPlaces
  <1>11. (A \cup B) \cup C = DOMAIN ir
    BY <1>1
  <1>12. RunAt(b, ir, C) = Run(ir)
    BY DEF Run, a, b, A, B, C
  <1> QED  BY <1>10, <1>11, <1>12

-----------------------------------------------------------------------------
(* What the runs check, for bodies of every length.                         *)

\* Every call of a body has completed when its boc does.
LEMMA EveryCallDone ==
  ASSUME BodyInv, BranchesAwaited
  PROVE  CallsDone(CallKinds \cup (IF lowering = "singleton" THEN BranchKinds ELSE {}))
  <1> DEFINE ir == Lowered
             m == Run(ir)
  <1>1. Shape(ir)
    BY LoweredShape
  <1> HIDE DEF ir
  <1>2. RunInv(m, ir, DOMAIN ir)
    BY <1>1, Ran
  <1> HIDE DEF m
  <1> SUFFICES ASSUME NEW i \in DOMAIN body,
                      body[i].kind \in CallKinds \cup
                        (IF lowering = "singleton" THEN BranchKinds ELSE {})
               PROVE  i \in m.done
    BY DEF CallsDone, m, ir
  <1>3. DoneInv(m, ir, DOMAIN ir)
    BY <1>2 DEF RunInv
  <1>4. PICK k \in DOMAIN ir : Work(ir[k]) /\ ir[k].el = i
    BY <1>1, WorkOf
  <1>5. CASE ir[k].op = "spawn"
    <2>1. Waited(ir, k, Len(ir) + 1)
      BY <1>1, <1>5 DEF Shape, Closed
    <2>2. DOMAIN ir = 1 .. Len(ir) /\ Len(ir) \in Nat
      BY <1>1, <1>4, Works
    <2>3. PICK w \in k + 1 .. (Len(ir) + 1) - 1 : IsWait(ir, w, ir[k].grp)
      BY <2>1 DEF Waited
    <2>4. w \in DOMAIN ir /\ k < w
      BY <1>4, <2>2, <2>3
    <2> QED  BY <1>3, <1>4, <1>5, <2>3, <2>4 DEF DoneInv
  <1>6. CASE ir[k].op = "return"
    BY <1>3, <1>4, <1>6 DEF DoneInv
  <1>7. CASE ir[k].op = "if"
    <2>1. body[i].kind \in BranchKinds /\ ir[k] = If(i, IF lowering = "method" THEN MethodGroup ELSE 0)
      BY <1>1, <1>4, <1>7, Works
    <2>2. lowering = "singleton"
      BY <2>1 DEF CallKinds, BranchKinds
    <2>3. body[i].kind = "if"
      <3>1. body[i].kind \in Kinds[lowering] /\ lowering \in Lowerings
        <4>1. body[i] \in Element
          BY Bodies
        <4> QED  BY <4>1 DEF Element, BodyInv
      <3> QED  BY <2>1, <2>2, <3>1 DEF BranchKinds, BranchesAwaited
    <2>4. Inner(ir[k]) = Branch(i, 0)[1]
      <3>1. If(i, 0).op = "if" /\ If(i, 0).then = Branch(i, 0)
        BY DEF If
      <3> QED  BY <2>1, <2>2, <3>1 DEF Inner
    <2>5. Branch(i, 0)[1].op = "force"
      <3>1. Branch(i, 0)[1] = [op |-> IF 0 # 0 THEN "spawn"
                                      ELSE IF body[i].kind = "if" THEN "force" ELSE "start",
                               el |-> i, var |-> 0, grp |-> 0, lazy |-> 0 # 0, then |-> <<>>]
        BY <2>1, <2>3, Branches
      <3> QED  BY <2>3, <3>1
    <2> QED  BY <1>3, <1>4, <2>4, <2>5 DEF DoneInv
  <1>8. ir[k].op \notin {"decl", "bare", "assign", "do"}
    <2>1. /\ ir[k].op = "decl" => body[i].kind \in DeclKinds
          /\ ir[k].op = "bare" => body[i].kind = "typed"
          /\ ir[k].op = "assign" => body[i].kind = "assign"
      BY <1>1, <1>4, Works
    <2>2. ir[k].op = "do" => body[i].kind = "do"
      <3>1. Translates(ir[k])
        BY <1>1, <1>4, Works
      <3>2. /\ Decl(i).op = "decl" /\ Bare(i).op = "bare" /\ Assign(i).op = "assign"
            /\ Return(i).op = "return" /\ \A g : If(i, g).op = "if"
        BY DEF Decl, Bare, Assign, Return, If, Stmt
      <3> QED  BY <1>4, <3>1, <3>2 DEF Translates
    <2> QED  BY <2>1, <2>2 DEF CallKinds, BranchKinds, DeclKinds
  <1>9. ir[k].op \in {"spawn", "decl", "bare", "assign", "if", "do", "return"}
    BY <1>1, <1>4, Works
  <1> QED  BY <1>5, <1>6, <1>7, <1>8, <1>9

LEMMA EveryReadIsLastWrite ==
  ASSUME BodyInv, ReadersKept
  PROVE  ReadersSeeLastWrite
  <1> DEFINE ir == Lowered
             m == Run(ir)
  <1>1. Shape(ir)
    BY LoweredShape
  <1> HIDE DEF ir
  <1>2. RunInv(m, ir, DOMAIN ir)
    BY <1>1, Ran
  <1> HIDE DEF m
  <1>3. ASSUME NEW i \in DOMAIN body, Reader(i), body[i].reads # 0
        PROVE  m.seen[i] = LastWrite(i)
    <2>1. PICK k \in DOMAIN ir : Work(ir[k]) /\ ir[k].el = i
      BY <1>1, WorkOf
    <2> QED  BY <1>2, <1>3, <2>1 DEF RunInv, SeenInv
  <1>4. ASSUME NEW i \in DOMAIN body,
               body[i].kind \in {"do"} \cup BranchKinds
                 \cup (IF \E a \in DOMAIN body : body[a].kind = "assign" THEN {} ELSE DeclKinds)
                 \cup (IF lowering = "singleton" THEN CallKinds ELSE {})
        PROVE  Reader(i)
    BY <1>4 DEF Reader
  <1> QED  BY <1>3, <1>4 DEF ReadersSeeLastWrite, ReadersSee, m, ir

LEMMA EveryResultIsLast ==
  ASSUME BodyInv, ResultsKept
  PROVE  ResultIsLastElement
  <1> DEFINE ir == Lowered
             m == Run(ir)
  <1>1. Shape(ir)
    BY LoweredShape
  <1> HIDE DEF ir
  <1>2. RunInv(m, ir, DOMAIN ir)
    BY <1>1, Ran
  <1> HIDE DEF m
  <1> SUFFICES ASSUME WellTyped, result # "unit"  PROVE m.result = Len(body)
    BY DEF ResultIsLastElement, m, ir
  <1>3. \/ ir[Len(ir)].op = "return" /\ ir[Len(ir)].el = Len(body)
        \/ ir[Len(ir)].op = "returnvar" /\ ir[Len(ir)].var = Len(body)
    BY <1>1 DEF Shape
  <1>4. Len(ir) \in DOMAIN ir
    <2>1. ir \in Seq(Statement) /\ ir # <<>>
      BY <1>1 DEF Shape, LoweredTo, WellFormed
    <2> QED  BY <2>1
  <1> QED  BY <1>2, <1>3, <1>4 DEF RunInv, ResultInv

LEMMA EverySpawnInOrder ==
  ASSUME BodyInv
  PROVE  SpawnsInOrder
  <1> DEFINE ir == Lowered
             m == Run(ir)
  <1>1. Shape(ir)
    BY LoweredShape
  <1> HIDE DEF ir
  <1>2. RunInv(m, ir, DOMAIN ir)
    BY <1>1, Ran
  <1> HIDE DEF m
  <1>3. \A a, b \in DOMAIN m.started : a < b => m.started[a] < m.started[b]
    BY <1>2 DEF RunInv, StartedInv
  <1>4. ASSUME NEW j \in DOMAIN ir, NEW k \in DOMAIN ir,
               ir[j].op = "spawn", ir[k].op = "spawn", ir[k].el = ir[j].el + 1,
               body[ir[k].el].reads # 0 =>
                 body[body[ir[k].el].reads].kind \notin {"bind", "lazy"}
        PROVE  \A w \in j .. k : ir[w].op # "wait"
    <2>1. ~ReadsCall(ir[k].el)
      BY <1>4 DEF ReadsCall
    <2> QED  BY <1>1, <1>4, <2>1 DEF Shape, LoweredTo, Together
  <1> QED  BY <1>3, <1>4 DEF SpawnsInOrder, m, ir

\* Names are declared where they are used: a declaration of a singleton's body
\* has a value, so that it is split and not left in the closure.
LEMMA EveryNameVisible ==
  ASSUME BodyInv
  PROVE  NamesVisible
  <1> DEFINE ir == Lowered
  <1>1. Shape(ir)
    BY LoweredShape
  <1> HIDE DEF ir
  <1>2. lowering = "singleton" => InnerNames(ir) = {}
    <2> SUFFICES ASSUME lowering = "singleton", NEW j \in BeforeWait(ir),
                        ir[j].op \in {"var", "decl", "bare"}, Immediate(ir[j])
                 PROVE  FALSE
      BY DEF InnerNames
    <2>1. ir[j].op = "bare"
      BY DEF Immediate, Hoisted, Split
    <2>2. j \in DOMAIN ir
      BY DEF BeforeWait
    <2> QED  BY <1>1, <2>1, <2>2, Works
  <1> QED  BY <1>2 DEF NamesVisible, ir

LEMMA EveryCallComplete ==
  ASSUME BodyInv, BranchesAwaited
  PROVE  CallsComplete
  <1> DEFINE ir == Lowered
  <1>1. LoweredTo(ir, Len(body))
    BY LoweredShape DEF Shape
  <1> HIDE DEF ir
  <1>2. Grouped(ir) /\ OneWait(ir)
    BY <1>1 DEF LoweredTo
  <1>3. /\ body \in Seq(Element) /\ Len(body) <= MaxLen[lowering] /\ result \in Results
    BY DEF BodyInv
  <1>4. \A k \in DOMAIN ir :
          /\ ir[k].op \in {"spawn", "wait"} =>
               \E j \in 1 .. k - 1 : ir[j].op = "group" /\ ir[j].grp = ir[k].grp
          /\ ir[k].op = "wait" /\ lowering = "singleton" =>
               \A j \in 1 .. k - 1 : ir[j].op = "wait" => ir[j].grp # ir[k].grp
    <2>1. DOMAIN ir = 1 .. Len(ir) /\ Len(ir) \in Nat
      BY <1>1, Bodies, CallsAre
    <2>2. \A k \in DOMAIN ir : \A j \in 1 .. k - 1 : j \in DOMAIN ir /\ j < k
      BY <2>1
    <2> QED  BY <1>2, <2>2 DEF Grouped, OneWait, IsWait
  <1>5. TypeOK
    BY <1>3, <1>4 DEF TypeOK, ir
  <1> QED  BY <1>5, EveryCallDone DEF CallsComplete

-----------------------------------------------------------------------------
(* Theorems.                                                                *)

\* The bodies a step may extend.
LEMMA ExtendKeeps ==
  ASSUME BodyInv, NEW e \in Element, Extend(e)
  PROVE  BodyInv'
  <1>1. /\ body' = Append(body, e) /\ lowering' = lowering /\ result' = result
        /\ Len(body) < MaxLen[lowering]
        /\ e.reads = 0 \/ Bound(e.reads)
        /\ e.kind = "assign" => Bound(e.tgt) /\ e.reads = 0
        /\ e.kind # "assign" => e.tgt = 0
    BY DEF Extend
  <1>2. Element' = Element
    BY <1>1 DEF Element, Indices
  <1>3. /\ body \in Seq(Element) /\ Len(body) \in Nat /\ DOMAIN body = 1 .. Len(body)
        /\ lowering \in Lowerings /\ result \in Results /\ MaxLen[lowering] \in Nat
    BY Bodies, LoweringAssumption DEF BodyInv
  <1>4. \A i \in DOMAIN body :
          /\ body[i].reads # 0 =>
               body[i].reads \in 1 .. i - 1 /\ body[body[i].reads].kind \in Binders
          /\ body[i].kind = "assign" =>
               /\ body[i].tgt \in 1 .. i - 1 /\ body[body[i].tgt].kind \in Binders
               /\ body[i].reads = 0
          /\ body[i].kind # "assign" => body[i].tgt = 0
    BY DEF BodyInv
  <1> DEFINE b == body'
  <1> HIDE DEF Element
  <1>5. /\ b \in Seq(Element) /\ Len(b) = Len(body) + 1 /\ DOMAIN b = 1 .. Len(body) + 1
        /\ \A i \in DOMAIN body : b[i] = body[i]
        /\ b[Len(body) + 1] = e
    BY <1>1, <1>3
  <1>6. Len(b) <= MaxLen[lowering]
    BY <1>1, <1>3, <1>5
  <1>7. \A x : Bound(x) => x \in 1 .. Len(body) /\ b[x].kind \in Binders
    BY <1>3, <1>5 DEF Bound
  <1> HIDE DEF b
  <1>8. ASSUME NEW i \in DOMAIN b
        PROVE  /\ b[i].reads # 0 => b[i].reads \in 1 .. i - 1 /\ b[b[i].reads].kind \in Binders
               /\ b[i].kind = "assign" =>
                    /\ b[i].tgt \in 1 .. i - 1 /\ b[b[i].tgt].kind \in Binders
                    /\ b[i].reads = 0
               /\ b[i].kind # "assign" => b[i].tgt = 0
    <2>1. CASE i \in DOMAIN body
      <3>1. b[i] = body[i] /\ 1 .. i - 1 \subseteq DOMAIN body
        BY <1>3, <1>5, <2>1
      <3> QED  BY <1>4, <1>5, <2>1, <3>1
    <2>2. CASE i = Len(body) + 1
      <3>1. b[i] = e /\ i - 1 = Len(body)
        BY <1>3, <1>5, <2>2
      <3> QED  BY <1>1, <1>7, <3>1
    <2> QED  BY <1>3, <1>5, <2>1, <2>2
  <1> QED  BY <1>1, <1>2, <1>3, <1>5, <1>6, <1>8 DEF BodyInv, b

\* The bodies the parser builds declare variables before they are used, which is
\* what the lowering relies on: each element mentions a variable that an earlier
\* one declares.
THEOREM BodyInvHolds == Spec => []BodyInv
  <1>1. Init => BodyInv
    <2> SUFFICES ASSUME Init  PROVE BodyInv
      OBVIOUS
    <2>1. MaxLen[lowering] \in Nat
      BY LoweringAssumption DEF Init
    <2>2. body = <<>> /\ lowering \in Lowerings /\ result \in Results
      BY DEF Init
    <2> QED  BY <2>1, <2>2 DEF BodyInv
  <1>2. BodyInv /\ [Next]_vars => BodyInv'
    <2>1. BodyInv /\ UNCHANGED vars => BodyInv'
      BY DEF BodyInv, vars, Element, Indices
    <2> QED  BY <2>1, ExtendKeeps DEF Next
  <1> QED  BY <1>1, <1>2, PTL DEF Spec

\* Structured concurrency of every body: lowerBocBody and
\* lowerSingletonBodyStmts emit a Wait for each call that they spawn, and every
\* group that is named is declared before, however the calls, declarations,
\* assignments and conditionals of the body are mixed.
THEOREM CallsCompleteHolds == ASSUME BranchesAwaited  PROVE Spec => []CallsComplete
  <1>1. BodyInv => CallsComplete
    BY EveryCallComplete
  <1> QED  BY <1>1, BodyInvHolds, PTL

\* Although calls of the body store their results while others run, and
\* declarations are moved in front of calls, an expression gets the value that
\* its variable has at that point of the body (emitPendingWait, flushGroup,
\* partitionWaitBody).
THEOREM ReadersSeeLastWriteHolds ==
  ASSUME ReadersKept  PROVE Spec => []ReadersSeeLastWrite
  <1>1. BodyInv => ReadersSeeLastWrite
    BY EveryReadIsLastWrite
  <1> QED  BY <1>1, BodyInvHolds, PTL

\* The value of a boc is that of its last element, also when that is a call
\* which a Wait separates from the return (lowerBodyOnlySingleton, the last
\* instance call of lowerBocBody).
THEOREM ResultIsLastElementHolds ==
  ASSUME ResultsKept  PROVE Spec => []ResultIsLastElement
  <1>1. BodyInv => ResultIsLastElement
    BY EveryResultIsLast
  <1> QED  BY <1>1, BodyInvHolds, PTL

\* Calls start in source order, and no Wait separates adjacent independent
\* ones: the lowering neither reorders calls nor makes them sequential.
THEOREM SpawnsInOrderHolds == Spec => []SpawnsInOrder
  <1>1. BodyInv => SpawnsInOrder
    BY EverySpawnInOrder
  <1> QED  BY <1>1, BodyInvHolds, PTL

\* The names that the code after the first Wait mentions are declared outside
\* of the closure that runs in the cown (partitionWaitBody).
THEOREM NamesVisibleHolds == Spec => []NamesVisible
  <1>1. BodyInv => NamesVisible
    BY EveryNameVisible
  <1> QED  BY <1>1, BodyInvHolds, PTL

\* The inductive invariant: whichever elements a body has, its lowering keeps
\* their order, joins every call before what is not a call, names groups after
\* their declaration and ends in one return (lower.go).
THEOREM LoweringInvHolds == Spec => []LoweringInv
  <1>1. BodyInv => LoweringInv
    BY LoweredShape DEF LoweringInv
  <1> QED  BY <1>1, BodyInvHolds, PTL
=============================================================================
