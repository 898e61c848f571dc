------------------------------ MODULE LazyProofs ------------------------------
(***************************************************************************)
(* Proofs about values at run time, for all programs, goroutines and       *)
(* scalars.                                                                *)
(***************************************************************************)
EXTENDS LazyInvariant, WellFoundedInduction, FiniteSetTheorems, TLAPS

-----------------------------------------------------------------------------
(* Where results lead.                                                      *)

\* A set of numbers that has 0 and with a number below n the next one has all
\* numbers up to n.
LEMMA EveryUpTo ==
  ASSUME NEW n \in Nat, NEW S, 0 \in S, \A k \in 0 .. n : k < n /\ k \in S => k + 1 \in S
  PROVE  \A k \in 0 .. n : k \in S
  <1> DEFINE T == {k \in Nat : k <= n /\ k \notin S}
  <1>1. SUFFICES ASSUME T # {} PROVE FALSE
    OBVIOUS
  <1>2. PICK x \in T : \A y \in T : ~(<<y, x>> \in OpToRel(<, Nat))
    <2>1. T \subseteq Nat
      OBVIOUS
    <2> HIDE DEF T
    <2> QED  BY <1>1, <2>1, WFMin, NatLessThanWellFounded, Zenon
  <1>3. x \in Nat /\ x <= n /\ x \notin S /\ x # 0
    BY <1>2
  <1>4. x - 1 \in T /\ x - 1 < x
    BY <1>3
  <1>5. <<x - 1, x>> \in OpToRel(<, Nat)
    BY <1>3, <1>4 DEF OpToRel
  <1> QED  BY <1>2, <1>4, <1>5

\* How many scalars there are.
LEMMA Count == Cardinality(Cells) \in Nat
  BY LazyAssumption, FS_CardinalityType

\* The equation of Leads.
LEMMA LeadsStep ==
  ASSUME NEW x
  PROVE  \A k \in 0 .. Cardinality(Cells) :
           Leads(x)[k] = [c \in Cells |->
             IF x.result[c].is = "lazy" /\ k > 0
             THEN Leads(x)[k - 1][x.result[c].n] ELSE x.result[c]]
  <1> DEFINE n == Cardinality(Cells)
             Row(g, k) == [c \in Cells |-> IF x.result[c].is = "lazy" /\ k > 0
                                           THEN g[k - 1][x.result[c].n] ELSE x.result[c]]
             F(g, k) == [i \in 0 .. k |-> Row(g, i)]
             S == {k \in 0 .. n : \E g : g = F(g, k)}
  <1> HIDE DEF n
  <1>0. n \in Nat
    BY Count DEF n
  <1>1. 0 \in S
    <2> DEFINE h == [i \in 0 .. 0 |-> [c \in Cells |-> x.result[c]]]
    <2>1. h = F(h, 0)
      <3>1. ASSUME NEW i \in 0 .. 0 PROVE [c \in Cells |-> x.result[c]] = Row(h, i)
        <4> HIDE DEF h
        <4>1. ~(i > 0)
          OBVIOUS
        <4> QED  BY <4>1
      <3> HIDE DEF Row
      <3> QED  BY <3>1
    <2>2. \E g : g = F(g, 0)
      <3> HIDE DEF F, h
      <3> QED  BY <2>1
    <2>3. 0 \in 0 .. n
      BY <1>0
    <2> HIDE DEF F
    <2> QED  BY <2>2, <2>3
  <1>2. ASSUME NEW k \in 0 .. n, k < n, k \in S  PROVE k + 1 \in S
    <2>1. PICK g : g = F(g, k)
      BY <1>2
    <2> DEFINE h == [i \in 0 .. k + 1 |-> IF i = k + 1 THEN Row(g, k + 1) ELSE g[i]]
    <2>2. ASSUME NEW i \in 0 .. k + 1  PROVE h[i] = Row(h, i)
      <3>1. h[i] = IF i = k + 1 THEN Row(g, k + 1) ELSE g[i]
        <4> HIDE DEF Row
        <4> QED  OBVIOUS
      <3>2. i > 0 => h[i - 1] = g[i - 1]
        <4> HIDE DEF Row
        <4> QED  BY <1>0
      <3>3. Row(h, i) = Row(g, i)
        <4> HIDE DEF h
        <4> QED  BY <3>2
      <3>4. i # k + 1 => g[i] = Row(g, i)
        <4> HIDE DEF Row
        <4> QED  BY <1>0, <2>1
      <3> HIDE DEF Row, h
      <3> QED  BY <3>1, <3>3, <3>4
    <2>3. h = F(h, k + 1)
      <3> DEFINE v(i) == IF i = k + 1 THEN Row(g, k + 1) ELSE g[i]
      <3>1. h = [i \in 0 .. k + 1 |-> v(i)]
        OBVIOUS
      <3> HIDE DEF v, h, Row
      <3> QED  BY <2>2, <3>1
    <2>4. \E f : f = F(f, k + 1)
      <3> HIDE DEF F, h
      <3> QED  BY <2>3
    <2>5. k + 1 \in 0 .. n
      BY <1>0, <1>2
    <2> HIDE DEF F
    <2> QED  BY <2>4, <2>5
  <1>3. n \in S
    <2> HIDE DEF S
    <2> QED  BY <1>0, <1>1, <1>2, EveryUpTo
  <1>4. \E g : g = F(g, n)
    BY <1>3
  <1>5. Leads(x) = CHOOSE g : g = F(g, n)
    BY DEF Leads, n
  <1>6. Leads(x) = F(Leads(x), n)
    BY <1>4, <1>5
  <1>7. ASSUME NEW k \in 0 .. n  PROVE Leads(x)[k] = Row(Leads(x), k)
    <2> HIDE DEF Row
    <2> QED  BY <1>6
  <1> QED  BY <1>7 DEF n

\* A chain of results that has ended does not go on.
LEMMA LeadsStays ==
  ASSUME NEW x \in Scenarios, NEW k \in 0 .. Cardinality(Cells)
  PROVE  \A c \in Cells : Leads(x)[k][c].is # "lazy" =>
           \A m \in k .. Cardinality(Cells) : Leads(x)[m][c] = Leads(x)[k][c]
  <1> DEFINE n == Cardinality(Cells)
             T == {m \in 0 .. n : m < n => \A c \in Cells :
                     Leads(x)[m][c].is # "lazy" => Leads(x)[m + 1][c] = Leads(x)[m][c]}
  <1> HIDE DEF n
  <1>0. n \in Nat /\ k \in 0 .. n
    BY Count DEF n
  <1>1. \A m \in 0 .. n : \A c \in Cells :
          Leads(x)[m][c] = IF x.result[c].is = "lazy" /\ m > 0
                           THEN Leads(x)[m - 1][x.result[c].n] ELSE x.result[c]
    <2> SUFFICES ASSUME NEW m \in 0 .. n, NEW c \in Cells
                 PROVE  Leads(x)[m][c] = IF x.result[c].is = "lazy" /\ m > 0
                           THEN Leads(x)[m - 1][x.result[c].n] ELSE x.result[c]
      OBVIOUS
    <2>1. Leads(x)[m] = [d \in Cells |-> IF x.result[d].is = "lazy" /\ m > 0
                           THEN Leads(x)[m - 1][x.result[d].n] ELSE x.result[d]]
      BY LeadsStep DEF n
    <2> QED  BY <2>1
  <1>2. \A c \in Cells : x.result[c].is = "lazy" => x.result[c].n \in Cells
    BY LazyAssumption DEF Scalars
  <1>3. 0 \in T
    BY <1>0, <1>1
  <1>4. ASSUME NEW m \in 0 .. n, m < n, m \in T PROVE m + 1 \in T
    <2>1. SUFFICES ASSUME m + 1 < n, NEW c \in Cells, Leads(x)[m + 1][c].is # "lazy"
                   PROVE  Leads(x)[m + 2][c] = Leads(x)[m + 1][c]
      BY <1>0, <1>4
    <2>2. m + 1 \in 0 .. n /\ m + 2 \in 0 .. n /\ (m + 1) - 1 = m /\ (m + 2) - 1 = m + 1
      BY <1>0, <2>1
    <2>3. CASE x.result[c].is = "lazy"
      <3>1. /\ Leads(x)[m + 1][c] = Leads(x)[m][x.result[c].n]
            /\ Leads(x)[m + 2][c] = Leads(x)[m + 1][x.result[c].n]
        BY <1>1, <2>2, <2>3
      <3> QED  BY <1>2, <1>4, <2>1, <2>3, <3>1
    <2>4. CASE x.result[c].is # "lazy"
      BY <1>1, <2>2, <2>4
    <2> QED  BY <2>3, <2>4
  <1>5. \A m \in 0 .. n : m \in T
    <2> HIDE DEF T
    <2> QED  BY <1>0, <1>3, <1>4, EveryUpTo
  <1>6. SUFFICES ASSUME NEW c \in Cells, Leads(x)[k][c].is # "lazy"
                 PROVE  \A m \in k .. n : Leads(x)[m][c] = Leads(x)[k][c]
    BY <1>0 DEF n
  <1> DEFINE U == {m \in 0 .. n : m >= k => Leads(x)[m][c] = Leads(x)[k][c]}
  <1>7. 0 \in U
    BY <1>0
  <1>8. ASSUME NEW m \in 0 .. n, m < n, m \in U PROVE m + 1 \in U
    <2>1. m + 1 >= k /\ m + 1 # k => m >= k
      BY <1>0
    <2> QED  BY <1>0, <1>5, <1>6, <1>8, <2>1
  <1>9. \A m \in 0 .. n : m \in U
    <2> HIDE DEF U
    <2> QED  BY <1>0, <1>7, <1>8, EveryUpTo
  <1> QED  BY <1>0, <1>9

-----------------------------------------------------------------------------
(* Programs and stacks.                                                     *)

\* The invariant with the scenario it is about, which no step changes.
Inv == s \in Scenarios /\ LazyInv

LEMMA ScenarioTyped ==
  ASSUME NEW x \in Scenarios
  PROVE  /\ x.kind \in [Cells -> {"go", "new"}] /\ x.result \in [Cells -> Scalars]
         /\ \A g \in Mains : x.prog[g] \in Seq(OperationsOf(x))
         /\ \A c \in Cells : x.body[c] \in Seq(OperationsOf(x))
         /\ x.fields \in Seq(Seq(Printable(x))) /\ x.arrays \in Seq(Seq(Scalars))
         /\ \A i \in OperationsOf(x) : OperationOK(x, i)
         /\ \A i, j \in OperationsOf(x) : i.p = j.p => i = j
  BY LazyAssumption

LEMMA Sorts ==
  ASSUME NEW x \in Scenarios
  PROVE  Scalars \subseteq Args /\ Printable(x) \subseteq Args /\ Arrays(x) \subseteq Args
  <1>1. DOMAIN x.fields \subseteq Nat /\ DOMAIN x.arrays \subseteq Nat
    BY ScenarioTyped
  <1> QED  BY <1>1 DEF Printable, Arrays, Args

\* The operators a program may have, and what they take.
LEMMA OperationTyped ==
  ASSUME NEW x \in Scenarios, NEW i \in OperationsOf(x)
  PROVE  /\ i = [op |-> i.op, args |-> i.args, p |-> i.p]
         /\ i.op \in {"await", "plus", "and", "any", "all", "filter", "lookup", "print", "at",
                      "append", "set"}
         /\ i.args \in Seq(Args)
         /\ i.op \in {"plus", "and"} => Len(i.args) = 2
         /\ i.op \in {"await", "print"} => Len(i.args) = 1
         /\ i.op \in {"at", "append"} => Len(i.args) = 2
         /\ i.op = "set" => Len(i.args) = 3
         /\ i.op = "lookup" => i.args # <<>>
         /\ i.op \in {"await", "plus", "and", "any", "all", "filter", "lookup"} =>
              i.args \in Seq(Scalars)
         /\ i.op = "print" => i.args \in [1 .. 1 -> Printable(x)]
         /\ i.op \in {"at", "append", "set"} =>
              i.args[1] \in Arrays(x) /\ \A k \in 2 .. Len(i.args) : i.args[k] \in Scalars
  <1>1. OperationOK(x, i)
    BY ScenarioTyped
  <1>2. \A S, T, n : n \in Nat /\ S \subseteq T /\ i.args \in [1 .. n -> S] =>
          i.args \in Seq(T) /\ Len(i.args) = n
    OBVIOUS
  <1>3. CASE i.op = "await"
    BY <1>1, <1>2, <1>3, Sorts DEF OperationOK, Op
  <1>4. CASE i.op \in {"plus", "and"}
    BY <1>1, <1>2, <1>4, Sorts DEF OperationOK, Op
  <1>5. CASE i.op \in {"any", "all", "filter", "lookup"}
    <2>1. i.args \in Seq(Scalars) /\ (i.op = "lookup" => i.args # <<>>)
      BY <1>1, <1>5 DEF OperationOK
    <2>2. i.args \in Seq(Args)
      BY <2>1, Sorts
    <2> QED  BY <1>1, <1>5, <2>1, <2>2 DEF OperationOK, Op
  <1>6. CASE i.op = "print"
    BY <1>1, <1>2, <1>6, Sorts DEF OperationOK, Op
  <1>7. CASE i.op \in {"at", "append", "set"}
    <2>1. /\ i.args \in Seq(Arrays(x) \cup Scalars) /\ i.args[1] \in Arrays(x)
          /\ Len(i.args) = IF i.op = "set" THEN 3 ELSE 2
          /\ \A k \in 2 .. Len(i.args) : i.args[k] \in Scalars
      BY <1>1, <1>7 DEF OperationOK
    <2>2. i.args \in Seq(Args)
      <3>1. Arrays(x) \cup Scalars \subseteq Args
        BY Sorts
      <3> HIDE DEF Args
      <3> QED  BY <2>1, <3>1
    <2> QED  BY <1>1, <1>7, <2>1, <2>2 DEF OperationOK, Op
  <1>8. i.op \in {"await", "plus", "and", "any", "all", "filter", "lookup", "print", "at",
                  "append", "set"}
    BY <1>1 DEF OperationOK
  <1> QED  BY <1>3, <1>4, <1>5, <1>6, <1>7, <1>8

LEMMA OperationItem ==
  ASSUME s \in Scenarios, NEW i \in Operations
  PROVE  i \in Item
  <1>1. i \in OperationsOf(s) /\ i.p \in Results
    BY DEF Operations, Results
  <1>2. i = [op |-> i.op, args |-> i.args, p |-> i.p] /\ i.args \in Seq(Args)
    <2> HIDE DEF Args
    <2> QED  BY <1>1, OperationTyped
  <1>3. i.op \in Ops
    BY <1>1, OperationTyped DEF Ops
  <1> HIDE DEF Args
  <1> QED  BY <1>1, <1>2, <1>3 DEF Item

\* new takes the place of the first d operations of the stack of g.
Moves(g, new, d) ==
  todo' = [todo EXCEPT ![g] = new \o SubSeq(todo[g], d + 1, Len(todo[g]))]

LEMMA TailIs ==
  ASSUME NEW S, NEW q \in Seq(S), q # <<>>, NEW new \in Seq(S)
  PROVE  /\ Tail(q) = <<>> \o SubSeq(q, 1 + 1, Len(q))
         /\ new \o Tail(q) = new \o SubSeq(q, 1 + 1, Len(q))
         /\ new \o q = new \o SubSeq(q, 0 + 1, Len(q))
  <1>1. /\ Len(q) \in Nat /\ Len(q) >= 1 /\ Tail(q) \in Seq(S)
        /\ Len(Tail(q)) = Len(q) - 1 /\ \A k \in 1 .. Len(q) - 1 : Tail(q)[k] = q[k + 1]
    OBVIOUS
  <1>2. /\ SubSeq(q, 2, Len(q)) \in Seq(S) /\ Len(SubSeq(q, 2, Len(q))) = Len(q) - 1
        /\ \A k \in 1 .. Len(q) - 1 : SubSeq(q, 2, Len(q))[k] = q[k + 1]
    BY <1>1
  <1>3. Tail(q) = SubSeq(q, 2, Len(q))
    BY <1>1, <1>2
  <1>4. /\ SubSeq(q, 1, Len(q)) \in Seq(S) /\ Len(SubSeq(q, 1, Len(q))) = Len(q)
        /\ \A k \in 1 .. Len(q) : SubSeq(q, 1, Len(q))[k] = q[k]
    BY <1>1
  <1>5. q = SubSeq(q, 1, Len(q))
    BY <1>1, <1>4
  <1>6. <<>> \o SubSeq(q, 2, Len(q)) = SubSeq(q, 2, Len(q))
    BY <1>2
  <1> QED  BY <1>3, <1>5, <1>6

LEMMA Concatenated ==
  ASSUME NEW S, NEW p \in Seq(S), NEW q \in Seq(S)
  PROVE  /\ p \o q \in Seq(S) /\ Len(p \o q) = Len(p) + Len(q)
         /\ \A k \in 1 .. Len(p) + Len(q) :
              (p \o q)[k] = IF k <= Len(p) THEN p[k] ELSE q[k - Len(p)]
  OBVIOUS

LEMMA StackMoved ==
  ASSUME Types, NEW g \in Goroutines, NEW new \in Seq(Item), NEW d \in {0, 1},
         Len(todo[g]) >= d, Moves(g, new, d)
  PROVE  /\ todo' \in [Goroutines -> Seq(Item)]
         /\ \A h \in Goroutines : h # g => todo'[h] = todo[h]
         /\ \A k \in DOMAIN new : k \in DOMAIN todo'[g] /\ todo'[g][k] = new[k]
         /\ \A k \in DOMAIN todo'[g] :
              \/ k \in DOMAIN new
              \/ /\ k - Len(new) + d \in DOMAIN todo[g] /\ k - Len(new) >= 1
                 /\ todo'[g][k] = todo[g][k - Len(new) + d]
         /\ \A k \in DOMAIN todo[g] : k > d =>
              /\ k - d + Len(new) \in DOMAIN todo'[g] /\ k - d + Len(new) \notin DOMAIN new
              /\ todo'[g][k - d + Len(new)] = todo[g][k]
  <1> DEFINE q == todo[g]
             r == SubSeq(q, d + 1, Len(q))
  <1>1. q \in Seq(Item) /\ Len(q) \in Nat /\ DOMAIN q = 1 .. Len(q)
    BY DEF Types
  <1>2. Len(new) \in Nat /\ DOMAIN new = 1 .. Len(new)
    OBVIOUS
  <1>3. /\ r \in Seq(Item) /\ Len(r) = Len(q) - d
        /\ \A k \in 1 .. Len(q) - d : r[k] = q[k + d]
    BY <1>1
  <1>4. todo'[g] = new \o r /\ \A h \in Goroutines : h # g => todo'[h] = todo[h]
    BY DEF Types, Moves
  <1> HIDE DEF q, r, Item
  <1>5. /\ new \o r \in Seq(Item) /\ Len(new \o r) = Len(new) + (Len(q) - d)
        /\ \A k \in 1 .. Len(new) + (Len(q) - d) :
             (new \o r)[k] = IF k <= Len(new) THEN new[k] ELSE r[k - Len(new)]
    <2>1. /\ new \o r \in Seq(Item) /\ Len(new \o r) = Len(new) + Len(r)
          /\ \A k \in 1 .. Len(new) + Len(r) :
               (new \o r)[k] = IF k <= Len(new) THEN new[k] ELSE r[k - Len(new)]
      BY <1>3, Concatenated, Zenon
    <2>2. Len(r) = Len(q) - d
      BY <1>3
    <2> QED  BY <2>1, <2>2, Zenon
  <1>6. todo' \in [Goroutines -> Seq(Item)]
    <2>1. todo' = [todo EXCEPT ![g] = new \o r]
      BY DEF Moves, q, r
    <2> QED  BY <1>5, <2>1 DEF Types
  <1>7. DOMAIN todo'[g] = 1 .. Len(new) + (Len(q) - d)
    BY <1>4, <1>5, <1>1, <1>2
  <1>8. ASSUME NEW k \in DOMAIN new  PROVE k \in DOMAIN todo'[g] /\ todo'[g][k] = new[k]
    BY <1>1, <1>2, <1>4, <1>5, <1>7 DEF q
  <1>9. ASSUME NEW k \in DOMAIN todo'[g], k \notin DOMAIN new
        PROVE  /\ k - Len(new) + d \in DOMAIN q /\ k - Len(new) >= 1
               /\ todo'[g][k] = q[k - Len(new) + d]
    <2>1. k \in Nat /\ k > Len(new) /\ k <= Len(new) + (Len(q) - d)
      BY <1>1, <1>2, <1>7, <1>9
    <2>2. todo'[g][k] = r[k - Len(new)] /\ k - Len(new) \in 1 .. Len(q) - d
      BY <1>1, <1>2, <1>4, <1>5, <2>1
    <2> QED  BY <1>1, <1>2, <1>3, <2>1, <2>2
  <1>10. ASSUME NEW k \in DOMAIN q, k > d
         PROVE  /\ k - d + Len(new) \in DOMAIN todo'[g] /\ k - d + Len(new) \notin DOMAIN new
                /\ todo'[g][k - d + Len(new)] = q[k]
    <2>1. /\ k \in Nat /\ k <= Len(q) /\ k - d + Len(new) \in 1 .. Len(new) + (Len(q) - d)
          /\ k - d + Len(new) > Len(new) /\ (k - d + Len(new)) - Len(new) = k - d
          /\ k - d \in 1 .. Len(q) - d /\ (k - d) + d = k
      BY <1>1, <1>2, <1>10
    <2>2. (new \o r)[k - d + Len(new)] = r[(k - d + Len(new)) - Len(new)]
      BY <1>2, <1>5, <2>1
    <2>3. r[k - d] = q[(k - d) + d]
      BY <1>3, <2>1
    <2>4. k - d + Len(new) \in DOMAIN todo'[g] /\ k - d + Len(new) \notin DOMAIN new
      BY <1>2, <1>7, <2>1
    <2> QED  BY <1>4, <2>1, <2>2, <2>3, <2>4
  <1> QED  BY <1>4, <1>6, <1>8, <1>9, <1>10 DEF q

\* Where the settling of c stands does not change, if neither what is pushed nor
\* what is removed settles c.
LEMMA SettlesKept ==
  ASSUME Types, OnceInv, NEW g \in Goroutines, NEW new \in Seq(Item), NEW d \in {0, 1},
         Len(todo[g]) >= d, Moves(g, new, d), NEW c \in Cells,
         \A k \in DOMAIN new : ~(new[k].op = "settle" /\ new[k].p = c),
         d = 1 => ~(todo[g][1].op = "settle" /\ todo[g][1].p = c)
  PROVE  /\ (\E h \in Goroutines : \E k \in DOMAIN todo'[h] : Settles(h, k, c)')
              <=> once[c] = "busy"
         /\ \A h, f \in Goroutines : \A k \in DOMAIN todo'[h], l \in DOMAIN todo'[f] :
              Settles(h, k, c)' /\ Settles(f, l, c)' => h = f /\ k = l
  <1>1. Len(new) \in Nat /\ DOMAIN new = 1 .. Len(new)
    BY DEF Types
  <1> DEFINE Old(h, k) == IF h = g THEN k - Len(new) + d ELSE k
             Young(h, k) == IF h = g THEN k - d + Len(new) ELSE k
  <1>2. /\ \A h \in Goroutines : h # g => todo'[h] = todo[h]
        /\ \A k \in DOMAIN new : todo'[g][k] = new[k]
        /\ \A k \in DOMAIN todo'[g] : k \notin DOMAIN new =>
             /\ k - Len(new) + d \in DOMAIN todo[g]
             /\ todo'[g][k] = todo[g][k - Len(new) + d]
        /\ \A k \in DOMAIN todo[g] : k > d =>
             /\ k - d + Len(new) \in DOMAIN todo'[g]
             /\ todo'[g][k - d + Len(new)] = todo[g][k]
        /\ DOMAIN todo'[g] \subseteq Nat
    <2>1. todo'[g] \in Seq(Item)
      BY StackMoved
    <2>2. DOMAIN todo'[g] \subseteq Nat
      <3> HIDE DEF Item
      <3> QED  BY <2>1
    <2> QED  BY <2>2, StackMoved
  <1>3. ASSUME NEW h \in Goroutines, NEW k \in DOMAIN todo'[h], Settles(h, k, c)'
        PROVE  Settles(h, Old(h, k), c) /\ Old(h, k) \in DOMAIN todo[h]
    <2>1. h = g => k \notin DOMAIN new
      BY <1>2, <1>3 DEF Settles
    <2> QED  BY <1>2, <1>3, <2>1 DEF Settles
  <1>4. ASSUME NEW h \in Goroutines, NEW k \in DOMAIN todo[h], Settles(h, k, c)
        PROVE  \E l \in DOMAIN todo'[h] : Settles(h, l, c)'
    <2>1. h = g => k > d
      <3>1. h = g /\ d = 1 => k # 1
        BY <1>4 DEF Settles
      <3>2. h = g => k \in 1 .. Len(todo[g])
        BY DEF Types
      <3> QED  BY <3>1, <3>2
    <2>2. Settles(h, Young(h, k), c)' /\ Young(h, k) \in DOMAIN todo'[h]
      BY <1>2, <1>4, <2>1 DEF Settles
    <2> HIDE DEF Young
    <2> QED  BY <2>2
  <1>5. ASSUME NEW h \in Goroutines, NEW f \in Goroutines,
               NEW k \in DOMAIN todo'[h], NEW l \in DOMAIN todo'[f],
               Settles(h, k, c)', Settles(f, l, c)'
        PROVE  h = f /\ k = l
    <2>1. h = f /\ Old(h, k) = Old(f, l)
      <3> HIDE DEF Old
      <3> QED  BY <1>3, <1>5 DEF OnceInv
    <2>2. h = g => k \in Nat /\ l \in Nat
      BY <1>2, <2>1
    <2> QED  BY <1>1, <2>1, <2>2
  <1>6. ASSUME NEW h \in Goroutines, NEW k \in DOMAIN todo'[h], Settles(h, k, c)'
        PROVE  \E l \in DOMAIN todo[h] : Settles(h, l, c)
    <2> HIDE DEF Old
    <2> QED  BY <1>3, <1>6
  <1>7. once[c] = "busy" <=> \E h \in Goroutines : \E k \in DOMAIN todo[h] : Settles(h, k, c)
    BY DEF OnceInv
  <1> QED  BY <1>4, <1>5, <1>6, <1>7

\* No step of once.Do.
LEMMA OnceKept ==
  ASSUME Types, OnceInv, NEW g \in Goroutines, NEW new \in Seq(Item), NEW d \in {0, 1},
         Len(todo[g]) >= d, Moves(g, new, d), UNCHANGED <<once, runs>>,
         \A k \in DOMAIN new : new[k].op # "settle",
         d = 1 => todo[g][1].op # "settle"
  PROVE  OnceInv'
  <1>1. \A c \in Cells : runs'[c] = IF once'[c] = "new" THEN 0 ELSE 1
    BY DEF OnceInv
  <1>2. Goroutines' = Goroutines
    BY DEF Goroutines
  <1> QED  BY <1>1, <1>2, SettlesKept DEF OnceInv

\* What a stack may contain does not depend on what is settled later.
LEMMA ItemKept ==
  ASSUME s \in Scenarios, s' = s, NEW t,
         \A c \in Cells : once[c] = "done" => once'[c] = "done" /\ val'[c] = val[c]
  PROVE  /\ FromProgram(t) => FromProgram(t)'
         /\ FromOnce(t) => FromOnce(t)'
         /\ FromPrint(t) => FromPrint(t)'
  <1>1. Operations' = Operations
    BY DEF Operations
  <1>2. FromOnce(t) => FromOnce(t)'
    BY DEF FromOnce
  <1>3. FromPrint(t) => FromPrint(t)'
    BY <1>1 DEF FromPrint
  <1>4. ASSUME NEW i \in Operations, i.op \in {"any", "all"}, Left(t, i)  PROVE Left(t, i)'
    <2> DEFINE n == Len(i.args) - Len(t.args)
    <2>1. i \in OperationsOf(s)
      BY DEF Operations
    <2>2. i.args \in Seq(Scalars)
      BY <1>4, <2>1, OperationTyped
    <2>3. ASSUME NEW k \in 1 .. n  PROVE (Known(i.args[k]) /\ Value(i.args[k]) # Stop(i))'
      <3>1. Known(i.args[k]) /\ Value(i.args[k]) # Stop(i)
        BY <1>4 DEF Left
      <3>2. k \in DOMAIN i.args
        BY <1>4, <2>2 DEF Left
      <3>3. i.args[k].is = "lazy" => i.args[k].n \in Cells
        <4>1. i.args[k] \in Scalars
          BY <2>2, <3>2
        <4> QED  BY <4>1 DEF Scalars
      <3> QED  BY <3>1, <3>3 DEF Known, Value, Stop
    <2> QED  BY <1>4, <2>3 DEF Left
  <1>5. FromProgram(t) => FromProgram(t)'
    BY <1>1, <1>4 DEF FromProgram
  <1> QED  BY <1>2, <1>3, <1>5

\* Whose step it is.
LEMMA HeadItem ==
  ASSUME Inv, NEW g \in Goroutines, todo[g] # <<>>
  PROVE  /\ todo[g] \in Seq(Item) /\ Len(todo[g]) \in Nat /\ Len(todo[g]) >= 1
         /\ Head1(g) = todo[g][1] /\ Head1(g) \in Item
         /\ FromProgram(Head1(g)) \/ FromOnce(Head1(g)) \/ FromPrint(Head1(g))
  <1>1. todo[g] \in Seq(Item)
    BY DEF Inv, LazyInv, Types
  <1>2. Len(todo[g]) \in Nat /\ Len(todo[g]) >= 1 /\ Head1(g) = todo[g][1] /\ 1 \in DOMAIN todo[g]
        /\ todo[g][1] \in Item
    <2> HIDE DEF Item
    <2> QED  BY <1>1 DEF Head1
  <1> QED  BY <1>1, <1>2 DEF Inv, LazyInv, StackInv, ToSet

\* What only an operation of the program has on a stack.
ProgramOps == {"await", "plus", "and", "any", "all", "filter", "lookup", "print", "at",
               "append", "set"}

LEMMA ProgramItem ==
  ASSUME Inv, NEW t, t.op \in ProgramOps, FromProgram(t) \/ FromOnce(t) \/ FromPrint(t)
  PROVE  \E i \in Operations : /\ i.op = t.op /\ i.p = t.p
                               /\ IF i.op \in {"any", "all"} THEN Left(t, i) ELSE t = i
  BY DEF FromProgram, FromOnce, FromPrint, ProgramOps, Left

\* Operations keep the results of the others.
LEMMA NamesDiffer ==
  ASSUME s \in Scenarios, NEW i \in Operations, NEW j \in Operations, i.p = j.p
  PROVE  i = j
  BY ScenarioTyped DEF Operations

LEMMA Constant ==
  ASSUME s' = s
  PROVE  Operations' = Operations /\ Results' = Results /\ Item' = Item
         /\ Goroutines' = Goroutines /\ Scalars' = Scalars
  BY DEF Operations, Results, Item, Args, Goroutines, Scalars

\* The store only grows.
Grows ==
  /\ store' \in Seq(Seq(Scalars)) /\ Len(store) <= Len(store')
  /\ \A b \in DOMAIN store : store'[b] = store[b]

LEMMA CorrectKept ==
  ASSUME Inv, s' = s, Grows, NEW i \in Operations, Correct(i), out'[i.p] = out[i.p]
  PROVE  Correct(i)'
  <1>1. DOMAIN store \subseteq DOMAIN store'
    BY DEF Inv, LazyInv, Types, Grows
  <1>2. out[i.p][1] \in DOMAIN store => Slice(out[i.p])' = Slice(out[i.p])
    BY <1>1 DEF Grows, Slice
  <1>3. Regular(i)' = Regular(i)
    BY DEF Regular, RawOperands
  <1>4. Expected(s, i)' = Expected(s, i)
    BY DEF Expected
  <1> QED  BY <1>1, <1>2, <1>3, <1>4 DEF Correct

\* What is on the stacks stays what it is, whatever else the step settles.
LEMMA StackKept ==
  ASSUME Inv, s' = s, \A c \in Cells : once[c] = "done" => once'[c] = "done" /\ val'[c] = val[c],
         NEW g \in Goroutines, NEW new \in Seq(Item), NEW d \in {0, 1},
         Len(todo[g]) >= d, Moves(g, new, d),
         \A k \in DOMAIN new : FromProgram(new[k]) \/ FromOnce(new[k]) \/ FromPrint(new[k])
  PROVE  StackInv'
  <1>1. /\ \A h \in Goroutines : h # g => todo'[h] = todo[h]
        /\ \A k \in DOMAIN new : k \in DOMAIN todo'[g] /\ todo'[g][k] = new[k]
        /\ \A k \in DOMAIN todo'[g] :
             \/ k \in DOMAIN new
             \/ /\ k - Len(new) + d \in DOMAIN todo[g]
                /\ todo'[g][k] = todo[g][k - Len(new) + d]
    BY StackMoved DEF Inv, LazyInv
  <1>2. SUFFICES ASSUME NEW h \in Goroutines, NEW k \in DOMAIN todo'[h], NEW t, t = todo'[h][k]
                 PROVE  (FromProgram(t) \/ FromOnce(t) \/ FromPrint(t))'
    BY Constant DEF StackInv, ToSet
  <1>3. FromProgram(t) \/ FromOnce(t) \/ FromPrint(t)
    <2>1. CASE h # g
      BY <1>1, <1>2, <2>1 DEF Inv, LazyInv, StackInv, ToSet
    <2>2. CASE h = g /\ k \in DOMAIN new
      BY <1>1, <1>2, <2>2
    <2>3. CASE h = g /\ k \notin DOMAIN new
      BY <1>1, <1>2, <2>3 DEF Inv, LazyInv, StackInv, ToSet
    <2> QED  BY <2>1, <2>2, <2>3
  <1> QED  BY <1>3, ItemKept DEF Inv

\* A step that settles nothing: it completes operations as it should, or none.
LEMMA StepKeeps ==
  ASSUME Inv, UNCHANGED <<s, once, val, runs>>, NEW g \in Goroutines,
         NEW new \in Seq(Item), NEW d \in {0, 1}, Len(todo[g]) >= d, Moves(g, new, d),
         \A k \in DOMAIN new : /\ new[k].op # "settle"
                               /\ FromProgram(new[k]) \/ FromOnce(new[k]) \/ FromPrint(new[k]),
         d = 1 => todo[g][1].op # "settle",
         Grows, DOMAIN out' = DOMAIN out, finished' \subseteq Results,
         \A i \in Operations : i.p \in finished' =>
           (i.p \in finished /\ out'[i.p] = out[i.p]) \/ Correct(i)' \/ i.op = "print"
  PROVE  Inv'
  <1>1. Types'
    <2>1. todo' \in [Goroutines -> Seq(Item)]
      BY StackMoved DEF Inv, LazyInv
    <2> QED  BY <2>1, Constant DEF Inv, LazyInv, Types, Grows
  <1>2. StackInv'
    BY StackKept
  <1>3. OnceInv'
    BY OnceKept DEF Inv, LazyInv
  <1>4. ValInv' /\ BoolInv'
    <2>1. Done' = Done
      BY DEF Done
    <2> QED  BY <2>1 DEF Inv, LazyInv, ValInv, BoolInv
  <1>5. StoreInv'
    <2>1. /\ Len(s.arrays) <= Len(store) /\ \A b \in DOMAIN s.arrays : store[b] = s.arrays[b]
          /\ s.arrays \in Seq(Seq(Scalars)) /\ store \in Seq(Seq(Scalars))
      BY ScenarioTyped DEF Inv, LazyInv, StoreInv, Types
    <2>2. DOMAIN s.arrays \subseteq DOMAIN store
      BY <2>1
    <2>3. Len(s.arrays) \in Nat /\ Len(store) \in Nat /\ Len(store') \in Nat
      BY <2>1 DEF Grows
    <2> QED  BY <2>1, <2>2, <2>3 DEF Grows, StoreInv
  <1>6. OutInv'
    <2>1. ASSUME NEW i \in Operations, i.p \in finished'  PROVE Correct(i)'
      <3>1. CASE i.p \in finished /\ out'[i.p] = out[i.p]
        BY <3>1, CorrectKept DEF Inv, LazyInv, OutInv
      <3>2. CASE i.op = "print"
        BY <3>2 DEF Correct
      <3> QED  BY <2>1, <3>1, <3>2
    <2> QED  BY <2>1, Constant DEF OutInv
  <1>7. s' \in Scenarios
    BY DEF Inv
  <1> QED  BY <1>1, <1>2, <1>3, <1>4, <1>5, <1>6, <1>7 DEF Inv, LazyInv


-----------------------------------------------------------------------------
(* What a use sees.                                                         *)

LEMMA DoneCount ==
  /\ IsFiniteSet(Done) /\ Cardinality(Done) \in 0 .. Cardinality(Cells)
  /\ Done \subseteq Cells
  <1>1. Done \subseteq Cells /\ IsFiniteSet(Cells)
    BY LazyAssumption DEF Done
  <1>2. IsFiniteSet(Done) /\ Cardinality(Done) <= Cardinality(Cells)
    BY <1>1, FS_Subset
  <1> QED  BY <1>1, <1>2, FS_CardinalityType

LEMMA UsedIsFinal ==
  ASSUME Inv, NEW v \in Scalars, Known(v)
  PROVE  Value(v) = Final(s, v) /\ Value(v) \in Int
  <1>1. CASE v.is = "lazy"
    <2>1. v.n \in Done
      BY <1>1 DEF Known, Done, Scalars
    <2>2. Leads(s)[Cardinality(Done)][v.n] = Val(val[v.n])
      BY <2>1 DEF Inv, LazyInv, ValInv
    <2>3. Leads(s)[Cardinality(Cells)][v.n] = Val(val[v.n])
      <3>1. Val(val[v.n]).is # "lazy"
        BY DEF Val
      <3>2. Cardinality(Cells) \in Cardinality(Done) .. Cardinality(Cells)
        BY DoneCount, Count
      <3> QED  BY <2>1, <2>2, <3>1, <3>2, DoneCount, LeadsStays DEF Inv
    <2>4. val[v.n] \in Int
      BY <2>1, DoneCount DEF Inv, LazyInv, Types
    <2> QED  BY <1>1, <2>3, <2>4 DEF Value, Final, Val
  <1>2. CASE v.is # "lazy"
    BY <1>2 DEF Value, Final, Scalars
  <1> QED  BY <1>1, <1>2

LEMMA UsedIsBool ==
  ASSUME Inv, NEW B \in SUBSET Cells, \A c \in B : s.result[c] \in Bools(B),
         NEW v \in Bools(B), Known(v)
  PROVE  Value(v) \in {0, 1}
  <1>1. CASE v \in {Val(0), Val(1)}
    BY <1>1 DEF Value, Val
  <1>2. CASE v \in {Lazy(c) : c \in B}
    <2>1. v.is = "lazy" /\ v.n \in B \cap Done
      BY <1>2 DEF Lazy, Known, Done
    <2> QED  BY <2>1 DEF Value, Inv, LazyInv, BoolInv
  <1> QED  BY <1>1, <1>2 DEF Bools

LEMMA UsedKnown ==
  ASSUME NEW i, Unsettled(i) = {}
  PROVE  /\ \A k \in DOMAIN Used(i) : Known(Used(i)[k])
         /\ i.op \in {"plus", "await", "settle", "repr"} => Used(i) = i.args
         /\ i.op \in {"any", "all"} => Used(i) = First(i.args)
         /\ i.op = "and" =>
              Used(i) = IF Value(i.args[1]) = 0 THEN First(i.args) ELSE i.args
  BY DEF Unsettled, Used, Known

LEMMA ScalarIs ==
  ASSUME NEW v \in Scalars
  PROVE  v.is \in {"val", "lazy"} /\ (v.is = "val" => v.n \in Int /\ v = Val(v.n))
         /\ (v.is = "lazy" => v.n \in Cells)
  BY DEF Scalars, Val

\* The documented results, by operation.
LEMMA ExpectedIs ==
  ASSUME s \in Scenarios, NEW i \in Operations
  PROVE  /\ i.op = "await" => Expected(s, i) = <<Final(s, i.args[1])>>
         /\ i.op = "plus" =>
              Expected(s, i) = <<Final(s, i.args[1]) + Final(s, i.args[2])>>
         /\ i.op = "and" => Expected(s, i) =
              <<IF Final(s, i.args[1]) = 1 /\ Final(s, i.args[2]) = 1 THEN 1 ELSE 0>>
         /\ i.op = "any" => Expected(s, i) =
              <<IF \E k \in DOMAIN i.args : Final(s, i.args[k]) = 1 THEN 1 ELSE 0>>
         /\ i.op = "all" => Expected(s, i) =
              <<IF \E k \in DOMAIN i.args : Final(s, i.args[k]) = 0 THEN 0 ELSE 1>>
         /\ i.op = "filter" =>
              Expected(s, i) = Chosen([k \in DOMAIN i.args |-> Final(s, i.args[k])])
         /\ i.op = "at" => Expected(s, i) = <<s.arrays[i.args[1].n][Final(s, i.args[2]) + 1]>>
         /\ i.op = "lookup" => Expected(s, i) =
              <<IF \E k \in 2 .. Len(i.args) : Final(s, i.args[k]) = Final(s, i.args[1])
                THEN 1 ELSE 0>>
         /\ i.op = "append" => Expected(s, i) = Append(s.arrays[i.args[1].n], i.args[2])
         /\ i.op = "set" => Expected(s, i) =
              [s.arrays[i.args[1].n] EXCEPT ![Final(s, i.args[2]) + 1] = i.args[3]]
  <1> DEFINE a == [k \in DOMAIN i.args |-> IF i.args[k].is = "obj" THEN 0 ELSE Final(s, i.args[k])]
             full == [k \in DOMAIN i.args |-> Final(s, i.args[k])]
  <1>1. i \in OperationsOf(s)
    BY DEF Operations
  <1>2. i.args \in Seq(Args) /\ DOMAIN i.args = 1 .. Len(i.args) /\ Len(i.args) \in Nat
    <2>1. i.args \in Seq(Args)
      BY <1>1, OperationTyped
    <2> HIDE DEF Args
    <2> QED  BY <2>1
  <1>3. \A k \in DOMAIN i.args : i.args[k] \in Scalars => a[k] = Final(s, i.args[k])
    BY ScalarIs
  <1>4. /\ i.op = "await"  => Expected(s, i) = <<a[1]>>
        /\ i.op = "plus"   => Expected(s, i) = <<a[1] + a[2]>>
        /\ i.op = "and"    => Expected(s, i) = <<IF a[1] = 1 /\ a[2] = 1 THEN 1 ELSE 0>>
        /\ i.op = "any"    => Expected(s, i) = <<IF 1 \in ToSet(a) THEN 1 ELSE 0>>
        /\ i.op = "all"    => Expected(s, i) = <<IF 0 \in ToSet(a) THEN 0 ELSE 1>>
        /\ i.op = "filter" => Expected(s, i) = Chosen(a)
        /\ i.op = "at"     => Expected(s, i) = <<s.arrays[i.args[1].n][a[2] + 1]>>
        /\ i.op = "lookup" => Expected(s, i) = <<IF a[1] \in ToSet(Tail(a)) THEN 1 ELSE 0>>
        /\ i.op = "append" => Expected(s, i) = Append(s.arrays[i.args[1].n], i.args[2])
        /\ i.op = "set"    => Expected(s, i) =
             [s.arrays[i.args[1].n] EXCEPT ![a[2] + 1] = i.args[3]]
    BY DEF Expected
  <1>5. i.args \in Seq(Scalars) => \A k \in DOMAIN i.args : i.args[k] \in Scalars
    <2> HIDE DEF Scalars
    <2> QED  OBVIOUS
  <1>6. i.args \in Seq(Scalars) => a = full
    BY <1>3, <1>5
  <1>7. CASE i.op \in {"await", "plus", "and"}
    <2>1. i.args \in Seq(Scalars) /\ Len(i.args) = IF i.op = "await" THEN 1 ELSE 2
      BY <1>1, <1>7, OperationTyped
    <2>2. 1 \in DOMAIN i.args /\ (i.op # "await" => 2 \in DOMAIN i.args)
      BY <1>2, <2>1
    <2>3. a[1] = Final(s, i.args[1]) /\ (i.op # "await" => a[2] = Final(s, i.args[2]))
      BY <1>3, <1>5, <2>1, <2>2
    <2> HIDE DEF a
    <2> QED  BY <1>4, <1>7, <2>3
  <1>8. CASE i.op \in {"any", "all", "filter"}
    <2>1. a = full
      BY <1>1, <1>6, <1>8, OperationTyped
    <2>2. ToSet(full) = {Final(s, i.args[k]) : k \in DOMAIN i.args}
      BY DEF ToSet
    <2>3. \A n : n \in ToSet(full) <=> \E k \in DOMAIN i.args : Final(s, i.args[k]) = n
      BY <2>2
    <2> HIDE DEF a
    <2> QED  BY <1>4, <1>8, <2>1, <2>3
  <1>9. CASE i.op = "lookup"
    <2>1. i.args \in Seq(Scalars) /\ i.args # <<>>
      BY <1>1, <1>9, OperationTyped
    <2>2. a = full
      BY <1>6, <2>1
    <2>3. Len(i.args) >= 1
      BY <1>2, <2>1
    <2>4. full \in Seq({Final(s, i.args[k]) : k \in DOMAIN i.args}) /\ Len(full) = Len(i.args)
      BY <1>2
    <2>5. /\ Tail(full) = [k \in 1 .. Len(i.args) - 1 |-> full[k + 1]]
      BY <2>3, <2>4, <1>2
    <2>6. \A k \in 1 .. Len(i.args) - 1 : Tail(full)[k] = Final(s, i.args[k + 1])
      BY <1>2, <2>5
    <2>7. full[1] \in ToSet(Tail(full)) <=>
             \E k \in 1 .. Len(i.args) - 1 : Final(s, i.args[k + 1]) = Final(s, i.args[1])
      <3>1. ToSet(Tail(full)) = {Tail(full)[k] : k \in 1 .. Len(i.args) - 1}
        BY <2>5 DEF ToSet
      <3>2. full[1] = Final(s, i.args[1])
        BY <1>2, <2>3
      <3> HIDE DEF full
      <3> QED  BY <2>6, <3>1, <3>2
    <2>8. (\E k \in 1 .. Len(i.args) - 1 : Final(s, i.args[k + 1]) = Final(s, i.args[1]))
            <=> \E k \in 2 .. Len(i.args) : Final(s, i.args[k]) = Final(s, i.args[1])
      <3>1. ASSUME NEW k \in 1 .. Len(i.args) - 1, Final(s, i.args[k + 1]) = Final(s, i.args[1])
            PROVE  \E m \in 2 .. Len(i.args) : Final(s, i.args[m]) = Final(s, i.args[1])
        <4>1. k + 1 \in 2 .. Len(i.args)
          BY <1>2
        <4> QED  BY <3>1, <4>1
      <3>2. ASSUME NEW k \in 2 .. Len(i.args), Final(s, i.args[k]) = Final(s, i.args[1])
            PROVE  \E m \in 1 .. Len(i.args) - 1 : Final(s, i.args[m + 1]) = Final(s, i.args[1])
        <4>1. k - 1 \in 1 .. Len(i.args) - 1 /\ (k - 1) + 1 = k
          BY <1>2
        <4> QED  BY <3>2, <4>1
      <3> QED  BY <3>1, <3>2
    <2> HIDE DEF a, full
    <2> QED  BY <1>4, <1>9, <2>2, <2>7, <2>8
  <1>10. CASE i.op \in {"at", "append", "set"}
    <2>1. 2 \in DOMAIN i.args /\ i.args[2] \in Scalars
      BY <1>1, <1>2, <1>10, OperationTyped
    <2>2. a[2] = Final(s, i.args[2])
      BY <1>3, <2>1
    <2> HIDE DEF a
    <2> QED  BY <1>4, <1>10, <2>2
  <1> HIDE DEF a, full
  <1>11. i.op \in {"await", "plus", "and", "any", "all", "filter", "lookup", "print", "at",
                   "append", "set"}
    BY <1>1, OperationTyped
  <1> QED  BY <1>7, <1>8, <1>9, <1>10, <1>11

-----------------------------------------------------------------------------
(* Operations that complete.                                                *)

\* A step that returns what it should keeps the invariant.
LEMMA Returned ==
  ASSUME Inv, NEW g \in Goroutines, todo[g] # <<>>, NEW r, Return(g, r), Grows,
         NEW i \in Operations, i.p = Head1(g).p, Head1(g).op # "settle",
         out' = [out EXCEPT ![i.p] = r] => i.op = "print" \/ Correct(i)'
  PROVE  Inv'
  <1>1. /\ todo[g] \in Seq(Item) /\ Len(todo[g]) \in Nat /\ Len(todo[g]) >= 1
        /\ Head1(g) = todo[g][1]
    BY HeadItem
  <1>2. Moves(g, <<>>, 1)
    <2>1. Tail(todo[g]) = <<>> \o SubSeq(todo[g], 1 + 1, Len(todo[g]))
      <3> HIDE DEF Item
      <3> QED  BY <1>1, TailIs
    <2> QED  BY <2>1 DEF Moves, Return
  <1>3. <<>> \in Seq(Item) /\ \A k \in DOMAIN <<>> : FALSE
    OBVIOUS
  <1>4. out' = [out EXCEPT ![i.p] = r] /\ finished' = finished \cup {i.p}
    BY DEF Return
  <1>5. i.p \in Results /\ DOMAIN out = Results /\ finished \subseteq Results
    BY DEF Results, Inv, LazyInv, Types
  <1>6. DOMAIN out' = DOMAIN out /\ finished' \subseteq Results
    BY <1>4, <1>5
  <1>7. ASSUME NEW j \in Operations, j.p \in finished'
        PROVE  (j.p \in finished /\ out'[j.p] = out[j.p]) \/ Correct(j)' \/ j.op = "print"
    <2>1. CASE j = i
      BY <1>4, <2>1
    <2>2. CASE j # i
      <3>1. j.p # i.p
        BY <2>2, NamesDiffer DEF Inv
      <3> QED  BY <1>4, <1>5, <1>7, <3>1
    <2> QED  BY <2>1, <2>2
  <1>8. UNCHANGED <<s, once, val, runs>> /\ todo[g][1].op # "settle"
    BY <1>1 DEF Return
  <1> HIDE DEF Item
  <1> QED  BY <1>1, <1>2, <1>3, <1>6, <1>7, <1>8, StepKeeps

\* An operation of the program is at the head of the stack.
LEMMA AtHead ==
  ASSUME Inv, NEW g \in Goroutines, todo[g] # <<>>, Head1(g).op \in ProgramOps
  PROVE  \E i \in Operations :
           /\ i \in OperationsOf(s) /\ i.op = Head1(g).op /\ i.p = Head1(g).p
           /\ IF i.op \in {"any", "all"} THEN Left(Head1(g), i) ELSE Head1(g) = i
  BY HeadItem, ProgramItem DEF Operations

LEMMA SameExpected ==
  ASSUME s' = s, NEW i
  PROVE  Expected(s, i)' = Expected(s, i) /\ Regular(i)' = Regular(i)
  BY DEF Expected, Regular, RawOperands

LEMMA StoreKept ==
  ASSUME Inv, UNCHANGED store, s' = s
  PROVE  Grows
  BY DEF Inv, LazyInv, Types, Grows

LEMMA AwaitKeeps == ASSUME Inv, NEW g \in Goroutines, Await(g)  PROVE Inv'
  <1>1. todo[g] # <<>> /\ Head1(g).op = "await" /\ Unsettled(Head1(g)) = {}
    BY DEF Await, CanComplete, Ready
  <1>2. PICK i \in Operations : i \in OperationsOf(s) /\ Head1(g) = i
    BY <1>1, AtHead DEF ProgramOps
  <1>3. i.args \in Seq(Scalars) /\ Len(i.args) = 1
    BY <1>1, <1>2, OperationTyped DEF Inv
  <1>4. i.args[1] \in Scalars /\ 1 \in DOMAIN i.args
    <2> HIDE DEF Scalars
    <2> QED  BY <1>3
  <1>5. Value(i.args[1]) = Final(s, i.args[1])
    BY <1>1, <1>2, <1>4, UsedKnown, UsedIsFinal
  <1>6. Expected(s, i) = <<Final(s, i.args[1])>>
    BY <1>1, <1>2, ExpectedIs DEF Inv
  <1>7. Return(g, <<Value(i.args[1])>>) /\ UNCHANGED store /\ s' = s
    BY <1>2 DEF Await, Return
  <1>8. ASSUME out' = [out EXCEPT ![i.p] = <<Value(i.args[1])>>]  PROVE Correct(i)'
    <2>1. i.p \in DOMAIN out
      BY DEF Results, Inv, LazyInv, Types
    <2>2. out'[i.p] = Expected(s, i)'
      BY <1>5, <1>6, <1>7, <1>8, <2>1, SameExpected
    <2> QED  BY <1>1, <1>2, <2>2 DEF Correct
  <1> QED  BY <1>1, <1>2, <1>7, <1>8, Returned, StoreKept

LEMMA PlusKeeps == ASSUME Inv, NEW g \in Goroutines, Plus(g)  PROVE Inv'
  <1>1. todo[g] # <<>> /\ Head1(g).op = "plus" /\ Unsettled(Head1(g)) = {}
    BY DEF Plus, CanComplete, Ready
  <1>2. PICK i \in Operations : i \in OperationsOf(s) /\ Head1(g) = i
    BY <1>1, AtHead DEF ProgramOps
  <1>3. i.args \in Seq(Scalars) /\ Len(i.args) = 2
    BY <1>1, <1>2, OperationTyped DEF Inv
  <1>4. \A k \in {1, 2} : i.args[k] \in Scalars /\ k \in DOMAIN i.args
    <2> HIDE DEF Scalars
    <2> QED  BY <1>3
  <1>5. \A k \in {1, 2} : Value(i.args[k]) = Final(s, i.args[k])
    BY <1>1, <1>2, <1>4, UsedKnown, UsedIsFinal
  <1>6. Expected(s, i) = <<Final(s, i.args[1]) + Final(s, i.args[2])>>
    BY <1>1, <1>2, ExpectedIs DEF Inv
  <1> DEFINE r == <<Value(i.args[1]) + Value(i.args[2])>>
  <1>7. Return(g, r) /\ UNCHANGED store /\ s' = s
    BY <1>2 DEF Plus, Return
  <1>8. ASSUME out' = [out EXCEPT ![i.p] = r]  PROVE Correct(i)'
    <2>1. i.p \in DOMAIN out
      BY DEF Results, Inv, LazyInv, Types
    <2>2. r = Expected(s, i)
      BY <1>5, <1>6
    <2> HIDE DEF r
    <2>3. out'[i.p] = Expected(s, i)'
      BY <1>7, <1>8, <2>1, <2>2, SameExpected
    <2> QED  BY <1>1, <1>2, <2>3 DEF Correct
  <1> HIDE DEF r
  <1> QED  BY <1>1, <1>2, <1>7, <1>8, Returned, StoreKept

LEMMA AmpampKeeps == ASSUME Inv, NEW g \in Goroutines, Ampamp(g)  PROVE Inv'
  <1>1. todo[g] # <<>> /\ Head1(g).op = "and" /\ Unsettled(Head1(g)) = {}
    BY DEF Ampamp, CanComplete, Ready
  <1>2. PICK i \in Operations : i \in OperationsOf(s) /\ Head1(g) = i
    BY <1>1, AtHead DEF ProgramOps
  <1>3. i.args \in Seq(Scalars) /\ Len(i.args) = 2
    BY <1>1, <1>2, OperationTyped DEF Inv
  <1>4. \A k \in {1, 2} : i.args[k] \in Scalars /\ k \in DOMAIN i.args
    <2> HIDE DEF Scalars
    <2> QED  BY <1>3
  <1>5. PICK B \in SUBSET Cells : /\ \A c \in B : s.result[c] \in Bools(B)
                                 /\ ToSet(i.args) \subseteq Bools(B)
    BY <1>1, <1>2, LazyAssumption DEF Inv
  <1>6. \A k \in {1, 2} : i.args[k] \in Bools(B)
    BY <1>4, <1>5 DEF ToSet
  <1>7. Known(i.args[1])
    <2>1. CASE Value(i.args[1]) = 0
      <3>1. First(i.args)[1] = i.args[1] /\ 1 \in DOMAIN First(i.args)
        BY <1>4 DEF First
      <3> QED  BY <1>1, <1>2, <2>1, <3>1, UsedKnown
    <2>2. CASE Value(i.args[1]) # 0
      BY <1>1, <1>2, <1>4, <2>2, UsedKnown
    <2> QED  BY <2>1, <2>2
  <1>8. Value(i.args[1]) # 0 => Known(i.args[2])
    BY <1>1, <1>2, <1>4, UsedKnown
  <1>9. /\ Value(i.args[1]) = Final(s, i.args[1]) /\ Value(i.args[1]) \in {0, 1}
        /\ Value(i.args[1]) # 0 =>
             Value(i.args[2]) = Final(s, i.args[2]) /\ Value(i.args[2]) \in {0, 1}
    BY <1>4, <1>5, <1>6, <1>7, <1>8, UsedIsFinal, UsedIsBool
  <1>10. Expected(s, i) =
           <<IF Final(s, i.args[1]) = 1 /\ Final(s, i.args[2]) = 1 THEN 1 ELSE 0>>
    BY <1>1, <1>2, ExpectedIs DEF Inv
  <1> DEFINE r == <<IF Value(i.args[1]) = 0 THEN 0 ELSE Value(i.args[2])>>
  <1>11. Return(g, r) /\ UNCHANGED store /\ s' = s
    BY <1>2 DEF Ampamp, Return
  <1>12. ASSUME out' = [out EXCEPT ![i.p] = r]  PROVE Correct(i)'
    <2>1. i.p \in DOMAIN out
      BY DEF Results, Inv, LazyInv, Types
    <2>2. r = Expected(s, i)
      BY <1>9, <1>10
    <2> HIDE DEF r
    <2>3. out'[i.p] = Expected(s, i)'
      BY <1>11, <1>12, <2>1, <2>2, SameExpected
    <2> QED  BY <1>1, <1>2, <2>3 DEF Correct
  <1> HIDE DEF r
  <1> QED  BY <1>1, <1>2, <1>11, <1>12, Returned, StoreKept

LEMMA FilterKeeps == ASSUME Inv, NEW g \in Goroutines, Filter(g)  PROVE Inv'
  <1>1. todo[g] # <<>> /\ Head1(g).op = "filter"
    BY DEF Filter, CanComplete, Ready
  <1>2. PICK i \in Operations : i \in OperationsOf(s) /\ Head1(g) = i
    BY <1>1, AtHead DEF ProgramOps
  <1> DEFINE r == Chosen([k \in DOMAIN i.args |-> Raw(i.args[k])])
  <1>3. Return(g, r) /\ UNCHANGED store /\ s' = s
    BY <1>2 DEF Filter, Return
  <1>4. ASSUME Regular(i)  PROVE r = Expected(s, i)
    <2>1. \A k \in DOMAIN i.args : i.args[k].is = "val"
      BY <1>1, <1>2, <1>4 DEF Regular, RawOperands
    <2>2. \A k \in DOMAIN i.args : Raw(i.args[k]) = Final(s, i.args[k])
      BY <2>1 DEF Raw, Final
    <2>3. [k \in DOMAIN i.args |-> Raw(i.args[k])] = [k \in DOMAIN i.args |-> Final(s, i.args[k])]
      BY <2>2
    <2>4. Expected(s, i) = Chosen([k \in DOMAIN i.args |-> Final(s, i.args[k])])
      BY <1>1, <1>2, ExpectedIs DEF Inv
    <2> QED  BY <2>3, <2>4
  <1> HIDE DEF r
  <1>5. ASSUME out' = [out EXCEPT ![i.p] = r]  PROVE Correct(i)'
    <2>1. i.p \in DOMAIN out
      BY DEF Results, Inv, LazyInv, Types
    <2>2. Regular(i)' => out'[i.p] = Expected(s, i)'
      BY <1>3, <1>4, <1>5, <2>1, SameExpected
    <2> QED  BY <1>1, <1>2, <2>2 DEF Correct
  <1> QED  BY <1>1, <1>2, <1>3, <1>5, Returned, StoreKept

\* An array of the scenario is still there.
LEMMA ArrayThere ==
  ASSUME Inv, NEW i \in OperationsOf(s), i.op \in {"at", "append", "set"}
  PROVE  /\ i.args[1].n \in DOMAIN s.arrays /\ i.args[1].n \in DOMAIN store
         /\ store[i.args[1].n] = s.arrays[i.args[1].n]
         /\ s.arrays[i.args[1].n] \in Seq(Scalars)
         /\ i.args[2] \in Scalars /\ (i.op = "set" => i.args[3] \in Scalars)
         /\ 2 \in DOMAIN i.args
  <1>1. i.args[1] \in Arrays(s) /\ \A k \in 2 .. Len(i.args) : i.args[k] \in Scalars
    BY OperationTyped DEF Inv
  <1>2. i.args \in Seq(Args) /\ Len(i.args) = IF i.op = "set" THEN 3 ELSE 2
    BY OperationTyped DEF Inv
  <1>3. 2 \in 2 .. Len(i.args) /\ (i.op = "set" => 3 \in 2 .. Len(i.args)) /\ 2 \in DOMAIN i.args
    <2> HIDE DEF Args
    <2> QED  BY <1>2
  <1>4. i.args[1].n \in DOMAIN s.arrays
    BY <1>1 DEF Arrays
  <1>5. s.arrays \in Seq(Seq(Scalars)) /\ store \in Seq(Seq(Scalars))
    BY ScenarioTyped DEF Inv, LazyInv, Types
  <1>6. Len(s.arrays) <= Len(store) /\ \A b \in DOMAIN s.arrays : store[b] = s.arrays[b]
    BY DEF Inv, LazyInv, StoreInv
  <1>7. i.args[1].n \in DOMAIN store /\ s.arrays[i.args[1].n] \in Seq(Scalars)
    <2> HIDE DEF Scalars
    <2> QED  BY <1>4, <1>5, <1>6
  <1> QED  BY <1>1, <1>3, <1>4, <1>6, <1>7

LEMMA AtKeeps == ASSUME Inv, NEW g \in Goroutines, At(g)  PROVE Inv'
  <1>1. todo[g] # <<>> /\ Head1(g).op = "at"
    BY DEF At, CanComplete, Ready
  <1>2. PICK i \in Operations : i \in OperationsOf(s) /\ Head1(g) = i
    BY <1>1, AtHead DEF ProgramOps
  <1> DEFINE r == <<store[i.args[1].n][Raw(i.args[2]) + 1]>>
  <1>3. Return(g, r) /\ UNCHANGED store /\ s' = s
    BY <1>2 DEF At, Return
  <1>4. ASSUME Regular(i)  PROVE r = Expected(s, i)
    <2>1. i.args[2].is = "val"
      BY <1>1, <1>2, <1>4 DEF Regular, RawOperands
    <2>2. Raw(i.args[2]) = Final(s, i.args[2])
      BY <2>1 DEF Raw, Final
    <2>3. store[i.args[1].n] = s.arrays[i.args[1].n]
      BY <1>1, <1>2, ArrayThere
    <2>4. Expected(s, i) = <<s.arrays[i.args[1].n][Final(s, i.args[2]) + 1]>>
      BY <1>1, <1>2, ExpectedIs DEF Inv
    <2> QED  BY <2>2, <2>3, <2>4
  <1> HIDE DEF r
  <1>5. ASSUME out' = [out EXCEPT ![i.p] = r]  PROVE Correct(i)'
    <2>1. i.p \in DOMAIN out
      BY DEF Results, Inv, LazyInv, Types
    <2>2. Regular(i)' => out'[i.p] = Expected(s, i)'
      BY <1>3, <1>4, <1>5, <2>1, SameExpected
    <2> QED  BY <1>1, <1>2, <2>2 DEF Correct
  <1> QED  BY <1>1, <1>2, <1>3, <1>5, Returned, StoreKept

LEMMA AtOptKeeps == ASSUME Inv, NEW g \in Goroutines, AtOpt(g)  PROVE Inv'
  <1>1. todo[g] # <<>> /\ Head1(g).op = "lookup"
    BY DEF AtOpt, CanComplete, Ready
  <1>2. PICK i \in Operations : i \in OperationsOf(s) /\ Head1(g) = i
    BY <1>1, AtHead DEF ProgramOps
  <1>3. i.args \in Seq(Scalars) /\ i.args # <<>>
    BY <1>1, <1>2, OperationTyped DEF Inv
  <1>4. /\ Len(i.args) \in Nat /\ Len(i.args) >= 1 /\ DOMAIN i.args = 1 .. Len(i.args)
        /\ \A k \in 1 .. Len(i.args) : i.args[k] \in Scalars
        /\ Tail(i.args) = [k \in 1 .. Len(i.args) - 1 |-> i.args[k + 1]]
    <2> HIDE DEF Scalars
    <2> QED  BY <1>3
  <1> DEFINE r == <<IF i.args[1] \in ToSet(Tail(i.args)) THEN 1 ELSE 0>>
  <1>5. Return(g, r) /\ UNCHANGED store /\ s' = s
    BY <1>2 DEF AtOpt, Return
  <1>6. ASSUME Regular(i)  PROVE r = Expected(s, i)
    <2>1. \A k \in 1 .. Len(i.args) : i.args[k].is = "val"
      BY <1>1, <1>2, <1>4, <1>6 DEF Regular, RawOperands
    <2>2. \A k \in 1 .. Len(i.args) : i.args[k] = Val(Final(s, i.args[k]))
      BY <1>4, <2>1, ScalarIs DEF Final
    <2>3. \A m, n : Val(m) = Val(n) <=> m = n
      BY DEF Val
    <2>4. \A k \in 1 .. Len(i.args) :
            i.args[k] = i.args[1] <=> Final(s, i.args[k]) = Final(s, i.args[1])
      BY <1>4, <2>2, <2>3
    <2>5. ToSet(Tail(i.args)) = {i.args[k + 1] : k \in 1 .. Len(i.args) - 1}
      BY <1>4 DEF ToSet
    <2>6. i.args[1] \in ToSet(Tail(i.args)) <=>
             \E k \in 2 .. Len(i.args) : i.args[k] = i.args[1]
      <3>1. ASSUME NEW k \in 2 .. Len(i.args), i.args[k] = i.args[1]
            PROVE  \E m \in 1 .. Len(i.args) - 1 : i.args[m + 1] = i.args[1]
        <4>1. k - 1 \in 1 .. Len(i.args) - 1 /\ (k - 1) + 1 = k
          BY <1>4
        <4> QED  BY <3>1, <4>1
      <3>2. \A m \in 1 .. Len(i.args) - 1 : m + 1 \in 2 .. Len(i.args)
        BY <1>4
      <3> QED  BY <2>5, <3>1, <3>2
    <2>7. \A k \in 2 .. Len(i.args) : k \in 1 .. Len(i.args)
      OBVIOUS
    <2>8. i.args[1] \in ToSet(Tail(i.args)) <=>
             \E k \in 2 .. Len(i.args) : Final(s, i.args[k]) = Final(s, i.args[1])
      BY <2>4, <2>6, <2>7
    <2>9. Expected(s, i) =
            <<IF \E k \in 2 .. Len(i.args) : Final(s, i.args[k]) = Final(s, i.args[1])
              THEN 1 ELSE 0>>
      BY <1>1, <1>2, ExpectedIs DEF Inv
    <2> QED  BY <2>8, <2>9
  <1> HIDE DEF r
  <1>7. ASSUME out' = [out EXCEPT ![i.p] = r]  PROVE Correct(i)'
    <2>1. i.p \in DOMAIN out
      BY DEF Results, Inv, LazyInv, Types
    <2>2. Regular(i)' => out'[i.p] = Expected(s, i)'
      BY <1>5, <1>6, <1>7, <2>1, SameExpected
    <2> QED  BY <1>1, <1>2, <2>2 DEF Correct
  <1> QED  BY <1>1, <1>2, <1>5, <1>7, Returned, StoreKept

\* A new array at the end of the store is there whole.
LEMMA Stored ==
  ASSUME Inv, NEW q \in Seq(Scalars), store' = Append(store, q)
  PROVE  /\ Grows /\ <<Len(store) + 1, Len(q)>> \in [1 .. 2 -> Nat]
         /\ Len(store) + 1 \in DOMAIN store'
         /\ SubSeq(store'[Len(store) + 1], 1, Len(q)) = q
  <1>1. store \in Seq(Seq(Scalars))
    BY DEF Inv, LazyInv, Types
  <1> HIDE DEF Scalars
  <1>2. /\ store' \in Seq(Seq(Scalars)) /\ Len(store') = Len(store) + 1 /\ Len(store) \in Nat
        /\ \A b \in 1 .. Len(store) : store'[b] = store[b]
        /\ store'[Len(store) + 1] = q
        /\ DOMAIN store = 1 .. Len(store) /\ DOMAIN store' = 1 .. Len(store) + 1
    BY <1>1
  <1>3. Scalars' = Scalars
    BY DEF Scalars
  <1>4. Grows
    BY <1>2 DEF Grows
  <1>5. Len(q) \in Nat /\ SubSeq(q, 1, Len(q)) = q
    <2>1. Len(q) \in Nat /\ Len(SubSeq(q, 1, Len(q))) = Len(q)
          /\ SubSeq(q, 1, Len(q)) \in Seq(Scalars)
          /\ \A k \in 1 .. Len(q) : SubSeq(q, 1, Len(q))[k] = q[k]
      OBVIOUS
    <2> QED  BY <2>1
  <1>6. <<Len(store) + 1, Len(q)>> \in [1 .. 2 -> Nat]
    BY <1>2, <1>5
  <1> QED  BY <1>2, <1>4, <1>5, <1>6

LEMMA AppendKeeps == ASSUME Inv, NEW g \in Goroutines, Append1(g)  PROVE Inv'
  <1>1. todo[g] # <<>> /\ Head1(g).op = "append"
    BY DEF Append1, CanComplete, Ready
  <1>2. PICK i \in Operations : i \in OperationsOf(s) /\ Head1(g) = i
    BY <1>1, AtHead DEF ProgramOps
  <1>3. s.arrays[i.args[1].n] \in Seq(Scalars) /\ i.args[2] \in Scalars
    BY <1>1, <1>2, ArrayThere
  <1>4. PICK old \in Seq(Scalars) : old = s.arrays[i.args[1].n]
    BY <1>3
  <1>5. PICK q \in Seq(Scalars) : q = Append(old, i.args[2]) /\ Len(q) = Len(old) + 1
    <2>1. Append(old, i.args[2]) \in Seq(Scalars) /\ Len(Append(old, i.args[2])) = Len(old) + 1
      BY <1>3
    <2> QED  BY <2>1
  <1> DEFINE r == <<Len(store) + 1, Len(q)>>
  <1>6. store' = Append(store, q) /\ Return(g, r)
    BY <1>2, <1>4, <1>5 DEF Append1
  <1>7. /\ Grows /\ r \in [1 .. 2 -> Nat] /\ r[1] \in DOMAIN store'
        /\ SubSeq(store'[r[1]], 1, r[2]) = q
    BY <1>6, Stored
  <1>8. Expected(s, i) = q
    BY <1>1, <1>2, <1>4, <1>5, ExpectedIs DEF Inv
  <1> HIDE DEF r
  <1>9. ASSUME out' = [out EXCEPT ![i.p] = r]  PROVE Correct(i)'
    <2>1. i.p \in DOMAIN out
      BY DEF Results, Inv, LazyInv, Types
    <2>2. out'[i.p] = r
      BY <1>9, <2>1
    <2>3. s' = s
      BY <1>6 DEF Return
    <2>4. Slice(out[i.p])' = Expected(s, i)'
      BY <1>7, <1>8, <2>2, <2>3, SameExpected DEF Slice
    <2> QED  BY <1>1, <1>2, <1>7, <2>2, <2>4 DEF Correct
  <1> QED  BY <1>1, <1>2, <1>6, <1>7, <1>9, Returned

LEMMA SetKeeps == ASSUME Inv, NEW g \in Goroutines, Set(g)  PROVE Inv'
  <1>1. todo[g] # <<>> /\ Head1(g).op = "set"
    BY DEF Set, CanComplete, Ready
  <1>2. PICK i \in Operations : i \in OperationsOf(s) /\ Head1(g) = i
    BY <1>1, AtHead DEF ProgramOps
  <1>3. s.arrays[i.args[1].n] \in Seq(Scalars) /\ i.args[3] \in Scalars
    BY <1>1, <1>2, ArrayThere
  <1>4. PICK old \in Seq(Scalars) : old = s.arrays[i.args[1].n]
    BY <1>3
  <1>5. PICK q \in Seq(Scalars) :
          q = [old EXCEPT ![Raw(i.args[2]) + 1] = i.args[3]] /\ Len(q) = Len(old)
    <2> DEFINE n == Raw(i.args[2]) + 1
    <2> HIDE DEF Scalars, n
    <2> DEFINE new == [old EXCEPT ![n] = i.args[3]]
    <2>1. Len(old) \in Nat /\ DOMAIN old = 1 .. Len(old) /\ \A k \in DOMAIN old : old[k] \in Scalars
      OBVIOUS
    <2>2. DOMAIN new = 1 .. Len(old) /\ \A k \in 1 .. Len(old) : new[k] \in Scalars
      BY <1>3, <2>1
    <2>3. new = [k \in 1 .. Len(old) |-> new[k]]
      BY <2>2
    <2> HIDE DEF new
    <2>4. new \in Seq(Scalars) /\ Len(new) = Len(old)
      BY <2>1, <2>2, <2>3
    <2> QED  BY <2>4 DEF n, new
  <1> DEFINE r == <<Len(store) + 1, Len(q)>>
  <1>6. store' = Append(store, q) /\ Return(g, r)
    BY <1>2, <1>4, <1>5 DEF Set
  <1>7. /\ Grows /\ r \in [1 .. 2 -> Nat] /\ r[1] \in DOMAIN store'
        /\ SubSeq(store'[r[1]], 1, r[2]) = q
    BY <1>6, Stored
  <1>8. ASSUME Regular(i)  PROVE Expected(s, i) = q
    <2>1. i.args[2].is = "val"
      BY <1>1, <1>2, <1>8 DEF Regular, RawOperands
    <2>2. Raw(i.args[2]) = Final(s, i.args[2])
      BY <2>1 DEF Raw, Final
    <2> QED  BY <1>1, <1>2, <1>4, <1>5, <2>2, ExpectedIs DEF Inv
  <1> HIDE DEF r
  <1>9. ASSUME out' = [out EXCEPT ![i.p] = r]  PROVE Correct(i)'
    <2>1. i.p \in DOMAIN out
      BY DEF Results, Inv, LazyInv, Types
    <2>2. out'[i.p] = r
      BY <1>9, <2>1
    <2>3. s' = s
      BY <1>6 DEF Return
    <2>4. Regular(i)' => Slice(out[i.p])' = Expected(s, i)'
      BY <1>7, <1>8, <2>2, <2>3, SameExpected DEF Slice
    <2> QED  BY <1>1, <1>2, <1>7, <2>2, <2>4 DEF Correct
  <1> QED  BY <1>1, <1>2, <1>6, <1>7, <1>9, Returned

LEMMA TailOfArgs ==
  ASSUME NEW op, NEW args, NEW p, NEW t, t = [op |-> op, args |-> args, p |-> p]
  PROVE  [t EXCEPT !.args = Tail(@)] = [op |-> op, args |-> Tail(args), p |-> p]
  <1>1. PICK rest : rest = Tail(args)
    OBVIOUS
  <1>2. [t EXCEPT !.args = rest] = [op |-> op, args |-> rest, p |-> p]
    OBVIOUS
  <1>3. Tail(t.args) = rest
    <2>1. t.args = args
      OBVIOUS
    <2> QED  BY <1>1, <2>1
  <1>4. [t EXCEPT !.args = Tail(@)] = [t EXCEPT !.args = rest]
    BY <1>3, Zenon
  <1> QED  BY <1>1, <1>2, <1>4

\* Any and All: what is left of the operation is on the stack, or it is over.
LEMMA ScanKeeps ==
  ASSUME Inv, NEW g \in Goroutines, NEW op \in {"any", "all"}, NEW stop,
         stop = (IF op = "any" THEN 1 ELSE 0), Scan(g, op, stop)
  PROVE  Inv'
  <1>1. todo[g] # <<>> /\ Head1(g).op = op /\ Unsettled(Head1(g)) = {} /\ UNCHANGED store
        /\ s' = s
    BY DEF Scan, CanComplete, Ready, Return
  <1>2. PICK i \in Operations : /\ i \in OperationsOf(s) /\ i.op = op /\ i.p = Head1(g).p
                               /\ Left(Head1(g), i)
    BY <1>1, AtHead DEF ProgramOps
  <1>3. i.args \in Seq(Scalars) /\ Stop(i) = stop
    BY <1>1, <1>2, OperationTyped DEF Inv, Stop
  <1> DEFINE t == Head1(g)
             n == Len(i.args) - Len(t.args)
  <1>4. t \in Item /\ t.args \in Seq(Args) /\ t = [op |-> t.op, args |-> t.args, p |-> t.p]
    <2>1. t \in Item
      BY <1>1, HeadItem
    <2> HIDE DEF t, Args
    <2> QED  BY <2>1 DEF Item
  <1>5. /\ n \in Nat /\ \A k \in DOMAIN t.args : t.args[k] = i.args[k + n]
        /\ \A k \in 1 .. n : Known(i.args[k]) /\ Value(i.args[k]) # stop
    BY <1>2, <1>3 DEF Left
  <1>6. /\ Len(i.args) \in Nat /\ Len(t.args) \in Nat /\ DOMAIN i.args = 1 .. Len(i.args)
        /\ DOMAIN t.args = 1 .. Len(t.args)
        /\ \A k \in 1 .. Len(i.args) : i.args[k] \in Scalars
    <2> HIDE DEF Scalars, Args, t
    <2> QED  BY <1>3, <1>4
  <1> HIDE DEF n, t
  <1>7. n <= Len(i.args) /\ Len(i.args) = n + Len(t.args) /\ n \in Nat
    <2>1. \A a, b \in Nat : n = a - b /\ n \in Nat => n <= a /\ a = n + b
      OBVIOUS
    <2>2. n = Len(i.args) - Len(t.args)
      BY DEF n
    <2> QED  BY <1>5, <1>6, <2>1, <2>2
  <1>8. \A k \in 1 .. n : Final(s, i.args[k]) # stop
    <2>1. \A k \in 1 .. n : i.args[k] \in Scalars
      BY <1>6, <1>7
    <2> QED  BY <1>5, <2>1, UsedIsFinal
  <1>9. Expected(s, i) = <<IF \E k \in DOMAIN i.args : Final(s, i.args[k]) = stop
                           THEN stop ELSE 1 - stop>>
    <2> DEFINE Has(m) == \E k \in DOMAIN i.args : Final(s, i.args[k]) = m
    <2>1. CASE op = "any"
      <3>1. Expected(s, i) = <<IF Has(1) THEN 1 ELSE 0>>
        BY <1>2, <2>1, ExpectedIs DEF Inv
      <3>2. stop = 1 /\ 1 - stop = 0
        BY <2>1
      <3> HIDE DEF Has
      <3>3. Expected(s, i) = <<IF Has(stop) THEN stop ELSE 1 - stop>>
        BY <3>1, <3>2
      <3> QED  BY <3>3 DEF Has
    <2>2. CASE op = "all"
      <3>1. Expected(s, i) = <<IF Has(0) THEN 0 ELSE 1>>
        BY <1>2, <2>2, ExpectedIs DEF Inv
      <3>2. stop = 0 /\ 1 - stop = 1
        BY <2>2
      <3> HIDE DEF Has
      <3>3. Expected(s, i) = <<IF Has(stop) THEN stop ELSE 1 - stop>>
        BY <3>1, <3>2
      <3> QED  BY <3>3 DEF Has
    <2> QED  BY <2>1, <2>2
  <1>10. ASSUME NEW r, Return(g, <<r>>), <<r>> = Expected(s, i)  PROVE Inv'
    <2>1. ASSUME out' = [out EXCEPT ![i.p] = <<r>>]  PROVE Correct(i)'
      <3>1. i.p \in DOMAIN out
        BY DEF Results, Inv, LazyInv, Types
      <3>2. out'[i.p] = Expected(s, i)'
        BY <1>1, <1>10, <2>1, <3>1, SameExpected
      <3> QED  BY <1>2, <3>2 DEF Correct
    <2> QED  BY <1>1, <1>2, <1>10, <2>1, Returned, StoreKept
  <1>11. CASE t.args = <<>>
    <2>1. Return(g, <<1 - stop>>)
      BY <1>11 DEF Scan, t
    <2>2. n = Len(i.args)
      BY <1>7, <1>11
    <2>3. Expected(s, i) = <<1 - stop>>
      BY <1>6, <1>8, <1>9, <2>2
    <2> QED  BY <1>10, <2>1, <2>3
  <1>12. ASSUME t.args # <<>>
         PROVE  /\ Known(t.args[1]) /\ t.args[1] = i.args[n + 1] /\ 1 \in DOMAIN t.args
                /\ n + 1 \in 1 .. Len(i.args) /\ Value(t.args[1]) = Final(s, t.args[1])
    <2>1. Len(t.args) >= 1
      BY <1>4, <1>12
    <2>2. t.args[1] = i.args[n + 1] /\ 1 \in DOMAIN t.args /\ n + 1 \in 1 .. Len(i.args)
      BY <1>5, <1>6, <1>7, <2>1
    <2>3. First(t.args)[1] = t.args[1] /\ 1 \in DOMAIN First(t.args)
      BY <2>2 DEF First
    <2>4. Known(t.args[1])
      BY <1>1, <2>3, UsedKnown DEF t
    <2> QED  BY <1>6, <2>2, <2>4, UsedIsFinal
  <1>13. CASE t.args # <<>> /\ Value(t.args[1]) = stop
    <2>1. Return(g, <<stop>>)
      BY <1>13 DEF Scan, t
    <2>2. Expected(s, i) = <<stop>>
      BY <1>6, <1>9, <1>12, <1>13
    <2> QED  BY <1>10, <2>1, <2>2
  <1>14. CASE t.args # <<>> /\ Value(t.args[1]) # stop
    <2> DEFINE u == [t EXCEPT !.args = Tail(@)]
    <2>1. /\ todo' = [todo EXCEPT ![g] = <<u>> \o Tail(@)]
          /\ UNCHANGED <<s, once, val, runs, marks, out, finished, store>>
      BY <1>14 DEF Scan, t
    <2>2. u.op = op /\ u.args = Tail(t.args) /\ u.p = i.p
      BY <1>1, <1>2, <1>4 DEF t
    <2>3. /\ Tail(t.args) \in Seq(Args) /\ Len(Tail(t.args)) = Len(t.args) - 1
          /\ \A k \in 1 .. Len(t.args) - 1 : Tail(t.args)[k] = t.args[k + 1]
          /\ DOMAIN Tail(t.args) = 1 .. Len(t.args) - 1
      <3> HIDE DEF Args
      <3> QED  BY <1>4, <1>14
    <2>4. u \in Item
      <3>1. u = [op |-> op, args |-> Tail(t.args), p |-> i.p]
        <4>1. t.op = op /\ t.p = i.p
          BY <1>1, <1>2 DEF t
        <4>2. t = [op |-> op, args |-> t.args, p |-> i.p]
          BY <1>4, <4>1
        <4> QED  BY <4>2, TailOfArgs
      <3>2. i.p \in Results /\ op \in Ops
        BY DEF Results, Ops
      <3> HIDE DEF u, Args
      <3> QED  BY <2>3, <3>1, <3>2 DEF Item
    <2> HIDE DEF u
    <2>5. Left(u, i)
      <3>0. PICK l \in Nat, m \in Nat : l = Len(i.args) /\ m = Len(t.args)
        BY <1>6
      <3>1. Len(i.args) - Len(u.args) = n + 1 /\ n + 1 \in Nat
        <4>1. l = n + m /\ n \in Nat /\ Len(u.args) = m - 1 /\ Len(i.args) = l
          BY <1>7, <2>2, <2>3, <3>0
        <4> QED  BY <4>1
      <3>2. ASSUME NEW k \in DOMAIN u.args PROVE u.args[k] = i.args[k + (n + 1)]
        <4>1. k + 1 \in DOMAIN t.args /\ u.args[k] = t.args[k + 1]
          <5>1. DOMAIN u.args = 1 .. m - 1 /\ DOMAIN t.args = 1 .. m
            BY <1>6, <2>2, <2>3, <3>0
          <5> QED  BY <2>2, <2>3, <3>0, <5>1
        <4>2. (k + 1) + n = k + (n + 1)
          <5>1. DOMAIN u.args = 1 .. m - 1 /\ n \in Nat
            BY <1>7, <2>2, <2>3, <3>0
          <5> QED  BY <5>1
        <4> QED  BY <1>5, <4>1, <4>2
      <3>3. \A k \in 1 .. n + 1 : k \in 1 .. n \/ k = n + 1
        BY <1>7
      <3>4. \A k \in 1 .. n + 1 : Known(i.args[k]) /\ Value(i.args[k]) # Stop(i)
        BY <1>3, <1>5, <1>12, <1>14, <3>3
      <3> QED  BY <1>2, <2>2, <3>1, <3>2, <3>4 DEF Left
    <2>6. FromProgram(u)
      BY <1>2, <2>5 DEF FromProgram
    <2>7. /\ todo[g] \in Seq(Item) /\ Len(todo[g]) \in Nat /\ Len(todo[g]) >= 1
          /\ todo[g][1] = t
      BY <1>1, HeadItem DEF t
    <2>8. <<u>> \in Seq(Item) /\ \A k \in DOMAIN <<u>> : <<u>>[k] = u
      <3> HIDE DEF Item
      <3> QED  BY <2>4
    <2>9. Moves(g, <<u>>, 1)
      <3>1. <<u>> \o Tail(todo[g]) = <<u>> \o SubSeq(todo[g], 1 + 1, Len(todo[g]))
        <4> HIDE DEF Item
        <4> QED  BY <1>1, <2>7, <2>8, TailIs
      <3> QED  BY <2>1, <3>1 DEF Moves
    <2>10. Grows
      BY <2>1, StoreKept
    <2>11. u.op # "settle" /\ t.op # "settle"
      BY <1>1, <2>2 DEF t
    <2>12. finished \subseteq Results
      BY DEF Inv, LazyInv, Types
    <2> HIDE DEF Item
    <2> QED  BY <2>1, <2>6, <2>7, <2>8, <2>9, <2>10, <2>11, <2>12, StepKeeps
  <1> QED  BY <1>11, <1>13, <1>14

-----------------------------------------------------------------------------
(* Steps of a print.                                                        *)

\* What only the steps of once.Do, or those of a print, have on a stack.
LEMMA OtherItem ==
  ASSUME Inv, NEW t, FromProgram(t) \/ FromOnce(t) \/ FromPrint(t)
  PROVE  /\ t.op \in {"join", "settle"} => FromOnce(t)
         /\ t.op \in {"repr", "unmark", "written"} => FromPrint(t)
  <1>1. ASSUME FromProgram(t)  PROVE t.op \in ProgramOps
    <2>1. PICK i \in Operations : IF i.op \in {"any", "all"} THEN Left(t, i) ELSE t = i
      BY <1>1 DEF FromProgram
    <2>2. i.op \in ProgramOps
      BY OperationTyped DEF Inv, Operations, ProgramOps
    <2> QED  BY <2>1, <2>2 DEF Left
  <1>2. FromOnce(t) => t.op \in {"join", "settle"}
    BY DEF FromOnce
  <1>3. FromPrint(t) => t.op \in {"repr", "unmark", "written"}
    BY DEF FromPrint
  <1> QED  BY <1>1, <1>2, <1>3 DEF ProgramOps

\* The first operation is replaced.
LEMMA HeadReplaced ==
  ASSUME Inv, NEW g \in Goroutines, todo[g] # <<>>, NEW new \in Seq(Item),
         todo' = [todo EXCEPT ![g] = new \o Tail(todo[g])]
  PROVE  Moves(g, new, 1)
  <1>1. todo[g] \in Seq(Item)
    BY HeadItem
  <1>2. new \o Tail(todo[g]) = new \o SubSeq(todo[g], 1 + 1, Len(todo[g]))
    <2> HIDE DEF Item
    <2> QED  BY <1>1, TailIs
  <1> QED  BY <1>2 DEF Moves

LEMMA NothingPushed ==
  ASSUME Inv, NEW g \in Goroutines, todo[g] # <<>>
  PROVE  <<>> \o Tail(todo[g]) = Tail(todo[g])
  <1>1. Tail(todo[g]) \in Seq(Item)
    <2> HIDE DEF Item
    <2> QED  BY HeadItem
  <1> HIDE DEF Item
  <1> QED  BY <1>1

\* A step of a print: only what it has printed changes.
LEMMA PrintStep ==
  ASSUME Inv, UNCHANGED <<s, once, val, runs, store, finished>>, NEW g \in Goroutines,
         todo[g] # <<>>, Head1(g).op # "settle", NEW new \in Seq(Item),
         todo' = [todo EXCEPT ![g] = new \o Tail(todo[g])],
         \A k \in DOMAIN new : /\ new[k].op # "settle"
                               /\ FromProgram(new[k]) \/ FromOnce(new[k]) \/ FromPrint(new[k]),
         NEW i \in Operations, i.op = "print", DOMAIN out' = DOMAIN out,
         \A p \in DOMAIN out : p # i.p => out'[p] = out[p]
  PROVE  Inv'
  <1>1. Len(todo[g]) >= 1 /\ todo[g][1].op # "settle"
    BY HeadItem
  <1>2. Moves(g, new, 1)
    BY HeadReplaced
  <1>3. Grows
    BY StoreKept
  <1>4. DOMAIN out' = DOMAIN out /\ finished' \subseteq Results /\ finished' = finished
    BY DEF Inv, LazyInv, Types
  <1>5. ASSUME NEW j \in Operations, j.p \in finished'
        PROVE  (j.p \in finished /\ out'[j.p] = out[j.p]) \/ Correct(j)' \/ j.op = "print"
    <2>1. j.op # "print" => j.p # i.p
      BY NamesDiffer DEF Inv
    <2>2. j.p \in DOMAIN out
      BY DEF Inv, LazyInv, Types, Results
    <2> QED  BY <1>4, <1>5, <2>1, <2>2
  <1> HIDE DEF Item
  <1> QED  BY <1>1, <1>2, <1>3, <1>4, <1>5, StepKeeps

LEMMA PrintItem ==
  ASSUME s \in Scenarios, NEW i \in Operations, i.op = "print", NEW v \in Printable(s)
  PROVE  /\ Op("repr", <<v>>, i.p) \in Item /\ FromPrint(Op("repr", <<v>>, i.p))
         /\ Op("unmark", <<v>>, i.p) \in Item /\ FromPrint(Op("unmark", <<v>>, i.p))
         /\ Op("written", <<>>, i.p) \in Item /\ FromPrint(Op("written", <<>>, i.p))
  <1>1. i.p \in Results
    BY DEF Results
  <1>2. v \in Args
    BY Sorts
  <1>3. <<v>> \in Seq(Args) /\ <<>> \in Seq(Args)
    <2> HIDE DEF Args
    <2> QED  BY <1>2
  <1>4. {"repr", "unmark", "written"} \subseteq Ops
    BY DEF Ops
  <1>5. <<v>> \in [1 .. 1 -> Printable(s)]
    OBVIOUS
  <1>6. \A op \in {"repr", "unmark", "written"} : \A args \in Seq(Args) : Op(op, args, i.p) \in Item
    BY <1>1, <1>4 DEF Op, Item
  <1> QED  BY <1>3, <1>5, <1>6 DEF FromPrint, Op

LEMMA PrintLineKeeps == ASSUME Inv, NEW g \in Goroutines, PrintLine(g)  PROVE Inv'
  <1>1. todo[g] # <<>> /\ Head1(g).op = "print"
    BY DEF PrintLine, Ready
  <1>2. PICK i \in Operations : i \in OperationsOf(s) /\ Head1(g) = i
    BY <1>1, AtHead DEF ProgramOps
  <1>3. i.args \in [1 .. 1 -> Printable(s)]
    BY <1>1, <1>2, OperationTyped DEF Inv
  <1>4. PICK v \in Printable(s) : i.args = <<v>>
    BY <1>3
  <1> DEFINE r == Op("repr", <<v>>, i.p)
             w == Op("written", <<>>, i.p)
  <1>5. r \in Item /\ FromPrint(r) /\ w \in Item /\ FromPrint(w)
    BY <1>1, <1>2, PrintItem DEF Inv
  <1>6. r.op # "settle" /\ w.op # "settle"
    BY DEF Op
  <1>7. /\ todo' = [todo EXCEPT ![g] = <<r, w>> \o Tail(todo[g])]
        /\ UNCHANGED <<s, once, val, runs, store, finished>> /\ out' = out
    BY <1>2, <1>4 DEF PrintLine
  <1> HIDE DEF r, w, Item
  <1>8. <<r, w>> \in Seq(Item) /\ \A k \in DOMAIN <<r, w>> : <<r, w>>[k] \in {r, w}
    BY <1>5
  <1> QED  BY <1>1, <1>2, <1>5, <1>6, <1>7, <1>8, PrintStep

LEMMA WrittenKeeps == ASSUME Inv, NEW g \in Goroutines, Written(g)  PROVE Inv'
  <1>1. todo[g] # <<>> /\ Head1(g).op = "written" /\ UNCHANGED store
    BY DEF Written, Ready
  <1>2. FromPrint(Head1(g))
    BY <1>1, HeadItem, OtherItem
  <1>3. PICK i \in Operations : i.op = "print" /\ i.p = Head1(g).p
    BY <1>2 DEF FromPrint
  <1>4. PICK r : r = out[Head1(g).p]
    OBVIOUS
  <1>5. Return(g, r) /\ s' = s
    BY <1>4 DEF Written, Return
  <1>6. Grows
    BY <1>1, <1>5, StoreKept
  <1> QED  BY <1>1, <1>3, <1>5, <1>6, Returned

LEMMA UnmarkKeeps == ASSUME Inv, NEW g \in Goroutines, Unmark(g)  PROVE Inv'
  <1>1. todo[g] # <<>> /\ Head1(g).op = "unmark"
    BY DEF Unmark, Ready
  <1>2. FromPrint(Head1(g))
    BY <1>1, HeadItem, OtherItem
  <1>3. PICK i \in Operations : i.op = "print" /\ i.p = Head1(g).p
    BY <1>2 DEF FromPrint
  <1>4. PICK x : x = Append(out[i.p], <<"end", Head1(g).args[1].n>>)
    OBVIOUS
  <1>5. /\ todo' = [todo EXCEPT ![g] = Tail(todo[g])]
        /\ UNCHANGED <<s, once, val, runs, store, finished>> /\ out' = [out EXCEPT ![i.p] = x]
    BY <1>3, <1>4 DEF Unmark, Emit
  <1>6. todo' = [todo EXCEPT ![g] = <<>> \o Tail(todo[g])]
    BY <1>1, <1>5, NothingPushed
  <1>7. <<>> \in Seq(Item) /\ \A k \in DOMAIN <<>> : FALSE
    OBVIOUS
  <1> QED  BY <1>1, <1>3, <1>5, <1>6, <1>7, PrintStep

\* The fields of an object, to be printed one after the other.
LEMMA FieldItems ==
  ASSUME s \in Scenarios, NEW i \in Operations, i.op = "print", NEW o \in DOMAIN s.fields
  PROVE  /\ FieldsOf(o, i.p) \in Seq(Item)
         /\ \A k \in DOMAIN FieldsOf(o, i.p) :
              FieldsOf(o, i.p)[k].op = "repr" /\ FromPrint(FieldsOf(o, i.p)[k])
  <1>1. s.fields[o] \in Seq(Printable(s))
    BY ScenarioTyped
  <1>2. \A k \in DOMAIN s.fields[o] : s.fields[o][k] \in Printable(s)
    <2> HIDE DEF Printable
    <2> QED  BY <1>1
  <1>3. ASSUME NEW k \in DOMAIN s.fields[o]
        PROVE  /\ Op("repr", <<s.fields[o][k]>>, i.p) \in Item
               /\ FromPrint(Op("repr", <<s.fields[o][k]>>, i.p))
               /\ Op("repr", <<s.fields[o][k]>>, i.p).op = "repr"
    BY <1>2, PrintItem DEF Op
  <1>4. DOMAIN s.fields[o] = 1 .. Len(s.fields[o]) /\ Len(s.fields[o]) \in Nat
    BY <1>1
  <1>5. FieldsOf(o, i.p) = [k \in 1 .. Len(s.fields[o]) |-> Op("repr", <<s.fields[o][k]>>, i.p)]
    BY <1>4 DEF FieldsOf
  <1> DEFINE F(k) == Op("repr", <<s.fields[o][k]>>, i.p)
  <1>6. \A k \in 1 .. Len(s.fields[o]) : F(k) \in Item /\ FromPrint(F(k)) /\ F(k).op = "repr"
    BY <1>3, <1>4
  <1>7. FieldsOf(o, i.p) = [k \in 1 .. Len(s.fields[o]) |-> F(k)]
    BY <1>5
  <1> HIDE DEF F, Item
  <1> QED  BY <1>4, <1>6, <1>7

LEMMA ReprKeeps == ASSUME Inv, NEW g \in Goroutines, Repr(g)  PROVE Inv'
  <1>1. todo[g] # <<>> /\ Head1(g).op = "repr" /\ UNCHANGED <<s, once, val, runs, store, finished>>
    BY DEF Repr, CanComplete, Ready
  <1>2. FromPrint(Head1(g))
    BY <1>1, HeadItem, OtherItem
  <1>3. PICK i \in Operations : i.op = "print" /\ i.p = Head1(g).p
    BY <1>2 DEF FromPrint
  <1>4. PICK v \in Printable(s) : v = Head1(g).args[1]
    BY <1>1, <1>2 DEF FromPrint
  <1>5. <<>> \in Seq(Item) /\ \A k \in DOMAIN <<>> : FALSE
    OBVIOUS
  <1>6. ASSUME NEW y, Emit(i.p, y), todo' = [todo EXCEPT ![g] = Tail(@)]  PROVE Inv'
    <2>1. PICK x : x = Append(out[i.p], y)
      OBVIOUS
    <2>2. out' = [out EXCEPT ![i.p] = x]
      BY <1>6, <2>1 DEF Emit
    <2>3. todo' = [todo EXCEPT ![g] = <<>> \o Tail(todo[g])]
      BY <1>1, <1>6, NothingPushed
    <2> HIDE DEF Item
    <2> QED  BY <1>1, <1>3, <1>5, <2>2, <2>3, PrintStep
  <1>7. CASE v.is # "obj"
    <2>1. Emit(i.p, <<"val", Value(v)>>) /\ todo' = [todo EXCEPT ![g] = Tail(@)]
      BY <1>3, <1>4, <1>7 DEF Repr
    <2> QED  BY <1>6, <2>1
  <1>8. CASE v.is = "obj" /\ Visiting(g, v.n)
    <2>1. Emit(i.p, <<"cycle", v.n>>) /\ todo' = [todo EXCEPT ![g] = Tail(@)]
      BY <1>3, <1>4, <1>8 DEF Repr
    <2> QED  BY <1>6, <2>1
  <1>9. CASE v.is = "obj" /\ ~Visiting(g, v.n)
    <2> DEFINE u == Op("unmark", <<v>>, i.p)
               f == FieldsOf(v.n, i.p)
               new == f \o <<u>>
    <2>1. Emit(i.p, <<"obj", v.n>>) /\ todo' = [todo EXCEPT ![g] = new \o Tail(todo[g])]
      BY <1>3, <1>4, <1>9 DEF Repr
    <2>2. v.n \in DOMAIN s.fields
      BY <1>9, ScalarIs DEF Printable
    <2>3. f \in Seq(Item) /\ \A k \in DOMAIN f : f[k].op = "repr" /\ FromPrint(f[k])
      BY <1>3, <2>2, FieldItems DEF Inv
    <2>4. u \in Item /\ FromPrint(u) /\ u.op = "unmark"
      BY <1>3, PrintItem DEF Inv, Op
    <2> HIDE DEF u, f, Item
    <2>5. new \in Seq(Item) /\ \A k \in DOMAIN new : (k \in DOMAIN f /\ new[k] = f[k]) \/ new[k] = u
      BY <2>3, <2>4
    <2>6. \A k \in DOMAIN new : new[k].op # "settle" /\ FromPrint(new[k])
      BY <2>3, <2>4, <2>5
    <2>7. PICK x : x = Append(out[i.p], <<"obj", v.n>>)
      OBVIOUS
    <2>8. out' = [out EXCEPT ![i.p] = x]
      BY <2>1, <2>7 DEF Emit
    <2> HIDE DEF new
    <2> QED  BY <1>1, <1>3, <2>1, <2>5, <2>6, <2>8, PrintStep
  <1> QED  BY <1>7, <1>8, <1>9

-----------------------------------------------------------------------------
(* once.Do.                                                                 *)

LEMMA JoinKeeps == ASSUME Inv, NEW g \in Goroutines, Join(g)  PROVE Inv'
  <1>1. /\ todo[g] # <<>> /\ Head1(g).op = "join" /\ todo' = [todo EXCEPT ![g] = Tail(todo[g])]
        /\ UNCHANGED <<s, once, val, runs, marks, out, store, finished>>
    BY DEF Join, Ready
  <1>2. Moves(g, <<>>, 1)
    <2>1. todo' = [todo EXCEPT ![g] = <<>> \o Tail(todo[g])] /\ <<>> \in Seq(Item)
      BY <1>1, NothingPushed
    <2> QED  BY <1>1, <2>1, HeadReplaced
  <1>3. <<>> \in Seq(Item) /\ \A k \in DOMAIN <<>> : FALSE
    OBVIOUS
  <1>4. Len(todo[g]) >= 1 /\ todo[g][1].op # "settle"
    BY <1>1, HeadItem
  <1>5. Grows /\ finished' \subseteq Results
    BY <1>1, StoreKept DEF Inv, LazyInv, Types
  <1> HIDE DEF Item
  <1> QED  BY <1>1, <1>2, <1>3, <1>4, <1>5, StepKeeps

\* The operations of a program and of a thunk.
LEMMA FromItself ==
  ASSUME s \in Scenarios, NEW i \in Operations
  PROVE  i \in Item /\ i.op # "settle" /\ FromProgram(i)
  <1>1. i \in OperationsOf(s)
    BY DEF Operations
  <1>2. i.op # "settle" /\ i.args \in Seq(Args)
    BY <1>1, OperationTyped
  <1>3. Left(i, i)
    <2>1. Len(i.args) - Len(i.args) = 0 /\ DOMAIN i.args \subseteq Nat
      <3>1. Len(i.args) \in Nat /\ DOMAIN i.args = 1 .. Len(i.args)
        <4> HIDE DEF Args
        <4> QED  BY <1>2
      <3> QED  BY <3>1
    <2> QED  BY <2>1 DEF Left
  <1> QED  BY <1>2, <1>3, OperationItem DEF FromProgram

LEMMA Listed ==
  ASSUME s \in Scenarios, NEW q \in Seq(OperationsOf(s))
  PROVE  /\ q \in Seq(Item)
         /\ \A k \in DOMAIN q : q[k].op # "settle" /\ FromProgram(q[k])
  <1>1. \A k \in DOMAIN q : q[k] \in Operations
    BY DEF Operations
  <1>2. \A k \in DOMAIN q : q[k] \in Item /\ q[k].op # "settle" /\ FromProgram(q[k])
    BY <1>1, FromItself
  <1>3. q = [k \in 1 .. Len(q) |-> q[k]] /\ Len(q) \in Nat /\ DOMAIN q = 1 .. Len(q)
    OBVIOUS
  <1>4. q \in Seq(Item)
    <2> HIDE DEF Item
    <2> QED  BY <1>2, <1>3
  <1> QED  BY <1>2, <1>4

\* What a step of once.Do leaves alone.
LEMMA OutKept ==
  ASSUME Inv, UNCHANGED <<s, out, store, finished>>
  PROVE  OutInv' /\ StoreInv'
  <1>1. Grows
    BY StoreKept
  <1>2. \A i \in Operations : i.p \in finished' => Correct(i)'
    BY <1>1, CorrectKept DEF Inv, LazyInv, OutInv
  <1> QED  BY <1>2, Constant DEF OutInv, StoreInv, Inv, LazyInv

LEMMA UsedTyped ==
  ASSUME NEW i \in Item, NEW k \in DOMAIN Used(i)
  PROVE  Used(i)[k] \in Args
  <1>1. i.args \in Seq(Args)
    BY DEF Item
  <1>2. \A j \in DOMAIN i.args : i.args[j] \in Args
    <2> HIDE DEF Args
    <2> QED  BY <1>1
  <1>3. Used(i) \in {i.args, First(i.args), <<>>}
    BY DEF Used
  <1>4. First(i.args) = [j \in DOMAIN i.args \cap {1} |-> i.args[j]]
    BY DEF First
  <1> QED  BY <1>2, <1>3, <1>4

LEMMA EnterOnceKeeps == ASSUME Inv, NEW g \in Goroutines, EnterOnce(g)  PROVE Inv'
  <1>1. PICK k \in Unsettled(Head1(g)) :
          LET c == Used(Head1(g))[k].n IN
          /\ once[c] = "new"
          /\ once' = [once EXCEPT ![c] = "busy"]
          /\ runs' = [runs EXCEPT ![c] = @ + 1]
          /\ todo' = [todo EXCEPT ![g] =
                        (IF s.kind[c] = "go" THEN <<Op("join", <<>>, c)>> ELSE s.body[c])
                          \o <<Op("settle", <<s.result[c]>>, c)>> \o @]
    BY DEF EnterOnce
  <1>2. todo[g] # <<>> /\ UNCHANGED <<s, val, marks, out, store, finished>>
    BY DEF EnterOnce
  <1>3. Used(Head1(g))[k].n \in Cells
    <2>1. k \in DOMAIN Used(Head1(g)) /\ Used(Head1(g))[k].is = "lazy"
      BY DEF Unsettled
    <2>2. Head1(g) \in Item
      BY <1>2, HeadItem
    <2>3. Used(Head1(g))[k] \in Args
      <3> HIDE DEF Item, Args
      <3> QED  BY <2>1, <2>2, UsedTyped
    <2> QED  BY <2>1, <2>3 DEF Args, Scalars
  <1>4. PICK c \in Cells : c = Used(Head1(g))[k].n
    BY <1>3
  <1> DEFINE pre == IF s.kind[c] = "go" THEN <<Op("join", <<>>, c)>> ELSE s.body[c]
             last == Op("settle", <<s.result[c]>>, c)
             new == pre \o <<last>>
  <1>5. pre \in Seq(Item) /\ \A j \in DOMAIN pre : /\ pre[j].op # "settle"
                                                   /\ FromProgram(pre[j]) \/ FromOnce(pre[j])
    <2>1. CASE s.kind[c] = "go"
      <3> DEFINE j == Op("join", <<>>, c)
      <3>1. j \in Item /\ j.op # "settle" /\ FromOnce(j)
        <4>1. <<>> \in Seq(Args) /\ "join" \in Ops
          BY DEF Ops
        <4> HIDE DEF Args
        <4> QED  BY <4>1 DEF Item, Op, FromOnce
      <3>2. pre = <<j>>
        BY <2>1
      <3> HIDE DEF j, Item, pre
      <3> QED  BY <3>1, <3>2
    <2>2. CASE s.kind[c] # "go"
      <3>1. s.body[c] \in Seq(OperationsOf(s))
        BY ScenarioTyped DEF Inv
      <3> HIDE DEF Item
      <3> QED  BY <2>2, <3>1, Listed DEF Inv
    <2> QED  BY <2>1, <2>2
  <1>6. last \in Item /\ last.op = "settle" /\ last.p = c /\ FromOnce(last)
    <2>1. s.result[c] \in Args
      BY ScenarioTyped, Sorts DEF Inv
    <2>2. <<s.result[c]>> \in Seq(Args) /\ "settle" \in Ops
      <3> HIDE DEF Args
      <3> QED  BY <2>1 DEF Ops
    <2> HIDE DEF Args
    <2> QED  BY <2>2 DEF Item, Op, FromOnce
  <1> HIDE DEF pre, last, Item
  <1>7. /\ new \in Seq(Item) /\ DOMAIN new = 1 .. Len(new)
        /\ Len(new) = Len(pre) + 1 /\ Len(pre) \in Nat
        /\ \A j \in 1 .. Len(pre) : j \in DOMAIN pre /\ new[j] = pre[j]
        /\ new[Len(new)] = last
    BY <1>5, <1>6
  <1>8. /\ once[c] = "new" /\ once' = [once EXCEPT ![c] = "busy"]
        /\ runs' = [runs EXCEPT ![c] = @ + 1]
        /\ todo' = [todo EXCEPT ![g] = new \o @]
    BY <1>1, <1>4 DEF pre, last
  <1> HIDE DEF new
  <1>9. \A j \in DOMAIN new : j # Len(new) => j \in DOMAIN pre /\ new[j] = pre[j]
    <2>1. \A j \in DOMAIN new : j # Len(new) => j \in 1 .. Len(pre)
      <3>1. Len(pre) \in Nat /\ Len(new) = Len(pre) + 1 /\ DOMAIN new = 1 .. Len(new)
        BY <1>7
      <3> QED  BY <3>1
    <2> QED  BY <1>7, <2>1
  <1>10. \A j \in DOMAIN new : /\ FromProgram(new[j]) \/ FromOnce(new[j]) \/ FromPrint(new[j])
                               /\ new[j].op = "settle" => j = Len(new) /\ new[j].p = c
    BY <1>5, <1>6, <1>7, <1>9
  <1>11. Moves(g, new, 0) /\ Len(todo[g]) >= 0
    <2>1. todo[g] \in Seq(Item) /\ Len(todo[g]) >= 0
      BY <1>2, HeadItem
    <2>2. new \o todo[g] = new \o SubSeq(todo[g], 0 + 1, Len(todo[g]))
      BY <1>2, <1>7, <2>1, TailIs
    <2> QED  BY <1>8, <2>1, <2>2 DEF Moves
  <1>12. Types /\ OnceInv
    BY DEF Inv, LazyInv
  <1>13. Types'
    <2>1. todo' \in [Goroutines -> Seq(Item)]
      BY <1>7, <1>11, <1>12, StackMoved
    <2>2. once' \in [Cells -> {"new", "busy", "done"}] /\ runs' \in [Cells -> Nat]
      BY <1>8, <1>12 DEF Types
    <2> QED  BY <1>2, <1>12, <2>1, <2>2, Constant DEF Types
  <1>14. StackInv'
    <2>1. \A e \in Cells : once[e] = "done" => once'[e] = "done" /\ val'[e] = val[e]
      BY <1>2, <1>8, <1>12 DEF Types
    <2> QED  BY <1>2, <1>7, <1>10, <1>11, <2>1, StackKept
  <1>15. OnceInv'
    <2>1. ASSUME NEW e \in Cells
          PROVE  /\ (\E h \in Goroutines : \E j \in DOMAIN todo'[h] : Settles(h, j, e)')
                      <=> once'[e] = "busy"
                 /\ \A h, f \in Goroutines : \A j \in DOMAIN todo'[h], l \in DOMAIN todo'[f] :
                      Settles(h, j, e)' /\ Settles(f, l, e)' => h = f /\ j = l
                 /\ runs'[e] = IF once'[e] = "new" THEN 0 ELSE 1
      <3>1. CASE e # c
        <4>1. once'[e] = once[e] /\ runs'[e] = runs[e]
          BY <1>8, <1>12, <3>1 DEF Types
        <4>2. \A j \in DOMAIN new : ~(new[j].op = "settle" /\ new[j].p = e)
          BY <1>10, <3>1
        <4>3. runs[e] = IF once[e] = "new" THEN 0 ELSE 1
          BY <1>12 DEF OnceInv
        <4> QED  BY <1>7, <1>11, <1>12, <4>1, <4>2, <4>3, SettlesKept
      <3>2. CASE e = c
        <4>1. ASSUME NEW h \in Goroutines, NEW j \in DOMAIN todo'[h], Settles(h, j, c)'
              PROVE  h = g /\ j = Len(new)
          <5>1. \A f \in Goroutines : \A l \in DOMAIN todo[f] : ~Settles(f, l, c)
            BY <1>8, <1>12 DEF OnceInv
          <5>2. /\ \A f \in Goroutines : f # g => todo'[f] = todo[f]
                /\ \A l \in DOMAIN new : todo'[g][l] = new[l]
                /\ \A l \in DOMAIN todo'[g] : l \notin DOMAIN new =>
                     \E m \in DOMAIN todo[g] : todo'[g][l] = todo[g][m]
            BY <1>7, <1>11, <1>12, StackMoved
          <5>3. h = g
            BY <4>1, <5>1, <5>2 DEF Settles
          <5>4. j \in DOMAIN new
            BY <4>1, <5>1, <5>2, <5>3 DEF Settles
          <5> QED  BY <1>10, <4>1, <5>2, <5>3, <5>4 DEF Settles
        <4>2. PICK n : n = Len(new)
          OBVIOUS
        <4>3. n \in DOMAIN todo'[g] /\ Settles(g, n, c)'
          <5>1. n \in DOMAIN new /\ new[n] = last
            BY <1>7, <4>2
          <5>2. n \in DOMAIN todo'[g] /\ todo'[g][n] = new[n]
            BY <1>7, <1>11, <1>12, <5>1, StackMoved
          <5> QED  BY <1>6, <5>1, <5>2 DEF Settles
        <4>4. once'[c] = "busy" /\ runs'[c] = 1
          BY <1>8, <1>12 DEF Types, OnceInv
        <4> QED  BY <3>2, <4>1, <4>3, <4>4
      <3> QED  BY <3>1, <3>2
    <2>2. Goroutines' = Goroutines
      BY DEF Goroutines
    <2> QED  BY <2>1, <2>2 DEF OnceInv
  <1>16. ValInv' /\ BoolInv'
    <2>1. Done' = Done
      BY <1>8, <1>12 DEF Done, Types
    <2> QED  BY <1>2, <2>1 DEF Inv, LazyInv, ValInv, BoolInv
  <1>17. OutInv' /\ StoreInv'
    BY <1>2, OutKept
  <1> QED  BY <1>2, <1>13, <1>14, <1>15, <1>16, <1>17 DEF Inv, LazyInv

LEMMA SettleKeeps == ASSUME Inv, NEW g \in Goroutines, Settle(g)  PROVE Inv'
  <1>1. /\ todo[g] # <<>> /\ Head1(g).op = "settle" /\ Unsettled(Head1(g)) = {}
        /\ UNCHANGED <<s, runs, marks, out, store, finished>>
        /\ todo' = [todo EXCEPT ![g] = Tail(todo[g])]
    BY DEF Settle, CanComplete, Ready
  <1>2. Head1(g).p \in Cells /\ Head1(g).args = <<s.result[Head1(g).p]>>
    BY <1>1, HeadItem, OtherItem DEF FromOnce
  <1>3. PICK c \in Cells : c = Head1(g).p
    BY <1>2
  <1> DEFINE v == s.result[c]
  <1>4. v \in Scalars /\ Head1(g).args[1] = v /\ 1 \in DOMAIN Head1(g).args
    BY <1>2, <1>3, ScenarioTyped DEF Inv
  <1>5. Known(v)
    BY <1>1, <1>4, UsedKnown
  <1>6. Value(v) = Final(s, v) /\ Value(v) \in Int
    BY <1>4, <1>5, UsedIsFinal
  <1> HIDE DEF v
  <1>7. PICK x \in Int : x = Value(v)
    BY <1>6
  <1>8. val' = [val EXCEPT ![c] = x] /\ once' = [once EXCEPT ![c] = "done"]
    BY <1>3, <1>4, <1>7 DEF Settle
  <1>9. Types /\ OnceInv /\ todo[g] \in Seq(Item) /\ Len(todo[g]) >= 1 /\ Head1(g) = todo[g][1]
    BY <1>1, HeadItem DEF Inv, LazyInv
  <1>10. 1 \in DOMAIN todo[g] /\ Settles(g, 1, c)
    <2>1. 1 \in DOMAIN todo[g]
      <3> HIDE DEF Item
      <3> QED  BY <1>9
    <2> QED  BY <1>1, <1>3, <1>9, <2>1 DEF Settles
  <1>11. once[c] = "busy" /\ runs[c] = 1
    BY <1>9, <1>10 DEF OnceInv
  <1>12. PICK new \in Seq(Item) : Moves(g, new, 1) /\ DOMAIN new = {} /\ Len(new) = 0
    <2>1. todo' = [todo EXCEPT ![g] = <<>> \o Tail(todo[g])] /\ <<>> \in Seq(Item)
      BY <1>1, NothingPushed
    <2>2. Moves(g, <<>>, 1)
      BY <1>1, <2>1, HeadReplaced
    <2>3. DOMAIN <<>> = {} /\ Len(<<>>) = 0
      OBVIOUS
    <2> HIDE DEF Item
    <2> QED  BY <2>1, <2>2, <2>3
  <1>21. /\ todo' \in [Goroutines -> Seq(Item)]
         /\ \A f \in Goroutines : f # g => todo'[f] = todo[f]
         /\ \A l \in DOMAIN todo'[g] :
              \/ l \in DOMAIN new
              \/ /\ l - Len(new) + 1 \in DOMAIN todo[g] /\ l - Len(new) >= 1
                 /\ todo'[g][l] = todo[g][l - Len(new) + 1]
    <2>1. PICK d \in {0, 1} : d = 1
      OBVIOUS
    <2>2. Moves(g, new, d) /\ Len(todo[g]) >= d
      BY <1>9, <1>12, <2>1
    <2>3. /\ todo' \in [Goroutines -> Seq(Item)]
          /\ \A f \in Goroutines : f # g => todo'[f] = todo[f]
          /\ \A l \in DOMAIN todo'[g] :
               \/ l \in DOMAIN new
               \/ /\ l - Len(new) + d \in DOMAIN todo[g] /\ l - Len(new) >= 1
                  /\ todo'[g][l] = todo[g][l - Len(new) + d]
      BY <1>9, <2>2, StackMoved
    <2> HIDE DEF Item
    <2> QED  BY <2>1, <2>3
  <1>13. Types'
    <2>1. todo' \in [Goroutines -> Seq(Item)]
      BY <1>21
    <2>2. once' \in [Cells -> {"new", "busy", "done"}] /\ val' \in [Cells -> Int]
      BY <1>8, <1>9 DEF Types
    <2> QED  BY <1>1, <1>9, <2>1, <2>2, Constant DEF Types
  <1>14. StackInv'
    <2>1. \A e \in Cells : once[e] = "done" => once'[e] = "done" /\ val'[e] = val[e]
      BY <1>8, <1>9, <1>11 DEF Types
    <2> HIDE DEF Item
    <2> QED  BY <1>1, <1>9, <1>12, <2>1, StackKept
  <1>15. OnceInv'
    <2>1. ASSUME NEW e \in Cells
          PROVE  /\ (\E h \in Goroutines : \E j \in DOMAIN todo'[h] : Settles(h, j, e)')
                      <=> once'[e] = "busy"
                 /\ \A h, f \in Goroutines : \A j \in DOMAIN todo'[h], l \in DOMAIN todo'[f] :
                      Settles(h, j, e)' /\ Settles(f, l, e)' => h = f /\ j = l
                 /\ runs'[e] = IF once'[e] = "new" THEN 0 ELSE 1
      <3>1. CASE e # c
        <4>1. once'[e] = once[e] /\ runs'[e] = runs[e]
          BY <1>1, <1>8, <1>9, <3>1 DEF Types
        <4>2. ~(todo[g][1].op = "settle" /\ todo[g][1].p = e)
          BY <1>3, <1>9, <3>1
        <4>3. runs[e] = IF once[e] = "new" THEN 0 ELSE 1
          BY <1>9 DEF OnceInv
        <4> HIDE DEF Item
        <4> QED  BY <1>9, <1>12, <4>1, <4>2, <4>3, SettlesKept
      <3>2. CASE e = c
        <4>1. ASSUME NEW h \in Goroutines, NEW j \in DOMAIN todo'[h], Settles(h, j, c)'
              PROVE  FALSE
          <5>1. /\ \A f \in Goroutines : f # g => todo'[f] = todo[f]
                /\ \A l \in DOMAIN todo'[g] :
                     /\ l - Len(new) + 1 \in DOMAIN todo[g] /\ l - Len(new) >= 1
                     /\ todo'[g][l] = todo[g][l - Len(new) + 1]
            BY <1>12, <1>21
          <5>2. PICK m \in DOMAIN todo[h] : todo'[h][j] = todo[h][m] /\ (h = g => m # 1)
            <6>1. CASE h # g
              BY <5>1, <6>1
            <6>2. CASE h = g
              <7>1. j \in Nat
                <8>1. todo'[g] \in Seq(Item)
                  BY <1>21
                <8> HIDE DEF Item
                <8> QED  BY <4>1, <6>2, <8>1
              <7>2. j - Len(new) + 1 # 1
                BY <1>12, <4>1, <5>1, <6>2, <7>1
              <7> QED  BY <4>1, <5>1, <6>2, <7>2
            <6> QED  BY <6>1, <6>2
          <5>3. Settles(h, m, c)
            BY <4>1, <5>2 DEF Settles
          <5> QED  BY <1>9, <1>10, <5>2, <5>3 DEF OnceInv
        <4>2. once'[c] = "done" /\ runs'[c] = 1
          BY <1>1, <1>8, <1>9, <1>11 DEF Types
        <4> QED  BY <3>2, <4>1, <4>2
      <3> QED  BY <3>1, <3>2
    <2>2. Goroutines' = Goroutines
      BY DEF Goroutines
    <2> QED  BY <2>1, <2>2 DEF OnceInv
  <1> DEFINE n == Cardinality(Done)
  <1>16. /\ Done' = Done \cup {c} /\ c \notin Done /\ n \in 0 .. Cardinality(Cells)
         /\ Cardinality(Done') = n + 1 /\ n + 1 \in 0 .. Cardinality(Cells)
    <2>1. Done' = Done \cup {c} /\ c \notin Done
      BY <1>8, <1>9, <1>11 DEF Done, Types
    <2>2. Cardinality(Done') = n + 1
      BY <2>1, DoneCount, FS_AddElement
    <2>3. Cardinality(Done') <= Cardinality(Cells)
      <3>1. Done' \subseteq Cells
        BY <2>1, DoneCount
      <3> QED  BY <3>1, LazyAssumption, FS_Subset
    <2> QED  BY <2>1, <2>2, <2>3, DoneCount, Count
  <1>17. /\ val'[c] = x /\ \A e \in Done : val'[e] = val[e]
         /\ \A e \in Done : Leads(s)[n][e] = Val(val[e])
    BY <1>8, <1>9, <1>16, DoneCount DEF Types, Inv, LazyInv, ValInv
  <1>18. ValInv'
    <2>1. ASSUME NEW e \in Done  PROVE Leads(s)[n + 1][e] = Val(val'[e])
      <3>1. Leads(s)[n][e].is # "lazy"
        <4> HIDE DEF n
        <4>1. Val(val[e]).is = "val"
          BY DEF Val
        <4> QED  BY <1>17, <4>1
      <3>2. n + 1 \in n .. Cardinality(Cells)
        BY <1>16
      <3>3. Leads(s)[n + 1][e] = Leads(s)[n][e]
        <4> HIDE DEF n
        <4> QED  BY <1>16, <3>1, <3>2, DoneCount, LeadsStays DEF Inv
      <3> QED  BY <1>17, <3>3
    <2>2. Leads(s)[n + 1][c] = Val(x)
      <3>1. n + 1 > 0 /\ (n + 1) - 1 = n
        BY <1>16
      <3>2. Leads(s)[n + 1] = [d \in Cells |->
              IF s.result[d].is = "lazy" /\ n + 1 > 0
              THEN Leads(s)[(n + 1) - 1][s.result[d].n] ELSE s.result[d]]
        <4> HIDE DEF n
        <4> QED  BY <1>16, LeadsStep
      <3>3. Leads(s)[n + 1][c] = IF v.is = "lazy" THEN Leads(s)[n][v.n] ELSE v
        <4> HIDE DEF n
        <4> QED  BY <3>1, <3>2 DEF v
      <3>4. CASE v.is = "lazy"
        <4>1. v.n \in Done /\ x = val[v.n]
          BY <1>4, <1>5, <1>7, <3>4, ScalarIs DEF Known, Done, Value
        <4> QED  BY <1>17, <3>3, <3>4, <4>1
      <3>5. CASE v.is # "lazy"
        <4>1. v = Val(v.n) /\ x = v.n
          BY <1>4, <1>7, <3>5, ScalarIs DEF Value
        <4> QED  BY <3>3, <3>5, <4>1
      <3> QED  BY <3>4, <3>5
    <2>3. ASSUME NEW e \in Done'  PROVE Leads(s')[Cardinality(Done')][e] = Val(val'[e])
      <3> HIDE DEF n
      <3> QED  BY <1>1, <1>16, <1>17, <2>1, <2>2, <2>3
    <2> QED  BY <2>3 DEF ValInv, Val
  <1>19. BoolInv'
    <2>1. SUFFICES ASSUME NEW B \in SUBSET Cells, \A e \in B : s.result[e] \in Bools(B),
                          NEW e \in B, e \in Done'
                   PROVE  val'[e] \in {0, 1}
      BY <1>1 DEF BoolInv, Bools, Val, Lazy
    <2>2. CASE e # c
      BY <1>16, <1>17, <2>1, <2>2 DEF Inv, LazyInv, BoolInv
    <2>3. CASE e = c
      <3>1. v \in Bools(B)
        BY <2>1, <2>3 DEF v
      <3> QED  BY <1>5, <1>7, <1>17, <2>1, <2>3, <3>1, UsedIsBool
    <2> QED  BY <2>2, <2>3
  <1>20. OutInv' /\ StoreInv'
    BY <1>1, OutKept
  <1> QED  BY <1>1, <1>13, <1>14, <1>15, <1>18, <1>19, <1>20 DEF Inv, LazyInv

-----------------------------------------------------------------------------
(* The theorems.                                                            *)

LEMMA InitInv == Init => Inv
  <1> SUFFICES ASSUME Init  PROVE Inv
    OBVIOUS
  <1>1. s \in Scenarios /\ store = s.arrays /\ finished = {} /\ out = [p \in Results |-> <<>>]
        /\ once = [c \in Cells |-> "new"] /\ val = [c \in Cells |-> 0]
        /\ runs = [c \in Cells |-> 0]
    BY DEF Init
  <1>2. ASSUME NEW g \in Goroutines
        PROVE  /\ todo[g] \in Seq(Item)
               /\ \A k \in DOMAIN todo[g] : todo[g][k].op # "settle" /\ FromProgram(todo[g][k])
    <2>1. todo[g] = IF g \in Mains THEN s.prog[g]
                    ELSE IF s.kind[g] = "go" THEN s.body[g] ELSE <<>>
      BY DEF Init
    <2>2. g \in Mains => s.prog[g] \in Seq(OperationsOf(s))
      BY <1>1, ScenarioTyped
    <2>3. g \notin Mains => s.body[g] \in Seq(OperationsOf(s))
      BY <1>1, ScenarioTyped DEF Goroutines
    <2>4. <<>> \in Seq(OperationsOf(s))
      OBVIOUS
    <2>5. todo[g] \in Seq(OperationsOf(s))
      BY <2>1, <2>2, <2>3, <2>4
    <2> HIDE DEF Item
    <2> QED  BY <1>1, <2>5, Listed
  <1>3. Types
    <2>1. todo \in [Goroutines -> Seq(Item)]
      <3>1. todo = [g \in Goroutines |-> todo[g]]
        BY DEF Init
      <3> HIDE DEF Item
      <3> QED  BY <1>2, <3>1
    <2>2. store \in Seq(Seq(Scalars))
      BY <1>1, ScenarioTyped
    <2> QED  BY <1>1, <2>1, <2>2 DEF Types
  <1>4. StackInv
    BY <1>2 DEF StackInv, ToSet
  <1>5. OnceInv
    <2>1. \A g \in Goroutines : \A k \in DOMAIN todo[g], c \in Cells : ~Settles(g, k, c)
      BY <1>2 DEF Settles
    <2> QED  BY <1>1, <2>1 DEF OnceInv
  <1>6. ValInv /\ BoolInv
    <2>1. Done = {}
      BY <1>1 DEF Done
    <2> QED  BY <2>1 DEF ValInv, BoolInv
  <1>7. StoreInv
    <2>1. s.arrays \in Seq(Seq(Scalars))
      BY <1>1, ScenarioTyped
    <2>2. Len(s.arrays) \in Nat
      BY <2>1
    <2> QED  BY <1>1, <2>2 DEF StoreInv
  <1>8. OutInv
    BY <1>1 DEF OutInv
  <1> QED  BY <1>1, <1>3, <1>4, <1>5, <1>6, <1>7, <1>8 DEF Inv, LazyInv

LEMMA NextInv == Inv /\ [Next]_vars => Inv'
  <1> SUFFICES ASSUME Inv, [Next]_vars  PROVE Inv'
    OBVIOUS
  <1>1. CASE UNCHANGED vars
    <2>1. StackInv'
      <3>1. SUFFICES ASSUME NEW g \in Goroutines, NEW t, t \in ToSet(todo'[g])
                     PROVE  (FromProgram(t) \/ FromOnce(t) \/ FromPrint(t))'
        BY <1>1, Constant DEF vars, StackInv
      <3>2. FromProgram(t) \/ FromOnce(t) \/ FromPrint(t)
        BY <1>1, <3>1 DEF vars, Inv, LazyInv, StackInv
      <3> QED  BY <1>1, <3>2, ItemKept DEF vars, Inv
    <2>2. Types'
      BY <1>1, Constant DEF vars, Inv, LazyInv, Types
    <2>3. OnceInv'
      BY <1>1, Constant DEF vars, Inv, LazyInv, OnceInv, Settles
    <2>4. ValInv' /\ BoolInv'
      <3>1. Done' = Done
        BY <1>1 DEF vars, Done
      <3> QED  BY <1>1, <3>1 DEF vars, Inv, LazyInv, ValInv, BoolInv
    <2>5. OutInv' /\ StoreInv'
      BY <1>1, OutKept DEF vars
    <2> QED  BY <1>1, <2>1, <2>2, <2>3, <2>4, <2>5 DEF vars, Inv, LazyInv
  <1>2. ASSUME NEW g \in Goroutines, Step(g)  PROVE Inv'
    <2>1. CASE EnterOnce(g)
      BY <2>1, EnterOnceKeeps
    <2>2. CASE Join(g)
      BY <2>2, JoinKeeps
    <2>3. CASE Settle(g)
      BY <2>3, SettleKeeps
    <2>4. CASE Await(g) \/ Plus(g) \/ Ampamp(g)
      BY <2>4, AwaitKeeps, PlusKeeps, AmpampKeeps
    <2>5. CASE AnyOf(g)
      BY <2>5, ScanKeeps DEF AnyOf
    <2>6. CASE AllOf(g)
      BY <2>6, ScanKeeps DEF AllOf
    <2>7. CASE Filter(g) \/ At(g) \/ AtOpt(g)
      BY <2>7, FilterKeeps, AtKeeps, AtOptKeeps
    <2>8. CASE Append1(g) \/ Set(g)
      BY <2>8, AppendKeeps, SetKeeps
    <2>9. CASE PrintLine(g) \/ Repr(g) \/ Unmark(g) \/ Written(g)
      BY <2>9, PrintLineKeeps, ReprKeeps, UnmarkKeeps, WrittenKeeps
    <2> QED  BY <1>2, <2>1, <2>2, <2>3, <2>4, <2>5, <2>6, <2>7, <2>8, <2>9 DEF Step
  <1> QED  BY <1>1, <1>2 DEF Next

LEMMA SpecInv == Spec => []Inv
  BY InitInv, NextInv, PTL DEF Spec

\* Stacks hold what they should, a thunk runs once, settled scalars have the
\* values that the chains of results end with, and completed operations have
\* left what they are documented to (once.Do, GoInt, ..., the collections).
THEOREM LazyInvHolds == Spec => []LazyInv
  <1>1. Inv => LazyInv
    BY DEF Inv
  <1> QED  BY <1>1, SpecInv, PTL

LEMMA OneSettles == Inv => TypeOK
  <1> SUFFICES ASSUME Inv  PROVE TypeOK
    OBVIOUS
  <1>1. Types /\ OnceInv
    BY DEF Inv, LazyInv
  <1>2. ASSUME NEW c \in Cells
        PROVE  Cardinality({g \in Goroutines : \E i \in DOMAIN todo[g] :
                      todo[g][i].op = "settle" /\ todo[g][i].p = c})
                 = IF once[c] = "busy" THEN 1 ELSE 0
    <2> DEFINE S == {g \in Goroutines : \E i \in DOMAIN todo[g] :
                      todo[g][i].op = "settle" /\ todo[g][i].p = c}
    <2>1. \A g : g \in S <=> g \in Goroutines /\ \E k \in DOMAIN todo[g] : Settles(g, k, c)
      BY DEF Settles
    <2>2. \A g, h \in S : g = h
      BY <1>1, <2>1 DEF OnceInv
    <2>3. once[c] = "busy" <=> S # {}
      BY <1>1, <2>1 DEF OnceInv
    <2> HIDE DEF S
    <2>4. CASE S = {}
      BY <2>3, <2>4, FS_EmptySet DEF S
    <2>5. CASE S # {}
      <3>1. PICK g : S = {g}
        BY <2>2, <2>5
      <3> QED  BY <2>3, <2>5, <3>1, FS_Singleton DEF S
    <2> QED  BY <2>4, <2>5
  <1>3. (\A c \in Cells : once[c] \in {"new", "busy", "done"}) /\ finished \subseteq Results
    BY <1>1 DEF Types
  <1> QED  BY <1>2, <1>3 DEF TypeOK

\* Whoever uses a pending scalar first (once.Do in GoInt, GoBool, ...), all
\* users get the value its computation ends with; the computation runs once,
\* and one goroutine will settle it.
THEOREM UsesSeeFinalValuesHolds == Spec => []UsesSeeFinalValues
  <1>1. Inv => UsesSeeFinalValues
    <2> SUFFICES ASSUME Inv  PROVE UsesSeeFinalValues
      OBVIOUS
    <2>1. \A c \in Cells : runs[c] <= 1
      <3>1. \A c \in Cells : runs[c] = IF once[c] = "new" THEN 0 ELSE 1
        BY DEF Inv, LazyInv, OnceInv
      <3> QED  BY <3>1
    <2>2. \A i \in Completed({"await", "plus", "and", "any", "all"}) : out[i.p] = Expected(s, i)
      BY DEF Completed, Inv, LazyInv, OutInv, Correct
    <2> QED  BY <2>1, <2>2, OneSettles DEF UsesSeeFinalValues
  <1> QED  BY <1>1, SpecInv, PTL

LEMMA RangesAgree == RangeAgrees
  <1>0. MaxInt \in Nat /\ MinInt = -MaxInt - 1
    BY LazyAssumption DEF MinInt
  <1>1. SUFFICES ASSUME NEW from \in MinInt .. MaxInt, NEW to \in MinInt .. MaxInt,
                        to - from \in MinInt .. MaxInt
                 PROVE  /\ RangeToArray(from, to) = RangeEach(from, to)
                        /\ Len(RangeEach(from, to)) = RangeLength(from, to)
    BY DEF RangeAgrees
  <1>2. from \in Int /\ to \in Int
    BY <1>0
  <1> DEFINE n == to - from
  <1>3. Wrap(n) = n
    <2> DEFINE size == MaxInt - MinInt + 1
    <2>1. size \in Nat \ {0} /\ n - MinInt \in 0 .. size - 1
      BY <1>0, <1>1, <1>2
    <2>2. \A m \in Nat \ {0} : \A a \in 0 .. m - 1 : a % m = a
      OBVIOUS
    <2>3. (n - MinInt) % size = n - MinInt
      <3> HIDE DEF size, n
      <3> QED  BY <2>1, <2>2
    <2>4. Wrap(n) = ((n - MinInt) % size) + MinInt
      BY DEF Wrap
    <2> QED  BY <1>0, <1>2, <2>3, <2>4
  <1>4. CASE n <= 0
    <2>1. from >= to /\ to <= from
      BY <1>2, <1>4
    <2>2. RangeEach(from, to) = <<>>
      BY <2>1 DEF RangeEach
    <2>3. RangeToArray(from, to) = <<>> /\ RangeLength(from, to) = 0
      BY <1>3, <1>4, <2>1 DEF RangeToArray, RangeLength
    <2> QED  BY <2>2, <2>3
  <1>5. CASE n > 0
    <2>1. ~(from >= to) /\ ~(to <= from) /\ ~(n <= 0) /\ n \in Nat
      BY <1>2, <1>5
    <2>2. RangeEach(from, to) = [i \in 1 .. n |-> from + i - 1]
      BY <2>1 DEF RangeEach
    <2>3. RangeToArray(from, to) = [i \in 1 .. n |-> from + i - 1]
      BY <1>3, <2>1 DEF RangeToArray
    <2>4. RangeLength(from, to) = n
      BY <1>3, <2>1 DEF RangeLength
    <2>5. Len([i \in 1 .. n |-> from + i - 1]) = n
      <3> HIDE DEF n
      <3> QED  BY <2>1
    <2> QED  BY <2>2, <2>3, <2>4, <2>5
  <1>6. n \in Int
    BY <1>2
  <1> QED  BY <1>4, <1>5, <1>6

\* Filter, At, AtOpt and Has work with the values of plain operands, Append and
\* Set leave the arrays of others alone, and a range visits what it
\* materializes (collections.go).
THEOREM CollectionsSeeValuesHolds ==
  ASSUME OperandsPlain
  PROVE  Spec => []CollectionsSeeValues
  <1>1. Inv => CollectionsSeeValues
    <2> SUFFICES ASSUME Inv  PROVE CollectionsSeeValues
      OBVIOUS
    <2>1. \A i \in Operations : Regular(i)
      BY DEF OperandsPlain, Operations, Inv
    <2>2. \A i \in Operations : i.p \in finished => Correct(i)
      BY DEF Inv, LazyInv, OutInv
    <2>3. \A i \in Completed({"filter", "at", "lookup"}) : out[i.p] = Expected(s, i)
      BY <2>1, <2>2 DEF Completed, Correct
    <2>4. \A i \in Completed({"append", "set"}) : Slice(out[i.p]) = Expected(s, i)
      BY <2>1, <2>2 DEF Completed, Correct
    <2> QED  BY <2>3, <2>4, RangesAgree DEF CollectionsSeeValues
  <1> QED  BY <1>1, SpecInv, PTL
=============================================================================
