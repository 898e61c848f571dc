---------------------------- MODULE BocExecProofs ----------------------------
(***************************************************************************)
(* Proofs about running bocs: structured completion, the order of calls    *)
(* and the absence of lost updates, for every program and every schedule.  *)
(***************************************************************************)
EXTENDS BocExecInvariant, TLAPS

\* The lemmas about the queues.
QP == INSTANCE BocQueueProofs WITH Behaviours <- Acts

-----------------------------------------------------------------------------
(* Code.                                                                   *)

\* The parts of a concatenation.
LEMMA ConcatFacts ==
  ASSUME NEW S, NEW s \in Seq(S), NEW t \in Seq(S)
  PROVE  /\ s \o t \in Seq(S) /\ Len(s) \in Nat /\ Len(t) \in Nat
         /\ Len(s \o t) = Len(s) + Len(t)
         /\ DOMAIN s = 1 .. Len(s) /\ DOMAIN t = 1 .. Len(t)
         /\ DOMAIN (s \o t) = 1 .. Len(s) + Len(t)
         /\ \A k \in 1 .. Len(s) : (s \o t)[k] = s[k]
         /\ \A k \in 1 .. Len(t) : (s \o t)[Len(s) + k] = t[k]
         /\ \A k \in 1 .. Len(s) + Len(t) :
              (s \o t)[k] = IF k <= Len(s) THEN s[k] ELSE t[k - Len(s)]
         /\ \A k \in 1 .. Len(s) + Len(t) : (s \o t)[k] \in S
  OBVIOUS

\* The parts of a concatenation of four.
FourParts(h, w, c, p) ==
  LET f == ((h \o w) \o c) \o p
      n == Len(h) + Len(w)
      m == Len(h) + Len(w) + Len(c)
  IN  /\ n \in Nat /\ m \in Nat /\ Len(p) \in Nat
      /\ Len(f) = m + Len(p) /\ DOMAIN f = 1 .. m + Len(p)
      /\ \A k \in 1 .. Len(h) : f[k] = h[k]
      /\ \A k \in 1 .. Len(w) : f[Len(h) + k] = w[k]
      /\ \A k \in 1 .. Len(c) : f[n + k] = c[k]
      /\ \A k \in 1 .. Len(p) : f[m + k] = p[k]

\* Every element of a concatenation is the element of one of its parts.
LEMMA FourPartsHold ==
  ASSUME NEW S, NEW h \in Seq(S), NEW w \in Seq(S), NEW c \in Seq(S), NEW p \in Seq(S)
  PROVE  FourParts(h, w, c, p)
  <1> DEFINE f == ((h \o w) \o c) \o p
             n == Len(h) + Len(w)
             m == Len(h) + Len(w) + Len(c)
  <1>1. /\ Len(h) \in Nat /\ Len(w) \in Nat /\ Len(c) \in Nat /\ Len(p) \in Nat
        /\ n \in Nat /\ m \in Nat /\ m = n + Len(c)
    OBVIOUS
  <1>2. /\ h \o w \in Seq(S) /\ Len(h \o w) = n
        /\ \A k \in 1 .. Len(h) : (h \o w)[k] = h[k]
        /\ \A k \in 1 .. Len(w) : (h \o w)[Len(h) + k] = w[k]
    BY ConcatFacts
  <1>3. /\ (h \o w) \o c \in Seq(S) /\ Len((h \o w) \o c) = m
        /\ \A k \in 1 .. n : ((h \o w) \o c)[k] = (h \o w)[k]
        /\ \A k \in 1 .. Len(c) : ((h \o w) \o c)[n + k] = c[k]
    BY <1>1, <1>2, ConcatFacts
  <1>4. /\ f \in Seq(S) /\ Len(f) = m + Len(p) /\ DOMAIN f = 1 .. m + Len(p)
        /\ \A k \in 1 .. m : f[k] = ((h \o w) \o c)[k]
        /\ \A k \in 1 .. Len(p) : f[m + k] = p[k]
    BY <1>3, ConcatFacts
  <1> HIDE DEF f
  <1>5. ASSUME NEW k \in 1 .. n
        PROVE  f[k] = (h \o w)[k]
    <2>1. k \in 1 .. m
      BY <1>1
    <2> QED  BY <1>3, <1>4, <2>1
  <1>6. ASSUME NEW k \in 1 .. Len(h)
        PROVE  f[k] = h[k]
    <2>1. k \in 1 .. n
      BY <1>1
    <2> QED  BY <1>2, <1>5, <2>1
  <1>7. ASSUME NEW k \in 1 .. Len(w)
        PROVE  f[Len(h) + k] = w[k]
    <2>1. Len(h) + k \in 1 .. n
      BY <1>1
    <2> QED  BY <1>2, <1>5, <2>1
  <1>8. ASSUME NEW k \in 1 .. Len(c)
        PROVE  f[n + k] = c[k]
    <2>1. n + k \in 1 .. m
      BY <1>1
    <2> QED  BY <1>3, <1>4, <2>1
  <1> QED  BY <1>1, <1>4, <1>6, <1>7, <1>8 DEF f, FourParts

\* The only element of a sequence of one.
LEMMA UnitFacts ==
  ASSUME NEW S, NEW e \in S
  PROVE  <<e>> \in Seq(S) /\ Len(<<e>>) = 1 /\ <<e>>[1] = e
  OBVIOUS

\* What an operation acts on.
LEMMA OpFacts ==
  ASSUME NEW o \in Op
  PROVE  /\ o.op \in {"call", "successor", "force", "read", "write"}
         /\ o.op \in {"call", "successor", "force"} => o.on \in Acts
         /\ o.op \in {"read", "write"} => o.on \in Cowns
  BY DEF Op

\* The operations of an activation, those of its closure first.
LEMMA OpsFacts ==
  ASSUME NEW a \in Acts
  PROVE  /\ Pre[a] \in Seq(Op) /\ Post[a] \in Seq(Op) /\ Ops(a) \in Seq(Op)
         /\ Len(Pre[a]) \in Nat /\ Len(Post[a]) \in Nat
         /\ DOMAIN Pre[a] = 1 .. Len(Pre[a]) /\ DOMAIN Post[a] = 1 .. Len(Post[a])
         /\ DOMAIN Ops(a) = 1 .. Len(Pre[a]) + Len(Post[a])
         /\ \A k \in DOMAIN Ops(a) :
              Ops(a)[k] = IF k <= Len(Pre[a]) THEN Pre[a][k] ELSE Post[a][k - Len(Pre[a])]
         /\ \A k \in DOMAIN Ops(a) : Ops(a)[k] \in Op
  <1>1. /\ Pre \in [Acts -> Seq(Op)] /\ Post \in [Acts -> Seq(Op)]
        /\ Pre[a] \in Seq(Op) /\ Post[a] \in Seq(Op)
    BY ExecAssumption
  <1> QED  BY <1>1, ConcatFacts DEF Ops

\* A place in an activation is one in its closure or one after the Wait.
OpsParts(a) ==
  /\ \A k \in DOMAIN Pre[a] : k \in DOMAIN Ops(a) /\ Ops(a)[k] = Pre[a][k]
  /\ \A k \in DOMAIN Ops(a), l \in DOMAIN Pre[a] : k < l => k \in DOMAIN Pre[a]
  /\ \A i \in DOMAIN Post[a] :
       /\ Len(Pre[a]) + i \in DOMAIN Ops(a) /\ Ops(a)[Len(Pre[a]) + i] = Post[a][i]
       /\ Len(Pre[a]) + i > Len(Pre[a])
  /\ \A k \in DOMAIN Ops(a) :
       k \in DOMAIN Pre[a] \/ \E i \in DOMAIN Post[a] : k = Len(Pre[a]) + i

\* The places of every activation.
LEMMA OpsPlaces ==
  ASSUME NEW a \in Acts
  PROVE  OpsParts(a)
  <1> DEFINE n == Len(Pre[a])
             m == Len(Post[a])
  <1>1. /\ n \in Nat /\ m \in Nat /\ DOMAIN Pre[a] = 1 .. n /\ DOMAIN Post[a] = 1 .. m
        /\ DOMAIN Ops(a) = 1 .. n + m
        /\ \A k \in DOMAIN Ops(a) :
              Ops(a)[k] = IF k <= n THEN Pre[a][k] ELSE Post[a][k - n]
    BY OpsFacts
  <1> HIDE DEF n, m
  <1>2. \A k \in DOMAIN Pre[a] : k \in DOMAIN Ops(a) /\ Ops(a)[k] = Pre[a][k]
    BY <1>1
  <1>3. \A k \in DOMAIN Ops(a), l \in DOMAIN Pre[a] : k < l => k \in DOMAIN Pre[a]
    BY <1>1
  <1>4. ASSUME NEW i \in DOMAIN Post[a]
        PROVE  n + i \in DOMAIN Ops(a) /\ Ops(a)[n + i] = Post[a][i] /\ n + i > n
    <2>1. n + i \in DOMAIN Ops(a) /\ ~(n + i <= n) /\ n + i > n /\ (n + i) - n = i
      BY <1>1
    <2> QED  BY <1>1, <2>1
  <1>5. ASSUME NEW k \in DOMAIN Ops(a), k \notin DOMAIN Pre[a]
        PROVE  \E i \in DOMAIN Post[a] : k = n + i
    <2>1. k - n \in DOMAIN Post[a] /\ k = n + (k - n)
      BY <1>1, <1>5
    <2> QED  BY <2>1
  <1> QED  BY <1>2, <1>3, <1>4, <1>5 DEF OpsParts, n

\* The operations of a goroutine's own code.
LEMMA CodeFacts ==
  ASSUME NEW g \in Goroutines
  PROVE  /\ Code(g) \in Seq(Op) /\ Len(Code(g)) \in Nat
         /\ DOMAIN Code(g) = 1 .. Len(Code(g))
         /\ \A k \in DOMAIN Code(g) : Code(g)[k] \in Op
         /\ g # Main => g \in Acts /\ Code(g) = Pre[g]
  <1>1. CASE g = Main
    <2>1. [op |-> "call", on |-> Root] \in Op /\ [op |-> "force", on |-> Root] \in Op
      BY ExecAssumption DEF Op
    <2>2. Code(g) = <<[op |-> "call", on |-> Root], [op |-> "force", on |-> Root]>>
      BY <1>1 DEF Code
    <2> HIDE DEF Op
    <2>3. Code(g) \in Seq(Op)
      BY <2>1, <2>2
    <2> QED  BY <1>1, <2>3
  <1>2. CASE g # Main
    <2>1. g \in Acts /\ Code(g) = Pre[g]
      BY <1>2 DEF Goroutines, Code
    <2>2. Pre[g] \in Seq(Op)
      BY <2>1, OpsFacts
    <2> QED  BY <1>2, <2>1, <2>2
  <1> QED  BY <1>1, <1>2

\* The code of a force: the schedule of a cold boc, the await, the group, the
\* code after the Wait.
ForceParts(a) ==
  /\ Lead(a) \in {1, 2} /\ Len(group[a]) \in Nat /\ Len(Post[a]) \in Nat
  /\ Len(ForceCode(a)) = Lead(a) + Len(group[a]) + Len(Post[a])
  /\ DOMAIN ForceCode(a) = 1 .. Lead(a) + Len(group[a]) + Len(Post[a])
  /\ Lead(a) = 2 => ForceCode(a)[1] = [op |-> "join", on |-> a] /\ Shape[a] = "cold"
  /\ ForceCode(a)[Lead(a)] = [op |-> "await", on |-> a]
  /\ \A k \in 1 .. Len(group[a]) :
       ForceCode(a)[Lead(a) + k] = [op |-> "force", on |-> group[a][k]]
  /\ \A k \in DOMAIN Post[a] : ForceCode(a)[PostAt(a, k)] = Post[a][k]

\* The code of a force has these parts.
LEMMA ForceFacts ==
  ASSUME NEW a \in Acts, group \in [Acts -> Seq(Acts)]
  PROVE  ForceParts(a)
  <1> DEFINE n == Len(group[a])
             X == Op \cup [op : {"join", "await"}, on : Acts]
             h == IF ScheduledAtCall(a) THEN <<>> ELSE <<[op |-> "join", on |-> a]>>
             w == <<[op |-> "await", on |-> a]>>
             c == Children(a)
             p == Post[a]
  <1>1. /\ [op |-> "join", on |-> a] \in X /\ [op |-> "await", on |-> a] \in X
        /\ p \in Seq(X) /\ Len(p) \in Nat
    <2>1. p \in Seq(Op) /\ Len(p) \in Nat
      BY OpsFacts
    <2>2. [op |-> "join", on |-> a] \in X /\ [op |-> "await", on |-> a] \in X
      OBVIOUS
    <2> HIDE DEF X
    <2>3. Op \subseteq X
      BY DEF X
    <2>4. p \in Seq(X)
      BY <2>1, <2>3
    <2> QED  BY <2>1, <2>2, <2>4
  <1>2. c \in Seq(X) /\ Len(c) = n /\ n \in Nat
        /\ \A k \in 1 .. n : c[k] = [op |-> "force", on |-> group[a][k]]
    <2>1. n \in Nat /\ DOMAIN group[a] = 1 .. n /\ \A k \in 1 .. n : group[a][k] \in Acts
      OBVIOUS
    <2>2. c = [k \in 1 .. n |-> [op |-> "force", on |-> group[a][k]]]
      BY <2>1 DEF Children
    <2>3. \A k \in 1 .. n : [op |-> "force", on |-> group[a][k]] \in X
      BY <2>1 DEF Op
    <2> HIDE DEF X, n, c
    <2>4. c \in [1 .. n -> X]
      BY <2>2, <2>3
    <2> QED  BY <2>1, <2>2, <2>4
  <1> HIDE DEF X, c, n
  <1>3. /\ h \in Seq(X) /\ Len(h) = Lead(a) - 1 /\ Lead(a) \in {1, 2}
        /\ Lead(a) = 2 => h[1] = [op |-> "join", on |-> a] /\ Shape[a] = "cold"
    BY <1>1 DEF Lead, ScheduledAtCall
  <1>4. w \in Seq(X) /\ Len(w) = 1 /\ w[1] = [op |-> "await", on |-> a]
    BY <1>1
  <1>5. ForceCode(a) = ((h \o w) \o c) \o p
    BY DEF ForceCode, c
  <1> HIDE DEF h, w, p
  <1>6. /\ Len(ForceCode(a)) = Lead(a) + n + Len(p)
        /\ DOMAIN ForceCode(a) = 1 .. Lead(a) + n + Len(p)
        /\ \A k \in 1 .. Len(h) : ForceCode(a)[k] = h[k]
        /\ \A k \in 1 .. Len(w) : ForceCode(a)[Len(h) + k] = w[k]
        /\ \A k \in 1 .. Len(c) : ForceCode(a)[Lead(a) + k] = c[k]
        /\ \A k \in 1 .. Len(p) : ForceCode(a)[Lead(a) + n + k] = p[k]
    <2>1. Len(h) + Len(w) = Lead(a) /\ Len(h) + Len(w) + Len(c) = Lead(a) + n
      BY <1>2, <1>3, <1>4
    <2>2. h \in Seq(X) /\ w \in Seq(X) /\ c \in Seq(X) /\ p \in Seq(X)
      BY <1>1, <1>2, <1>3, <1>4
    <2>3. FourParts(h, w, c, p)
      BY <2>2, FourPartsHold
    <2> QED  BY <1>5, <2>1, <2>3 DEF FourParts
  <1>7. \A k \in 1 .. n : ForceCode(a)[Lead(a) + k] = [op |-> "force", on |-> group[a][k]]
    BY <1>2, <1>6
  <1>8. Len(w) = 1 /\ Len(h) + 1 = Lead(a)
    BY <1>3, <1>4
  <1>9. ForceCode(a)[Lead(a)] = [op |-> "await", on |-> a]
    BY <1>4, <1>6, <1>8
  <1>10. Lead(a) = 2 => ForceCode(a)[1] = [op |-> "join", on |-> a]
    BY <1>3, <1>6, <1>8
  <1>11. DOMAIN p = 1 .. Len(p)
    BY <1>1
  <1>12. \A k \in DOMAIN p : ForceCode(a)[Lead(a) + n + k] = p[k]
    BY <1>6, <1>11
  <1> QED
    BY <1>1, <1>2, <1>3, <1>6, <1>7, <1>9, <1>10, <1>12 DEF n, p, PostAt, ForceParts


\* It has them after a step too.
LEMMA ForceFactsNext ==
  \A a \in Acts : group' \in [Acts -> Seq(Acts)] => ForceParts(a)'
  <1>1. \A a \in Acts : group \in [Acts -> Seq(Acts)] => ForceParts(a)
    BY ForceFacts
  <1>2. (\A a \in Acts : group \in [Acts -> Seq(Acts)] => ForceParts(a))'
    BY <1>1, PTL
  <1> QED  BY <1>2

-----------------------------------------------------------------------------
(* What a step may do.                                                     *)

\* The operations of a force too.
AnyOp == Op \cup [op : {"join", "await"}, on : Acts]

\* A program counter moves past an operation that has left its effect, and a
\* call of a closure with a group is in the group then.
PcMoves ==
  \A g \in Goroutines : pc'[g] # pc[g] =>
    /\ stack[g] = <<>> /\ Running(g) /\ pc[g] \in DOMAIN Code(g) /\ pc'[g] = pc[g] + 1
    /\ \A o \in AnyOp : o = Code(g)[pc[g]] =>
         /\ Effect(o)'
         /\ IsCall(o) /\ g # Main /\ Shape[g] # "simple" => group'[g] = Append(group[g], o.on)

\* So does the place in a force, or the force begins.
AtMoves ==
  \A a \in Acts : at'[a] # at[a] =>
    /\ group' = group
    /\ \/ at[a] = 0 /\ at'[a] = 1
       \/ /\ at[a] \in DOMAIN ForceCode(a) /\ at'[a] = at[a] + 1
          /\ \A o \in AnyOp : o = ForceCode(a)[at[a]] => Effect(o)'

\* A group grows while its closure runs.
GroupMoves ==
  \A a \in Acts : group'[a] # group[a] =>
    /\ phase[a] = "running" /\ at' = at
    /\ \E b \in Acts : group'[a] = Append(group[a], b)

\* A behaviour goes from phase to phase.
PhaseMoves ==
  \A a \in Acts : phase'[a] # phase[a] =>
    \/ phase[a] = "new" /\ phase'[a] = "waiting"
    \/ phase[a] = "waiting" /\ phase'[a] = "running"
    \/ phase[a] = "running" /\ phase'[a] = "completed" /\ pc[a] > Len(Pre[a]) /\ pc' = pc

\* A call joins its queues one by one.
JoinedMoves ==
  \A a \in Acts : joined'[a] # joined[a] =>
    /\ joined[a] + 1 <= Len(CownsOf[a]) /\ joined'[a] = joined[a] + 1
    /\ Q!Join(a, CownsOf[a][joined[a] + 1])

Moves == PcMoves /\ AtMoves /\ GroupMoves /\ PhaseMoves /\ JoinedMoves /\ [Q!Next]_(Q!vars)

\* The types, one by one.
LEMMA Types ==
  ASSUME TypeOK
  PROVE  /\ queue \in [Cowns -> Seq(Acts)]
         /\ phase \in [Acts -> {"new", "waiting", "running", "completed"}]
         /\ joined \in [Acts -> Nat] /\ group \in [Acts -> Seq(Acts)]
         /\ pc \in [Goroutines -> Nat] /\ stack \in [Goroutines -> Seq(Acts)]
         /\ at \in [Acts -> Nat]
  BY DEF TypeOK

\* The operations of a force.
LEMMA ForceOps ==
  ASSUME NEW a \in Acts, group \in [Acts -> Seq(Acts)], NEW k \in DOMAIN ForceCode(a)
  PROVE  /\ ForceCode(a)[k] \in AnyOp
         /\ ForceCode(a)[k].op = "join" => ForceCode(a)[k].on = a /\ Shape[a] = "cold"
         /\ \/ ForceCode(a)[k].op \in {"join", "await", "force"}
            \/ \E i \in DOMAIN Post[a] : k = PostAt(a, i) /\ ForceCode(a)[k] = Post[a][i]
  <1> DEFINE n == Len(group[a])
  <1>0. ForceParts(a)
    BY ForceFacts
  <1>1. /\ Lead(a) \in {1, 2} /\ n \in Nat /\ Len(Post[a]) \in Nat
    BY <1>0 DEF ForceParts
  <1>2. DOMAIN Post[a] = 1 .. Len(Post[a]) /\ Post[a] \in Seq(Op)
    BY OpsFacts
  <1>3. \A i \in 1 .. n : group[a][i] \in Acts
    OBVIOUS
  <1>4. k \in 1 .. Lead(a) + n + Len(Post[a])
    BY <1>0 DEF ForceParts
  <1>5. CASE k = 1 /\ Lead(a) = 2
    BY <1>0, <1>5 DEF AnyOp, ForceParts
  <1>6. CASE k = Lead(a)
    BY <1>0, <1>6 DEF AnyOp, ForceParts
  <1>7. CASE k > Lead(a) /\ k <= Lead(a) + n
    <2>1. k - Lead(a) \in 1 .. n /\ Lead(a) + (k - Lead(a)) = k
      BY <1>1, <1>4, <1>7
    <2>2. ForceCode(a)[k] = [op |-> "force", on |-> group[a][k - Lead(a)]]
      BY <1>0, <2>1 DEF ForceParts
    <2> QED  BY <1>3, <2>1, <2>2 DEF AnyOp, Op
  <1>8. CASE k > Lead(a) + n
    <2>1. k - Lead(a) - n \in DOMAIN Post[a] /\ PostAt(a, k - Lead(a) - n) = k
      BY <1>1, <1>2, <1>4, <1>8 DEF PostAt
    <2>2. ForceCode(a)[k] = Post[a][k - Lead(a) - n]
      BY <1>0, <2>1 DEF ForceParts
    <2>3. Post[a][k - Lead(a) - n] \in Op
      BY <1>2, <2>1
    <2>4. Post[a][k - Lead(a) - n].op # "join"
      BY <2>3, OpFacts
    <2> QED  BY <2>1, <2>2, <2>3, <2>4 DEF AnyOp
  <1> QED  BY <1>1, <1>4, <1>5, <1>6, <1>7, <1>8

\* The operation a goroutine executes next.
LEMMA HereFacts ==
  ASSUME ExecInv, NEW g \in Goroutines, Pc(g) <= Len(Here(g))
  PROVE  /\ stack[g] = <<>> =>
              pc[g] \in DOMAIN Code(g) /\ Here(g)[Pc(g)] = Code(g)[pc[g]]
         /\ stack[g] # <<>> =>
              LET t == Last(stack[g])
              IN  t \in Acts /\ at[t] \in DOMAIN ForceCode(t)
                  /\ Here(g)[Pc(g)] = ForceCode(t)[at[t]]
         /\ Here(g)[Pc(g)] \in AnyOp
  <1>1. CASE stack[g] = <<>>
    <2>1. Here(g) = Code(g) /\ Pc(g) = pc[g]
      BY <1>1 DEF Here, Pc
    <2>2. pc[g] \in Nat /\ pc[g] >= 1
      BY Types DEF ExecInv, PhaseInv
    <2>3. pc[g] \in DOMAIN Code(g) /\ Code(g)[pc[g]] \in Op
      BY <2>1, <2>2, CodeFacts
    <2> QED  BY <1>1, <2>1, <2>3 DEF AnyOp
  <1>2. CASE stack[g] # <<>>
    <2> DEFINE t == Last(stack[g])
    <2>1. stack[g] \in Seq(Acts)
      BY Types DEF ExecInv
    <2>2. Len(stack[g]) \in DOMAIN stack[g] /\ t = stack[g][Len(stack[g])] /\ t \in Acts
      BY <1>2, <2>1 DEF Last
    <2>3. at[t] \in Nat /\ at[t] >= 1 /\ group \in [Acts -> Seq(Acts)]
      BY <2>2, Types DEF ExecInv, StackInv
    <2> HIDE DEF t
    <2>4. Here(g) = ForceCode(t) /\ Pc(g) = at[t]
      BY <1>2 DEF Here, Pc, t
    <2>5. at[t] \in DOMAIN ForceCode(t)
      BY <2>2, <2>3, <2>4, ForceFacts DEF ForceParts
    <2> QED  BY <1>2, <2>2, <2>3, <2>4, <2>5, ForceOps DEF t
  <1> QED  BY <1>1, <1>2

\* What an operation acts on.
LEMMA OnFacts ==
  ASSUME NEW o \in AnyOp
  PROVE  o.op \notin {"read", "write"} => o.on \in Acts
  BY DEF AnyOp, Op

\* Advancing moves the counter of the code the goroutine is in.
LEMMA AdvanceMoves ==
  ASSUME ExecInv, NEW g \in Goroutines, Running(g), Pc(g) <= Len(Here(g)), Advance(g),
         \A o \in AnyOp : o = Here(g)[Pc(g)] => Effect(o)',
         Add(g) \/ UNCHANGED group, IsCall(Here(g)[Pc(g)]) => Add(g)
  PROVE  PcMoves /\ AtMoves
  <1>0. /\ pc \in [Goroutines -> Nat] /\ at \in [Acts -> Nat] /\ stack \in [Goroutines -> Seq(Acts)]
        /\ group \in [Acts -> Seq(Acts)]
    BY Types DEF ExecInv
  <1>1. CASE stack[g] = <<>>
    <2>1. pc[g] \in DOMAIN Code(g) /\ Here(g)[Pc(g)] = Code(g)[pc[g]]
      BY <1>1, HereFacts
    <2>2. pc' = [pc EXCEPT ![g] = @ + 1] /\ at' = at
      BY <1>1 DEF Advance
    <2>3. pc'[g] = pc[g] + 1 /\ \A h \in Goroutines \ {g} : pc'[h] = pc[h]
      BY <1>0, <2>2
    <2>4. AtMoves
      BY <2>2 DEF AtMoves
    <2>5. ASSUME NEW o \in AnyOp, o = Code(g)[pc[g]], IsCall(o), g # Main, Shape[g] # "simple"
          PROVE  group'[g] = Append(group[g], o.on)
      <3>1. Add(g) /\ On(g) = o.on
        BY <2>1, <2>5 DEF On
      <3>2. group' = [group EXCEPT ![g] = Append(group[g], o.on)] /\ g \in Acts
        BY <1>1, <2>5, <3>1 DEF Add, Goroutines
      <3> QED  BY <1>0, <3>2
    <2> SUFFICES ASSUME NEW h \in Goroutines, pc'[h] # pc[h]
                 PROVE  /\ stack[h] = <<>> /\ Running(h) /\ pc[h] \in DOMAIN Code(h)
                        /\ pc'[h] = pc[h] + 1
                        /\ \A o \in AnyOp : o = Code(h)[pc[h]] =>
                             /\ Effect(o)'
                             /\ IsCall(o) /\ h # Main /\ Shape[h] # "simple"
                                  => group'[h] = Append(group[h], o.on)
      BY <2>4 DEF PcMoves
    <2>6. h = g
      BY <2>3
    <2>7. \A o \in AnyOp : o = Code(g)[pc[g]] => Effect(o)'
      BY <2>1
    <2> QED  BY <1>1, <2>1, <2>3, <2>5, <2>6, <2>7
  <1>2. CASE stack[g] # <<>>
    <2> DEFINE t == Last(stack[g])
    <2>1. /\ t \in Acts /\ at[t] \in DOMAIN ForceCode(t)
          /\ Here(g)[Pc(g)] = ForceCode(t)[at[t]]
      BY <1>2, HereFacts
    <2>2. at' = [at EXCEPT ![t] = @ + 1] /\ pc' = pc /\ group' = group
      BY <1>2 DEF Advance, Add
    <2> HIDE DEF t
    <2>3. at'[t] = at[t] + 1 /\ \A b \in Acts \ {t} : at'[b] = at[b]
      BY <1>0, <2>1, <2>2
    <2>4. PcMoves
      BY <2>2 DEF PcMoves
    <2>5. \A o \in AnyOp : o = ForceCode(t)[at[t]] => Effect(o)'
      BY <2>1
    <2> SUFFICES ASSUME NEW b \in Acts, at'[b] # at[b]
                 PROVE  /\ at[b] \in DOMAIN ForceCode(b) /\ at'[b] = at[b] + 1
                        /\ \A o \in AnyOp : o = ForceCode(b)[at[b]] => Effect(o)'
      BY <2>2, <2>4 DEF AtMoves
    <2>6. b = t
      BY <2>3
    <2> QED  BY <2>1, <2>3, <2>5, <2>6
  <1> QED  BY <1>1, <1>2

\* A call adds what it calls to the group of the running closure.
LEMMA AddMoves ==
  ASSUME ExecInv, NEW g \in Goroutines, Running(g), On(g) \in Acts, Add(g),
         stack[g] = <<>> => at' = at
  PROVE  GroupMoves
  <1>0. group \in [Acts -> Seq(Acts)]
    BY Types DEF ExecInv
  <1>1. CASE stack[g] = <<>> /\ g # Main /\ Shape[g] # "simple"
    <2>1. g \in Acts /\ phase[g] = "running" /\ at' = at
      BY <1>1 DEF Running, Goroutines
    <2>2. group' = [group EXCEPT ![g] = Append(group[g], On(g))]
      BY <1>1 DEF Add
    <2>3. group'[g] = Append(group[g], On(g)) /\ \A a \in Acts \ {g} : group'[a] = group[a]
      BY <1>0, <2>1, <2>2
    <2> QED  BY <2>1, <2>3 DEF GroupMoves
  <1>2. CASE ~(stack[g] = <<>> /\ g # Main /\ Shape[g] # "simple")
    BY <1>2 DEF Add, GroupMoves
  <1> QED  BY <1>1, <1>2

\* Nothing moves in the queues if nothing changes there.
LEMMA QueueStays ==
  ASSUME UNCHANGED <<queue, phase>>
  PROVE  [Q!Next]_(Q!vars) /\ PhaseMoves
  BY DEF Q!vars, PhaseMoves

\* The cowns of a call.
LEMMA CownFacts ==
  ASSUME NEW a \in Acts
  PROVE  /\ CownsOf[a] \in Seq(Cowns) /\ Len(CownsOf[a]) \in Nat /\ Len(CownsOf[a]) >= 1
         /\ DOMAIN CownsOf[a] = 1 .. Len(CownsOf[a])
         /\ \A i \in 1 .. Len(CownsOf[a]) : CownsOf[a][i] \in Cowns /\ CownsOf[a][i] \in Q!Needs(a)
         /\ Q!Needs(a) \subseteq Cowns
         /\ \A c \in Q!Needs(a) : \E i \in 1 .. Len(CownsOf[a]) : c = CownsOf[a][i]
  <1>1. CownsOf[a] \in Seq(Cowns) /\ CownsOf[a] # <<>>
    BY ExecAssumption
  <1>2. /\ Len(CownsOf[a]) \in Nat /\ Len(CownsOf[a]) >= 1
        /\ DOMAIN CownsOf[a] = 1 .. Len(CownsOf[a])
        /\ \A i \in 1 .. Len(CownsOf[a]) : CownsOf[a][i] \in Cowns
    BY <1>1
  <1> QED  BY <1>1, <1>2 DEF Q!Needs

\* One turn of ScheduleMulti's loop joins one more queue.
LEMMA EnqueueMoves ==
  ASSUME ExecInv, NEW a \in Acts, Enqueue(a)
  PROVE  /\ PhaseMoves /\ JoinedMoves /\ [Q!Next]_(Q!vars)
         /\ joined'[a] = joined[a] + 1
  <1> DEFINE c == CownsOf[a][joined[a] + 1]
  <1>0. /\ joined \in [Acts -> Nat] /\ joined[a] <= Len(CownsOf[a])
        /\ phase \in [Acts -> {"new", "waiting", "running", "completed"}]
    BY DEF ExecInv, TypeOK
  <1>1. Q!Join(a, c) /\ joined' = [joined EXCEPT ![a] = @ + 1]
    BY DEF Enqueue
  <1>2. c \in Q!Needs(a) /\ ~Q!InQueue(a, c) /\ phase[a] \in {"new", "waiting"}
        /\ phase' = [phase EXCEPT ![a] = "waiting"]
    BY <1>1 DEF Q!Join
  <1> HIDE DEF c
  <1>3. c \in Cowns /\ Len(CownsOf[a]) \in Nat
    BY <1>2, CownFacts
  <1>4. joined[a] # Len(CownsOf[a])
    <2> SUFFICES ASSUME joined[a] = Len(CownsOf[a])  PROVE FALSE
      OBVIOUS
    <2>1. PICK i \in 1 .. Len(CownsOf[a]) : c = CownsOf[a][i]
      BY <1>2, CownFacts
    <2>2. Q!InQueue(a, CownsOf[a][i])
      BY <1>2, <2>1 DEF ExecInv, JoinedInv
    <2> QED  BY <1>2, <2>1, <2>2
  <1>5. joined'[a] = joined[a] + 1 /\ \A b \in Acts \ {a} : joined'[b] = joined[b]
    BY <1>0, <1>1
  <1>6. phase'[a] = "waiting" /\ \A b \in Acts \ {a} : phase'[b] = phase[b]
    BY <1>0, <1>2
  <1>7. PhaseMoves
    BY <1>2, <1>6 DEF PhaseMoves
  <1>8. joined[a] + 1 <= Len(CownsOf[a])
    BY <1>0, <1>3, <1>4
  <1>9. JoinedMoves
    BY <1>1, <1>5, <1>8 DEF JoinedMoves, c
  <1>10. Q!Next
    BY <1>1, <1>3 DEF Q!Next
  <1> QED  BY <1>5, <1>7, <1>9, <1>10

\* A call.
LEMMA CallMoves ==
  ASSUME ExecInv, NEW g \in Goroutines, Call(g)
  PROVE  Moves
  <1>1. /\ Running(g) /\ Pc(g) <= Len(Here(g)) /\ Here(g)[Pc(g)].op = "call"
        /\ Here(g)[Pc(g)] \in AnyOp
    BY HereFacts DEF Call, AtOp
  <1>2. On(g) \in Acts /\ On(g) = Here(g)[Pc(g)].on
    BY <1>1, OnFacts DEF On
  <1> DEFINE b == On(g)
  <1>3. PhaseMoves /\ JoinedMoves /\ [Q!Next]_(Q!vars)
        /\ (ScheduledAtCall(b) => joined'[b] = joined[b] + 1)
    <2>1. CASE ScheduledAtCall(b)
      BY <1>2, <2>1, EnqueueMoves DEF Call
    <2>2. CASE ~ScheduledAtCall(b)
      BY <2>2, QueueStays DEF Call, JoinedMoves
    <2> QED  BY <2>1, <2>2
  <1>4. CASE ScheduledAtCall(b) => LastTurn(b)
    <2>1. Advance(g) /\ Add(g)
      BY <1>4 DEF Call
    <2>2. ASSUME NEW o \in AnyOp, o = Here(g)[Pc(g)]
          PROVE  Effect(o)'
      <3>1. o.op = "call" /\ o.on = b
        BY <1>1, <1>2, <2>2
      <3>2. Shape[b] # "cold" => joined'[b] = Len(CownsOf[b])
        BY <1>3, <1>4 DEF ScheduledAtCall, LastTurn
      <3> HIDE DEF b
      <3> QED  BY <3>1, <3>2 DEF Effect
    <2>3. PcMoves /\ AtMoves
      BY <1>1, <2>1, <2>2, AdvanceMoves
    <2>4. stack[g] = <<>> => at' = at
      BY <2>1 DEF Advance
    <2>5. GroupMoves
      BY <1>1, <1>2, <2>1, <2>4, AddMoves
    <2> QED  BY <1>3, <2>3, <2>5 DEF Moves
  <1>5. CASE ~(ScheduledAtCall(b) => LastTurn(b))
    <2>1. UNCHANGED <<pc, at, group>>
      BY <1>5 DEF Call
    <2> QED  BY <1>3, <2>1 DEF Moves, PcMoves, AtMoves, GroupMoves
  <1> QED  BY <1>4, <1>5

\* A schedule of a cold boc.
LEMMA JoinMoves ==
  ASSUME ExecInv, NEW g \in Goroutines, Join(g)
  PROVE  Moves
  <1>1. /\ Running(g) /\ Pc(g) <= Len(Here(g)) /\ Here(g)[Pc(g)].op = "join"
        /\ Here(g)[Pc(g)] \in AnyOp
    BY HereFacts DEF Join, AtOp
  <1>2. On(g) \in Acts
    BY <1>1, OnFacts DEF On
  <1>3. PhaseMoves /\ JoinedMoves /\ [Q!Next]_(Q!vars) /\ group' = group
    BY <1>2, EnqueueMoves DEF Join
  <1>4. CASE LastTurn(On(g))
    <2>1. \A o \in AnyOp : o = Here(g)[Pc(g)] => Effect(o)' /\ ~IsCall(o)
      BY <1>1 DEF Effect, IsCall
    <2>2. Advance(g)
      BY <1>4 DEF Join
    <2>3. PcMoves /\ AtMoves
      BY <1>1, <1>3, <2>1, <2>2, AdvanceMoves
    <2> QED  BY <1>3, <2>3 DEF Moves, GroupMoves
  <1>5. CASE ~LastTurn(On(g))
    <2>1. UNCHANGED <<pc, at>>
      BY <1>5 DEF Join
    <2> QED  BY <1>3, <2>1 DEF Moves, PcMoves, AtMoves, GroupMoves
  <1> QED  BY <1>4, <1>5

\* Only a closure calls on a cown it holds.
LEMMA CallHeldIsOwn ==
  ASSUME ExecInv, NEW g \in Goroutines, CallHeld(g)
  PROVE  g \in Acts
  <1>0. /\ Pc(g) <= Len(Here(g)) /\ Here(g)[Pc(g)].op = "successor"
        /\ Here(g)[Pc(g)] \in AnyOp
    BY HereFacts DEF CallHeld, AtOp
  <1>1. CASE stack[g] = <<>> /\ g = Main
    <2>1. Code(Main)[pc[g]].op \in {"call", "force"}
      <3>1. pc[g] \in DOMAIN Code(Main)
        BY <1>1, HereFacts, <1>0
      <3> QED  BY <3>1 DEF Code
    <2> QED  BY <1>0, <1>1, <2>1, HereFacts
  <1>2. CASE stack[g] # <<>>
    <2>1. PICK t \in Acts : \E k \in DOMAIN ForceCode(t) : ForceCode(t)[k].op = "successor"
      BY <1>0, <1>2, HereFacts
    <2>2. PICK k \in DOMAIN ForceCode(t) : ForceCode(t)[k].op = "successor"
      BY <2>1
    <2>3. PICK i \in DOMAIN Post[t] : ForceCode(t)[k] = Post[t][i]
      BY <2>2, Types, ForceOps DEF ExecInv
    <2>4. PICK j \in DOMAIN Ops(t) : Ops(t)[j] = Post[t][i] /\ j > Len(Pre[t])
      BY OpsPlaces DEF OpsParts
    <2>5. Ops(t)[j].op = "successor"
      BY <2>2, <2>3, <2>4
    <2>6. Len(Pre[t]) \in Nat /\ j \in Nat
      <3>1. Len(Pre[t]) \in Nat /\ DOMAIN Ops(t) = 1 .. Len(Pre[t]) + Len(Post[t])
        BY OpsFacts
      <3> QED  BY <3>1
    <2>7. ~(j <= Len(Pre[t]))
      BY <2>4, <2>6
    <2> QED  BY <2>5, <2>7, ExecAssumption
  <1> QED  BY <1>1, <1>2 DEF Goroutines

\* A call on a cown the closure holds.
LEMMA CallHeldMoves ==
  ASSUME ExecInv, NEW g \in Goroutines, CallHeld(g)
  PROVE  Moves
  <1>1. /\ Running(g) /\ Pc(g) <= Len(Here(g)) /\ Here(g)[Pc(g)].op = "successor"
        /\ Here(g)[Pc(g)] \in AnyOp /\ Advance(g) /\ Add(g) /\ joined' = joined
    BY HereFacts DEF CallHeld, AtOp
  <1>2. On(g) \in Acts
    BY <1>1, OnFacts DEF On
  <1>3. \A o \in AnyOp : o = Here(g)[Pc(g)] => Effect(o)'
    BY <1>1 DEF Effect
  <1>4. PcMoves /\ AtMoves
    BY <1>1, <1>3, AdvanceMoves
  <1>5. stack[g] = <<>> => at' = at
    BY <1>1 DEF Advance
  <1>6. GroupMoves
    BY <1>1, <1>2, <1>5, AddMoves
  <1> DEFINE b == On(g)
             c == CownsOf[b][1]
  <1>7. Q!JoinBehind(g, b, c)
    BY DEF CallHeld
  <1> HIDE DEF b, c
  <1>8. phase[b] = "new" /\ phase' = [phase EXCEPT ![b] = "waiting"] /\ c \in Q!Needs(b)
    BY <1>7 DEF Q!JoinBehind
  <1>9. c \in Cowns /\ b \in Acts
    BY <1>2, <1>8, CownFacts DEF b
  <1>10. g \in Acts
    BY CallHeldIsOwn
  <1>11. Q!Next
    BY <1>7, <1>9, <1>10 DEF Q!Next
  <1>12. PhaseMoves
    BY <1>8, <1>9, Types DEF PhaseMoves, ExecInv
  <1>13. JoinedMoves
    BY <1>1 DEF JoinedMoves
  <1> QED  BY <1>4, <1>6, <1>11, <1>12, <1>13 DEF Moves

\* An operation that only waits or touches a field.
LEMMA PlainMoves ==
  ASSUME ExecInv, NEW g \in Goroutines, Running(g), Pc(g) <= Len(Here(g)), Advance(g),
         UNCHANGED <<queue, phase, joined, group>>,
         \A o \in AnyOp : o = Here(g)[Pc(g)] => Effect(o)' /\ ~IsCall(o)
  PROVE  Moves
  <1>1. Here(g)[Pc(g)] \in AnyOp
    BY HereFacts
  <1>2. PcMoves /\ AtMoves
    BY <1>1, AdvanceMoves
  <1> QED  BY <1>2, QueueStays DEF Moves, GroupMoves, JoinedMoves

\* The other operations of a goroutine.
LEMMA OwnMoves ==
  ASSUME ExecInv, NEW g \in Goroutines, Await(g) \/ PassThunk(g) \/ Read(g) \/ Write(g)
  PROVE  Moves
  <1>1. /\ Running(g) /\ Pc(g) <= Len(Here(g)) /\ Advance(g)
        /\ UNCHANGED <<queue, phase, joined, group>>
        /\ Here(g)[Pc(g)].op \in {"await", "force", "read", "write"}
    BY DEF Await, PassThunk, Read, Write, AtOp
  <1>2. Here(g)[Pc(g)] \in AnyOp
    BY <1>1, HereFacts
  <1>3. CASE Await(g)
    <2>1. Here(g)[Pc(g)].op = "await" /\ phase'[On(g)] = "completed"
      BY <1>3 DEF Await, AtOp
    <2>2. \A o \in AnyOp : o = Here(g)[Pc(g)] => Effect(o)' /\ ~IsCall(o)
      BY <2>1 DEF Effect, IsCall, On
    <2> QED  BY <1>1, <2>2, PlainMoves
  <1>4. CASE PassThunk(g)
    <2>1. Here(g)[Pc(g)].op = "force" /\ Forced(On(g))
      BY <1>4 DEF PassThunk, AtOp
    <2>2. On(g) \in Acts /\ On(g) = Here(g)[Pc(g)].on
      BY <1>2, <2>1, OnFacts DEF On
    <2>3. /\ at \in [Acts -> Nat] /\ \A t \in Acts : ForceCode(t)' = ForceCode(t)
          /\ stack \in [Goroutines -> Seq(Acts)]
      BY <1>1, Types DEF ExecInv, ForceCode, Children
    <2>4. \A t \in Acts : at'[t] >= at[t] /\ at'[t] \in Nat
      <3>1. CASE stack[g] = <<>>
        BY <1>1, <2>3, <3>1 DEF Advance
      <3>2. CASE stack[g] # <<>>
        <4>1. Last(stack[g]) \in Acts /\ at' = [at EXCEPT ![Last(stack[g])] = @ + 1]
          BY <1>1, <3>2, HereFacts DEF Advance
        <4> QED  BY <2>3, <4>1
      <3> QED  BY <3>1, <3>2
    <2>5. ASSUME NEW t \in Acts, t = On(g)
          PROVE  Forced(t)'
      <3>1. at[t] > Len(ForceCode(t)) /\ at[t] \in Nat
        BY <2>1, <2>3, <2>5 DEF Forced
      <3>2. ForceParts(t)
        BY <1>1, Types, ForceFacts DEF ExecInv
      <3>3. Len(ForceCode(t)) \in Nat
        BY <3>2 DEF ForceParts
      <3>4. at'[t] > Len(ForceCode(t))
        BY <2>4, <3>1, <3>3
      <3> QED  BY <2>3, <3>4 DEF Forced
    <2>6. \A o \in AnyOp : o = Here(g)[Pc(g)] => Effect(o)' /\ ~IsCall(o)
      BY <2>1, <2>2, <2>5 DEF Effect, IsCall
    <2> QED  BY <1>1, <2>6, PlainMoves
  <1>5. CASE Read(g) \/ Write(g)
    <2>1. Here(g)[Pc(g)].op \in {"read", "write"}
      BY <1>5 DEF Read, Write, AtOp
    <2>2. \A o \in AnyOp : o = Here(g)[Pc(g)] => Effect(o)' /\ ~IsCall(o)
      BY <2>1 DEF Effect, IsCall
    <2> QED  BY <1>1, <2>2, PlainMoves
  <1> QED  BY <1>3, <1>4, <1>5

\* A force begins or ends.
LEMMA ThunkMoves ==
  ASSUME ExecInv, NEW g \in Goroutines, EnterThunk(g) \/ LeaveThunk(g)
  PROVE  Moves
  <1>1. UNCHANGED <<queue, phase, joined, group, pc>>
    BY DEF EnterThunk, LeaveThunk
  <1>2. \A a \in Acts : at'[a] # at[a] => at[a] = 0 /\ at'[a] = 1
    <2>1. CASE EnterThunk(g)
      <3>1. at' = [at EXCEPT ![On(g)] = 1] /\ at[On(g)] = 0
        BY <2>1 DEF EnterThunk
      <3>2. at \in [Acts -> Nat]
        BY Types DEF ExecInv
      <3> QED  BY <3>1, <3>2
    <2>2. CASE LeaveThunk(g)
      <3>1. at' = at
        BY <2>2 DEF LeaveThunk
      <3> QED  BY <3>1
    <2> QED  BY <2>1, <2>2
  <1>3. AtMoves
    BY <1>1, <1>2 DEF AtMoves
  <1> QED  BY <1>1, <1>3, QueueStays DEF Moves, PcMoves, GroupMoves, JoinedMoves

\* A behaviour starts, returns or gives up a cown.
LEMMA BehaviourMoves ==
  ASSUME ExecInv, NEW a \in Acts,
         Start(a) \/ Return(a) \/ \E c \in Cowns : Release(a, c)
  PROVE  Moves
  <1>1. UNCHANGED <<joined, group, pc, at>>
    BY DEF Start, Return, Release
  <1>2. Q!Next
    BY DEF Start, Return, Release, Q!Next
  <1>3. PhaseMoves
    BY Types DEF Start, Return, Release, Q!Start, Q!Complete, Q!Release, PhaseMoves, ExecInv
  <1> QED
    BY <1>1, <1>2, <1>3 DEF Moves, PcMoves, AtMoves, GroupMoves, JoinedMoves

\* No other step changes anything.
LEMMA NextMoves ==
  ASSUME ExecInv, [Next]_vars
  PROVE  Moves
  <1>1. CASE UNCHANGED vars
    BY <1>1, QueueStays DEF vars, Moves, PcMoves, AtMoves, GroupMoves, JoinedMoves
  <1>2. ASSUME NEW g \in Goroutines, Step(g)
        PROVE  Moves
    BY <1>2, CallMoves, JoinMoves, CallHeldMoves, OwnMoves, ThunkMoves DEF Step
  <1>3. ASSUME NEW a \in Acts, Start(a) \/ Return(a)
        PROVE  Moves
    BY <1>3, BehaviourMoves
  <1>4. ASSUME NEW a \in Acts, NEW c \in Cowns, Release(a, c)
        PROVE  Moves
    BY <1>4, BehaviourMoves
  <1> QED  BY <1>1, <1>2, <1>3, <1>4 DEF Next

-----------------------------------------------------------------------------
(* The types and the queues.                                               *)

\* Advancing keeps the counters natural.
LEMMA AdvanceTypes ==
  ASSUME ExecInv, NEW g \in Goroutines, Pc(g) <= Len(Here(g)), Advance(g)
  PROVE  pc' \in [Goroutines -> Nat] /\ at' \in [Acts -> Nat]
  <1>0. pc \in [Goroutines -> Nat] /\ at \in [Acts -> Nat]
    BY Types DEF ExecInv
  <1>1. CASE stack[g] = <<>>
    BY <1>0, <1>1 DEF Advance
  <1>2. CASE stack[g] # <<>>
    <2>1. Last(stack[g]) \in Acts
      BY <1>2, HereFacts
    <2> QED  BY <1>0, <1>2, <2>1 DEF Advance
  <1> QED  BY <1>1, <1>2

\* Adding to a group keeps the groups.
LEMMA AddTypes ==
  ASSUME ExecInv, NEW g \in Goroutines, On(g) \in Acts, Add(g)
  PROVE  group' \in [Acts -> Seq(Acts)]
  <1>0. group \in [Acts -> Seq(Acts)]
    BY Types DEF ExecInv
  <1>1. CASE stack[g] = <<>> /\ g # Main /\ Shape[g] # "simple"
    <2>1. g \in Acts /\ group' = [group EXCEPT ![g] = Append(group[g], On(g))]
      BY <1>1 DEF Add, Goroutines
    <2>2. Append(group[g], On(g)) \in Seq(Acts)
      BY <1>0, <2>1
    <2> QED  BY <1>0, <2>1, <2>2
  <1>2. CASE ~(stack[g] = <<>> /\ g # Main /\ Shape[g] # "simple")
    BY <1>0, <1>2 DEF Add
  <1> QED  BY <1>1, <1>2

\* A step of a goroutine keeps the types.
LEMMA StepTypes ==
  ASSUME ExecInv, NEW g \in Goroutines, Step(g)
  PROVE  /\ joined' \in [Acts -> Nat] /\ group' \in [Acts -> Seq(Acts)]
         /\ pc' \in [Goroutines -> Nat] /\ stack' \in [Goroutines -> Seq(Acts)]
         /\ at' \in [Acts -> Nat]
         /\ field' \in [Cowns -> Nat] /\ reg' \in [Goroutines -> Nat] /\ writes' \in [Cowns -> Nat]
  <1>0. /\ joined \in [Acts -> Nat] /\ group \in [Acts -> Seq(Acts)]
        /\ pc \in [Goroutines -> Nat] /\ stack \in [Goroutines -> Seq(Acts)]
        /\ at \in [Acts -> Nat]
        /\ field \in [Cowns -> Nat] /\ reg \in [Goroutines -> Nat] /\ writes \in [Cowns -> Nat]
    BY DEF ExecInv, TypeOK
  <1>1. ASSUME Pc(g) <= Len(Here(g))
        PROVE  /\ Here(g)[Pc(g)] \in AnyOp
               /\ Advance(g) => pc' \in [Goroutines -> Nat] /\ at' \in [Acts -> Nat]
               /\ Here(g)[Pc(g)].op \notin {"read", "write"} => On(g) \in Acts
               /\ Here(g)[Pc(g)].op \in {"read", "write"} => On(g) \in Cowns
    <2>1. Here(g)[Pc(g)] \in AnyOp
      BY <1>1, HereFacts
    <2> QED  BY <1>1, <2>1, AdvanceTypes, OnFacts DEF On, AnyOp, Op
  <1>2. CASE Call(g)
    <2>1. Pc(g) <= Len(Here(g)) /\ On(g) \in Acts
      BY <1>1, <1>2 DEF Call, AtOp
    <2>2. joined' \in [Acts -> Nat]
      <3>1. CASE ScheduledAtCall(On(g))
        <4>1. joined' = [joined EXCEPT ![On(g)] = @ + 1]
          BY <1>2, <3>1 DEF Call, Enqueue
        <4> QED  BY <1>0, <2>1, <4>1
      <3>2. CASE ~ScheduledAtCall(On(g))
        BY <1>0, <1>2, <3>2 DEF Call
      <3> QED  BY <3>1, <3>2
    <2>3. group' \in [Acts -> Seq(Acts)]
      <3>1. CASE Add(g)
        BY <2>1, <3>1, AddTypes
      <3>2. CASE group' = group
        BY <1>0, <3>2
      <3> QED  BY <1>2, <3>1, <3>2 DEF Call
    <2>4. pc' \in [Goroutines -> Nat] /\ at' \in [Acts -> Nat]
      BY <1>0, <1>1, <1>2, <2>1 DEF Call
    <2> QED  BY <1>0, <1>2, <2>2, <2>3, <2>4 DEF Call
  <1>3. CASE Join(g)
    <2>1. Pc(g) <= Len(Here(g)) /\ On(g) \in Acts
      BY <1>1, <1>3 DEF Join, AtOp
    <2>2. joined' \in [Acts -> Nat]
      BY <1>0, <1>3, <2>1 DEF Join, Enqueue
    <2>3. pc' \in [Goroutines -> Nat] /\ at' \in [Acts -> Nat]
      BY <1>0, <1>1, <1>3, <2>1 DEF Join
    <2> QED  BY <1>0, <1>3, <2>2, <2>3 DEF Join
  <1>4. CASE CallHeld(g)
    <2>1. Pc(g) <= Len(Here(g)) /\ On(g) \in Acts /\ Add(g) /\ Advance(g)
      BY <1>1, <1>4 DEF CallHeld, AtOp
    <2>2. group' \in [Acts -> Seq(Acts)]
      BY <2>1, AddTypes
    <2> QED  BY <1>0, <1>1, <1>4, <2>1, <2>2 DEF CallHeld
  <1>5. CASE Await(g) \/ PassThunk(g)
    BY <1>0, <1>1, <1>5 DEF Await, PassThunk, AtOp
  <1>6. CASE EnterThunk(g)
    <2>1. On(g) \in Acts
      BY <1>1, <1>6 DEF EnterThunk, AtOp
    <2>2. Append(stack[g], On(g)) \in Seq(Acts)
      BY <1>0, <2>1
    <2> QED  BY <1>0, <1>6, <2>1, <2>2 DEF EnterThunk
  <1>7. CASE LeaveThunk(g)
    <2>1. Front(stack[g]) \in Seq(Acts)
      BY <1>0, <1>7 DEF LeaveThunk, Front
    <2> QED  BY <1>0, <1>7, <2>1 DEF LeaveThunk
  <1>8. CASE Read(g)
    <2>1. Pc(g) <= Len(Here(g)) /\ On(g) \in Cowns /\ Advance(g)
      BY <1>1, <1>8 DEF Read, AtOp
    <2> QED  BY <1>0, <1>1, <1>8, <2>1 DEF Read
  <1>9. CASE Write(g)
    <2>1. Pc(g) <= Len(Here(g)) /\ On(g) \in Cowns /\ Advance(g)
      BY <1>1, <1>9 DEF Write, AtOp
    <2> QED  BY <1>0, <1>1, <1>9, <2>1 DEF Write
  <1> QED
    BY <1>2, <1>3, <1>4, <1>5, <1>6, <1>7, <1>8, <1>9 DEF Step

\* Every step keeps the types of the functions.
LEMMA NextTypes ==
  ASSUME ExecInv, [Next]_vars
  PROVE  /\ joined' \in [Acts -> Nat] /\ group' \in [Acts -> Seq(Acts)]
         /\ pc' \in [Goroutines -> Nat] /\ stack' \in [Goroutines -> Seq(Acts)]
         /\ at' \in [Acts -> Nat]
         /\ field' \in [Cowns -> Nat] /\ reg' \in [Goroutines -> Nat] /\ writes' \in [Cowns -> Nat]
  <1>1. CASE UNCHANGED <<joined, group, pc, stack, at, field, reg, writes>>
    BY <1>1 DEF ExecInv, TypeOK
  <1>2. CASE \E g \in Goroutines : Step(g)
    BY <1>2, StepTypes
  <1> QED  BY <1>1, <1>2 DEF Next, vars, Start, Return, Release

\* The two instances of BocQueue say the same.
LEMMA SameInv == (Q!QueueInv <=> QP!QueueInv) /\ (Q!QueueInv' <=> QP!QueueInv')
  <1>1. \A b, c : /\ Q!IsFirst(b, c) <=> QP!IsFirst(b, c)
                  /\ Q!IsFirst(b, c)' <=> QP!IsFirst(b, c)'
    BY DEF Q!IsFirst, QP!IsFirst
  <1>2. \A b : Q!Needs(b) = QP!Needs(b)
    BY DEF Q!Needs, QP!Needs
  <1>3. (Q!TypeOK <=> QP!TypeOK) /\ (Q!TypeOK' <=> QP!TypeOK')
    BY DEF Q!TypeOK, QP!TypeOK
  <1>4. /\ Q!RunningIsFirst <=> QP!RunningIsFirst
        /\ Q!RunningIsFirst' <=> QP!RunningIsFirst'
    BY <1>1, <1>2 DEF Q!RunningIsFirst, QP!RunningIsFirst
  <1>5. /\ Q!InQueueMeansJoined <=> QP!InQueueMeansJoined
        /\ Q!InQueueMeansJoined' <=> QP!InQueueMeansJoined'
    BY <1>2 DEF Q!InQueueMeansJoined, QP!InQueueMeansJoined
  <1>6. /\ Q!OncePerQueue <=> QP!OncePerQueue
        /\ Q!OncePerQueue' <=> QP!OncePerQueue'
    BY DEF Q!OncePerQueue, QP!OncePerQueue
  <1> QED  BY <1>3, <1>4, <1>5, <1>6 DEF Q!QueueInv, QP!QueueInv

\* So do their operators and steps.
LEMMA SameNext ==
  /\ \A b, c : /\ Q!InQueue(b, c) <=> QP!InQueue(b, c)
               /\ Q!InQueue(b, c)' <=> QP!InQueue(b, c)'
               /\ Q!IsFirst(b, c) <=> QP!IsFirst(b, c)
  /\ \A b : Q!Needs(b) = QP!Needs(b)
  /\ \A b, c : Q!Join(b, c) <=> QP!Join(b, c)
  /\ \A p, b, c : Q!JoinBehind(p, b, c) <=> QP!JoinBehind(p, b, c)
  /\ \A v, w, c : /\ Q!Before(v, w, c) <=> QP!Before(v, w, c)
                  /\ Q!Before(v, w, c)' <=> QP!Before(v, w, c)'
  /\ [Q!Next]_(Q!vars) <=> [QP!Next]_(QP!vars)
  <1>1. \A b, c : /\ Q!InQueue(b, c) <=> QP!InQueue(b, c)
                  /\ Q!InQueue(b, c)' <=> QP!InQueue(b, c)'
                  /\ Q!IsFirst(b, c) <=> QP!IsFirst(b, c)
    BY DEF Q!IsFirst, QP!IsFirst, Q!InQueue, QP!InQueue
  <1>2. \A b : Q!Needs(b) = QP!Needs(b)
    BY DEF Q!Needs, QP!Needs
  <1>3. \A b, c : Q!Join(b, c) <=> QP!Join(b, c)
    BY <1>1, <1>2 DEF Q!Join, QP!Join
  <1>4. \A p, b, c : Q!JoinBehind(p, b, c) <=> QP!JoinBehind(p, b, c)
    BY <1>1, <1>2 DEF Q!JoinBehind, QP!JoinBehind
  <1>5. \A v, w, c : /\ Q!Before(v, w, c) <=> QP!Before(v, w, c)
                     /\ Q!Before(v, w, c)' <=> QP!Before(v, w, c)'
    BY DEF Q!Before, QP!Before
  <1>6. \A b, c : Q!Release(b, c) <=> QP!Release(b, c)
    BY <1>1 DEF Q!Release, QP!Release
  <1>7. \A b : (Q!Start(b) <=> QP!Start(b)) /\ (Q!Complete(b) <=> QP!Complete(b))
    BY <1>1, <1>2 DEF Q!Start, QP!Start, Q!Complete, QP!Complete
  <1>8. [Q!Next]_(Q!vars) <=> [QP!Next]_(QP!vars)
    BY <1>3, <1>4, <1>6, <1>7 DEF Q!Next, QP!Next, Q!vars, QP!vars
  <1> QED  BY <1>1, <1>2, <1>3, <1>4, <1>5, <1>8

\* The queues keep their invariant.
LEMMA QueuesKept ==
  ASSUME ExecInv, Moves
  PROVE  Q!QueueInv'
  <1>1. Q!QueueInv /\ [Q!Next]_(Q!vars)
    BY DEF ExecInv, Moves
  <1>2. QP!QueueInv
    BY <1>1, SameInv
  <1>3. [QP!Next]_(QP!vars)
    BY <1>1, SameNext
  <1>4. QP!QueueInv'
    BY <1>2, <1>3, QP!NextKeepsQueueInv
  <1> QED  BY <1>4, SameInv

\* A thunk that is done stays done.
LEMMA ForcedKept ==
  ASSUME ExecInv, Moves, NEW a \in Acts, Forced(a)
  PROVE  phase[a] = "completed" /\ ForceCode(a)' = ForceCode(a) /\ Forced(a)'
  <1>1. ForceParts(a) /\ at \in [Acts -> Nat]
    BY Types, ForceFacts DEF ExecInv
  <1> DEFINE n == Len(ForceCode(a))
  <1>2. n \in Nat /\ n >= 1 /\ DOMAIN ForceCode(a) = 1 .. n /\ at[a] > n /\ Lead(a) \in 1 .. n
    BY <1>1 DEF ForceParts, Forced
  <1> HIDE DEF n
  <1>3. Lead(a) \in DOMAIN ForceCode(a) /\ Lead(a) < at[a]
    BY <1>1, <1>2
  <1>4. Effect(ForceCode(a)[Lead(a)])
    BY <1>3 DEF ExecInv, DoneInv, DoneBefore
  <1>5. ForceCode(a)[Lead(a)] = [op |-> "await", on |-> a]
    BY <1>1 DEF ForceParts
  <1>6. phase[a] = "completed"
    BY <1>4, <1>5 DEF Effect
  <1>7. group'[a] = group[a]
    BY <1>6 DEF Moves, GroupMoves
  <1>8. ForceCode(a)' = ForceCode(a)
    BY <1>7 DEF ForceCode, Children
  <1>9. at'[a] = at[a]
    BY <1>1, <1>2 DEF Moves, AtMoves
  <1> QED  BY <1>2, <1>6, <1>8, <1>9 DEF Forced, n

\* What an operation has left behind stays.
LEMMA EffectKept ==
  ASSUME ExecInv, Moves, NEW o \in AnyOp, Effect(o)
  PROVE  Effect(o)'
  <1>1. CASE o.op = "call"
    <2>1. o.on \in Acts
      BY <1>1, OnFacts
    <2>2. joined \in [Acts -> Nat] /\ Len(CownsOf[o.on]) \in Nat
      BY <2>1, Types, CownFacts DEF ExecInv
    <2>3. joined[o.on] = Len(CownsOf[o.on]) => joined'[o.on] = Len(CownsOf[o.on])
      BY <2>1, <2>2 DEF Moves, JoinedMoves
    <2> QED  BY <1>1, <2>3 DEF Effect
  <1>2. CASE o.op = "await"
    <2>1. o.on \in Acts /\ phase[o.on] = "completed"
      BY <1>2, OnFacts DEF Effect
    <2>2. phase'[o.on] = "completed"
      BY <2>1 DEF Moves, PhaseMoves
    <2> QED  BY <1>2, <2>2 DEF Effect
  <1>3. CASE o.op = "force"
    <2>1. o.on \in Acts /\ Forced(o.on)
      BY <1>3, OnFacts DEF Effect
    <2>2. \A t \in Acts : t = o.on => Forced(t)'
      BY <2>1, ForcedKept
    <2> QED  BY <1>3, <2>1, <2>2 DEF Effect
  <1>4. CASE o.op \notin {"call", "await", "force"}
    BY <1>4 DEF Effect
  <1> QED  BY <1>1, <1>2, <1>3, <1>4

-----------------------------------------------------------------------------
(* The invariant.                                                          *)

\* A goroutine's own code leaves its effects.
LEMMA CodeDoneKept ==
  ASSUME ExecInv, Moves, NEW g \in Goroutines
  PROVE  DoneBefore(Code(g), pc[g])'
  <1> DEFINE code == Code(g)
  <1>0. /\ pc \in [Goroutines -> Nat] /\ DOMAIN code = 1 .. Len(code) /\ Len(code) \in Nat
        /\ \A k \in DOMAIN code : code[k] \in AnyOp
    BY Types, CodeFacts DEF ExecInv, AnyOp
  <1>1. DoneBefore(code, pc[g])
    BY DEF ExecInv, DoneInv
  <1>2. code' = code
    BY DEF Code
  <1> HIDE DEF code
  <1>3. ASSUME NEW k \in DOMAIN code, k < pc'[g]
        PROVE  \A o \in AnyOp : o = code[k] => Effect(o)'
    <2>1. CASE k < pc[g]
      BY <1>0, <1>1, <2>1, EffectKept DEF DoneBefore
    <2>2. CASE ~(k < pc[g])
      <3>1. pc'[g] # pc[g]
        BY <1>3, <2>2
      <3>2. /\ pc[g] \in DOMAIN code /\ pc'[g] = pc[g] + 1
            /\ \A o \in AnyOp : o = code[pc[g]] => Effect(o)'
        BY <3>1 DEF Moves, PcMoves, code
      <3>3. k = pc[g]
        BY <1>0, <1>3, <2>2, <3>2
      <3> QED  BY <3>2, <3>3
    <2> QED  BY <2>1, <2>2
  <1>4. \A k \in DOMAIN code : k < pc'[g] => \A o \in AnyOp : o = code[k] => Effect(o)'
    BY <1>3
  <1>5. \A k \in DOMAIN code' : k < pc'[g] => Effect(code[k])'
    BY <1>0, <1>2, <1>4
  <1> QED  BY <1>5 DEF DoneBefore, code

\* While a group grows its closure has not been awaited.
LEMMA GrowsBeforeAwait ==
  ASSUME ExecInv, NEW a \in Acts, phase[a] # "completed"
  PROVE  at[a] <= Lead(a)
  <1>1. ForceParts(a) /\ at \in [Acts -> Nat]
    BY Types, ForceFacts DEF ExecInv
  <1> SUFFICES ASSUME Lead(a) < at[a]  PROVE FALSE
    BY <1>1 DEF ForceParts
  <1>2. Lead(a) \in DOMAIN ForceCode(a) /\ ForceCode(a)[Lead(a)] = [op |-> "await", on |-> a]
    BY <1>1 DEF ForceParts
  <1>3. Effect(ForceCode(a)[Lead(a)])
    BY <1>2 DEF ExecInv, DoneInv, DoneBefore
  <1> QED  BY <1>2, <1>3 DEF Effect

\* The code of a force leaves its effects.
LEMMA ForceDoneKept ==
  ASSUME ExecInv, Moves, group' \in [Acts -> Seq(Acts)], NEW a \in Acts
  PROVE  DoneBefore(ForceCode(a), at[a])'
  <1>0. ForceParts(a) /\ at \in [Acts -> Nat] /\ group \in [Acts -> Seq(Acts)]
    BY Types, ForceFacts DEF ExecInv
  <1>1. CASE group'[a] = group[a]
    <2> DEFINE code == ForceCode(a)
    <2>1. DoneBefore(code, at[a])
      BY DEF ExecInv, DoneInv
    <2>2. code' = code
      BY <1>1 DEF ForceCode, Children
    <2>3. \A k \in DOMAIN code : code[k] \in AnyOp
      BY <1>0, ForceOps
    <2>4. /\ DOMAIN code = 1 .. Len(code) /\ Len(code) \in Nat
          /\ \A k \in DOMAIN code : code[k] \in AnyOp
      BY <1>0, <2>3 DEF ForceParts
    <2> HIDE DEF code
    <2>5. ASSUME NEW k \in DOMAIN code, k < at'[a]
          PROVE  \A o \in AnyOp : o = code[k] => Effect(o)'
      <3>1. CASE k < at[a]
        BY <2>1, <2>4, <3>1, EffectKept DEF DoneBefore
      <3>2. CASE ~(k < at[a])
        <4>1. at'[a] # at[a]
          BY <2>5, <3>2
        <4>2. CASE at[a] = 0 /\ at'[a] = 1
          BY <2>4, <2>5, <4>2
        <4>3. CASE ~(at[a] = 0 /\ at'[a] = 1)
          <5>1. /\ at[a] \in DOMAIN code /\ at'[a] = at[a] + 1
                /\ \A o \in AnyOp : o = code[at[a]] => Effect(o)'
            BY <4>1, <4>3 DEF Moves, AtMoves, code
          <5>2. k = at[a]
            BY <1>0, <2>4, <2>5, <3>2, <5>1
          <5> QED  BY <5>1, <5>2
        <4> QED  BY <4>2, <4>3
      <3> QED  BY <3>1, <3>2
    <2>6. \A k \in DOMAIN code : k < at'[a] => \A o \in AnyOp : o = code[k] => Effect(o)'
      BY <2>5
    <2>7. \A k \in DOMAIN code' : k < at'[a] => Effect(code[k])'
      BY <2>2, <2>4, <2>6
    <2> QED  BY <2>7 DEF DoneBefore, code
  <1>2. CASE group'[a] # group[a]
    <2>1. phase[a] = "running" /\ at' = at
      BY <1>2 DEF Moves, GroupMoves
    <2>2. at'[a] <= Lead(a) /\ at'[a] \in Nat /\ Lead(a) \in {1, 2}
      BY <1>0, <2>1, GrowsBeforeAwait DEF ForceParts
    <2>3. ForceParts(a)'
      BY ForceFactsNext
    <2> SUFFICES ASSUME NEW k \in DOMAIN ForceCode(a)', k < at'[a]
                 PROVE  Effect(ForceCode(a)[k])'
      BY DEF DoneBefore
    <2>4. k = 1 /\ Lead(a) = 2
      BY <2>2, <2>3 DEF ForceParts, Lead
    <2>5. ForceCode(a)'[k] = [op |-> "join", on |-> a]
      BY <2>3, <2>4 DEF ForceParts, Lead
    <2> QED  BY <2>5 DEF Effect
  <1> QED  BY <1>1, <1>2

\* A closure moves only while its behaviour runs.
LEMMA PhasesKept ==
  ASSUME ExecInv, Moves
  PROVE  PhaseInv'
  <1>0. /\ phase \in [Acts -> {"new", "waiting", "running", "completed"}]
        /\ pc \in [Goroutines -> Nat] /\ Acts \subseteq Goroutines /\ Main \notin Acts
        /\ \A a \in Acts : Len(Pre[a]) \in Nat
    BY Types, OpsFacts, ExecAssumption DEF ExecInv, Goroutines
  <1>1. \A g \in Goroutines : pc'[g] = pc[g] \/ pc'[g] = pc[g] + 1
    BY DEF Moves, PcMoves
  <1>2. \A g \in Goroutines : pc'[g] >= 1
    BY <1>0, <1>1 DEF ExecInv, PhaseInv
  <1>3. ASSUME NEW a \in Acts, phase'[a] \in {"new", "waiting"}
        PROVE  pc'[a] = 1
    <2>1. phase[a] \in {"new", "waiting"}
      BY <1>3 DEF Moves, PhaseMoves
    <2>2. pc'[a] = pc[a]
      BY <1>0, <2>1 DEF Moves, PcMoves, Running
    <2> QED  BY <2>1, <2>2 DEF ExecInv, PhaseInv
  <1>4. ASSUME NEW a \in Acts, phase'[a] = "completed"
        PROVE  pc'[a] > Len(Pre[a])
    <2>1. CASE phase[a] = "completed"
      BY <1>0, <1>1, <2>1 DEF ExecInv, PhaseInv
    <2>2. CASE phase[a] # "completed"
      BY <1>0, <1>1, <1>4, <2>2 DEF Moves, PhaseMoves
    <2> QED  BY <2>1, <2>2
  <1> QED  BY <1>2, <1>3, <1>4 DEF PhaseInv

\* Every call a closure has made is in its group.
LEMMA GroupsKept ==
  ASSUME ExecInv, Moves
  PROVE  GroupInv'
  <1>0. pc \in [Goroutines -> Nat] /\ group \in [Acts -> Seq(Acts)]
    BY Types DEF ExecInv
  <1> SUFFICES ASSUME NEW a \in Acts, Shape[a] # "simple",
                      NEW k \in DOMAIN Pre[a], IsCall(Pre[a][k]), k < pc'[a]
               PROVE  \E j \in DOMAIN group'[a] : group'[a][j] = Pre[a][k].on
    BY DEF GroupInv, IsCall
  <1>1. /\ a \in Goroutines /\ a # Main /\ Code(a) = Pre[a] /\ Pre[a][k] \in AnyOp
        /\ DOMAIN Pre[a] = 1 .. Len(Pre[a]) /\ Len(Pre[a]) \in Nat
    BY ExecAssumption, OpsFacts, CodeFacts DEF Goroutines, AnyOp
  <1>2. Pre[a][k].on \in Acts
    BY <1>1, OnFacts DEF IsCall
  <1>3. CASE k < pc[a]
    <2>1. PICK j \in DOMAIN group[a] : group[a][j] = Pre[a][k].on
      BY <1>3 DEF ExecInv, GroupInv
    <2>2. CASE group'[a] = group[a]
      BY <2>1, <2>2
    <2>3. CASE group'[a] # group[a]
      <3>1. PICK b \in Acts : group'[a] = Append(group[a], b)
        BY <2>3 DEF Moves, GroupMoves
      <3>2. j \in DOMAIN group'[a] /\ group'[a][j] = group[a][j]
        BY <1>0, <3>1
      <3> QED  BY <2>1, <3>2
    <2> QED  BY <2>2, <2>3
  <1>4. CASE ~(k < pc[a])
    <2>1. pc'[a] # pc[a]
      BY <1>4
    <2>2. pc'[a] = pc[a] + 1 /\ pc[a] \in DOMAIN Pre[a]
      BY <1>1, <2>1 DEF Moves, PcMoves
    <2>3. k = pc[a]
      BY <1>1, <1>4, <2>2
    <2>4. group'[a] = Append(group[a], Pre[a][k].on)
      BY <1>1, <2>1, <2>3 DEF Moves, PcMoves
    <2> DEFINE n == Len(group[a]) + 1
    <2>5. n \in DOMAIN group'[a] /\ group'[a][n] = Pre[a][k].on
      BY <1>0, <1>2, <2>4
    <2> QED  BY <2>5
  <1> QED  BY <1>3, <1>4

\* The queues of a call hold its behaviour.
LEMMA JoinedKept ==
  ASSUME ExecInv, Moves
  PROVE  JoinedInv'
  <1>0. /\ joined \in [Acts -> Nat] /\ Q!QueueInv /\ Q!TypeOK
        /\ \A a \in Acts : joined[a] <= Len(CownsOf[a])
    BY DEF ExecInv, TypeOK, Q!QueueInv
  <1>1. QP!QueueInv /\ [QP!Next]_(QP!vars) /\ QP!TypeOK
    BY <1>0, SameInv, SameNext DEF Moves, QP!QueueInv
  <1> SUFFICES ASSUME NEW a \in Acts
               PROVE  /\ joined'[a] > 0 => phase'[a] # "new"
                      /\ phase'[a] # "completed" =>
                           \A i \in 1 .. joined'[a] : Q!InQueue(a, CownsOf[a][i])'
    BY DEF JoinedInv, Q!InQueue
  <1>2. joined[a] > 0 => phase[a] # "new"
    BY DEF ExecInv, JoinedInv
  <1>3. phase[a] # "new" => phase'[a] # "new"
    BY DEF Moves, PhaseMoves
  <1>4. phase'[a] # "completed" => phase[a] # "completed"
    BY DEF Moves, PhaseMoves
  <1>5. ASSUME NEW i \in 1 .. joined[a], phase[a] # "completed"
        PROVE  Q!InQueue(a, CownsOf[a][i])'
    <2> DEFINE c == CownsOf[a][i]
    <2>1. c \in Cowns
      BY <1>0, CownFacts
    <2>2. Q!InQueue(a, c)
      BY <1>5 DEF ExecInv, JoinedInv
    <2> HIDE DEF c
    <2>3. QP!InQueue(a, c)
      BY <2>2, SameNext
    <2>4. QP!InQueue(a, c)'
      BY <1>1, <1>5, <2>1, <2>3, QP!NextKeepsInQueue
    <2>5. Q!InQueue(a, c)'
      BY <2>4, SameNext
    <2> QED  BY <2>5 DEF c
  <1>6. CASE joined'[a] = joined[a]
    BY <1>2, <1>3, <1>4, <1>5, <1>6
  <1>7. CASE joined'[a] # joined[a]
    <2>1. /\ joined[a] + 1 <= Len(CownsOf[a]) /\ joined'[a] = joined[a] + 1
          /\ Q!Join(a, CownsOf[a][joined[a] + 1])
      BY <1>7 DEF Moves, JoinedMoves
    <2>2. PICK n \in Nat : n = joined[a] + 1
      BY <1>0
    <2>3. PICK c \in Cowns : c = CownsOf[a][n]
      BY <1>0, <2>1, <2>2, CownFacts
    <2>4. Q!Join(a, c)
      BY <2>1, <2>2, <2>3
    <2>5. phase[a] \in {"new", "waiting"} /\ phase'[a] = "waiting"
      BY <1>0, <2>4 DEF Q!Join, Q!TypeOK
    <2>6. QP!InQueue(a, c)'
      BY <1>1, <2>4, SameNext, QP!JoinEnters
    <2>7. Q!InQueue(a, CownsOf[a][n])'
      BY <2>3, <2>6, SameNext
    <2>8. ASSUME NEW i \in 1 .. joined'[a]
          PROVE  Q!InQueue(a, CownsOf[a][i])'
      <3>1. i \in 1 .. joined[a] \/ i = n
        BY <1>0, <2>1, <2>2
      <3> QED  BY <1>5, <2>5, <2>7, <3>1
    <2> QED  BY <2>5, <2>8
  <1> QED  BY <1>6, <1>7

\* A place once passed is not taken back.
LEMMA AtGrows ==
  ASSUME ExecInv, Moves, NEW a \in Acts
  PROVE  at[a] >= 1 => at'[a] >= 1
  <1>1. at \in [Acts -> Nat]
    BY Types DEF ExecInv
  <1> QED  BY <1>1 DEF Moves, AtMoves

\* Beginning a force keeps the stacks.
LEMMA EnterKeepsStacks ==
  ASSUME ExecInv, Moves, NEW g \in Goroutines, EnterThunk(g)
  PROVE  StackInv'
  <1> DEFINE b == On(g)
             n == Len(stack[g]) + 1
  <1>0. /\ stack \in [Goroutines -> Seq(Acts)] /\ at \in [Acts -> Nat] /\ StackInv
        /\ \A h \in Goroutines : \A i \in DOMAIN stack[h] : at[stack[h][i]] >= 1
        /\ OneForcer
    BY Types DEF ExecInv, StackInv
  <1>1. /\ Pc(g) <= Len(Here(g)) /\ Here(g)[Pc(g)].op = "force" /\ at[b] = 0
        /\ stack' = [stack EXCEPT ![g] = Append(@, b)] /\ at' = [at EXCEPT ![b] = 1]
        /\ pc' = pc
    BY DEF EnterThunk, AtOp
  <1>2. b \in Acts
    BY <1>1, HereFacts, OnFacts DEF On
  <1> HIDE DEF b
  <1>3. /\ DOMAIN stack'[g] = 1 .. n /\ n \in Nat /\ DOMAIN stack[g] = 1 .. n - 1
        /\ stack'[g][n] = b /\ stack'[g] # <<>>
        /\ \A i \in 1 .. n - 1 : stack'[g][i] = stack[g][i]
        /\ \A h \in Goroutines \ {g} : stack'[h] = stack[h]
    BY <1>0, <1>1, <1>2
  <1> HIDE DEF n
  <1>4. \A h \in Goroutines : \A i \in DOMAIN stack'[h] :
          \/ i \in DOMAIN stack[h] /\ stack'[h][i] = stack[h][i]
          \/ h = g /\ i = n /\ stack'[h][i] = b
    BY <1>3
  <1>5. \A h \in Goroutines : \A i \in DOMAIN stack[h] : stack[h][i] # b /\ stack[h][i] \in Acts
    BY <1>0, <1>1
  <1>6. OneForcer'
    <2> SUFFICES ASSUME NEW h \in Goroutines, NEW m \in Goroutines,
                        NEW i \in DOMAIN stack'[h], NEW j \in DOMAIN stack'[m],
                        stack'[h][i] = stack'[m][j]
                 PROVE  h = m /\ i = j
      BY DEF OneForcer
    <2>1. CASE stack'[h][i] = b
      <3>1. h = g /\ i = n
        BY <1>4, <1>5, <2>1
      <3>2. m = g /\ j = n
        BY <1>4, <1>5, <2>1
      <3> QED  BY <3>1, <3>2
    <2>2. CASE stack'[h][i] # b
      <3>1. /\ i \in DOMAIN stack[h] /\ stack'[h][i] = stack[h][i]
            /\ j \in DOMAIN stack[m] /\ stack'[m][j] = stack[m][j]
        BY <1>4, <2>2
      <3>2. stack[h][i] = stack[m][j]
        BY <3>1
      <3>3. OneForcer
        BY <1>0
      <3> QED  BY <3>1, <3>2, <3>3 DEF OneForcer
    <2> QED  BY <2>1, <2>2
  <1>7. \A h \in Goroutines : \A i \in DOMAIN stack'[h] : at'[stack'[h][i]] >= 1
    BY <1>0, <1>1, <1>2, <1>4, <1>5
  <1>8. ASSUME NEW h \in Goroutines, stack'[h] # <<>>
        PROVE  pc[h] <= Len(Code(h)) /\ Code(h)[pc[h]].op = "force"
    <2>1. CASE stack[h] # <<>>
      BY <1>0, <2>1 DEF StackInv
    <2>2. CASE stack[h] = <<>>
      <3>1. h = g
        BY <1>3, <1>8, <2>2
      <3> QED  BY <1>1, <2>2, <3>1 DEF Here, Pc
    <2> QED  BY <2>1, <2>2
  <1> QED  BY <1>1, <1>6, <1>7, <1>8 DEF StackInv, Code

\* Ending a force keeps them.
LEMMA LeaveKeepsStacks ==
  ASSUME ExecInv, NEW g \in Goroutines, LeaveThunk(g)
  PROVE  StackInv'
  <1>0. stack \in [Goroutines -> Seq(Acts)] /\ StackInv /\ OneForcer
    BY Types DEF ExecInv, StackInv
  <1>1. stack' = [stack EXCEPT ![g] = Front(stack[g])] /\ stack[g] # <<>> /\ UNCHANGED <<pc, at>>
    BY DEF LeaveThunk
  <1>2. /\ DOMAIN Front(stack[g]) = 1 .. Len(stack[g]) - 1
        /\ DOMAIN stack[g] = 1 .. Len(stack[g]) /\ Len(stack[g]) \in Nat
        /\ \A i \in 1 .. Len(stack[g]) - 1 : Front(stack[g])[i] = stack[g][i]
    BY <1>0, <1>1 DEF Front
  <1>3. \A h \in Goroutines : /\ stack'[h] # <<>> => stack[h] # <<>>
                              /\ \A i \in DOMAIN stack'[h] :
                                   i \in DOMAIN stack[h] /\ stack'[h][i] = stack[h][i]
    <2>1. stack'[g] = Front(stack[g]) /\ \A h \in Goroutines \ {g} : stack'[h] = stack[h]
      BY <1>0, <1>1
    <2>2. \A i \in DOMAIN stack'[g] : i \in DOMAIN stack[g] /\ stack'[g][i] = stack[g][i]
      BY <1>2, <2>1
    <2> QED  BY <1>1, <2>1, <2>2
  <1>4. OneForcer'
    BY <1>0, <1>3 DEF OneForcer
  <1> QED  BY <1>0, <1>1, <1>3, <1>4 DEF StackInv, Code

\* Only these two steps change the stacks.
LEMMA StacksKept ==
  ASSUME ExecInv, Moves, [Next]_vars
  PROVE  StackInv'
  <1>1. CASE UNCHANGED stack
    <2>1. OneForcer'
      BY <1>1 DEF ExecInv, StackInv, OneForcer
    <2>2. \A g \in Goroutines : \A i \in DOMAIN stack[g] : stack[g][i] \in Acts
      BY Types DEF ExecInv
    <2>3. \A g \in Goroutines : \A i \in DOMAIN stack'[g] : at'[stack'[g][i]] >= 1
      BY <1>1, <2>2, AtGrows DEF ExecInv, StackInv
    <2>4. \A g \in Goroutines : stack[g] # <<>> => pc'[g] = pc[g]
      BY DEF Moves, PcMoves
    <2> QED  BY <1>1, <2>1, <2>3, <2>4 DEF ExecInv, StackInv, Code
  <1>2. CASE ~UNCHANGED stack
    <2>1. \E g \in Goroutines : EnterThunk(g) \/ LeaveThunk(g)
      BY <1>2 DEF Next, Step, vars, Call, Join, CallHeld, Await, PassThunk, Read, Write,
                  Start, Return, Release
    <2> QED  BY <2>1, EnterKeepsStacks, LeaveKeepsStacks
  <1> QED  BY <1>1, <1>2

\* The bounds of the counters.
LEMMA TypesKept ==
  ASSUME ExecInv, Moves, [Next]_vars
  PROVE  TypeOK'
  <1>0. /\ joined \in [Acts -> Nat] /\ pc \in [Goroutines -> Nat] /\ at \in [Acts -> Nat]
        /\ group \in [Acts -> Seq(Acts)]
        /\ \A a \in Acts : joined[a] <= Len(CownsOf[a]) /\ at[a] <= Len(ForceCode(a)) + 1
        /\ \A g \in Goroutines : pc[g] <= Len(Code(g)) + 1
    BY DEF ExecInv, TypeOK
  <1>1. /\ joined' \in [Acts -> Nat] /\ group' \in [Acts -> Seq(Acts)]
        /\ pc' \in [Goroutines -> Nat] /\ stack' \in [Goroutines -> Seq(Acts)]
        /\ at' \in [Acts -> Nat]
        /\ field' \in [Cowns -> Nat] /\ reg' \in [Goroutines -> Nat] /\ writes' \in [Cowns -> Nat]
    BY NextTypes
  <1>2. /\ queue' \in [Cowns -> Seq(Acts)]
        /\ phase' \in [Acts -> {"new", "waiting", "running", "completed"}]
    BY QueuesKept DEF Q!QueueInv, Q!TypeOK
  <1>3. \A a \in Acts : joined'[a] <= Len(CownsOf[a])
    BY <1>0 DEF Moves, JoinedMoves
  <1>4. ASSUME NEW g \in Goroutines
        PROVE  pc'[g] <= Len(Code(g)) + 1
    <2>1. Len(Code(g)) \in Nat /\ DOMAIN Code(g) = 1 .. Len(Code(g))
      BY CodeFacts
    <2> QED  BY <1>0, <2>1 DEF Moves, PcMoves
  <1>5. ASSUME NEW a \in Acts
        PROVE  at'[a] <= Len(ForceCode(a))' + 1
    <2>1. ForceParts(a) /\ ForceParts(a)'
      BY <1>0, <1>1, ForceFacts, ForceFactsNext
    <2>2. /\ Len(ForceCode(a)) \in Nat /\ DOMAIN ForceCode(a) = 1 .. Len(ForceCode(a))
          /\ Len(ForceCode(a)) >= 1
      BY <2>1 DEF ForceParts
    <2>3. Len(ForceCode(a))' \in Nat /\ Len(ForceCode(a))' >= Len(ForceCode(a))
      <3>1. CASE group'[a] = group[a]
        <4>1. ForceCode(a)' = ForceCode(a)
          BY <3>1 DEF ForceCode, Children
        <4> QED  BY <2>2, <4>1
      <3>2. CASE group'[a] # group[a]
        <4>1. PICK b \in Acts : group'[a] = Append(group[a], b)
          BY <3>2 DEF Moves, GroupMoves
        <4>2. Len(group'[a]) = Len(group[a]) + 1 /\ Len(group[a]) \in Nat
          BY <1>0, <4>1
        <4>3. Lead(a)' = Lead(a)
          BY DEF Lead, ScheduledAtCall
        <4>4. Len(ForceCode(a)') = Lead(a) + Len(group'[a]) + Len(Post[a])
          BY <2>1, <4>3 DEF ForceParts
        <4>5. /\ Len(ForceCode(a)) = Lead(a) + Len(group[a]) + Len(Post[a])
              /\ Lead(a) \in {1, 2} /\ Len(Post[a]) \in Nat
          BY <2>1 DEF ForceParts
        <4> QED  BY <4>2, <4>4, <4>5
      <3> QED  BY <3>1, <3>2
    <2>4. at'[a] <= Len(ForceCode(a)) + 1
      <3>1. CASE at'[a] = at[a]
        BY <1>0, <3>1
      <3>2. CASE at'[a] # at[a]
        <4>1. \/ at'[a] = 1
              \/ at[a] \in DOMAIN ForceCode(a) /\ at'[a] = at[a] + 1
          BY <3>2 DEF Moves, AtMoves
        <4> QED  BY <2>2, <4>1
      <3> QED  BY <3>1, <3>2
    <2> QED  BY <1>1, <2>2, <2>3, <2>4
  <1> QED  BY <1>1, <1>2, <1>3, <1>4, <1>5 DEF TypeOK, Code

-----------------------------------------------------------------------------
(* The order of calls.                                                     *)

\* Whoever stands in the code after the Wait has seen its closure complete.
LEMMA AfterAwait ==
  ASSUME ExecInv, NEW a \in Acts, at[a] > Lead(a), NEW k \in DOMAIN Pre[a]
  PROVE  phase[a] = "completed" /\ k < pc[a] /\ Effect(Pre[a][k])
  <1>1. /\ a \in Goroutines /\ Code(a) = Pre[a] /\ pc[a] \in Nat
        /\ DOMAIN Pre[a] = 1 .. Len(Pre[a]) /\ Len(Pre[a]) \in Nat
    BY ExecAssumption, OpsFacts, Types DEF Goroutines, Code, ExecInv
  <1>2. at[a] \in Nat /\ Lead(a) \in {1, 2}
    BY Types DEF ExecInv, Lead
  <1>3. phase[a] = "completed"
    BY <1>2, GrowsBeforeAwait
  <1>4. k < pc[a]
    BY <1>1, <1>3 DEF ExecInv, PhaseInv
  <1>5. Effect(Pre[a][k])
    BY <1>1, <1>4 DEF ExecInv, DoneInv, DoneBefore
  <1> QED  BY <1>3, <1>4, <1>5

\* A call is made at its place in the body of an activation, after everything
\* that stands before it there; or it is the call of main.
LEMMA CallSite ==
  ASSUME ExecInv, NEW g \in Goroutines, Pc(g) <= Len(Here(g)),
         NEW o \in AnyOp, o = Here(g)[Pc(g)], IsCall(o)
  PROVE  \/ o.on = Root
         \/ \E a \in Acts : \E l \in DOMAIN Ops(a) :
              /\ Ops(a)[l] = o
              /\ \A k \in DOMAIN Ops(a) : k < l => Effect(Ops(a)[k])
  <1>0. pc \in [Goroutines -> Nat] /\ at \in [Acts -> Nat] /\ group \in [Acts -> Seq(Acts)]
    BY Types DEF ExecInv
  <1>1. CASE stack[g] = <<>> /\ g = Main
    <2>1. pc[g] \in DOMAIN Code(Main) /\ o = Code(Main)[pc[g]]
      BY <1>1, HereFacts
    <2> QED  BY <2>1 DEF Code, IsCall
  <1>2. CASE stack[g] = <<>> /\ g # Main
    <2>1. g \in Acts /\ Code(g) = Pre[g]
      BY <1>2, CodeFacts
    <2>2. pc[g] \in DOMAIN Pre[g] /\ o = Pre[g][pc[g]]
      BY <1>2, <2>1, HereFacts
    <2>3. PICK l \in DOMAIN Pre[g] : l = pc[g]
      BY <2>2
    <2>4. OpsParts(g)
      BY <2>1, OpsPlaces
    <2>5. ASSUME NEW k \in DOMAIN Ops(g), k < l
          PROVE  Effect(Ops(g)[k])
      <3>1. k \in DOMAIN Pre[g] /\ Ops(g)[k] = Pre[g][k]
        BY <2>4, <2>5 DEF OpsParts
      <3>2. Effect(Pre[g][k])
        BY <2>1, <2>3, <2>5, <3>1 DEF ExecInv, DoneInv, DoneBefore
      <3> QED  BY <3>1, <3>2
    <2>6. l \in DOMAIN Ops(g) /\ Ops(g)[l] = o
      BY <2>2, <2>3, <2>4 DEF OpsParts
    <2> QED  BY <2>1, <2>5, <2>6
  <1>3. CASE stack[g] # <<>>
    <2>1. PICK a \in Acts : /\ a = Last(stack[g]) /\ at[a] \in DOMAIN ForceCode(a)
                            /\ o = ForceCode(a)[at[a]]
      BY <1>3, HereFacts
    <2> DEFINE n == Len(Pre[a])
               m == Len(group[a])
    <2>2. ForceParts(a)
      BY <1>0, ForceFacts
    <2>3. OpsParts(a)
      BY OpsPlaces
    <2>4. /\ DOMAIN Pre[a] = 1 .. n /\ n \in Nat /\ DOMAIN Post[a] = 1 .. Len(Post[a])
      BY OpsFacts
    <2>5. /\ Lead(a) \in {1, 2} /\ m \in Nat /\ Len(Post[a]) \in Nat
          /\ DOMAIN ForceCode(a) = 1 .. Lead(a) + m + Len(Post[a])
      BY <2>2 DEF ForceParts
    <2>6. /\ Lead(a) = 2 => ForceCode(a)[1].op = "join"
          /\ ForceCode(a)[Lead(a)].op = "await"
      <3>1. Lead(a) = 2 => ForceCode(a)[1] = [op |-> "join", on |-> a]
        BY <2>2 DEF ForceParts
      <3>2. ForceCode(a)[Lead(a)] = [op |-> "await", on |-> a]
        BY <2>2, Zenon DEF ForceParts
      <3> QED  BY <3>1, <3>2
    <2>7. ASSUME NEW k \in 1 .. m
          PROVE  ForceCode(a)[Lead(a) + k].op = "force"
      <3>1. ForceCode(a)[Lead(a) + k] = [op |-> "force", on |-> group[a][k]]
        BY <2>2, Zenon DEF ForceParts
      <3> QED  BY <3>1
    <2>8. \A k \in DOMAIN Post[a] : ForceCode(a)[Lead(a) + m + k] = Post[a][k]
      BY <2>2 DEF ForceParts, PostAt
    <2> HIDE DEF n, m
    <2>9. at[a] > Lead(a) + m
      <3>1. CASE at[a] <= Lead(a)
        <4>1. at[a] = Lead(a) \/ (at[a] = 1 /\ Lead(a) = 2)
          BY <1>0, <2>1, <2>5, <3>1
        <4> QED  BY <2>1, <2>6, <4>1 DEF IsCall
      <3>2. CASE at[a] > Lead(a) /\ at[a] <= Lead(a) + m
        <4>1. at[a] - Lead(a) \in 1 .. m /\ Lead(a) + (at[a] - Lead(a)) = at[a]
          BY <1>0, <2>5, <3>2
        <4>2. ForceCode(a)[at[a]].op = "force"
          BY <2>7, <4>1
        <4> QED  BY <2>1, <4>2 DEF IsCall
      <3> QED  BY <1>0, <2>5, <3>1, <3>2
    <2>10. PICK i \in DOMAIN Post[a] : at[a] = Lead(a) + m + i
      <3>1. at[a] - (Lead(a) + m) \in 1 .. Len(Post[a])
            /\ at[a] = Lead(a) + m + (at[a] - (Lead(a) + m))
        <4> DEFINE x == at[a]
                   q == Lead(a)
                   r == Len(Post[a])
        <4>1. /\ x \in 1 .. q + m + r /\ x > q + m
              /\ q \in Nat /\ m \in Nat /\ r \in Nat
          BY <1>0, <2>1, <2>5, <2>9
        <4> HIDE DEF x, q, r
        <4>2. x - (q + m) \in 1 .. r /\ x = q + m + (x - (q + m))
          BY <4>1
        <4> QED  BY <4>2 DEF x, q, r
      <3> QED  BY <2>4, <3>1
    <2>11. o = Post[a][i]
      BY <2>1, <2>8, <2>10
    <2>12. n + i \in DOMAIN Ops(a) /\ Ops(a)[n + i] = Post[a][i]
      BY <2>3 DEF OpsParts, n
    <2>13. at[a] > Lead(a)
      BY <1>0, <2>5, <2>9
    <2>14. ASSUME NEW k \in DOMAIN Ops(a), k < n + i
           PROVE  Effect(Ops(a)[k])
      <3>1. CASE k \in DOMAIN Pre[a]
        BY <2>13, <2>3, <3>1, AfterAwait DEF OpsParts
      <3>2. CASE k \notin DOMAIN Pre[a]
        <4>1. PICK j \in DOMAIN Post[a] : k = n + j /\ Ops(a)[k] = Post[a][j]
          BY <2>3, <3>2 DEF OpsParts, n
        <4>2. j < i /\ j \in 1 .. Len(Post[a]) /\ i \in 1 .. Len(Post[a])
          BY <2>4, <2>14, <4>1
        <4>3. Lead(a) + m + j \in DOMAIN ForceCode(a) /\ Lead(a) + m + j < at[a]
          BY <2>5, <2>10, <4>2
        <4>4. Effect(ForceCode(a)[Lead(a) + m + j])
          BY <4>3 DEF ExecInv, DoneInv, DoneBefore
        <4> QED  BY <2>8, <4>1, <4>4
      <3> QED  BY <3>1, <3>2
    <2> QED  BY <2>11, <2>12, <2>14
  <1> QED  BY <1>1, <1>2, <1>3

\* When a body makes the second of two ordered calls, the first one stands in
\* its queues or has completed.
LEMMA FirstIsQueued ==
  ASSUME ExecInv, NEW a \in Acts, NEW k \in DOMAIN Ops(a), NEW l \in DOMAIN Ops(a),
         Ordered(a, k, l), phase[Ops(a)[k].on] # "completed",
         NEW c \in Q!Needs(Ops(a)[k].on),
         NEW g \in Goroutines, Pc(g) <= Len(Here(g)), On(g) = Ops(a)[l].on,
         Here(g)[Pc(g)].op \in {"call", "successor", "join"}
  PROVE  Here(g)[Pc(g)].op = "call" /\ Q!InQueue(Ops(a)[k].on, c)
  <1> DEFINE v == Ops(a)[k].on
             w == Ops(a)[l].on
  <1>1. PICK o \in AnyOp : o = Here(g)[Pc(g)] /\ o.on = w
    BY HereFacts DEF On
  <1>2. /\ k < l /\ Ops(a)[k].op = "call" /\ Ops(a)[l].op = "call"
        /\ Shape[v] # "cold" /\ Shape[w] # "cold"
    BY DEF Ordered
  <1>3. v \in Acts /\ w \in Acts
    BY <1>2, OpsFacts, OpFacts
  <1> HIDE DEF v, w
  <1>4. CASE o.op = "join"
    <2>1. o \notin Op
      BY <1>4 DEF Op
    <2>2. stack[g] # <<>>
      BY <1>1, <2>1, HereFacts, CodeFacts
    <2>3. PICK t \in Acts : \E i \in DOMAIN ForceCode(t) : o = ForceCode(t)[i]
      BY <1>1, <2>2, HereFacts
    <2>4. PICK i \in DOMAIN ForceCode(t) : o = ForceCode(t)[i]
      BY <2>3
    <2>5. group \in [Acts -> Seq(Acts)]
      BY Types DEF ExecInv
    <2>6. o.on = t /\ Shape[t] = "cold"
      BY <1>4, <2>4, <2>5, ForceOps
    <2> QED  BY <1>1, <1>2, <2>6
  <1>5. CASE IsCall(o)
    <2>1. o.on # Root
      BY <1>1, <1>2, CallAssumption DEF IsCall, w
    <2>2. PICK b \in Acts : \E m \in DOMAIN Ops(b) :
             Ops(b)[m] = o /\ \A i \in DOMAIN Ops(b) : i < m => Effect(Ops(b)[i])
      BY <1>1, <1>5, <2>1, CallSite
    <2>3. PICK m \in DOMAIN Ops(b) :
             Ops(b)[m] = o /\ \A i \in DOMAIN Ops(b) : i < m => Effect(Ops(b)[i])
      BY <2>2
    <2>4. b = a /\ m = l
      BY <1>1, <1>2, <1>5, <2>3, CallAssumption DEF IsCall, w
    <2>5. o.op = "call" /\ Effect(Ops(a)[k])
      BY <1>2, <2>3, <2>4
    <2>6. joined[v] = Len(CownsOf[v])
      BY <1>2, <2>5 DEF Effect, v
    <2>7. PICK i \in 1 .. Len(CownsOf[v]) : c = CownsOf[v][i]
      BY <1>3, CownFacts DEF v
    <2>8. Q!InQueue(v, c)
      BY <1>3, <2>6, <2>7 DEF ExecInv, JoinedInv, v
    <2> QED  BY <1>1, <2>5, <2>8 DEF v
  <1> QED  BY <1>1, <1>4, <1>5 DEF IsCall

\* The second call stays behind the first in the queue of a common cown.
LEMMA BeforeKept ==
  ASSUME ExecInv, [Next]_vars, NEW a \in Acts, NEW k \in DOMAIN Ops(a), NEW l \in DOMAIN Ops(a),
         Ordered(a, k, l), phase[Ops(a)[k].on] # "completed",
         NEW c \in Q!Needs(Ops(a)[k].on), Q!Before(Ops(a)[k].on, Ops(a)[l].on, c)
  PROVE  Q!Before(Ops(a)[k].on, Ops(a)[l].on, c)'
  <1>1. PICK v \in Acts : v = Ops(a)[k].on
    BY OpsFacts, OpFacts DEF Ordered
  <1>2. PICK w \in Acts : w = Ops(a)[l].on
    BY OpsFacts, OpFacts DEF Ordered
  <1>3. QP!TypeOK /\ c \in Cowns /\ QP!Before(v, w, c)
    BY <1>1, <1>2, SameInv, SameNext, CownFacts DEF ExecInv, QP!QueueInv
  <1> SUFFICES QP!Before(v, w, c)'
    BY <1>1, <1>2, SameNext DEF Ops
  <1>4. CASE UNCHANGED queue
    BY <1>3, <1>4 DEF QP!Before
  <1>5. ASSUME NEW g \in Goroutines, Enqueue(On(g)), AtOp(g, "call") \/ AtOp(g, "join")
        PROVE  QP!Before(v, w, c)'
    <2>1. PICK b \in Acts : b = On(g)
      BY <1>5, HereFacts, OnFacts DEF AtOp, On
    <2>2. PICK d : d = CownsOf[b][joined[b] + 1]
      OBVIOUS
    <2>3. Q!Join(b, d)
      BY <1>5, <2>1, <2>2 DEF Enqueue
    <2>4. d \in Cowns
      BY <2>1, <2>3, CownFacts DEF Q!Join
    <2>5. b = w => QP!InQueue(v, c)
      <3>1. Pc(g) <= Len(Here(g)) /\ Here(g)[Pc(g)].op \in {"call", "successor", "join"}
        BY <1>5 DEF AtOp
      <3>2. On(g) = Ops(a)[l].on => Q!InQueue(Ops(a)[k].on, c)
        BY <3>1, FirstIsQueued
      <3> QED  BY <1>1, <1>2, <2>1, <3>2, SameNext
    <2>6. QP!Join(b, d)
      BY <2>3, SameNext
    <2> QED  BY <1>3, <2>4, <2>5, <2>6, QP!JoinKeepsBefore
  <1>6. ASSUME NEW g \in Goroutines, CallHeld(g)
        PROVE  QP!Before(v, w, c)'
    <2>1. PICK b \in Acts : b = On(g)
      BY <1>6, HereFacts, OnFacts DEF CallHeld, AtOp, On
    <2>2. PICK d : d = CownsOf[b][1]
      OBVIOUS
    <2>3. Q!JoinBehind(g, b, d)
      BY <1>6, <2>1, <2>2 DEF CallHeld
    <2>4. d \in Cowns
      BY <2>1, <2>3, CownFacts DEF Q!JoinBehind
    <2>5. b # w
      BY <1>1, <1>2, <1>6, <2>1, FirstIsQueued DEF CallHeld, AtOp
    <2>6. g \in Acts
      BY <1>6, CallHeldIsOwn
    <2>7. QP!JoinBehind(g, b, d)
      BY <2>3, SameNext
    <2> QED  BY <1>3, <2>4, <2>5, <2>6, <2>7, QP!JoinBehindKeepsBefore
  <1>7. ASSUME NEW b \in Acts, NEW d \in Cowns, Release(b, d)
        PROVE  QP!Before(v, w, c)'
    <2>1. QP!Release(b, d)
      BY <1>7 DEF Release, Q!Release, QP!Release, Q!IsFirst, QP!IsFirst
    <2>2. b # v
      BY <1>1, <1>7 DEF Release, Q!Release
    <2> QED  BY <1>3, <2>1, <2>2, QP!ReleaseKeepsBefore
  <1> QED
    BY <1>4, <1>5, <1>6, <1>7 DEF Next, Step, vars, Call, Join, Await, EnterThunk, LeaveThunk,
       PassThunk, Read, Write, Start, Return, Q!Start, Q!Complete

\* The order of calls is kept.
LEMMA OrderKept ==
  ASSUME ExecInv, Moves, [Next]_vars
  PROVE  OrderInv'
  <1> SUFFICES ASSUME NEW a \in Acts, NEW k \in DOMAIN Ops(a), NEW l \in DOMAIN Ops(a),
                      Ordered(a, k, l),
                      NEW c \in Q!Needs(Ops(a)[k].on) \cap Q!Needs(Ops(a)[l].on)
               PROVE  \/ phase'[Ops(a)[k].on] = "completed"
                      \/ /\ phase'[Ops(a)[l].on] \in {"new", "waiting"}
                         /\ Q!Before(Ops(a)[k].on, Ops(a)[l].on, c)'
    BY DEF OrderInv, Ordered, Ops, Q!Needs
  <1>1. PICK v \in Acts : v = Ops(a)[k].on
    BY OpsFacts, OpFacts DEF Ordered
  <1>2. PICK w \in Acts : w = Ops(a)[l].on
    BY OpsFacts, OpFacts DEF Ordered
  <1>3. \/ phase[v] = "completed"
        \/ phase[w] \in {"new", "waiting"} /\ Q!Before(v, w, c)
    BY <1>1, <1>2 DEF ExecInv, OrderInv
  <1>4. CASE phase[v] = "completed"
    BY <1>1, <1>4 DEF Moves, PhaseMoves
  <1>5. CASE phase[v] # "completed"
    <2>1. Q!Before(Ops(a)[k].on, Ops(a)[l].on, c)'
      BY <1>1, <1>2, <1>3, <1>5, BeforeKept
    <2>2. phase'[w] \in {"new", "waiting"}
      <3> SUFFICES ASSUME phase'[w] \notin {"new", "waiting"}  PROVE FALSE
        OBVIOUS
      <3>1. QP!TypeOK /\ [QP!Next]_(QP!vars) /\ c \in QP!Needs(w) /\ QP!Before(v, w, c)
        BY <1>2, <1>3, <1>5, SameInv, SameNext DEF ExecInv, QP!QueueInv, Moves
      <3>2. QP!IsFirst(w, c)
        BY <1>3, <1>5, <3>1, QP!StartIsFirst
      <3>3. c \in Cowns
        BY <1>1, CownFacts
      <3> QED  BY <3>1, <3>2, <3>3, QP!BehindIsNotFirst
    <2> QED  BY <1>2, <2>1, <2>2
  <1> QED  BY <1>4, <1>5

\* Every step keeps the invariant.
LEMMA NextKeepsExecInv ==
  ASSUME ExecInv, [Next]_vars
  PROVE  ExecInv'
  <1>1. Moves
    BY NextMoves
  <1>2. TypeOK' /\ Q!QueueInv' /\ PhaseInv' /\ StackInv' /\ GroupInv' /\ JoinedInv' /\ OrderInv'
    BY <1>1, TypesKept, QueuesKept, PhasesKept, StacksKept, GroupsKept, JoinedKept, OrderKept
  <1>3. group' \in [Acts -> Seq(Acts)]
    BY <1>2 DEF TypeOK
  <1>4. DoneInv'
    BY <1>1, <1>3, CodeDoneKept, ForceDoneKept DEF DoneInv
  <1> QED  BY <1>2, <1>4 DEF ExecInv

\* The initial states satisfy it.
LEMMA InitExecInv == Init => ExecInv
  <1> SUFFICES ASSUME Init  PROVE ExecInv
    OBVIOUS
  <1>1. /\ joined = [a \in Acts |-> 0] /\ group = [a \in Acts |-> <<>>]
        /\ pc = [g \in Goroutines |-> 1] /\ stack = [g \in Goroutines |-> <<>>]
        /\ at = [a \in Acts |-> 0] /\ field = [c \in Cowns |-> 0]
        /\ reg = [g \in Goroutines |-> 0] /\ writes = [c \in Cowns |-> 0]
        /\ queue = [c \in Cowns |-> <<>>] /\ phase = [a \in Acts |-> "new"]
    BY DEF Init, Q!Init
  <1>2. TypeOK
    <2>1. group \in [Acts -> Seq(Acts)]
      BY <1>1
    <2>2. \A a \in Acts : Len(ForceCode(a)) \in Nat
      BY <2>1, ForceFacts DEF ForceParts
    <2>3. \A g \in Goroutines : Len(Code(g)) \in Nat
      BY CodeFacts
    <2>4. \A a \in Acts : joined[a] <= Len(CownsOf[a]) /\ at[a] <= Len(ForceCode(a)) + 1
      BY <1>1, <2>2, CownFacts
    <2>5. \A g \in Goroutines : pc[g] <= Len(Code(g)) + 1
      BY <1>1, <2>3
    <2> QED  BY <1>1, <2>1, <2>4, <2>5 DEF TypeOK
  <1>3. Q!QueueInv
    BY <1>1, SameInv, QP!InitQueueInv DEF QP!Init
  <1>4. DoneInv
    <2>1. \A g \in Goroutines : DOMAIN Code(g) = 1 .. Len(Code(g)) /\ Len(Code(g)) \in Nat
      BY CodeFacts
    <2>2. group \in [Acts -> Seq(Acts)]
      BY <1>1
    <2>3. \A a \in Acts : DOMAIN ForceCode(a) = 1 .. Len(ForceCode(a)) /\ Len(ForceCode(a)) \in Nat
      BY <2>2, ForceFacts DEF ForceParts
    <2> QED  BY <1>1, <2>1, <2>3 DEF DoneInv, DoneBefore
  <1>5. PhaseInv
    BY <1>1, OpsFacts DEF PhaseInv, Goroutines
  <1>6. StackInv
    BY <1>1 DEF StackInv, OneForcer
  <1>7. GroupInv
    <2>1. \A a \in Acts : \A k \in DOMAIN Pre[a] : k >= 1 /\ k \in Nat
      <3> SUFFICES ASSUME NEW a \in Acts  PROVE \A k \in DOMAIN Pre[a] : k >= 1 /\ k \in Nat
        OBVIOUS
      <3>1. DOMAIN Pre[a] = 1 .. Len(Pre[a]) /\ Len(Pre[a]) \in Nat
        BY OpsFacts
      <3> QED  BY <3>1
    <2>2. \A a \in Acts : pc[a] = 1
      BY <1>1 DEF Goroutines
    <2> QED  BY <2>1, <2>2 DEF GroupInv
  <1>8. JoinedInv
    BY <1>1 DEF JoinedInv
  <1>9. OrderInv
    <2> SUFFICES ASSUME NEW a \in Acts, NEW k \in DOMAIN Ops(a), NEW l \in DOMAIN Ops(a),
                        Ordered(a, k, l), NEW c \in Cowns
                 PROVE  /\ phase[Ops(a)[l].on] \in {"new", "waiting"}
                        /\ Q!Before(Ops(a)[k].on, Ops(a)[l].on, c)
      <3>1. \A a \in Acts : \A l \in DOMAIN Ops(a) : Ops(a)[l].op = "call" => Ops(a)[l].on \in Acts
        BY OpsFacts, OpFacts
      <3> QED  BY <3>1, CownFacts DEF OrderInv, Ordered
    <2>1. Ops(a)[l].on \in Acts
      BY OpsFacts, OpFacts DEF Ordered
    <2> QED  BY <1>1, <2>1 DEF Q!Before
  <1> QED  BY <1>2, <1>3, <1>4, <1>5, <1>6, <1>7, <1>8, <1>9 DEF ExecInv

-----------------------------------------------------------------------------
(* Fields.                                                                 *)

\* Places and cowns of the writes.
LEMMA WriteFacts ==
  ASSUME NEW a \in Acts
  PROVE  /\ \A k \in DOMAIN Pre[a] :
              /\ k \in Nat /\ k >= 1 /\ Pre[a][k] \in Op
              /\ Pre[a][k].op = "write" =>
                   Pre[a][k] = [op |-> "write", on |-> Pre[a][k].on] /\ Pre[a][k].on \in Cowns
         /\ \A i \in DOMAIN Post[a] :
              /\ i \in Nat
              /\ Post[a][i].op = "write" => Post[a][i] = [op |-> "write", on |-> Post[a][i].on]
  <1>1. ASSUME NEW o \in Op, o.op = "write"
        PROVE  o = [op |-> "write", on |-> o.on] /\ o.on \in Cowns
    BY <1>1 DEF Op
  <1>2. /\ \A k \in DOMAIN Pre[a] : k \in Nat /\ k >= 1 /\ Pre[a][k] \in Op
        /\ \A i \in DOMAIN Post[a] : i \in Nat /\ Post[a][i] \in Op
    <2>1. Pre[a] \in Seq(Op) /\ Post[a] \in Seq(Op)
      BY OpsFacts
    <2> HIDE DEF Op
    <2> QED  BY <2>1
  <1> QED  BY <1>1, <1>2

\* A write that is not the end of an increment under the cown stays on record:
\* program counters only grow, and a group is complete before the code behind
\* the Wait runs.
LEMMA LooseStays ==
  ASSUME ExecInv, Moves, NEW c, LooseWritten(c)
  PROVE  LooseWritten(c)'
  <1>1. PICK a \in Acts : LooseInPre(a, c) \/ LooseInPost(a, c)
    BY DEF LooseWritten
  <1>2. /\ pc[a] \in Nat /\ at \in [Acts -> Nat] /\ group \in [Acts -> Seq(Acts)]
        /\ a \in Goroutines
    BY Types DEF ExecInv, Goroutines
  <1>3. CASE LooseInPre(a, c)
    <2>1. PICK k \in DOMAIN Pre[a] : /\ Pre[a][k] = [op |-> "write", on |-> c]
                                     /\ k < pc[a] /\ ~HeldWrite(a, k)
      BY <1>3 DEF LooseInPre
    <2>2. pc'[a] = pc[a] \/ pc'[a] = pc[a] + 1
      BY <1>2 DEF Moves, PcMoves
    <2>3. k \in Nat
      BY WriteFacts
    <2>4. k < pc'[a]
      BY <1>2, <2>1, <2>2, <2>3
    <2>5. LooseInPre(a, c)'
      BY <2>1, <2>4 DEF LooseInPre, HeldWrite, Q!Needs
    <2> QED  BY <2>5 DEF LooseWritten
  <1>4. CASE LooseInPost(a, c)
    <2>1. PICK i \in DOMAIN Post[a] :
            Post[a][i] = [op |-> "write", on |-> c] /\ PostAt(a, i) < at[a]
      BY <1>4 DEF LooseInPost
    <2>2. Lead(a) \in {1, 2} /\ Len(group[a]) \in Nat /\ i \in Nat /\ at[a] \in Nat
      BY <1>2, ForceFacts, WriteFacts DEF ForceParts
    <2>3. Lead(a) < at[a]
      BY <2>1, <2>2 DEF PostAt
    <2>4. phase[a] = "completed"
      BY <2>2, <2>3, GrowsBeforeAwait
    <2>5. group'[a] = group[a]
      BY <2>4 DEF Moves, GroupMoves
    <2>6. at'[a] = at[a] \/ at'[a] = at[a] + 1
      BY <2>2, <2>3 DEF Moves, AtMoves
    <2>7. PostAt(a, i)' = PostAt(a, i)
      BY <2>5 DEF PostAt, Lead, ScheduledAtCall
    <2>8. PostAt(a, i) \in Nat
      BY <2>2 DEF PostAt
    <2>9. PostAt(a, i)' < at'[a]
      BY <2>1, <2>2, <2>6, <2>7, <2>8
    <2>10. LooseInPost(a, c)'
      BY <2>1, <2>9 DEF LooseInPost
    <2> QED  BY <2>10 DEF LooseWritten
  <1> QED  BY <1>1, <1>3, <1>4

\* A goroutine that writes ends an increment in its own closure, under the cown,
\* or leaves the cown on record.
LEMMA WriteSeen ==
  ASSUME ExecInv, NEW g \in Goroutines, Write(g), NEW d, d = On(g)
  PROVE  (g \in Acts /\ Ends(g, d) /\ pc' = [pc EXCEPT ![g] = @ + 1]) \/ LooseWritten(d)'
  <1>0. Pc(g) <= Len(Here(g)) /\ Here(g)[Pc(g)].op = "write" /\ Advance(g) /\ group' = group
    BY DEF Write, AtOp
  <1>1. /\ pc \in [Goroutines -> Nat] /\ at \in [Acts -> Nat] /\ group \in [Acts -> Seq(Acts)]
    BY Types DEF ExecInv
  <1>2. CASE stack[g] = <<>>
    <2>1. pc[g] \in DOMAIN Code(g) /\ Here(g)[Pc(g)] = Code(g)[pc[g]]
      BY <1>0, <1>2, HereFacts
    <2>2. g # Main
      BY <1>0, <2>1 DEF Code
    <2>3. g \in Acts /\ Code(g) = Pre[g]
      BY <2>2, CodeFacts
    <2>4. pc' = [pc EXCEPT ![g] = @ + 1] /\ pc'[g] = pc[g] + 1
      BY <1>0, <1>1, <1>2 DEF Advance
    <2>5. Pre[g][pc[g]] = [op |-> "write", on |-> d]
      BY <1>0, <2>1, <2>3, WriteFacts DEF On
    <2>6. CASE ~HeldWrite(g, pc[g])
      <3>1. PICK k \in DOMAIN Pre[g] : k = pc[g]
        BY <2>1, <2>3
      <3>2. k < pc'[g]
        BY <1>1, <2>4, <3>1
      <3>3. LooseInPre(g, d)'
        BY <2>5, <2>6, <3>1, <3>2 DEF LooseInPre, HeldWrite, Q!Needs
      <3> QED  BY <2>3, <3>3 DEF LooseWritten
    <2> QED  BY <2>1, <2>3, <2>4, <2>5, <2>6 DEF Ends
  <1>3. CASE stack[g] # <<>>
    <2>1. PICK t : t = Last(stack[g])
      OBVIOUS
    <2>2. t \in Acts /\ at[t] \in DOMAIN ForceCode(t) /\ Here(g)[Pc(g)] = ForceCode(t)[at[t]]
      BY <1>0, <1>3, <2>1, HereFacts
    <2>3. PICK i \in DOMAIN Post[t] : at[t] = PostAt(t, i) /\ ForceCode(t)[at[t]] = Post[t][i]
      BY <1>0, <1>1, <2>2, ForceOps
    <2>4. Post[t][i] = [op |-> "write", on |-> d]
      BY <1>0, <2>2, <2>3, WriteFacts DEF On
    <2>5. at'[t] = at[t] + 1
      BY <1>0, <1>1, <1>3, <2>1, <2>2 DEF Advance
    <2>6. PostAt(t, i)' = PostAt(t, i)
      BY <1>0 DEF PostAt, Lead, ScheduledAtCall
    <2>7. PostAt(t, i)' < at'[t]
      BY <1>1, <2>2, <2>3, <2>5, <2>6
    <2> QED  BY <2>2, <2>4, <2>7 DEF LooseWritten, LooseInPost
  <1> QED  BY <1>2, <1>3

\* A closure passes a read only by reading.
LEMMA PassesRead ==
  ASSUME ExecInv, [Next]_vars, NEW a \in Acts, pc'[a] # pc[a],
         pc[a] \in DOMAIN Pre[a], Pre[a][pc[a]].op = "read"
  PROVE  Read(a) /\ On(a) = Pre[a][pc[a]].on
  <1>0. a \in Goroutines /\ a # Main /\ Code(a) = Pre[a] /\ pc \in [Goroutines -> Nat]
    BY ExecAssumption, Types DEF Goroutines, Code, ExecInv
  <1>1. ASSUME NEW g \in Goroutines, Advance(g)
        PROVE  g = a /\ stack[a] = <<>>
    BY <1>0, <1>1 DEF Advance
  <1>2. stack[a] = <<>> => Here(a)[Pc(a)] = Pre[a][pc[a]]
    BY <1>0 DEF Here, Pc
  <1>3. ASSUME NEW g \in Goroutines, Step(g)
        PROVE  Read(a) /\ stack[a] = <<>>
    <2>1. CASE Read(g)
      BY <1>1, <2>1 DEF Read
    <2>2. CASE EnterThunk(g) \/ LeaveThunk(g)
      BY <2>2 DEF EnterThunk, LeaveThunk
    <2>3. CASE Call(g) \/ Join(g) \/ CallHeld(g) \/ Await(g) \/ PassThunk(g) \/ Write(g)
      <3>1. Advance(g) /\ Here(g)[Pc(g)].op # "read"
        BY <2>3 DEF Call, Join, CallHeld, Await, PassThunk, Write, AtOp
      <3> QED  BY <1>1, <1>2, <3>1
    <2> QED  BY <1>3, <2>1, <2>2, <2>3 DEF Step
  <1>4. \E g \in Goroutines : Step(g)
    BY DEF Next, vars, Start, Return, Release
  <1> QED  BY <1>2, <1>3, <1>4 DEF On

\* A closure that is about to end an increment runs.
LEMMA WriterRuns ==
  ASSUME ExecInv, NEW a \in Acts, NEW c, Ends(a, c)
  PROVE  phase[a] = "running" /\ c \in Q!Needs(a)
  <1>1. pc[a] >= 2 /\ c \in Q!Needs(a) /\ pc[a] \in DOMAIN Pre[a]
    BY DEF Ends, HeldWrite
  <1>2. /\ DOMAIN Pre[a] = 1 .. Len(Pre[a]) /\ Len(Pre[a]) \in Nat
        /\ phase[a] \in {"new", "waiting", "running", "completed"}
    BY OpsFacts, Types DEF ExecInv
  <1> QED  BY <1>1, <1>2 DEF ExecInv, PhaseInv

\* A closure comes to the end of an increment by reading the field.
LEMMA EndsAfterRead ==
  ASSUME ExecInv, [Next]_vars, NEW a \in Acts, NEW c, Ends(a, c)', pc'[a] # pc[a]
  PROVE  Read(a) /\ On(a) = c
  <1>1. /\ a \in Goroutines /\ Code(a) = Pre[a] /\ pc[a] \in Nat
    BY ExecAssumption, Types DEF ExecInv, Goroutines, Code
  <1>2. pc'[a] = pc[a] + 1 /\ pc[a] \in DOMAIN Pre[a]
    BY <1>1, NextMoves DEF Moves, PcMoves
  <1>3. PICK k \in DOMAIN Pre[a] : k = pc'[a] /\ HeldWrite(a, k) /\ Pre[a][k].on = c
    BY DEF Ends, HeldWrite, Q!Needs
  <1>4. k - 1 = pc[a]
    BY <1>1, <1>2, <1>3
  <1>5. Pre[a][pc[a]] = [op |-> "read", on |-> c]
    BY <1>3, <1>4 DEF HeldWrite
  <1>6. Pre[a][pc[a]].op = "read" /\ Pre[a][pc[a]].on = c
    BY <1>5
  <1> QED  BY <1>2, <1>6, PassesRead

\* Every increment counts until its field is written without the cown.
LEMMA FieldsKept ==
  ASSUME ExecInv, RegInv, HeldUpdatesCount, [Next]_vars
  PROVE  RegInv' /\ HeldUpdatesCount'
  <1>0. /\ field \in [Cowns -> Nat] /\ writes \in [Cowns -> Nat] /\ reg \in [Goroutines -> Nat]
        /\ pc \in [Goroutines -> Nat] /\ Acts \subseteq Goroutines
    BY DEF ExecInv, TypeOK, Goroutines
  <1>1. ASSUME NEW c, ~LooseWritten(c)'
        PROVE  ~LooseWritten(c)
    BY <1>1, NextMoves, LooseStays
  <1>2. ASSUME NEW a \in Acts, NEW c, Ends(a, c)', pc'[a] = pc[a]
        PROVE  Ends(a, c)
    BY <1>2 DEF Ends, HeldWrite, Q!Needs
  <1>3. SUFFICES /\ \A c \in Cowns : ~LooseWritten(c)' => field'[c] = writes'[c]
                 /\ \A a \in Acts, c \in Cowns :
                      Ends(a, c)' /\ ~LooseWritten(c)' => reg'[a] = field'[c]
    BY DEF RegInv, HeldUpdatesCount
  <1>4. ASSUME NEW c \in Cowns, ~LooseWritten(c)'
        PROVE  field'[c] = writes'[c]
    <2>1. field[c] = writes[c]
      BY <1>1, <1>4 DEF HeldUpdatesCount
    <2>2. ASSUME NEW g \in Goroutines, Write(g)
          PROVE  field'[c] = writes'[c]
      <3>1. PICK d : d = On(g)
        OBVIOUS
      <3>2. field' = [field EXCEPT ![d] = reg[g] + 1] /\ writes' = [writes EXCEPT ![d] = @ + 1]
        BY <2>2, <3>1 DEF Write
      <3>3. CASE c = d
        <4>1. g \in Acts /\ Ends(g, c)
          BY <1>4, <2>2, <3>1, <3>3, WriteSeen
        <4>2. reg[g] = field[c]
          BY <1>1, <1>4, <4>1 DEF RegInv
        <4> QED  BY <1>0, <2>1, <3>2, <3>3, <4>2
      <3>4. CASE c # d
        BY <1>0, <2>1, <3>2, <3>4
      <3> QED  BY <3>3, <3>4
    <2>3. CASE UNCHANGED <<field, writes>>
      BY <2>1, <2>3
    <2> QED
      BY <2>2, <2>3 DEF Next, Step, vars, Call, Join, CallHeld, Await, EnterThunk,
         LeaveThunk, PassThunk, Read, Start, Return, Release
  <1>5. ASSUME NEW a \in Acts, NEW c \in Cowns, Ends(a, c)', ~LooseWritten(c)'
        PROVE  reg'[a] = field'[c]
    <2>1. CASE pc'[a] # pc[a]
      BY <1>0, <1>5, <2>1, EndsAfterRead DEF Read
    <2>2. CASE pc'[a] = pc[a]
      <3>1. Ends(a, c) /\ reg[a] = field[c]
        BY <1>1, <1>2, <1>5, <2>2 DEF RegInv
      <3>2. phase[a] = "running" /\ c \in Q!Needs(a)
        BY <3>1, WriterRuns
      <3>3. ASSUME NEW g \in Goroutines, Write(g)
            PROVE  reg'[a] = field'[c]
        <4>1. PICK d : d = On(g)
          OBVIOUS
        <4>2. field' = [field EXCEPT ![d] = reg[g] + 1] /\ reg' = reg
          BY <3>3, <4>1 DEF Write
        <4>3. CASE c = d
          <5>1. g \in Acts /\ Ends(g, c) /\ pc' = [pc EXCEPT ![g] = @ + 1]
            BY <1>5, <3>3, <4>1, <4>3, WriteSeen
          <5>2. phase[g] = "running" /\ c \in Q!Needs(g)
            BY <5>1, WriterRuns
          <5>3. Q!IsFirst(a, c) /\ Q!IsFirst(g, c)
            BY <3>2, <5>1, <5>2 DEF ExecInv, Q!QueueInv, Q!RunningIsFirst
          <5>4. a = g
            BY <5>3 DEF Q!IsFirst
          <5> QED  BY <1>0, <2>2, <5>1, <5>4
        <4>4. CASE c # d
          BY <1>0, <3>1, <4>2, <4>4
        <4> QED  BY <4>3, <4>4
      <3>4. ASSUME NEW g \in Goroutines, Read(g)
            PROVE  reg'[a] = field'[c]
        <4>1. a # g
          <5> SUFFICES ASSUME a = g  PROVE FALSE
            OBVIOUS
          <5>1. stack[g] # <<>>
            BY <1>0, <2>2, <3>4 DEF Read, Advance
          <5>2. Code(g)[pc[g]].op = "force" /\ Code(g) = Pre[a]
            BY <5>1, ExecAssumption DEF ExecInv, StackInv, Code
          <5> QED  BY <3>1, <5>2 DEF Ends
        <4> QED  BY <1>0, <3>1, <3>4, <4>1 DEF Read
      <3>5. CASE UNCHANGED <<field, reg>>
        BY <3>1, <3>5
      <3> QED
        BY <3>3, <3>4, <3>5 DEF Next, Step, vars, Call, Join, CallHeld, Await, EnterThunk,
           LeaveThunk, PassThunk, Start, Return, Release
    <2> QED  BY <2>1, <2>2
  <1> QED  BY <1>4, <1>5

-----------------------------------------------------------------------------
(* The theorems.                                                           *)

\* The inductive invariant holds, whatever the program.
THEOREM ExecInvHolds == Spec => []ExecInv
  BY InitExecInv, NextKeepsExecInv, PTL DEF Spec

\* All variables have their types, and no counter runs past its code.
THEOREM ExecTypeCorrect == Spec => []TypeOK
  <1>1. ExecInv => TypeOK
    BY DEF ExecInv
  <1> QED  BY <1>1, ExecInvHolds, PTL

\* Two calls of one body that need a common cown run in the order of the calls.
THEOREM CallOrderHolds == Spec => []CallOrder
  <1>1. ExecInv => CallOrder
    BY DEF ExecInv, OrderInv, CallOrder, Ordered
  <1> QED  BY <1>1, ExecInvHolds, PTL

\* When a force is over, the closure has returned and everything the activation
\* called is over too: a simple body and the code after the Wait have forced
\* it, the group has awaited the rest.
LEMMA ForcedIsComplete ==
  ASSUME CallsForced, ExecInv
  PROVE  StructuredCompletion
  <1> SUFFICES ASSUME NEW a \in Acts, Forced(a)
               PROVE  /\ phase[a] = "completed"
                      /\ \A k \in DOMAIN Ops(a) : IsCall(Ops(a)[k]) => Forced(Ops(a)[k].on)
    BY DEF StructuredCompletion, ExecInv, StackInv
  <1>0. /\ at \in [Acts -> Nat] /\ group \in [Acts -> Seq(Acts)] /\ ForceParts(a) /\ OpsParts(a)
        /\ pc[a] \in Nat
    BY Types, ForceFacts, OpsPlaces DEF ExecInv, Goroutines
  <1> DEFINE n == Len(ForceCode(a))
  <1>1. /\ n \in Nat /\ n >= Lead(a) /\ DOMAIN ForceCode(a) = 1 .. n /\ at[a] > n
        /\ Lead(a) \in {1, 2}
    BY <1>0 DEF ForceParts, Forced
  <1> HIDE DEF n
  <1>2. \A k \in DOMAIN ForceCode(a) : Effect(ForceCode(a)[k])
    <2>1. \A k \in 1 .. n : k < at[a]
      BY <1>0, <1>1
    <2> QED  BY <1>1, <2>1 DEF ExecInv, DoneInv, DoneBefore
  <1>3. at[a] > Lead(a)
    BY <1>0, <1>1
  <1>4. phase[a] = "completed"
    <2>1. phase[a] # "completed" => at[a] <= Lead(a)
      BY GrowsBeforeAwait
    <2> QED  BY <1>0, <1>1, <1>3, <2>1
  <1>5. ASSUME NEW k \in DOMAIN Ops(a)
        PROVE  Effect(Ops(a)[k])
    <2>1. CASE k \in DOMAIN Pre[a]
      BY <1>0, <1>3, <2>1, AfterAwait DEF OpsParts
    <2>2. CASE k \notin DOMAIN Pre[a]
      <3>1. PICK i \in DOMAIN Post[a] : Ops(a)[k] = Post[a][i]
        BY <1>0, <2>2 DEF OpsParts
      <3>2. Lead(a) + Len(group[a]) + i \in DOMAIN ForceCode(a)
            /\ ForceCode(a)[Lead(a) + Len(group[a]) + i] = Post[a][i]
        BY <1>0, OpsFacts DEF ForceParts, PostAt
      <3> QED  BY <1>2, <3>1, <3>2
    <2> QED  BY <2>1, <2>2
  <1>6. ASSUME NEW k \in DOMAIN Ops(a), IsCall(Ops(a)[k])
        PROVE  Forced(Ops(a)[k].on)
    <2>1. CASE Shape[a] = "simple" \/ k > Len(Pre[a])
      <3>1. PICK l \in DOMAIN Ops(a) : Ops(a)[l] = [op |-> "force", on |-> Ops(a)[k].on]
        BY <1>6, <2>1 DEF CallsForced
      <3>2. Effect(Ops(a)[l])
        BY <1>5
      <3> QED  BY <3>1, <3>2 DEF Effect
    <2>2. CASE ~(Shape[a] = "simple" \/ k > Len(Pre[a]))
      <3>1. k \in DOMAIN Pre[a] /\ Ops(a)[k] = Pre[a][k]
        BY <1>0, <2>2, OpsFacts DEF OpsParts
      <3>2. k < pc[a]
        BY <1>3, <3>1, AfterAwait
      <3>3. PICK j \in DOMAIN group[a] : group[a][j] = Ops(a)[k].on
        BY <1>6, <2>2, <3>1, <3>2 DEF ExecInv, GroupInv
      <3>4. Lead(a) + j \in DOMAIN ForceCode(a)
        <4>1. /\ j \in 1 .. Len(group[a]) /\ Len(group[a]) \in Nat /\ Len(Post[a]) \in Nat
              /\ DOMAIN ForceCode(a) = 1 .. Lead(a) + Len(group[a]) + Len(Post[a])
          BY <1>0 DEF ForceParts
        <4> QED  BY <1>1, <4>1
      <3>5. ForceCode(a)[Lead(a) + j] = [op |-> "force", on |-> group[a][j]]
        <4>1. j \in 1 .. Len(group[a])
          BY <1>0
        <4> QED  BY <1>0, <4>1, Zenon DEF ForceParts
      <3> QED  BY <1>2, <3>3, <3>4, <3>5 DEF Effect
    <2> QED  BY <2>1, <2>2
  <1> QED  BY <1>4, <1>6

\* A boc does not complete until all of its inner bocs have completed, in every
\* program in which what is not in a group is forced.
THEOREM StructuredCompletionHolds ==
  ASSUME CallsForced
  PROVE  Spec => []StructuredCompletion
  BY ForcedIsComplete, ExecInvHolds, PTL

\* Every increment of a field counts until a statement writes the field without
\* its cown, in every program.
THEOREM HeldUpdatesCountHolds == Spec => []HeldUpdatesCount
  <1>1. Init => RegInv /\ HeldUpdatesCount
    BY DEF Init, RegInv, HeldUpdatesCount, Goroutines
  <1>2. ExecInv /\ RegInv /\ HeldUpdatesCount /\ [Next]_vars => RegInv' /\ HeldUpdatesCount'
    BY FieldsKept
  <1> QED  BY <1>1, <1>2, ExecInvHolds, PTL DEF Spec
=============================================================================
