---------------------------- MODULE CownOrderProofs ----------------------------
(***************************************************************************)
(* Proofs about the lines of requests that the cowns keep: they are the    *)
(* first-come queues of BocQueue, and the orders of CownQueue hold, for    *)
(* every set of cowns, behaviours and goroutines and every program.  Every *)
(* step of the cown queue moves the lines in one of four ways; from that   *)
(* follow the refinement and the orders in which behaviours run.           *)
(***************************************************************************)
EXTENDS CownQueue, CownRunProofs

-----------------------------------------------------------------------------
(* The line of a cown.                                                     *)

\* Every set of numbers has a least one.
LEMMA Least ==
  ASSUME NEW T \in SUBSET Nat, T # {}
  PROVE  \E x \in T : \A y \in T : x <= y
  <1>1. PICK x \in T : \A y \in T : ~ (<<y, x>> \in OpToRel(<, Nat))
    BY WFMin, NatLessThanWellFounded, Zenon
  <1>2. x \in T /\ \A y \in T : y \in Nat
    BY <1>1
  <1>3. \A y \in T : ~ (y < x)
    BY <1>1, <1>2 DEF OpToRel
  <1>4. \A y \in T : x <= y
    BY <1>2, <1>3
  <1> QED  BY <1>2, <1>4

\* The places of a line.
LEMMA LinePlaces ==
  ASSUME NEW c, NEW s, IsLine(s, c)
  PROVE  /\ s \in Seq(Requests)
         /\ DOMAIN s = 1 .. Len(s) /\ Len(s) \in Nat
         /\ \A k \in DOMAIN s : /\ s[k] \in Requests /\ Live(s[k]) /\ CownOf(s[k]) = c
                                /\ k = 1 => pre[s[k]] = Nil
                                /\ k # 1 => k - 1 \in DOMAIN s /\ pre[s[k]] = s[k - 1]
         /\ \A i, k \in DOMAIN s : s[i] = s[k] => i = k
         /\ \A r \in Requests : Live(r) /\ CownOf(r) = c => \E k \in DOMAIN s : s[k] = r
  <1>1. s \in Seq(Requests)
    BY DEF IsLine
  <1>2. DOMAIN s = 1 .. Len(s) /\ Len(s) \in Nat /\ \A k \in DOMAIN s : s[k] \in Requests
    BY <1>1
  <1>3. \A k \in DOMAIN s : /\ Live(s[k]) /\ CownOf(s[k]) = c
                            /\ pre[s[k]] = IF k = 1 THEN Nil ELSE s[k - 1]
    BY DEF IsLine
  <1>4. \A k \in DOMAIN s : k # 1 => k - 1 \in DOMAIN s
    BY <1>2
  <1>5. /\ \A i, k \in DOMAIN s : s[i] = s[k] => i = k
        /\ \A r \in Requests : Live(r) /\ CownOf(r) = c => \E k \in DOMAIN s : s[k] = r
    BY DEF IsLine
  <1> QED  BY <1>1, <1>2, <1>3, <1>4, <1>5

\* Behind a place of a line is the next one.
LEMMA BehindInLine ==
  ASSUME CownInv, NEW c, NEW s, IsLine(s, c), NEW k \in DOMAIN s
  PROVE  /\ k < Len(s) => k + 1 \in DOMAIN s /\ Behind(s[k]) = s[k + 1]
         /\ k = Len(s) => Behind(s[k]) = Nil
  <1>1. /\ PreInv /\ TypeOK /\ Nil \notin Requests
        /\ \A q \in Requests : pre[q] \in Requests \cup {Nil}
    BY RequestFacts DEF CownInv, TypeOK
  <1>2. ASSUME NEW q \in Requests, pre[q] = s[k]
        PROVE  k + 1 \in DOMAIN s /\ q = s[k + 1]
    <2>1. s[k] \in Requests /\ CownOf(s[k]) = c /\ s[k] # Nil
      BY <1>1, LinePlaces
    <2>2. Live(q) /\ CownOf(q) = c
      BY <1>1, <1>2, <2>1 DEF PreInv
    <2>3. PICK j \in DOMAIN s : s[j] = q
      BY <2>2, LinePlaces
    <2>4. j # 1 /\ j - 1 \in DOMAIN s /\ s[j - 1] = s[k]
      BY <1>2, <2>1, <2>3, LinePlaces
    <2>5. j - 1 = k
      BY <2>4, LinePlaces
    <2>6. j = k + 1
      BY <2>5, LinePlaces
    <2> QED  BY <2>3, <2>6
  <1>3. CASE k < Len(s)
    <2>1. k + 1 \in DOMAIN s /\ k + 1 # 1 /\ (k + 1) - 1 = k
      BY <1>3, LinePlaces
    <2>2. s[k + 1] \in Requests /\ Live(s[k + 1]) /\ pre[s[k + 1]] = s[k]
      BY <2>1, LinePlaces
    <2>3. \A q \in Requests : Live(q) /\ pre[q] = s[k] => q = s[k + 1]
      BY <1>2
    <2>4. (CHOOSE q \in Requests : Live(q) /\ pre[q] = s[k]) = s[k + 1]
      BY <2>2, <2>3
    <2>5. Behind(s[k]) = s[k + 1]
      BY <2>2, <2>4 DEF Behind
    <2> QED  BY <1>3, <2>1, <2>5
  <1>4. CASE k = Len(s)
    <2>1. k + 1 \notin DOMAIN s
      BY <1>4, LinePlaces
    <2>2. ~ \E q \in Requests : Live(q) /\ pre[q] = s[k]
      BY <1>2, <2>1
    <2> QED  BY <1>4, <2>2 DEF Behind
  <1> QED  BY <1>3, <1>4

\* A sequence from its k-th place on.
From(s, k) == [j \in 1 .. Len(s) - k + 1 |-> s[k + j - 1]]

\* It is the k-th element and the rest from the place behind it.
LEMMA FromFacts ==
  ASSUME NEW S, NEW s \in Seq(S), NEW k \in DOMAIN s
  PROVE  /\ From(s, k) \in Seq(S)
         /\ k < Len(s) => From(s, k) = <<s[k]>> \o From(s, k + 1)
         /\ k = Len(s) => From(s, k) = <<s[k]>>
         /\ k = 1 => From(s, k) = s
  <1>1. DOMAIN s = 1 .. Len(s) /\ Len(s) \in Nat /\ k \in 1 .. Len(s)
        /\ s \in [1 .. Len(s) -> S]
    OBVIOUS
  <1>2. ASSUME NEW i \in 1 .. Len(s) + 1
        PROVE  From(s, i) \in Seq(S) /\ Len(From(s, i)) = Len(s) - i + 1
    <2>1. Len(s) - i + 1 \in Nat /\ \A j \in 1 .. Len(s) - i + 1 : i + j - 1 \in 1 .. Len(s)
      BY <1>1
    <2>2. From(s, i) \in [1 .. Len(s) - i + 1 -> S]
      BY <1>1, <2>1 DEF From
    <2> QED  BY <2>1, <2>2
  <1>3. ASSUME k < Len(s)  PROVE From(s, k) = <<s[k]>> \o From(s, k + 1)
    <2>1. k + 1 \in 1 .. Len(s) + 1
      BY <1>1, <1>3
    <2> DEFINE t == From(s, k + 1)
    <2>2. t \in Seq(S) /\ Len(t) = Len(s) - k
      <3>1. From(s, k + 1) \in Seq(S) /\ Len(From(s, k + 1)) = Len(s) - (k + 1) + 1
        BY <1>2, <2>1
      <3>2. Len(s) - (k + 1) + 1 = Len(s) - k
        BY <1>1
      <3> QED  BY <3>1, <3>2
    <2>3. \A j \in 1 .. Len(s) - k : t[j] = s[k + j]
      BY <1>1, <2>1 DEF From
    <2> HIDE DEF t
    <2>4. /\ <<s[k]>> \o t \in Seq(S) /\ Len(<<s[k]>> \o t) = Len(s) - k + 1
          /\ \A j \in 1 .. Len(s) - k + 1 :
               (<<s[k]>> \o t)[j] = IF j = 1 THEN s[k] ELSE t[j - 1]
      BY <1>1, <2>2
    <2>5. /\ From(s, k) \in Seq(S) /\ Len(From(s, k)) = Len(s) - k + 1
          /\ \A j \in 1 .. Len(s) - k + 1 : From(s, k)[j] = s[k + j - 1]
      BY <1>1, <1>2 DEF From
    <2>6. \A j \in 1 .. Len(s) - k + 1 : From(s, k)[j] = (<<s[k]>> \o t)[j]
      <3> SUFFICES ASSUME NEW j \in 1 .. Len(s) - k + 1
                   PROVE  From(s, k)[j] = (<<s[k]>> \o t)[j]
        OBVIOUS
      <3>1. CASE j = 1
        BY <1>1, <2>4, <2>5, <3>1
      <3>2. CASE j # 1
        <4>1. j - 1 \in 1 .. Len(s) - k /\ k + (j - 1) = k + j - 1
          BY <1>1, <3>2
        <4> QED  BY <2>3, <2>4, <2>5, <3>2, <4>1
      <3> QED  BY <3>1, <3>2
    <2>7. From(s, k) = <<s[k]>> \o t
      BY <2>4, <2>5, <2>6
    <2> QED  BY <2>7 DEF t
  <1>4. ASSUME k = Len(s)  PROVE From(s, k) = <<s[k]>>
    <2>1. /\ From(s, k) \in Seq(S) /\ Len(From(s, k)) = 1 /\ From(s, k)[1] = s[k]
      BY <1>1, <1>2, <1>4 DEF From
    <2> QED  BY <1>1, <2>1
  <1>5. k = 1 => From(s, k) = s
    BY <1>1 DEF From
  <1>6. k \in 1 .. Len(s) + 1
    BY <1>1
  <1> QED  BY <1>2, <1>3, <1>4, <1>5, <1>6

\* The function chain exists: a live request and everybody behind it are the
\* line of its cown from its place on.
LEMMA ChainEquation ==
  ASSUME CownInv, \A c \in Cowns : \E s : IsLine(s, c)
  PROVE  \A r \in Requests :
           chain[r] = <<r>> \o (IF Behind(r) = Nil THEN <<>> ELSE chain[Behind(r)])
  <1> DEFINE F(g) == [r \in Requests |->
                        <<r>> \o (IF Behind(r) = Nil THEN <<>> ELSE g[Behind(r)])]
             L(c) == CHOOSE s : IsLine(s, c)
             Place(r) == CHOOSE k \in DOMAIN L(CownOf(r)) : L(CownOf(r))[k] = r
             f == [r \in Requests |-> IF Live(r) THEN From(L(CownOf(r)), Place(r)) ELSE <<r>>]
  <1>1. \A c \in Cowns : IsLine(L(c), c)
    OBVIOUS
  <1>2. \A r \in Requests : CownOf(r) \in Cowns
    BY RequestFacts
  <1>3. ASSUME NEW c \in Cowns, NEW k \in DOMAIN L(c)
        PROVE  f[L(c)[k]] = From(L(c), k)
    <2> HIDE DEF L
    <2>1. IsLine(L(c), c)
      BY <1>1
    <2>2. /\ L(c)[k] \in Requests /\ Live(L(c)[k]) /\ CownOf(L(c)[k]) = c
          /\ \A i \in DOMAIN L(c) : L(c)[i] = L(c)[k] => i = k
      BY <2>1, LinePlaces
    <2>3. Place(L(c)[k]) = k
      BY <2>2
    <2> QED  BY <2>2, <2>3
  <1>4. ASSUME NEW r \in Requests
        PROVE  f[r] = <<r>> \o (IF Behind(r) = Nil THEN <<>> ELSE f[Behind(r)])
    <2>1. CASE Live(r)
      <3>1. PICK c \in Cowns : c = CownOf(r)
        BY <1>2
      <3> DEFINE s == L(c)
      <3>2. IsLine(s, c)
        BY <1>1
      <3> HIDE DEF L, f, s
      <3>3. PICK k \in DOMAIN s : s[k] = r
        BY <2>1, <3>1, <3>2, LinePlaces
      <3>4. f[r] = From(s, k)
        BY <1>3, <3>3 DEF s
      <3>5. s \in Seq(Requests) /\ k \in 1 .. Len(s) /\ Len(s) \in Nat
        BY <3>2, LinePlaces
      <3>6. CASE k < Len(s)
        <4>1. k + 1 \in DOMAIN s /\ Behind(r) = s[k + 1]
          BY <3>2, <3>3, <3>6, BehindInLine
        <4>2. f[Behind(r)] = From(s, k + 1)
          BY <1>3, <4>1 DEF s
        <4>3. Behind(r) # Nil
          BY <3>5, <4>1, RequestFacts
        <4>4. From(s, k) = <<s[k]>> \o From(s, k + 1)
          BY <3>5, <3>6, FromFacts
        <4> QED  BY <3>3, <3>4, <4>2, <4>3, <4>4
      <3>7. CASE k = Len(s)
        <4>1. Behind(r) = Nil
          BY <3>2, <3>3, <3>7, BehindInLine
        <4>2. From(s, k) = <<s[k]>>
          BY <3>5, <3>7, FromFacts
        <4> QED  BY <3>3, <3>4, <4>1, <4>2
      <3> QED  BY <3>5, <3>6, <3>7
    <2>2. CASE ~Live(r)
      <3>1. \A q \in Requests : ~ (Live(q) /\ pre[q] = r)
        BY <2>2, RequestFacts DEF CownInv, PreInv
      <3>2. Behind(r) = Nil
        BY <3>1 DEF Behind
      <3>3. f[r] = <<r>>
        BY <2>2
      <3>4. <<r>> \o <<>> = <<r>>
        <4>1. <<r>> \in Seq(Requests)
          OBVIOUS
        <4> QED  BY <4>1
      <3> HIDE DEF f
      <3> QED  BY <3>2, <3>3, <3>4
    <2> QED  BY <2>1, <2>2
  <1>5. f = F(f)
    <2>1. f = [r \in Requests |-> f[r]]
      OBVIOUS
    <2> HIDE DEF f
    <2> QED  BY <1>4, <2>1
  <1> HIDE DEF f
  <1>6. chain = CHOOSE g : g = F(g)
    BY DEF chain
  <1>7. chain = F(chain)
    <2>1. \E g : g = F(g)
      BY <1>5
    <2> HIDE DEF F
    <2> QED  BY <1>6, <2>1
  <1> QED  BY <1>7

\* Counting from the end of a sequence of length m.
LEMMA FromTheEnd ==
  ASSUME NEW m \in Nat, NEW n \in Nat, n < m
  PROVE  /\ m - n \in 1 .. m
         /\ m - n = m <=> n = 0
         /\ n # 0 => /\ n - 1 \in Nat /\ n - 1 < m /\ ~ (n <= n - 1)
                     /\ m - (n - 1) = m - n + 1 /\ m - n < m
  OBVIOUS

\* Line(c) is the line of c, whatever sequence shows that there is one.
LEMMA LineIs ==
  CownInv /\ (\A c \in Cowns : \E s : IsLine(s, c)) =>
    \A c \in Cowns : \A s : IsLine(s, c) => Line(c) = s
  <1> SUFFICES ASSUME CownInv, \A c \in Cowns : \E s : IsLine(s, c),
                      NEW c \in Cowns, NEW s, IsLine(s, c)
               PROVE  Line(c) = s
    OBVIOUS
  <1>1. s \in Seq(Requests) /\ DOMAIN s = 1 .. Len(s) /\ Len(s) \in Nat
    BY LinePlaces
  <1>2. ASSUME NEW k \in DOMAIN s  PROVE chain[s[k]] = From(s, k)
    <2> DEFINE T == {n \in Nat : n < Len(s) /\ chain[s[Len(s) - n]] # From(s, Len(s) - n)}
    <2>1. SUFFICES T = {}
      <3>1. Len(s) - k \in Nat /\ Len(s) - k < Len(s) /\ Len(s) - (Len(s) - k) = k
        BY <1>1
      <3> QED  BY <2>1, <3>1
    <2>2. SUFFICES ASSUME T # {}  PROVE FALSE
      OBVIOUS
    <2>3. PICK n \in T : \A m \in T : n <= m
      <3>1. T \in SUBSET Nat
        OBVIOUS
      <3> HIDE DEF T
      <3> QED  BY <2>2, <3>1, Least
    <2> DEFINE i == Len(s) - n
    <2>4. /\ n \in Nat /\ n < Len(s) /\ i \in DOMAIN s /\ chain[s[i]] # From(s, i)
          /\ i = Len(s) <=> n = 0
      <3>1. n \in Nat /\ n < Len(s) /\ chain[s[i]] # From(s, i)
        BY <2>3
      <3>2. i \in 1 .. Len(s) /\ (i = Len(s) <=> n = 0)
        BY <1>1, <3>1, FromTheEnd
      <3> QED  BY <1>1, <3>1, <3>2
    <2>5. s[i] \in Requests /\ Nil \notin Requests
      BY <2>4, LinePlaces, RequestFacts
    <2>6. chain[s[i]] = <<s[i]>> \o (IF Behind(s[i]) = Nil THEN <<>>
                                                          ELSE chain[Behind(s[i])])
      BY <2>5, ChainEquation
    <2>7. CASE n = 0
      <3>1. i = Len(s) /\ Behind(s[i]) = Nil
        BY <2>4, <2>7, BehindInLine
      <3>2. <<s[i]>> \o <<>> = <<s[i]>>
        <4>1. <<s[i]>> \in Seq(Requests)
          BY <2>5
        <4> QED  BY <4>1
      <3>3. From(s, i) = <<s[i]>>
        BY <1>1, <2>4, <3>1, FromFacts
      <3> QED  BY <2>4, <2>6, <3>1, <3>2, <3>3
    <2>8. CASE n # 0
      <3>1. n - 1 \in Nat /\ n - 1 < Len(s) /\ ~ (n <= n - 1) /\ Len(s) - (n - 1) = i + 1
        BY <1>1, <2>4, <2>8, FromTheEnd
      <3>2. chain[s[i + 1]] = From(s, i + 1)
        <4>1. n - 1 \notin T
          BY <2>3, <3>1
        <4> QED  BY <3>1, <4>1
      <3>3. i < Len(s)
        BY <1>1, <2>4, <2>8, FromTheEnd
      <3>4. Behind(s[i]) = s[i + 1] /\ s[i + 1] \in Requests
        BY <2>4, <3>3, BehindInLine, LinePlaces
      <3>5. From(s, i) = <<s[i]>> \o From(s, i + 1)
        BY <1>1, <2>4, <3>3, FromFacts
      <3> QED  BY <2>4, <2>5, <2>6, <3>2, <3>4, <3>5
    <2> QED  BY <2>7, <2>8
  <1>3. CASE s = <<>>
    <2>1. ~ \E r \in Requests : IsHead(r, c)
      BY <1>3, LinePlaces DEF IsHead
    <2> QED  BY <1>3, <2>1 DEF Line
  <1>4. CASE s # <<>>
    <2>1. 1 \in DOMAIN s /\ s[1] \in Requests
      BY <1>1, <1>4
    <2>2. IsHead(s[1], c)
      BY <2>1, LinePlaces DEF IsHead
    <2>3. \A r \in Requests : IsHead(r, c) => r = s[1]
      BY <2>1, <2>2 DEF IsHead, CownInv, UniqueHead
    <2>4. (CHOOSE r \in Requests : IsHead(r, c)) = s[1]
      BY <2>1, <2>2, <2>3
    <2>5. Line(c) = chain[s[1]]
      BY <2>1, <2>2, <2>4 DEF Line
    <2>6. chain[s[1]] = From(s, 1) /\ From(s, 1) = s
      BY <1>1, <1>2, <2>1, FromFacts
    <2> QED  BY <2>5, <2>6
  <1> QED  BY <1>3, <1>4

-----------------------------------------------------------------------------
(* The four ways a step changes the lines.                                 *)

\* Nobody joins or leaves.
Stays ==
  /\ UNCHANGED pre
  /\ \A q \in Requests : Queued(q)' = Queued(q) /\ Released(q)' = Released(q)

\* r joins behind the tail.
Appends(r) ==
  /\ r \in Requests /\ ~Queued(r) /\ Live(r)'
  /\ pre'[r] = last[CownOf(r)]
  /\ \A q \in Requests \ {r} :
       Queued(q)' = Queued(q) /\ Released(q)' = Released(q) /\ pre'[q] = pre[q]

\* r joins directly behind p, the head.
Inserts(p, r) ==
  /\ p \in Requests /\ Live(p) /\ pre[p] = Nil /\ CownOf(p) = CownOf(r)
  /\ r \in Requests /\ ~Queued(r) /\ Live(r)'
  /\ pre'[r] = p
  /\ \A q \in Requests \ {r} :
       /\ Queued(q)' = Queued(q) /\ Released(q)' = Released(q)
       /\ pre'[q] = IF pre[q] = p THEN r ELSE pre[q]

\* r, the head, leaves.
Releases(r) ==
  /\ r \in Requests /\ Live(r) /\ pre[r] = Nil /\ Released(r)' /\ pre'[r] = Nil
  /\ \A q \in Requests : Queued(q)' = Queued(q)
  /\ \A q \in Requests \ {r} :
       Released(q)' = Released(q) /\ pre'[q] = IF pre[q] = r THEN Nil ELSE pre[q]

\* A line of which no request changes is a line after the step.
LEMMA LineKept ==
  ASSUME NEW c, NEW s, IsLine(s, c),
         \A q \in Requests : CownOf(q) = c => Live(q)' = Live(q) /\ pre'[q] = pre[q]
  PROVE  IsLine(s, c)'
  <1>1. \A k \in DOMAIN s : s[k] \in Requests /\ CownOf(s[k]) = c
    BY LinePlaces
  <1>2. \A k \in DOMAIN s : Live(s[k])' /\ pre'[s[k]] = IF k = 1 THEN Nil ELSE s[k - 1]
    <2> SUFFICES ASSUME NEW k \in DOMAIN s
                 PROVE  Live(s[k])' /\ pre'[s[k]] = IF k = 1 THEN Nil ELSE s[k - 1]
      OBVIOUS
    <2>1. PICK q \in Requests : q = s[k]
      BY <1>1
    <2>2. Live(q) /\ pre[q] = IF k = 1 THEN Nil ELSE s[k - 1]
      BY <2>1 DEF IsLine
    <2>3. Live(q)' /\ pre'[q] = pre[q]
      BY <1>1, <2>1, <2>2
    <2> QED  BY <2>1, <2>2, <2>3
  <1>3. \A r \in Requests : Live(r)' /\ CownOf(r) = c => \E k \in DOMAIN s : s[k] = r
    BY LinePlaces
  <1> QED  BY <1>1, <1>2, <1>3 DEF IsLine

\* After a request has joined behind the tail, the line has it at its end.
LEMMA LineAppended ==
  ASSUME CownInv, NEW r, NEW s, Appends(r), IsLine(s, CownOf(r))
  PROVE  IsLine(Append(s, r), CownOf(r))'
  <1> DEFINE c == CownOf(r)
             t == Append(s, r)
             n == Len(s)
  <1>1. /\ r \in Requests /\ c \in Cowns /\ ~Live(r) /\ Live(r)' /\ Nil \notin Requests
        /\ pre'[r] = last[c]
        /\ \A q \in Requests \ {r} : Live(q)' = Live(q) /\ pre'[q] = pre[q]
    BY RequestFacts DEF Appends, Live
  <1>2. /\ s \in Seq(Requests) /\ DOMAIN s = 1 .. n /\ n \in Nat
        /\ \A k \in 1 .. n : /\ s[k] \in Requests \ {r} /\ Live(s[k]) /\ CownOf(s[k]) = c
                             /\ k = 1 => pre[s[k]] = Nil
                             /\ k # 1 => pre[s[k]] = s[k - 1]
        /\ \A i, k \in 1 .. n : s[i] = s[k] => i = k
        /\ \A q \in Requests : Live(q) /\ CownOf(q) = c => \E k \in 1 .. n : s[k] = q
    BY <1>1, LinePlaces
  <1>3. /\ t \in Seq(Requests) /\ Len(t) = n + 1 /\ DOMAIN t = 1 .. n + 1
        /\ \A k \in 1 .. n + 1 : t[k] = IF k = n + 1 THEN r ELSE s[k]
    BY <1>1, <1>2
  <1> HIDE DEF t, n
  <1>4. last[c] = IF n = 0 THEN Nil ELSE s[n]
    <2>1. /\ last[c] = Nil => \A q \in Requests : Live(q) => CownOf(q) # c
          /\ last[c] # Nil => /\ last[c] \in Requests /\ CownOf(last[c]) = c /\ Live(last[c])
                              /\ \A q \in Requests : pre[q] # last[c]
      BY <1>1 DEF CownInv, TailInv, TypeOK
    <2>2. CASE last[c] = Nil
      <3>1. n = 0
        BY <1>1, <1>2, <2>1, <2>2
      <3> QED  BY <2>2, <3>1
    <2>3. CASE last[c] # Nil
      <3>1. PICK k \in 1 .. n : s[k] = last[c]
        BY <1>2, <2>1, <2>3
      <3>2. CASE k = n
        BY <1>2, <3>1, <3>2
      <3>3. CASE k # n
        <4>1. k + 1 \in 1 .. n /\ k + 1 # 1 /\ (k + 1) - 1 = k
          BY <1>2, <3>3
        <4>2. pre[s[k + 1]] = last[c] /\ s[k + 1] \in Requests
          BY <1>2, <3>1, <4>1
        <4> QED  BY <2>1, <2>3, <4>2
      <3> QED  BY <3>2, <3>3
    <2> QED  BY <2>2, <2>3
  <1>5. \A k \in 1 .. n + 1 : /\ Live(t[k])' /\ CownOf(t[k]) = c
                              /\ pre'[t[k]] = IF k = 1 THEN Nil ELSE t[k - 1]
    <2> SUFFICES ASSUME NEW k \in 1 .. n + 1
                 PROVE  /\ Live(t[k])' /\ CownOf(t[k]) = c
                        /\ pre'[t[k]] = IF k = 1 THEN Nil ELSE t[k - 1]
      OBVIOUS
    <2>1. CASE k = n + 1
      <3>1. t[k] = r /\ (k # 1 => t[k - 1] = s[n]) /\ (k = 1 <=> n = 0)
        BY <1>2, <1>3, <2>1
      <3> QED  BY <1>1, <1>4, <3>1
    <2>2. CASE k # n + 1
      <3>1. k \in 1 .. n /\ t[k] = s[k] /\ (k # 1 => k - 1 \in 1 .. n /\ t[k - 1] = s[k - 1])
        BY <1>2, <1>3, <2>2
      <3>2. PICK q \in Requests \ {r} : q = s[k]
        BY <1>2, <3>1
      <3>3. Live(q)' /\ CownOf(q) = c /\ pre'[q] = IF k = 1 THEN Nil ELSE s[k - 1]
        BY <1>1, <1>2, <3>1, <3>2
      <3> QED  BY <3>1, <3>2, <3>3
    <2> QED  BY <2>1, <2>2
  <1>6. \A q \in Requests : Live(q)' /\ CownOf(q) = c => \E k \in 1 .. n + 1 : t[k] = q
    <2> SUFFICES ASSUME NEW q \in Requests, Live(q)', CownOf(q) = c
                 PROVE  \E k \in 1 .. n + 1 : t[k] = q
      OBVIOUS
    <2>1. CASE q = r
      BY <1>2, <1>3, <2>1
    <2>2. CASE q # r
      <3>1. PICK k \in 1 .. n : s[k] = q
        BY <1>1, <1>2, <2>2
      <3>2. k \in 1 .. n + 1 /\ k # n + 1
        BY <1>2
      <3> QED  BY <1>3, <3>1, <3>2
    <2> QED  BY <2>1, <2>2
  <1>7. \A i, k \in 1 .. n + 1 : t[i] = t[k] => i = k
    <2>1. \A k \in 1 .. n + 1 : k = n + 1 \/ k \in 1 .. n
      BY <1>2
    <2> QED  BY <1>2, <1>3, <2>1
  <1> QED  BY <1>3, <1>5, <1>6, <1>7 DEF IsLine, t, c

\* After a request has joined behind the head, the line has it second.
LEMMA LineInserted ==
  ASSUME CownInv, NEW p, NEW r, NEW s, Inserts(p, r), IsLine(s, CownOf(r))
  PROVE  /\ s # <<>> /\ s[1] = p
         /\ IsLine(<<p, r>> \o Tail(s), CownOf(r))'
  <1> DEFINE c == CownOf(r)
             n == Len(s)
             t == <<p, r>> \o Tail(s)
  <1>1. /\ r \in Requests /\ p \in Requests /\ r # p /\ Nil \notin Requests
        /\ Live(p) /\ pre[p] = Nil /\ CownOf(p) = c /\ ~Live(r)
        /\ Live(r)' /\ pre'[r] = p
        /\ \A q \in Requests \ {r} :
             Live(q)' = Live(q) /\ pre'[q] = IF pre[q] = p THEN r ELSE pre[q]
    BY RequestFacts DEF Inserts, Live
  <1>2. /\ s \in Seq(Requests) /\ DOMAIN s = 1 .. n /\ n \in Nat
        /\ \A k \in 1 .. n : /\ s[k] \in Requests \ {r} /\ Live(s[k]) /\ CownOf(s[k]) = c
                             /\ k = 1 => pre[s[k]] = Nil
                             /\ k # 1 => k - 1 \in 1 .. n /\ pre[s[k]] = s[k - 1]
        /\ \A i, k \in 1 .. n : s[i] = s[k] => i = k
        /\ \A q \in Requests : Live(q) /\ CownOf(q) = c => \E k \in 1 .. n : s[k] = q
    BY <1>1, LinePlaces
  <1>3. 1 \in 1 .. n /\ s[1] = p
    <2>1. PICK k \in 1 .. n : s[k] = p
      BY <1>1, <1>2
    <2>2. k = 1
      <3>1. k # 1 => pre[p] \in Requests
        BY <1>2, <2>1
      <3> QED  BY <1>1, <3>1
    <2> QED  BY <2>1, <2>2
  <1>4. /\ t \in Seq(Requests) /\ Len(t) = n + 1 /\ DOMAIN t = 1 .. n + 1 /\ s # <<>>
        /\ \A k \in 1 .. n + 1 :
             t[k] = IF k = 1 THEN p ELSE IF k = 2 THEN r ELSE s[k - 1]
    <2> DEFINE u == Tail(s)
    <2>1. s # <<>> /\ n >= 1
      BY <1>2, <1>3
    <2>2. u \in Seq(Requests) /\ Len(u) = n - 1 /\ \A k \in 1 .. n - 1 : u[k] = s[k + 1]
      BY <1>2, <2>1
    <2> HIDE DEF u, n
    <2>3. <<p, r>> \in Seq(Requests) /\ Len(<<p, r>>) = 2
      BY <1>1
    <2>4. /\ <<p, r>> \o u \in Seq(Requests) /\ Len(<<p, r>> \o u) = 2 + (n - 1)
          /\ \A k \in 1 .. 2 + (n - 1) :
               (<<p, r>> \o u)[k] = IF k <= 2 THEN <<p, r>>[k] ELSE u[k - 2]
      BY <1>2, <2>2, <2>3
    <2>5. n + 1 = 2 + (n - 1) /\ \A k \in 1 .. n + 1 : k > 2 => /\ k - 2 \in 1 .. n - 1
                                                              /\ k - 2 + 1 = k - 1
      BY <1>2
    <2>6. \A k \in 1 .. n + 1 :
            (<<p, r>> \o u)[k] = IF k = 1 THEN p ELSE IF k = 2 THEN r ELSE s[k - 1]
      <3> SUFFICES ASSUME NEW k \in 1 .. n + 1
                   PROVE  (<<p, r>> \o u)[k] = IF k = 1 THEN p ELSE IF k = 2 THEN r ELSE s[k - 1]
        OBVIOUS
      <3>1. CASE k = 1 \/ k = 2
        BY <2>4, <2>5, <3>1
      <3>2. CASE k > 2
        <4>1. k # 1 /\ k # 2 /\ ~ (k <= 2)
          BY <1>2, <3>2
        <4>2. (<<p, r>> \o u)[k] = u[k - 2] /\ u[k - 2] = s[k - 1]
          BY <2>2, <2>4, <2>5, <3>2, <4>1
        <4> QED  BY <4>1, <4>2
      <3>3. k = 1 \/ k = 2 \/ k > 2
        BY <1>2
      <3> QED  BY <3>1, <3>2, <3>3
    <2> QED  BY <1>2, <2>1, <2>4, <2>5, <2>6 DEF u
  <1> HIDE DEF t, n
  <1>5. \A k \in 1 .. n + 1 : /\ Live(t[k])' /\ CownOf(t[k]) = c
                              /\ pre'[t[k]] = IF k = 1 THEN Nil ELSE t[k - 1]
    <2> SUFFICES ASSUME NEW k \in 1 .. n + 1
                 PROVE  /\ Live(t[k])' /\ CownOf(t[k]) = c
                        /\ pre'[t[k]] = IF k = 1 THEN Nil ELSE t[k - 1]
      OBVIOUS
    <2>1. CASE k = 1
      <3>1. t[k] = p /\ pre'[p] = Nil /\ Live(p)'
        BY <1>1, <1>4, <2>1
      <3> QED  BY <1>1, <2>1, <3>1
    <2>2. CASE k = 2
      <3>1. t[k] = r /\ t[k - 1] = p
        BY <1>2, <1>4, <2>2
      <3> QED  BY <1>1, <2>2, <3>1
    <2>3. CASE k > 2
      <3>1. /\ k - 1 \in 1 .. n /\ k - 1 # 1 /\ k - 2 \in 1 .. n /\ (k - 1) - 1 = k - 2
            /\ k - 1 \in 1 .. n + 1 /\ (k - 2 = 1 <=> k = 3) /\ (k - 1 = 2 <=> k = 3)
        BY <1>2, <2>3
      <3>2. PICK q \in Requests \ {r} : q = s[k - 1]
        BY <1>2, <3>1
      <3>3. PICK b \in Requests \ {r} : b = s[k - 2]
        BY <1>2, <3>1
      <3>4. Live(q)' /\ CownOf(q) = c /\ pre[q] = b /\ (b = p <=> k = 3)
        BY <1>1, <1>2, <1>3, <3>1, <3>2, <3>3
      <3>5. pre'[q] = IF k = 3 THEN r ELSE b
        BY <1>1, <3>4
      <3>6. t[k] = q /\ t[k - 1] = IF k = 3 THEN r ELSE b
        BY <1>4, <2>3, <3>1, <3>2, <3>3
      <3> QED  BY <2>3, <3>4, <3>5, <3>6
    <2> QED  BY <1>2, <2>1, <2>2, <2>3
  <1>6. \A q \in Requests : Live(q)' /\ CownOf(q) = c => \E k \in 1 .. n + 1 : t[k] = q
    <2> SUFFICES ASSUME NEW q \in Requests, Live(q)', CownOf(q) = c
                 PROVE  \E k \in 1 .. n + 1 : t[k] = q
      OBVIOUS
    <2>1. CASE q = r
      <3>1. 2 \in 1 .. n + 1
        BY <1>2, <1>3
      <3> QED  BY <1>4, <2>1, <3>1
    <2>2. CASE q # r
      <3>1. PICK k \in 1 .. n : s[k] = q
        BY <1>1, <1>2, <2>2
      <3>2. CASE k = 1
        <4>1. t[1] = q /\ 1 \in 1 .. n + 1
          BY <1>2, <1>3, <1>4, <3>1, <3>2
        <4> QED  BY <4>1
      <3>3. CASE k # 1
        <4>1. k + 1 \in 1 .. n + 1 /\ k + 1 # 1 /\ k + 1 # 2 /\ (k + 1) - 1 = k
          BY <1>2, <3>3
        <4>2. t[k + 1] = q
          BY <1>4, <3>1, <4>1
        <4> QED  BY <4>1, <4>2
      <3> QED  BY <3>2, <3>3
    <2> QED  BY <2>1, <2>2
  <1>7. \A i, k \in 1 .. n + 1 : t[i] = t[k] => i = k
    <2>1. \A k \in 1 .. n + 1 : k = 1 \/ k = 2 \/ (k - 1 \in 1 .. n /\ k - 1 # 1)
      BY <1>2
    <2>2. \A k \in 1 .. n + 1 : t[k] = p => k = 1
      BY <1>1, <1>2, <1>3, <1>4, <2>1
    <2>3. \A k \in 1 .. n + 1 : t[k] = r => k = 2
      BY <1>1, <1>2, <1>3, <1>4, <2>1
    <2>4. ASSUME NEW i \in 1 .. n + 1, NEW k \in 1 .. n + 1, t[i] = t[k]
          PROVE  i = k
      <3>1. CASE i \in {1, 2} \/ k \in {1, 2}
        BY <1>4, <2>2, <2>3, <2>4, <3>1
      <3>2. CASE ~ (i \in {1, 2} \/ k \in {1, 2})
        <4>1. i - 1 \in 1 .. n /\ k - 1 \in 1 .. n /\ s[i - 1] = s[k - 1]
          BY <1>4, <2>1, <2>4, <3>2
        <4>2. i - 1 = k - 1
          BY <1>2, <4>1
        <4> QED  BY <4>2
      <3> QED  BY <3>1, <3>2
    <2> QED  BY <2>4
  <1> QED  BY <1>2, <1>3, <1>4, <1>5, <1>6, <1>7 DEF IsLine, t, c

\* After the head has left, the line is the rest.
LEMMA LineReleased ==
  ASSUME CownInv, NEW r, NEW s, Releases(r), IsLine(s, CownOf(r))
  PROVE  /\ s # <<>> /\ s[1] = r
         /\ IsLine(Tail(s), CownOf(r))'
  <1> DEFINE c == CownOf(r)
             n == Len(s)
             t == Tail(s)
  <1>1. /\ r \in Requests /\ Nil \notin Requests /\ Live(r) /\ pre[r] = Nil /\ ~Live(r)'
        /\ \A q \in Requests \ {r} :
             Live(q)' = Live(q) /\ pre'[q] = IF pre[q] = r THEN Nil ELSE pre[q]
    BY RequestFacts DEF Releases, Live
  <1>2. /\ s \in Seq(Requests) /\ DOMAIN s = 1 .. n /\ n \in Nat
        /\ \A k \in 1 .. n : /\ s[k] \in Requests /\ Live(s[k]) /\ CownOf(s[k]) = c
                             /\ k = 1 => pre[s[k]] = Nil
                             /\ k # 1 => k - 1 \in 1 .. n /\ pre[s[k]] = s[k - 1]
        /\ \A i, k \in 1 .. n : s[i] = s[k] => i = k
        /\ \A q \in Requests : Live(q) /\ CownOf(q) = c => \E k \in 1 .. n : s[k] = q
    BY <1>1, LinePlaces
  <1>3. 1 \in 1 .. n /\ s[1] = r
    <2>1. PICK k \in 1 .. n : s[k] = r
      BY <1>1, <1>2
    <2>2. k = 1
      <3>1. k # 1 => pre[r] \in Requests
        BY <1>2, <2>1
      <3> QED  BY <1>1, <3>1
    <2> QED  BY <2>1, <2>2
  <1>4. /\ t \in Seq(Requests) /\ Len(t) = n - 1 /\ DOMAIN t = 1 .. n - 1 /\ s # <<>>
        /\ \A k \in 1 .. n - 1 : t[k] = s[k + 1]
    <2>1. s # <<>> /\ n >= 1
      BY <1>2, <1>3
    <2> QED  BY <1>2, <2>1
  <1> HIDE DEF t, n
  <1>5. ASSUME NEW k \in 1 .. n - 1
        PROVE  /\ Live(t[k])' /\ CownOf(t[k]) = c
               /\ pre'[t[k]] = IF k = 1 THEN Nil ELSE t[k - 1]
    <2>1. /\ k + 1 \in 1 .. n /\ k + 1 # 1 /\ (k + 1) - 1 = k /\ k \in 1 .. n
          /\ k # 1 => k - 1 \in 1 .. n - 1 /\ (k - 1) + 1 = k
      BY <1>2
    <2>2. PICK q \in Requests : q = s[k + 1]
      BY <1>2, <2>1
    <2>3. PICK b \in Requests : b = s[k]
      BY <1>2, <2>1
    <2>4. q # r /\ Live(q) /\ CownOf(q) = c /\ pre[q] = b /\ (b = r <=> k = 1)
      BY <1>2, <1>3, <2>1, <2>2, <2>3
    <2>5. Live(q)' /\ pre'[q] = IF k = 1 THEN Nil ELSE b
      BY <1>1, <2>4
    <2>6. t[k] = q /\ (k # 1 => t[k - 1] = b)
      BY <1>4, <2>1, <2>2, <2>3
    <2> QED  BY <2>4, <2>5, <2>6
  <1>6. ASSUME NEW q \in Requests, Live(q)', CownOf(q) = c
        PROVE  \E k \in 1 .. n - 1 : t[k] = q
    <2>1. q # r
      BY <1>1, <1>6
    <2>2. PICK k \in 1 .. n : s[k] = q
      BY <1>1, <1>2, <1>6, <2>1
    <2>3. k # 1
      BY <1>3, <2>1, <2>2
    <2>4. k - 1 \in 1 .. n - 1 /\ (k - 1) + 1 = k
      BY <1>2, <2>3
    <2> QED  BY <1>4, <2>2, <2>4
  <1>7. ASSUME NEW i \in 1 .. n - 1, NEW k \in 1 .. n - 1, t[i] = t[k]
        PROVE  i = k
    <2>1. i + 1 \in 1 .. n /\ k + 1 \in 1 .. n
      BY <1>2
    <2>2. i + 1 = k + 1
      BY <1>2, <1>4, <1>7, <2>1
    <2> QED  BY <1>2, <2>2
  <1> QED  BY <1>3, <1>4, <1>5, <1>6, <1>7 DEF IsLine, t, c

\* The line after a step is the one that IsLine determines.
LEMMA LineIsNext ==
  (CownInv /\ (\A c \in Cowns : \E s : IsLine(s, c)) =>
     \A c \in Cowns : \A s : IsLine(s, c) => Line(c) = s)'
  BY LineIs, PTL

\* Sequences that are the lines after a step are what Line gives then.
LEMMA NewLines ==
  ASSUME CownInv', NEW M, \A c \in Cowns : IsLine(M[c], c)'
  PROVE  LinesExist' /\ \A c \in Cowns : Line(c)' = M[c]
  <1>1. \A c \in Cowns : \E s : IsLine(s, c)'
    OBVIOUS
  <1>2. \A c \in Cowns : \A s : IsLine(s, c)' => Line(c)' = s
    BY <1>1, LineIsNext
  <1>3. ASSUME NEW c \in Cowns
        PROVE  Line(c)' = M[c] /\ IsLine(Line(c), c)'
    <2>1. PICK s : s = M[c]
      OBVIOUS
    <2>2. IsLine(s, c)'
      BY <2>1
    <2>3. Line(c)' = s
      BY <1>2, <2>2
    <2>4. IsLine(Line(c), c)'
      BY <2>2, <2>3 DEF IsLine
    <2> QED  BY <2>1, <2>3, <2>4
  <1> QED  BY <1>3 DEF LinesExist

\* How the lines move.
LEMMA LinesStay ==
  ASSUME CownInv, LinesExist, CownInv', Stays
  PROVE  LinesExist' /\ \A c \in Cowns : Line(c)' = Line(c)
  <1>1. PICK L : L = [c \in Cowns |-> Line(c)]
    OBVIOUS
  <1>2. \A c \in Cowns : IsLine(L[c], c)'
    <2>1. \A q \in Requests : Live(q)' = Live(q) /\ pre'[q] = pre[q]
      BY DEF Stays, Live
    <2>2. \A c \in Cowns : IsLine(L[c], c)
      BY <1>1 DEF LinesExist
    <2> QED  BY <2>1, <2>2, LineKept
  <1> QED  BY <1>1, <1>2, NewLines

\* The lines after a request has joined behind the tail of one,
LEMMA LineAppends ==
  ASSUME CownInv, LinesExist, CownInv', NEW r, Appends(r)
  PROVE  /\ LinesExist' /\ CownOf(r) \in Cowns
         /\ Line(CownOf(r))' = Append(Line(CownOf(r)), r)
         /\ \A c \in Cowns \ {CownOf(r)} : Line(c)' = Line(c)
  <1>1. PICK L : L = [c \in Cowns |-> Line(c)]
    OBVIOUS
  <1>2. PICK M : M = [L EXCEPT ![CownOf(r)] = Append(L[CownOf(r)], r)]
    OBVIOUS
  <1>3. CownOf(r) \in Cowns
    BY RequestFacts DEF Appends
  <1>4. /\ M[CownOf(r)] = Append(L[CownOf(r)], r)
        /\ \A c \in Cowns \ {CownOf(r)} : M[c] = L[c]
    BY <1>1, <1>2, <1>3
  <1>5. \A c \in Cowns : IsLine(L[c], c)
    BY <1>1 DEF LinesExist
  <1>6. IsLine(M[CownOf(r)], CownOf(r))'
    BY <1>3, <1>4, <1>5, LineAppended
  <1>7. ASSUME NEW c \in Cowns \ {CownOf(r)}
        PROVE  IsLine(M[c], c)'
    <2>1. \A q \in Requests : CownOf(q) = c => Live(q)' = Live(q) /\ pre'[q] = pre[q]
      BY DEF Appends, Live
    <2> QED  BY <1>4, <1>5, <2>1, LineKept
  <1>8. \A c \in Cowns : IsLine(M[c], c)'
    BY <1>6, <1>7
  <1> QED  BY <1>1, <1>3, <1>4, <1>8, NewLines

\* ... behind the head of one,
LEMMA LineInserts ==
  ASSUME CownInv, LinesExist, CownInv', NEW p, NEW r, Inserts(p, r)
  PROVE  /\ LinesExist' /\ CownOf(r) \in Cowns
         /\ Line(CownOf(r)) # <<>> /\ Line(CownOf(r))[1] = p
         /\ Line(CownOf(r))' = <<p, r>> \o Tail(Line(CownOf(r)))
         /\ \A c \in Cowns \ {CownOf(r)} : Line(c)' = Line(c)
  <1>1. PICK L : L = [c \in Cowns |-> Line(c)]
    OBVIOUS
  <1>2. PICK M : M = [L EXCEPT ![CownOf(r)] = <<p, r>> \o Tail(L[CownOf(r)])]
    OBVIOUS
  <1>3. CownOf(r) \in Cowns
    BY RequestFacts DEF Inserts
  <1>4. /\ M[CownOf(r)] = <<p, r>> \o Tail(L[CownOf(r)])
        /\ \A c \in Cowns \ {CownOf(r)} : M[c] = L[c]
    BY <1>1, <1>2, <1>3
  <1>5. \A c \in Cowns : IsLine(L[c], c)
    BY <1>1 DEF LinesExist
  <1>6. L[CownOf(r)] # <<>> /\ L[CownOf(r)][1] = p /\ IsLine(M[CownOf(r)], CownOf(r))'
    BY <1>3, <1>4, <1>5, LineInserted
  <1>7. ASSUME NEW c \in Cowns \ {CownOf(r)}
        PROVE  IsLine(M[c], c)'
    <2>1. ASSUME NEW q \in Requests, CownOf(q) = c
          PROVE  Live(q)' = Live(q) /\ pre'[q] = pre[q]
      <3>1. q # r /\ pre[q] # p
        BY <2>1, RequestFacts DEF Inserts, CownInv, PreInv
      <3> QED  BY <3>1 DEF Inserts, Live
    <2> QED  BY <1>4, <1>5, <2>1, LineKept
  <1>8. \A c \in Cowns : IsLine(M[c], c)'
    BY <1>6, <1>7
  <1> QED  BY <1>1, <1>3, <1>4, <1>6, <1>8, NewLines

\* ... and after the head of one has left.
LEMMA LineReleases ==
  ASSUME CownInv, LinesExist, CownInv', NEW r, Releases(r)
  PROVE  /\ LinesExist' /\ CownOf(r) \in Cowns
         /\ Line(CownOf(r)) # <<>> /\ Line(CownOf(r))[1] = r
         /\ Line(CownOf(r))' = Tail(Line(CownOf(r)))
         /\ \A c \in Cowns \ {CownOf(r)} : Line(c)' = Line(c)
  <1>1. PICK L : L = [c \in Cowns |-> Line(c)]
    OBVIOUS
  <1>2. PICK M : M = [L EXCEPT ![CownOf(r)] = Tail(L[CownOf(r)])]
    OBVIOUS
  <1>3. CownOf(r) \in Cowns
    BY RequestFacts DEF Releases
  <1>4. /\ M[CownOf(r)] = Tail(L[CownOf(r)])
        /\ \A c \in Cowns \ {CownOf(r)} : M[c] = L[c]
    BY <1>1, <1>2, <1>3
  <1>5. \A c \in Cowns : IsLine(L[c], c)
    BY <1>1 DEF LinesExist
  <1>6. L[CownOf(r)] # <<>> /\ L[CownOf(r)][1] = r /\ IsLine(M[CownOf(r)], CownOf(r))'
    BY <1>3, <1>4, <1>5, LineReleased
  <1>7. ASSUME NEW c \in Cowns \ {CownOf(r)}
        PROVE  IsLine(M[c], c)'
    <2>1. ASSUME NEW q \in Requests, CownOf(q) = c
          PROVE  Live(q)' = Live(q) /\ pre'[q] = pre[q]
      <3>1. q # r /\ pre[q] # r
        BY <2>1, RequestFacts DEF Releases, CownInv, PreInv
      <3> QED  BY <3>1 DEF Releases, Live
    <2> QED  BY <1>4, <1>5, <2>1, LineKept
  <1>8. \A c \in Cowns : IsLine(M[c], c)'
    BY <1>6, <1>7
  <1> QED  BY <1>1, <1>3, <1>4, <1>6, <1>8, NewLines

-----------------------------------------------------------------------------
(* What a step does besides moving the lines.                              *)

\* b starts or not, the others stand where they stood.
RunsKept(T) ==
  \A w \in T : /\ runIdx'[w] = runIdx[w]
               /\ \/ runPc'[w] = runPc[w]
                  \/ runPc[w] = "idle" /\ runPc'[w] = "setcur"

\* No call starts, none that has returned comes back, and a call keeps to
\* enqueueCown or to insertSuccessor.
CallsKept ==
  /\ UNCHANGED op
  /\ \A w \in Behaviours :
       /\ spawnPc'[w] = "unspawned" <=> spawnPc[w] = "unspawned"
       /\ spawnPc[w] = "spawned" => spawnPc'[w] = "spawned"
       /\ spawnPc'[w] \in EnqueuePcs => spawnPc[w] \in EnqueuePcs

\* Schedule, ScheduleAsSuccessor and Force as steps of the frames.
CallMade(g) ==
  /\ op[g] + 1 \in DOMAIN Prog[g] /\ op' = [op EXCEPT ![g] = op[g] + 1]
  /\ LastReturned(g)
  /\ IF Prog[g][op[g] + 1].op = "force"
     THEN UNCHANGED spawnPc
     ELSE LET b == Prog[g][op[g] + 1].beh IN
            /\ b \in Behaviours /\ spawnPc[b] = "unspawned"
            /\ spawnPc'[b] \in {"swap", "load"}
            /\ Prog[g][op[g] + 1].op = "successor" => spawnPc'[b] = "load"
            /\ \A w \in Behaviours \ {b} : spawnPc'[w] = spawnPc[w]

-----------------------------------------------------------------------------
(* The steps, one by one.                                                  *)

\* Whether a request is queued depends on its call's frame only, and on the
\* frame of the goroutine executing it whether it is released.
LEMMA FrameOf ==
  ASSUME NEW w \in Behaviours
  PROVE  /\ spawnPc'[w] = spawnPc[w] /\ spawnIdx'[w] = spawnIdx[w] =>
              \A q \in Requests : q[1] = w => Queued(q)' = Queued(q)
         /\ runPc'[w] = runPc[w] /\ runIdx'[w] = runIdx[w] =>
              \A q \in Requests : q[1] = w => Released(q)' = Released(q)
         /\ runPc[w] = "idle" /\ runPc'[w] = "setcur" =>
              \A q \in Requests : q[1] = w => Released(q)' = Released(q)
  BY DEF Queued, Released

\* A call changes no line.
LEMMA CallMoves ==
  ASSUME CownInv, NEW g \in Goroutines, CallStep(g)
  PROVE  Stays /\ RunsKept(Behaviours) /\ CallMade(g)
  <1>1. PICK kind \in {"schedule", "successor", "force"} : NextCall(g, kind)
    BY DEF CallStep, Schedule, ScheduleAsSuccessor, ForceThunk
  <1>2. /\ op[g] + 1 \in 1..Len(Prog[g]) /\ Callee(g) \in Behaviours
        /\ Prog[g][op[g] + 1] = [op |-> kind, beh |-> Callee(g)]
        /\ op' = [op EXCEPT ![g] = op[g] + 1] /\ LastReturned(g)
        /\ op[g] + 1 \in DOMAIN Prog[g]
    <2>1. Prog[g] \in Seq(Op)
      BY CownAssumption
    <2> QED  BY <1>1, <2>1, CallFacts
  <1>3. PICK b \in Behaviours : b = Callee(g)
    BY <1>2
  <1>4. TypeOK /\ SpawnOK(b)
    BY DEF CownInv, SpawnInv
  <1>5. UNCHANGED <<pre, runPc, runIdx, spawnIdx>>
    BY DEF CallStep, Schedule, ScheduleAsSuccessor, ForceThunk, runVars, spawnVars,
           sharedVars
  <1>6. RunsKept(Behaviours) /\ \A q \in Requests : Released(q)' = Released(q)
    BY <1>5 DEF RunsKept, Released
  <1>7. CASE kind = "force"
    <2>1. UNCHANGED spawnPc
      BY <1>1, <1>7 DEF CallStep, Schedule, ScheduleAsSuccessor, ForceThunk, spawnVars,
                        NextCall
    <2>2. \A q \in Requests : Queued(q)' = Queued(q)
      BY <1>5, <2>1 DEF Queued
    <2> QED  BY <1>2, <1>5, <1>6, <1>7, <2>1, <2>2 DEF Stays, CallMade
  <1>8. CASE kind # "force"
    <2>1. /\ spawnPc[b] = "unspawned"
          /\ \/ kind = "schedule" /\ spawnPc' = [spawnPc EXCEPT ![b] = "swap"]
             \/ kind = "successor" /\ spawnPc' = [spawnPc EXCEPT ![b] = "load"]
      BY <1>1, <1>3, <1>8 DEF CallStep, Schedule, ScheduleAsSuccessor, ForceThunk, NextCall
    <2>2. /\ spawnPc'[b] \in {"swap", "load"} /\ (kind = "successor" => spawnPc'[b] = "load")
          /\ \A w \in Behaviours \ {b} : spawnPc'[w] = spawnPc[w]
      BY <1>4, <2>1 DEF TypeOK
    <2>3. spawnIdx[b] = 1 /\ \A i \in Slots(b) : ~(i < 1)
      BY <1>4, <2>1, SlotFacts DEF SpawnOK
    <2>4. \A q \in Requests : Queued(q)' = Queued(q)
      BY <1>5, <2>1, <2>2, <2>3, RequestFacts DEF Queued
    <2> QED  BY <1>2, <1>3, <1>5, <1>6, <1>8, <2>1, <2>2, <2>4 DEF Stays, CallMade
  <1> QED  BY <1>7, <1>8

\* The steps of enqueueCown after the Swap, and those of insertSuccessor that
\* are not a successful compare-and-swap, change no line.
LEMMA SpawnQuiet ==
  ASSUME CownInv, NEW b \in Behaviours,
         \/ GrantIdle(b) \/ LinkPrev(b) \/ LoadNext(b) \/ LinkCur(b) \/ LinkNew(b)
         \/ CasTail(b) /\ last[CownOf(SpawnReq(b))] # at[b]
         \/ CasNext(b) /\ next[at[b]] # seen[b]
  PROVE  Stays /\ RunsKept(Behaviours) /\ CallsKept
  <1>1. TypeOK /\ SpawnOK(b) /\ RunOK(b)
    BY DEF CownInv, SpawnInv, RunInv
  <1>2. UNCHANGED <<pre, op, runIdx>>
    BY DEF GrantIdle, LinkPrev, LoadNext, LinkCur, LinkNew, CasTail, CasNext, runVars
  <1>3. ASSUME GrantIdle(b) \/ LinkPrev(b)  PROVE Stays /\ RunsKept(Behaviours) /\ CallsKept
    <2>1. spawnPc[b] \in {"grant", "link"} /\ NextEnqueue(b)
      BY <1>3 DEF GrantIdle, LinkPrev
    <2>2. RunsKept(Behaviours)
      <3>1. CASE LinkPrev(b)
        BY <3>1 DEF LinkPrev, runVars, RunsKept
      <3>2. CASE GrantIdle(b)
        <4>1. PICK i \in Slots(b) : spawnIdx[b] = i
          BY <1>1 DEF SpawnOK
        <4>2. ~Granted(<<b, i>>)
          BY <3>2, <4>1 DEF GrantIdle, Granted
        <4>3. runPc[b] = "idle"
          BY <1>1, <4>1, <4>2 DEF RunOK
        <4>4. runPc' = [runPc EXCEPT ![b] = IF count[b] = 1 THEN "setcur" ELSE runPc[b]]
          BY <3>2 DEF GrantIdle, Grant
        <4>5. \A w \in Behaviours : \/ runPc'[w] = runPc[w]
                                    \/ runPc[w] = "idle" /\ runPc'[w] = "setcur"
          BY <1>1, <4>3, <4>4 DEF TypeOK
        <4> QED  BY <1>2, <4>5 DEF RunsKept
      <3> QED  BY <1>3, <3>1, <3>2
    <2>3. /\ spawnPc'[b] \in {"swap", "spawned"}
          /\ \A v \in Behaviours \ {b} : spawnPc'[v] = spawnPc[v]
          /\ \A r \in Requests : Queued(r)' = Queued(r) /\ Released(r)' = Released(r)
      BY <1>1, <1>2, <2>1, <2>2, EnqueueReturns DEF RunsKept
    <2>4. CallsKept
      BY <1>2, <2>1, <2>3 DEF CallsKept, EnqueuePcs
    <2> QED  BY <1>2, <2>2, <2>3, <2>4 DEF Stays
  <1>4. ASSUME ~(GrantIdle(b) \/ LinkPrev(b))
        PROVE  Stays /\ RunsKept(Behaviours) /\ CallsKept
    <2>1. UNCHANGED <<runPc, spawnIdx>>
      BY <1>4 DEF LoadNext, LinkCur, LinkNew, CasTail, CasNext, runVars
    <2>2. \/ /\ spawnPc[b] = "load"
             /\ \/ spawnPc' = [spawnPc EXCEPT ![b] = "castail"]
                \/ spawnPc' = [spawnPc EXCEPT ![b] = "casnext"]
          \/ /\ spawnPc[b] \in {"castail", "casnext"}
             /\ spawnPc' = [spawnPc EXCEPT ![b] = "load"]
          \/ /\ spawnPc[b] \in {"linkcur", "linknew"}
             /\ spawnPc' = [spawnPc EXCEPT ![b] = "spawned"]
      BY <1>4 DEF LoadNext, LinkCur, LinkNew, CasTail, CasNext
    <2>3. \A v \in Behaviours \ {b} : spawnPc'[v] = spawnPc[v]
      BY <1>1, <2>2 DEF TypeOK
    <2>4. spawnPc[b] \in SuccessorPcs
      BY <2>2 DEF SuccessorPcs
    <2>5. Slots(b) = {1} /\ spawnIdx[b] = 1
      BY <1>1, <2>4, SlotFacts DEF SpawnOK
    <2>6. \/ spawnPc[b] \in {"load", "castail", "casnext"}
             /\ spawnPc'[b] \in {"load", "castail", "casnext"}
          \/ spawnPc[b] \in {"linkcur", "linknew"} /\ spawnPc'[b] = "spawned"
      BY <1>1, <2>2 DEF TypeOK
    <2>7. \A q \in Requests : Queued(q)' = Queued(q)
      BY <2>1, <2>3, <2>5, <2>6, RequestFacts DEF Queued
    <2>8. RunsKept(Behaviours) /\ \A q \in Requests : Released(q)' = Released(q)
      BY <1>2, <2>1 DEF RunsKept, Released
    <2>9. CallsKept
      BY <1>2, <2>3, <2>6 DEF CallsKept, EnqueuePcs
    <2> QED  BY <1>2, <2>7, <2>8, <2>9 DEF Stays
  <1> QED  BY <1>3, <1>4

\* The Swap of enqueueCown puts the request at the end of the line.
LEMMA SwapMoves ==
  ASSUME CownInv, NEW b \in Behaviours, SwapLast(b)
  PROVE  /\ \E r \in Requests : r = SpawnReq(b) /\ r[1] = b /\ Appends(r)
         /\ RunsKept(Behaviours) /\ CallsKept /\ spawnPc[b] = "swap"
  <1>1. TypeOK /\ SpawnOK(b) /\ spawnPc[b] = "swap"
    BY DEF CownInv, SpawnInv, SwapLast
  <1>2. PICK i \in Slots(b) : spawnIdx[b] = i
    BY <1>1 DEF SpawnOK
  <1>3. PICK r \in Requests : r = <<b, i>>
    BY <1>2, RequestFacts
  <1>4. SpawnReq(b) = r /\ i \in Nat /\ r[1] = b /\ r[2] = i
    BY <1>2, <1>3, SlotFacts DEF SpawnReq
  <1>5. PICK p \in Requests \cup {Nil} : p = last[CownOf(r)]
    BY <1>1, <1>3, RequestFacts DEF TypeOK
  <1>6. /\ pre' = [pre EXCEPT ![r] = p]
        /\ spawnPc' = [spawnPc EXCEPT ![b] = IF p = Nil THEN "grant" ELSE "link"]
        /\ UNCHANGED <<op, spawnIdx, runPc, runIdx>>
    BY <1>4, <1>5 DEF SwapLast, runVars
  <1>7. /\ spawnPc'[b] \in {"grant", "link"} /\ pre'[r] = p
        /\ \A v \in Behaviours \ {b} : spawnPc'[v] = spawnPc[v]
        /\ \A q \in Requests \ {r} : pre'[q] = pre[q]
    BY <1>1, <1>3, <1>6 DEF TypeOK
  <1>8. ~Queued(r)
    BY <1>1, <1>2, <1>4 DEF Queued
  <1>9. runPc[b] = "idle"
    BY <1>3, <1>4, <1>8, Standing
  <1>10. Queued(r)' /\ ~Released(r)'
    BY <1>2, <1>4, <1>6, <1>7, <1>9 DEF Queued, Released
  <1>11. \A q \in Requests : Released(q)' = Released(q)
    BY <1>6 DEF Released
  <1>12. \A q \in Requests \ {r} : Queued(q)' = Queued(q)
    <2>1. \A q \in Requests \ {r} : q[1] = b => q[2] # i /\ q[2] \in Nat
      BY <1>3, RequestFacts, SlotFacts
    <2> QED  BY <1>1, <1>2, <1>4, <1>6, <1>7, <2>1, RequestFacts DEF Queued
  <1>13. Appends(r)
    BY <1>5, <1>7, <1>8, <1>10, <1>11, <1>12 DEF Appends, Live
  <1>14. RunsKept(Behaviours) /\ CallsKept
    BY <1>1, <1>6, <1>7 DEF RunsKept, CallsKept, EnqueuePcs
  <1> QED  BY <1>1, <1>4, <1>13, <1>14

\* A successful compare-and-swap of insertSuccessor puts the request directly
\* behind the one its caller is executing.
LEMMA CasMoves ==
  ASSUME CownInv, NEW b \in Behaviours,
         \/ CasTail(b) /\ last[CownOf(SpawnReq(b))] = at[b]
         \/ CasNext(b) /\ next[at[b]] = seen[b]
  PROVE  /\ \E p, r \in Requests : p = at[b] /\ r = <<b, 1>> /\ Inserts(p, r)
         /\ RunsKept(Behaviours) /\ CallsKept /\ Anchored(b) /\ Slots(b) = {1}
  <1>1. TypeOK /\ SpawnOK(b) /\ spawnPc[b] \in {"castail", "casnext"}
    BY DEF CownInv, SpawnInv, CasTail, CasNext
  <1>2. /\ Anchored(b) /\ spawnIdx[b] = 1 /\ Slots(b) = {1} /\ SpawnReq(b) = <<b, 1>>
    <2>1. Anchored(b) /\ Len(CownsOf[b]) = 1 /\ spawnIdx[b] \in Slots(b)
      BY <1>1 DEF SpawnOK, SuccessorPcs
    <2>2. Slots(b) = {1}
      BY <2>1, SlotFacts
    <2> QED  BY <2>1, <2>2 DEF SpawnReq
  <1>3. PICK r \in Requests : r = <<b, 1>>
    BY <1>2, RequestFacts
  <1>4. PICK p \in Requests : p = at[b]
    BY <1>2 DEF Anchored
  <1>5. r[1] = b /\ r[2] = 1 /\ CownOf(r) = CownsOf[b][1] /\ SpawnReq(b) = r
    BY <1>2, <1>3 DEF CownOf
  <1>6. /\ CownOf(p) = CownOf(r) /\ runPc[p[1]] = "body" /\ Live(p) /\ pre[p] = Nil
    <2>1. CownOf(p) = CownOf(r) /\ runPc[p[1]] = "body"
      BY <1>2, <1>4, <1>5 DEF Anchored
    <2> QED  BY <2>1, Standing
  <1>7. ~Queued(r)
    BY <1>1, <1>2, <1>5 DEF Queued
  <1>8. runPc[b] = "idle" /\ \A q \in Requests : pre[q] # r
    BY <1>5, <1>7, Standing
  <1>9. r # p
    BY <1>6, <1>7 DEF Live
  <1>10. /\ UNCHANGED <<op, spawnIdx, runPc, runIdx>>
         /\ \/ spawnPc' = [spawnPc EXCEPT ![b] = "linkcur"]
            \/ spawnPc' = [spawnPc EXCEPT ![b] = "linknew"]
    BY <1>1 DEF CasTail, CasNext, runVars
  <1>11. /\ spawnPc'[b] \in {"linkcur", "linknew"}
         /\ \A v \in Behaviours \ {b} : spawnPc'[v] = spawnPc[v]
    BY <1>1, <1>10 DEF TypeOK
  <1>12. pre'[r] = p /\ \A q \in Requests \ {r} : pre'[q] = IF pre[q] = p THEN r ELSE pre[q]
    <2>1. CASE CasTail(b) /\ last[CownOf(SpawnReq(b))] = at[b]
      <3>1. pre' = [pre EXCEPT ![r] = p]
        BY <1>4, <1>5, <2>1 DEF CasTail
      <3>2. \A q \in Requests : pre[q] # p
        BY <1>4, <1>5, <2>1, RequestFacts DEF CownInv, TailInv
      <3> QED  BY <1>1, <3>1, <3>2 DEF TypeOK
    <2>2. CASE CasNext(b) /\ next[at[b]] = seen[b]
      <3>1. PICK s \in Requests : s = seen[b]
        BY <1>1, <2>2 DEF SpawnOK, CasNext
      <3>2. pre' = [pre EXCEPT ![r] = p, ![s] = r]
        BY <1>4, <1>5, <2>2, <3>1 DEF CasNext
      <3>3. pre[s] = p
        BY <1>4, <1>6, <2>2, <3>1, RequestFacts DEF CownInv, NextInv
      <3>4. \A q \in Requests : pre[q] = p => q = s
        BY <3>3, RequestFacts DEF CownInv, PreInjective
      <3>5. s # r
        <4>1. pre[r] = Nil
          BY <1>7, Standing
        <4> QED  BY <3>3, <4>1, RequestFacts
      <3> QED  BY <1>1, <3>2, <3>3, <3>4, <3>5 DEF TypeOK
    <2> QED  BY <2>1, <2>2
  <1>13. Queued(r)' /\ ~Released(r)'
    BY <1>2, <1>5, <1>8, <1>10, <1>11 DEF Queued, Released
  <1>14. \A q \in Requests : Released(q)' = Released(q)
    BY <1>10 DEF Released
  <1>15. \A q \in Requests \ {r} : Queued(q)' = Queued(q)
    <2>1. \A q \in Requests \ {r} : q[1] # b
      BY <1>2, <1>3, RequestFacts
    <2> QED  BY <1>10, <1>11, <2>1, RequestFacts DEF Queued
  <1>16. Inserts(p, r)
    BY <1>6, <1>7, <1>12, <1>13, <1>14, <1>15 DEF Inserts, Live
  <1>17. RunsKept(Behaviours) /\ CallsKept
    BY <1>1, <1>10, <1>11 DEF RunsKept, CallsKept, EnqueuePcs
  <1> QED  BY <1>2, <1>3, <1>4, <1>16, <1>17

\* The steps of run that release no cown change no line; SetCurrent starts a
\* behaviour all of whose requests are at the front, Close completes one.
LEMMA RunQuiet ==
  ASSUME CownInv, NEW b \in Behaviours,
         \/ SetCurrent(b) \/ FnReturns(b) \/ ClearCurrent(b) \/ Close(b) \/ AwaitNext(b)
         \/ ReleaseTail(b) /\ last[CownOf(RunReq(b))] # RunReq(b)
  PROVE  /\ Stays /\ RunsKept(Behaviours \ {b}) /\ CallsKept
         /\ runPc[b] # "idle" /\ runPc'[b] # "idle"
         /\ \/ PhaseOf(b)' = PhaseOf(b)
            \/ runPc[b] = "setcur" /\ PhaseOf(b) = "waiting" /\ PhaseOf(b)' = "running"
            \/ PhaseOf(b) = "running" /\ PhaseOf(b)' = "completed"
  <1>1. TypeOK /\ RunOK(b) /\ runIdx[b] \in Slots(b)
    BY DEF CownInv, RunInv, RunOK
  <1>2. /\ Slots(b) = 1..Len(CownsOf[b]) /\ Len(CownsOf[b]) \in Nat /\ 1 \in Slots(b)
        /\ \A q \in Requests : q[1] = b => q[2] \in Nat /\ q[2] >= 1
    BY SlotFacts, RequestFacts
  <1>3. UNCHANGED <<pre, op, spawnPc, spawnIdx>>
    BY DEF SetCurrent, FnReturns, ClearCurrent, Close, AwaitNext, ReleaseTail, spawnVars
  <1>4. CallsKept /\ \A q \in Requests : Queued(q)' = Queued(q)
    BY <1>3 DEF CallsKept, Queued
  <1>5. SUFFICES
          /\ \A v \in Behaviours \ {b} : runPc'[v] = runPc[v] /\ runIdx'[v] = runIdx[v]
          /\ runPc[b] # "idle" /\ runPc'[b] # "idle"
          /\ \A q \in Requests : q[1] = b => Released(q)' = Released(q)
          /\ \/ PhaseOf(b)' = PhaseOf(b)
             \/ runPc[b] = "setcur" /\ PhaseOf(b) = "waiting" /\ PhaseOf(b)' = "running"
             \/ PhaseOf(b) = "running" /\ PhaseOf(b)' = "completed"
    <2>1. \A q \in Requests : q[1] # b => Released(q)' = Released(q)
      BY <1>5, RequestFacts, FrameOf
    <2> QED  BY <1>3, <1>4, <1>5, <2>1 DEF Stays, RunsKept
  <1>6. CASE SetCurrent(b)
    <2>1. "setcur" \in RunPcs /\ "body" \in RunPcs /\ NextSlot(b, "setcur", "body")
          /\ runPc[b] = "setcur"
      BY <1>6 DEF RunPcs, SetCurrent
    <2>2. /\ \/ runPc'[b] = "setcur" /\ runIdx'[b] = runIdx[b] + 1
             \/ runPc'[b] = "body"
          /\ \A v \in Behaviours \ {b} : runPc'[v] = runPc[v] /\ runIdx'[v] = runIdx[v]
      BY <1>1, <2>1, NextSlotFacts
    <2>3. \A q \in Requests : q[1] = b => Released(q)' = Released(q)
      BY <2>1, <2>2 DEF Released
    <2>4. PhaseOf(b)' = "running"
      <3>1. ~ (runPc'[b] = "idle" \/ (runPc'[b] = "setcur" /\ runIdx'[b] = 1))
        BY <1>1, <1>2, <2>2
      <3> QED  BY <2>2, <3>1 DEF PhaseOf
    <2>5. PhaseOf(b) \in {"waiting", "running"}
      <3>1. Queued(<<b, 1>>)
        BY <1>1, <1>2, <2>1 DEF RunOK, Granted
      <3> QED  BY <1>2, <2>1, <3>1 DEF PhaseOf
    <2> QED  BY <2>1, <2>2, <2>3, <2>4, <2>5
  <1>7. CASE FnReturns(b)
    <2>1. /\ runPc[b] = "body" /\ runPc' = [runPc EXCEPT ![b] = "clearcur"]
          /\ UNCHANGED runIdx
      BY <1>7, CownAssumption DEF FnReturns, InBody
    <2>2. /\ runPc'[b] = "clearcur"
          /\ \A v \in Behaviours \ {b} : runPc'[v] = runPc[v] /\ runIdx'[v] = runIdx[v]
      BY <1>1, <2>1 DEF TypeOK
    <2> QED  BY <2>1, <2>2 DEF PhaseOf, Released
  <1>8. CASE ClearCurrent(b)
    <2>1. "clearcur" \in RunPcs /\ "close" \in RunPcs /\ NextSlot(b, "clearcur", "close")
          /\ runPc[b] = "clearcur"
      BY <1>8 DEF RunPcs, ClearCurrent
    <2>2. /\ runPc'[b] \in {"clearcur", "close"}
          /\ \A v \in Behaviours \ {b} : runPc'[v] = runPc[v] /\ runIdx'[v] = runIdx[v]
      BY <1>1, <2>1, NextSlotFacts
    <2> QED  BY <2>1, <2>2 DEF PhaseOf, Released
  <1>9. CASE Close(b)
    <2>1. /\ runPc[b] = "close" /\ runPc' = [runPc EXCEPT ![b] = "release"]
          /\ UNCHANGED runIdx
      BY <1>9 DEF Close
    <2>2. /\ runPc'[b] = "release" /\ runIdx'[b] = 1
          /\ \A v \in Behaviours \ {b} : runPc'[v] = runPc[v] /\ runIdx'[v] = runIdx[v]
      BY <1>1, <2>1 DEF TypeOK, RunOK
    <2>3. \A q \in Requests : q[1] = b => Released(q)' = Released(q)
      BY <1>2, <2>1, <2>2 DEF Released
    <2> QED  BY <2>1, <2>2, <2>3 DEF PhaseOf
  <1>10. CASE \/ AwaitNext(b)
              \/ ReleaseTail(b) /\ last[CownOf(RunReq(b))] # RunReq(b)
    <2>1. /\ UNCHANGED runIdx
          /\ \/ runPc[b] = "release" /\ runPc' = [runPc EXCEPT ![b] = "await"]
             \/ runPc[b] = "await" /\ runPc' = [runPc EXCEPT ![b] = "handover"]
      BY <1>10 DEF AwaitNext, ReleaseTail
    <2>2. /\ \/ runPc[b] = "release" /\ runPc'[b] = "await"
             \/ runPc[b] = "await" /\ runPc'[b] = "handover"
          /\ \A v \in Behaviours \ {b} : runPc'[v] = runPc[v] /\ runIdx'[v] = runIdx[v]
      BY <1>1, <2>1 DEF TypeOK
    <2> QED  BY <2>1, <2>2 DEF PhaseOf, Released
  <1> QED  BY <1>6, <1>7, <1>8, <1>9, <1>10

\* releaseCown takes the head off the line.
LEMMA ReleaseStep ==
  ASSUME CownInv, NEW b \in Behaviours,
         \/ ReleaseTail(b) /\ last[CownOf(RunReq(b))] = RunReq(b)
         \/ HandOver(b)
  PROVE  /\ \E r \in Requests : r = RunReq(b) /\ r[1] = b /\ Releases(r)
         /\ RunsKept(Behaviours \ {b}) /\ CallsKept
         /\ runPc[b] # "idle" /\ runPc'[b] # "idle"
         /\ PhaseOf(b) = "completed" /\ PhaseOf(b)' = "completed"
  <1>1. TypeOK /\ RunOK(b) /\ runPc[b] \in {"release", "handover"}
    BY DEF CownInv, RunInv, ReleaseTail, HandOver
  <1>2. PICK i \in Slots(b) : runIdx[b] = i
    BY <1>1 DEF RunOK
  <1>3. PICK r \in Requests : r = <<b, i>>
    BY RequestFacts
  <1>4. RunReq(b) = r /\ r[1] = b /\ i \in Nat
    BY <1>2, <1>3, SlotFacts DEF RunReq
  <1>5. Holds(b, i) /\ Live(r) /\ pre[r] = Nil
    <2>1. Holds(b, i)
      BY <1>1, <1>2, SlotFacts DEF Holds, Released
    <2> QED  BY <1>3, <2>1, Holders
  <1>6. UNCHANGED <<op, spawnPc, spawnIdx>>
    BY DEF ReleaseTail, HandOver, spawnVars
  <1>7. CallsKept /\ \A q \in Requests : Queued(q)' = Queued(q)
    BY <1>6 DEF CallsKept, Queued
  <1>8. SUFFICES
          /\ i < Len(CownsOf[b]) => runPc'[b] = "release" /\ runIdx'[b] = i + 1
          /\ ~(i < Len(CownsOf[b])) => runPc'[b] = "finished"
          /\ RunsKept(Behaviours \ {b})
          /\ pre'[r] = Nil
          /\ \A q \in Requests \ {r} : pre'[q] = IF pre[q] = r THEN Nil ELSE pre[q]
    <2>1. Released(r)' /\ \A q \in Requests \ {r} : Released(q)' = Released(q)
      BY <1>1, <1>2, <1>3, <1>8, ReleaseMoves DEF RunsKept
    <2>2. PhaseOf(b) = "completed" /\ PhaseOf(b)' = "completed"
      BY <1>1, <1>8 DEF PhaseOf
    <2>3. Releases(r)
      BY <1>5, <1>7, <1>8, <2>1 DEF Releases
    <2> QED  BY <1>1, <1>4, <1>7, <1>8, <2>2, <2>3
  <1>9. CASE ReleaseTail(b) /\ last[CownOf(RunReq(b))] = RunReq(b)
    <2>1. NextSlot(b, "release", "finished") /\ UNCHANGED pre
          /\ "release" \in RunPcs /\ "finished" \in RunPcs
      BY <1>9 DEF ReleaseTail, RunPcs
    <2>2. \A q \in Requests : pre[q] # r
      BY <1>4, <1>9, RequestFacts DEF CownInv, TailInv
    <2> QED  BY <1>1, <1>2, <1>5, <2>1, <2>2, NextSlotFacts DEF RunsKept
  <1>10. CASE HandOver(b)
    <2>1. PICK s \in Requests : s = succ[b] /\ pre[s] = r
      BY <1>1, <1>4, <1>10 DEF RunOK, HandOver
    <2>2. PICK v \in Behaviours : v = s[1]
      BY RequestFacts
    <2>3. runPc[v] = "idle" /\ v # b /\ s # r
      BY <1>1, <1>5, <2>1, <2>2, Standing, RequestFacts
    <2> DEFINE again == i < Len(CownsOf[b])
    <2>4. /\ runPc' = [runPc EXCEPT
                         ![v] = IF count[v] = 1 THEN "setcur" ELSE runPc[v],
                         ![b] = IF again THEN "release" ELSE "finished"]
          /\ runIdx' = [runIdx EXCEPT ![b] = IF again THEN i + 1 ELSE 1]
          /\ pre' = [pre EXCEPT ![s] = Nil]
      BY <1>2, <1>10, <2>1, <2>2, <2>3 DEF HandOver
    <2>5. /\ runPc'[b] = (IF again THEN "release" ELSE "finished")
          /\ runPc'[v] \in {"setcur", "idle"}
          /\ \A w \in Behaviours \ {b, v} : runPc'[w] = runPc[w]
      BY <1>1, <2>3, <2>4 DEF TypeOK
    <2>6. /\ runIdx'[b] = (IF again THEN i + 1 ELSE 1)
          /\ \A w \in Behaviours \ {b} : runIdx'[w] = runIdx[w]
      BY <1>1, <2>4 DEF TypeOK
    <2>7. RunsKept(Behaviours \ {b})
      BY <2>3, <2>5, <2>6 DEF RunsKept
    <2>8. /\ pre'[s] = Nil
          /\ \A q \in Requests \ {s} : pre'[q] = pre[q]
      BY <1>1, <2>4 DEF TypeOK
    <2>9. \A q \in Requests : pre[q] = r => q = s
      BY <2>1, RequestFacts DEF CownInv, PreInjective
    <2> QED  BY <1>5, <2>1, <2>3, <2>5, <2>6, <2>7, <2>8, <2>9
  <1> QED  BY <1>9, <1>10

-----------------------------------------------------------------------------
(* All steps together.                                                     *)

QuietMove == Stays /\ RunsKept(Behaviours)

JoinMove(b) ==
  /\ \E r \in Requests : r = SpawnReq(b) /\ r[1] = b /\ Appends(r)
  /\ RunsKept(Behaviours) /\ spawnPc[b] = "swap"

InsertMove(b) ==
  /\ \E p, r \in Requests : p = at[b] /\ r = <<b, 1>> /\ Inserts(p, r)
  /\ RunsKept(Behaviours) /\ Anchored(b) /\ Slots(b) = {1}

TurnMove(b) ==
  /\ Stays /\ RunsKept(Behaviours \ {b})
  /\ runPc[b] # "idle" /\ runPc'[b] # "idle"
  /\ \/ PhaseOf(b)' = PhaseOf(b)
     \/ runPc[b] = "setcur" /\ PhaseOf(b) = "waiting" /\ PhaseOf(b)' = "running"
     \/ PhaseOf(b) = "running" /\ PhaseOf(b)' = "completed"

ReleaseMove(b) ==
  /\ \E r \in Requests : r = RunReq(b) /\ r[1] = b /\ Releases(r)
  /\ RunsKept(Behaviours \ {b})
  /\ runPc[b] # "idle" /\ runPc'[b] # "idle"
  /\ PhaseOf(b) = "completed" /\ PhaseOf(b)' = "completed"

Moves ==
  \/ QuietMove
  \/ \E b \in Behaviours : JoinMove(b) \/ InsertMove(b) \/ TurnMove(b) \/ ReleaseMove(b)

CallsMove == CallsKept \/ \E g \in Goroutines : CallMade(g)

\* Every step is one of these moves.
LEMMA StepMoves ==
  ASSUME CownInv, [Next]_vars
  PROVE  Moves /\ CallsMove
  <1>1. CASE UNCHANGED vars
    <2>1. UNCHANGED <<op, spawnPc, spawnIdx, runPc, runIdx, pre>>
      BY <1>1 DEF vars
    <2>2. QuietMove /\ CallsKept
      BY <2>1 DEF QuietMove, Stays, RunsKept, CallsKept, Queued, Released
    <2> QED  BY <2>2 DEF Moves, CallsMove
  <1>2. ASSUME NEW g \in Goroutines, CallStep(g)  PROVE Moves /\ CallsMove
    BY <1>2, CallMoves DEF Moves, CallsMove, QuietMove
  <1>3. ASSUME NEW b \in Behaviours, SpawnStep(b)  PROVE Moves /\ CallsMove
    <2>1. CASE SwapLast(b)
      BY <2>1, SwapMoves DEF Moves, CallsMove, JoinMove
    <2>2. CASE \/ CasTail(b) /\ last[CownOf(SpawnReq(b))] = at[b]
               \/ CasNext(b) /\ next[at[b]] = seen[b]
      BY <2>2, CasMoves DEF Moves, CallsMove, InsertMove
    <2>3. CASE \/ GrantIdle(b) \/ LinkPrev(b) \/ LoadNext(b) \/ LinkCur(b) \/ LinkNew(b)
               \/ CasTail(b) /\ last[CownOf(SpawnReq(b))] # at[b]
               \/ CasNext(b) /\ next[at[b]] # seen[b]
      BY <2>3, SpawnQuiet DEF Moves, CallsMove, QuietMove
    <2> QED  BY <1>3, <2>1, <2>2, <2>3 DEF SpawnStep
  <1>4. ASSUME NEW b \in Behaviours, RunStep(b)  PROVE Moves /\ CallsMove
    <2>1. CASE \/ ReleaseTail(b) /\ last[CownOf(RunReq(b))] = RunReq(b)
               \/ HandOver(b)
      BY <2>1, ReleaseStep DEF Moves, CallsMove, ReleaseMove
    <2>2. CASE \/ SetCurrent(b) \/ FnReturns(b) \/ ClearCurrent(b) \/ Close(b)
               \/ AwaitNext(b)
               \/ ReleaseTail(b) /\ last[CownOf(RunReq(b))] # RunReq(b)
      BY <2>2, RunQuiet DEF Moves, CallsMove, TurnMove
    <2> QED  BY <1>4, <2>1, <2>2 DEF RunStep
  <1>5. Terminating => UNCHANGED vars
    BY DEF Terminating
  <1> QED  BY <1>1, <1>2, <1>3, <1>4, <1>5 DEF Next

\* The lines are well formed after every step.
LEMMA MovesKeepLines ==
  ASSUME CownInv, LinesExist, CownInv', Moves
  PROVE  LinesExist'
  <1>1. CASE QuietMove
    BY <1>1, LinesStay DEF QuietMove
  <1>2. ASSUME NEW b \in Behaviours,
               JoinMove(b) \/ InsertMove(b) \/ TurnMove(b) \/ ReleaseMove(b)
        PROVE  LinesExist'
    BY <1>2, LinesStay, LineAppends, LineInserts, LineReleases
       DEF JoinMove, InsertMove, TurnMove, ReleaseMove
  <1> QED  BY <1>1, <1>2 DEF Moves

\* A behaviour that has not started has at most just been launched.
LEMMA MovesWake ==
  ASSUME Moves, NEW w \in Behaviours, runPc[w] = "idle"
  PROVE  runPc'[w] \in {"idle", "setcur"}
  BY DEF Moves, QuietMove, JoinMove, InsertMove, TurnMove, ReleaseMove, RunsKept

\* What is released stays released.
LEMMA MovesRelease ==
  ASSUME CownInv, Moves, NEW q \in Requests, Released(q)
  PROVE  Released(q)'
  <1>1. Queued(q)
    BY Standing
  <1>2. ASSUME Stays  PROVE Released(q)'
    BY <1>2 DEF Stays
  <1>3. ASSUME NEW r, Appends(r)  PROVE Released(q)'
    BY <1>1, <1>3 DEF Appends
  <1>4. ASSUME NEW p, NEW r, Inserts(p, r)  PROVE Released(q)'
    BY <1>1, <1>4 DEF Inserts
  <1>5. ASSUME NEW r, Releases(r)  PROVE Released(q)'
    BY <1>5 DEF Releases
  <1> QED  BY <1>2, <1>3, <1>4, <1>5
              DEF Moves, QuietMove, JoinMove, InsertMove, TurnMove, ReleaseMove

-----------------------------------------------------------------------------
(* Who stands before whom.                                                 *)

\* Who stands ahead in a line stays ahead when somebody joins at its end.
LEMMA PrecedesAppended ==
  ASSUME NEW S, NEW s \in Seq(S), NEW e, NEW q, NEW r, Precedes(s, q, r),
         e = r => \E i \in DOMAIN s : s[i] = q
  PROVE  Precedes(Append(s, e), q, r)
  <1> DEFINE t == Append(s, e)
  <1>1. /\ Len(s) \in Nat /\ DOMAIN s = 1..Len(s) /\ DOMAIN t = 1..Len(s) + 1
        /\ t[Len(s) + 1] = e /\ \A i \in 1..Len(s) : t[i] = s[i]
    OBVIOUS
  <1> HIDE DEF t
  <1> SUFFICES ASSUME NEW k \in 1..Len(s) + 1, t[k] = r
               PROVE  \E i \in 1..Len(s) + 1 : i < k /\ t[i] = q
    BY <1>1 DEF Precedes, t
  <1>2. PICK i \in 1..Len(s) : i < k /\ s[i] = q
    <2>1. CASE k = Len(s) + 1
      <3>1. PICK i \in 1..Len(s) : s[i] = q
        BY <1>1, <2>1
      <3>2. i < k
        BY <1>1, <2>1
      <3> QED  BY <3>1, <3>2
    <2>2. CASE k # Len(s) + 1
      <3>1. k \in 1..Len(s) /\ s[k] = r
        BY <1>1, <2>2
      <3> QED  BY <1>1, <3>1 DEF Precedes
    <2> QED  BY <2>1, <2>2
  <1>3. i \in 1..Len(s) + 1
    BY <1>1
  <1> QED  BY <1>1, <1>2, <1>3

\* ... when somebody else joins behind the first,
LEMMA PrecedesInserted ==
  ASSUME NEW S, NEW s \in Seq(S), s # <<>>, NEW e \in S, NEW q, NEW r, Precedes(s, q, r),
         e # r
  PROVE  Precedes(<<s[1], e>> \o Tail(s), q, r)
  <1> DEFINE u == Tail(s)
             t == <<s[1], e>> \o u
             n == Len(s)
  <1>1. n \in Nat /\ n >= 1 /\ DOMAIN s = 1..n /\ \A i \in 1..n : s[i] \in S
    OBVIOUS
  <1>2. u \in Seq(S) /\ Len(u) = n - 1 /\ \A i \in 1..n - 1 : u[i] = s[i + 1]
    OBVIOUS
  <1>3. <<s[1], e>> \in Seq(S) /\ Len(<<s[1], e>>) = 2
    BY <1>1
  <1> HIDE DEF u, n
  <1>4. /\ DOMAIN t = 1..n + 1
        /\ \A i \in 1..n + 1 : t[i] = IF i <= 2 THEN <<s[1], e>>[i] ELSE u[i - 2]
    BY <1>1, <1>2, <1>3
  <1> HIDE DEF t
  <1>5. /\ t[1] = s[1] /\ t[2] = e /\ 1 \in 1..n + 1 /\ 2 \in 1..n + 1
        /\ \A i \in 1..n + 1 : i > 2 => i - 1 \in 1..n /\ t[i] = s[i - 1]
    <2>1. ASSUME NEW i \in 1..n + 1, i > 2  PROVE i - 1 \in 1..n /\ t[i] = s[i - 1]
      <3>1. i - 2 \in 1..n - 1 /\ (i - 2) + 1 = i - 1 /\ i - 1 \in 1..n /\ ~ (i <= 2)
        BY <1>1, <2>1
      <3>2. t[i] = u[i - 2] /\ u[i - 2] = s[(i - 2) + 1]
        BY <1>2, <1>4, <3>1
      <3> QED  BY <3>1, <3>2
    <2>2. 1 \in 1..n + 1 /\ 2 \in 1..n + 1
      BY <1>1
    <2>3. t[1] = s[1] /\ t[2] = e
      BY <1>4, <2>2
    <2> QED  BY <2>1, <2>2, <2>3
  <1> SUFFICES ASSUME NEW k \in 1..n + 1, t[k] = r
               PROVE  \E i \in 1..n + 1 : i < k /\ t[i] = q
    BY <1>4 DEF Precedes, t, u
  <1>6. PICK j \in 1..n : s[j] = r /\ (k = 1 => j = 1) /\ (k # 1 => k > 2 /\ k = j + 1)
    <2>1. CASE k = 1
      BY <1>1, <1>5, <2>1
    <2>2. CASE k # 1
      <3>1. k > 2
        BY <1>1, <1>5, <2>2
      <3>2. k - 1 \in 1..n /\ s[k - 1] = r /\ k = (k - 1) + 1
        BY <1>1, <1>5, <3>1
      <3> QED  BY <2>2, <3>1, <3>2
    <2> QED  BY <2>1, <2>2
  <1>7. PICK i \in 1..n : i < j /\ s[i] = q
    BY <1>1, <1>6 DEF Precedes
  <1>8. CASE i = 1
    <2>1. 1 < k
      BY <1>1, <1>6, <1>7
    <2> QED  BY <1>5, <1>7, <1>8, <2>1
  <1>9. CASE i # 1
    <2>1. i + 1 \in 1..n + 1 /\ i + 1 > 2 /\ (i + 1) - 1 = i /\ i + 1 < k
      BY <1>1, <1>6, <1>7, <1>9
    <2> QED  BY <1>5, <1>7, <2>1
  <1> QED  BY <1>8, <1>9

\* ... and when the first leaves, unless he is the one.
LEMMA PrecedesReleased ==
  ASSUME NEW S, NEW s \in Seq(S), s # <<>>, NEW q, NEW r, Precedes(s, q, r), q # s[1]
  PROVE  Precedes(Tail(s), q, r)
  <1> DEFINE u == Tail(s)
             n == Len(s)
  <1>1. /\ n \in Nat /\ n >= 1 /\ DOMAIN s = 1..n /\ DOMAIN u = 1..n - 1
        /\ \A i \in 1..n - 1 : u[i] = s[i + 1]
    OBVIOUS
  <1> HIDE DEF u, n
  <1> SUFFICES ASSUME NEW k \in 1..n - 1, u[k] = r
               PROVE  \E i \in 1..n - 1 : i < k /\ u[i] = q
    BY <1>1 DEF Precedes, u
  <1>2. k + 1 \in 1..n /\ s[k + 1] = r
    BY <1>1
  <1>3. PICK i \in 1..n : i < k + 1 /\ s[i] = q
    BY <1>1, <1>2 DEF Precedes
  <1>4. i # 1
    BY <1>3
  <1>5. i - 1 \in 1..n - 1 /\ i - 1 < k /\ (i - 1) + 1 = i
    BY <1>1, <1>3, <1>4
  <1> QED  BY <1>1, <1>3, <1>5

\* Who stands ahead of r stays ahead of it until released, unless r joins: at
\* the end, where q must stand already, or behind the holder.
LEMMA AheadKept ==
  ASSUME CownInv, LinesExist, CownInv', Moves, NEW q \in Requests, NEW r \in Requests,
         CownOf(q) = CownOf(r), Ahead(q, r, CownOf(r)), ~Released(q)',
         \A b \in Behaviours : JoinMove(b) /\ SpawnReq(b) = r => Queued(q),
         \A b \in Behaviours : InsertMove(b) => <<b, 1>> # r
  PROVE  Ahead(q, r, CownOf(r))'
  <1>1. PICK c \in Cowns : c = CownOf(r)
    BY RequestFacts
  <1>2. PICK s : s = Line(c)
    OBVIOUS
  <1>3. s \in Seq(Requests) /\ Precedes(s, q, r) /\ IsLine(s, c)
    BY <1>1, <1>2, LinePlaces DEF Ahead, LinesExist
  <1>4. ~Released(q)
    BY MovesRelease
  <1>5. SUFFICES \E t : Line(c)' = t /\ Precedes(t, q, r)
    BY <1>1 DEF Ahead, Precedes
  <1>6. ASSUME Stays  PROVE \E t : Line(c)' = t /\ Precedes(t, q, r)
    BY <1>2, <1>3, <1>6, LinesStay
  <1>7. ASSUME NEW b \in Behaviours, JoinMove(b)
        PROVE  \E t : Line(c)' = t /\ Precedes(t, q, r)
    <2>1. PICK e \in Requests : e = SpawnReq(b) /\ Appends(e)
      BY <1>7 DEF JoinMove
    <2>2. e = r => Queued(q)
      BY <1>7, <2>1
    <2>3. CASE CownOf(e) # c
      BY <1>2, <1>3, <2>1, <2>3, LineAppends
    <2>4. CASE CownOf(e) = c
      <3>1. Line(c)' = Append(s, e)
        BY <1>2, <2>1, <2>4, LineAppends
      <3>2. e = r => \E i \in DOMAIN s : s[i] = q
        BY <1>1, <1>3, <1>4, <2>2, LinePlaces DEF Live
      <3> QED  BY <1>3, <3>1, <3>2, PrecedesAppended
    <2> QED  BY <2>3, <2>4
  <1>8. ASSUME NEW b \in Behaviours, InsertMove(b)
        PROVE  \E t : Line(c)' = t /\ Precedes(t, q, r)
    <2>1. PICK p, e \in Requests : p = at[b] /\ e = <<b, 1>> /\ Inserts(p, e)
      BY <1>8 DEF InsertMove
    <2>2. e # r
      BY <1>8, <2>1
    <2>3. CASE CownOf(e) # c
      BY <1>2, <1>3, <2>1, <2>3, LineInserts
    <2>4. CASE CownOf(e) = c
      <3>1. s # <<>> /\ s[1] = p /\ Line(c)' = <<p, e>> \o Tail(s)
        BY <1>2, <2>1, <2>4, LineInserts
      <3>2. Precedes(<<s[1], e>> \o Tail(s), q, r)
        BY <1>3, <2>1, <2>2, <3>1, PrecedesInserted
      <3> QED  BY <3>1, <3>2
    <2> QED  BY <2>3, <2>4
  <1>9. ASSUME NEW b \in Behaviours, ReleaseMove(b)
        PROVE  \E t : Line(c)' = t /\ Precedes(t, q, r)
    <2>1. PICK e \in Requests : e = RunReq(b) /\ Releases(e)
      BY <1>9 DEF ReleaseMove
    <2>2. e # q
      BY <2>1 DEF Releases
    <2>3. CASE CownOf(e) # c
      BY <1>2, <1>3, <2>1, <2>3, LineReleases
    <2>4. CASE CownOf(e) = c
      <3>1. s # <<>> /\ s[1] = e /\ Line(c)' = Tail(s)
        BY <1>2, <2>1, <2>4, LineReleases
      <3> QED  BY <1>3, <2>2, <3>1, PrecedesReleased
    <2> QED  BY <2>3, <2>4
  <1> QED  BY <1>6, <1>7, <1>8, <1>9 DEF Moves, QuietMove, TurnMove

-----------------------------------------------------------------------------
(* The invariant.                                                          *)

\* Every call of a program stands at a place of it.
LEMMA CallPlace ==
  ASSUME NEW g \in Goroutines, NEW k \in DOMAIN Prog[g]
  PROVE  k \in Nat /\ k > 0 /\ Prog[g][k].beh \in Behaviours
  <1>1. Prog[g] \in Seq(Op)
    BY CownAssumption
  <1>2. DOMAIN Prog[g] = 1..Len(Prog[g]) /\ Len(Prog[g]) \in Nat
    BY <1>1
  <1>3. k \in Nat /\ k > 0
    BY <1>2
  <1>4. k \in 1..Len(Prog[g])
    BY <1>2
  <1>5. Prog[g][k].beh \in Behaviours
    BY <1>4, ProgFacts
  <1> QED  BY <1>3, <1>5

\* Calls are made one after the other.
LEMMA CallsKeepOrder ==
  ASSUME TypeOK, CallInv, CallsMove
  PROVE  CallInv'
  <1>1. CASE CallsKept
    <2>1. ASSUME NEW g \in Goroutines, NEW k \in DOMAIN Prog[g], Prog[g][k].op # "force"
          PROVE  /\ k > op'[g] <=> spawnPc'[Prog[g][k].beh] = "unspawned"
                 /\ k < op'[g] => spawnPc'[Prog[g][k].beh] = "spawned"
                 /\ Prog[g][k].op = "successor" => spawnPc'[Prog[g][k].beh] \notin EnqueuePcs
      BY <1>1, <2>1, CallPlace DEF CallsKept, CallInv
    <2>2. \A b \in Behaviours : spawnPc'[b] # "unspawned" =>
            \E g \in Goroutines : \E k \in DOMAIN Prog[g] :
              Prog[g][k].op # "force" /\ Prog[g][k].beh = b
      BY <1>1 DEF CallsKept, CallInv
    <2> QED  BY <2>1, <2>2 DEF CallInv
  <1>2. ASSUME NEW g \in Goroutines, CallMade(g)
        PROVE  CallInv'
    <2>1. PICK n \in DOMAIN Prog[g] : n = op[g] + 1
      BY <1>2 DEF CallMade
    <2>2. /\ op[g] \in Nat /\ n \in Nat /\ op'[g] = n
          /\ \A h \in Goroutines \ {g} : op'[h] = op[h]
      BY <1>2, <2>1 DEF CallMade, TypeOK
    <2>3. \A l \in DOMAIN Prog[g] : l \in Nat /\ Prog[g][l].beh \in Behaviours
      BY CallPlace
    <2>4. ASSUME NEW l \in DOMAIN Prog[g], Prog[g][l].op # "force", l < n
          PROVE  spawnPc[Prog[g][l].beh] = "spawned"
      <3>1. CASE l < op[g]
        BY <2>4, <3>1 DEF CallInv
      <3>2. CASE l = op[g]
        <4>1. LastReturned(g) /\ op[g] > 0
          BY <1>2, <2>2, <2>4, <3>2, SlotFacts, ProgFacts DEF CallMade
        <4> QED  BY <2>4, <3>2, <4>1 DEF LastReturned
      <3> QED  BY <2>1, <2>2, <2>3, <2>4, <3>1, <3>2
    <2>5. \A l \in DOMAIN Prog[g] : l # n => (l > n <=> l > op[g])
      BY <2>1, <2>2, <2>3
    <2>6. \A b \in Behaviours : spawnPc'[b] = spawnPc[b] \/ (b = Prog[g][n].beh /\
             Prog[g][n].op # "force")
      BY <1>2, <2>1 DEF CallMade
    <2>7. Prog[g][n].op # "force" =>
            /\ spawnPc'[Prog[g][n].beh] \in {"swap", "load"}
            /\ Prog[g][n].op = "successor" => spawnPc'[Prog[g][n].beh] = "load"
      BY <1>2, <2>1 DEF CallMade
    <2>8. ASSUME NEW h \in Goroutines, NEW l \in DOMAIN Prog[h], Prog[h][l].op # "force",
                 ~ (h = g /\ l = n)
          PROVE  spawnPc'[Prog[h][l].beh] = spawnPc[Prog[h][l].beh]
      <3>1. CASE Prog[g][n].op # "force"
        <4>1. Prog[h][l].beh # Prog[g][n].beh
          BY <2>8, <3>1, CallAssumption
        <4> QED  BY <2>6, <4>1, CallPlace
      <3>2. CASE Prog[g][n].op = "force"
        BY <2>6, <3>2, CallPlace
      <3> QED  BY <3>1, <3>2
    <2>9. ASSUME NEW h \in Goroutines, NEW l \in DOMAIN Prog[h], Prog[h][l].op # "force"
          PROVE  /\ l > op'[h] <=> spawnPc'[Prog[h][l].beh] = "unspawned"
                 /\ l < op'[h] => spawnPc'[Prog[h][l].beh] = "spawned"
                 /\ Prog[h][l].op = "successor" => spawnPc'[Prog[h][l].beh] \notin EnqueuePcs
      <3>1. CASE h = g /\ l = n
        BY <2>2, <2>7, <2>9, <3>1 DEF EnqueuePcs
      <3>2. CASE h = g /\ l # n
        <4>1. spawnPc'[Prog[g][l].beh] = spawnPc[Prog[g][l].beh]
          BY <2>8, <2>9, <3>2
        <4>2. l > op'[g] <=> spawnPc'[Prog[g][l].beh] = "unspawned"
          BY <2>2, <2>5, <2>9, <3>2, <4>1 DEF CallInv
        <4>3. l < op'[g] => spawnPc'[Prog[g][l].beh] = "spawned"
          BY <2>2, <2>4, <2>9, <3>2, <4>1
        <4> QED  BY <2>9, <3>2, <4>1, <4>2, <4>3 DEF CallInv
      <3>3. CASE h # g
        BY <2>2, <2>8, <2>9, <3>3 DEF CallInv
      <3> QED  BY <3>1, <3>2, <3>3
    <2>10. ASSUME NEW b \in Behaviours, spawnPc'[b] # "unspawned"
           PROVE  \E h \in Goroutines : \E k \in DOMAIN Prog[h] :
                    Prog[h][k].op # "force" /\ Prog[h][k].beh = b
      BY <2>6, <2>10 DEF CallInv
    <2> QED  BY <2>9, <2>10 DEF CallInv
  <1> QED  BY <1>1, <1>2 DEF CallsMove

\* A behaviour with a request that has another one ahead of it cannot have
\* been launched.
LEMMA AheadBlocks ==
  CownInv /\ LinesExist =>
    \A q, r \in Requests :
      /\ runPc[r[1]] \in {"idle", "setcur"} /\ Ahead(q, r, CownOf(r))
      => Blocks(q, r)
  <1> SUFFICES ASSUME CownInv, LinesExist, NEW q \in Requests, NEW r \in Requests,
                      runPc[r[1]] = "setcur", Ahead(q, r, CownOf(r))
               PROVE  FALSE
    BY DEF Blocks
  <1>0. PICK w \in Behaviours : w = r[1]
    BY RequestFacts
  <1>1. PICK i \in Slots(w) : r = <<w, i>>
    BY <1>0, RequestFacts
  <1>2. Live(r) /\ pre[r] = Nil
    <2>1. Holds(w, i)
      BY <1>1 DEF Holds, Released
    <2> QED  BY <1>1, <2>1, Holders
  <1>3. PICK s : s = Line(CownOf(r))
    OBVIOUS
  <1>4. IsLine(s, CownOf(r)) /\ Precedes(s, q, r)
    BY <1>3, RequestFacts DEF LinesExist, Ahead
  <1>5. PICK k \in DOMAIN s : s[k] = r
    BY <1>2, <1>4, LinePlaces
  <1>6. PICK j \in DOMAIN s : j < k
    BY <1>4, <1>5 DEF Precedes
  <1>7. k # 1
    BY <1>4, <1>6, LinePlaces
  <1>8. k - 1 \in DOMAIN s /\ pre[s[k]] = s[k - 1] /\ s[k - 1] \in Requests
    BY <1>4, <1>7, LinePlaces
  <1> QED  BY <1>2, <1>5, <1>8, RequestFacts

\* ... and so after every step.
LEMMA AheadBlocksNext ==
  (CownInv /\ LinesExist =>
    \A q, r \in Requests :
      /\ runPc[r[1]] \in {"idle", "setcur"} /\ Ahead(q, r, CownOf(r))
      => Blocks(q, r))'
  BY AheadBlocks, PTL

\* Who blocks r blocks it until released.
LEMMA BlockKept ==
  ASSUME CownInv, LinesExist, CownInv', LinesExist', Moves,
         NEW q \in Requests, NEW r \in Requests,
         CownOf(q) = CownOf(r), Blocks(q, r), ~Released(q)',
         \A b \in Behaviours : JoinMove(b) /\ SpawnReq(b) = r => Queued(q),
         \A b \in Behaviours : InsertMove(b) => <<b, 1>> # r
  PROVE  Blocks(q, r)'
  <1>1. PICK w \in Behaviours : w = r[1]
    BY RequestFacts
  <1>2. runPc'[r[1]] \in {"idle", "setcur"}
    BY <1>1, MovesWake DEF Blocks
  <1>3. Ahead(q, r, CownOf(r))'
    BY AheadKept DEF Blocks
  <1> QED  BY <1>2, <1>3, AheadBlocksNext

\* An insertion is made by a call of ScheduleAsSuccessor.
LEMMA InsertIsSuccessor ==
  ASSUME NEW b \in Behaviours, Anchored(b)
  PROVE  \E g \in Goroutines : \E k \in DOMAIN Prog[g] :
           g = at[b][1] /\ Prog[g][k].op = "successor" /\ Prog[g][k].beh = b
  <1>1. PICK g \in Goroutines : g = at[b][1]
    BY RequestFacts DEF Anchored, Goroutines
  <1>2. op[g] \in 1..Len(Prog[g]) /\ Prog[g][op[g]] = [op |-> "successor", beh |-> b]
    BY <1>1 DEF Anchored
  <1>3. Prog[g] \in Seq(Op)
    BY CownAssumption
  <1>4. op[g] \in DOMAIN Prog[g]
    BY <1>2, <1>3
  <1> QED  BY <1>1, <1>2, <1>4

\* Two behaviours a goroutine schedules stay in the order of the calls.
LEMMA MovesKeepOrder ==
  ASSUME CownInv, LinesExist, CallInv, OrderInv, CownInv', LinesExist', Moves
  PROVE  OrderInv'
  <1> SUFFICES ASSUME NEW g \in Goroutines, NEW k \in DOMAIN Prog[g],
                      NEW l \in DOMAIN Prog[g],
                      k < l, Prog[g][k].op = "schedule", Prog[g][l].op = "schedule",
                      NEW q \in Requests, NEW r \in Requests,
                      q[1] = Prog[g][k].beh, r[1] = Prog[g][l].beh, CownOf(q) = CownOf(r),
                      ~Released(q)'
               PROVE  Blocks(q, r)'
    BY DEF OrderInv
  <1>1. Blocks(q, r)
    <2>1. ~Released(q)
      BY MovesRelease
    <2> QED  BY <2>1 DEF OrderInv
  <1>2. ASSUME NEW b \in Behaviours, JoinMove(b), SpawnReq(b) = r  PROVE Queued(q)
    <2>1. spawnPc[r[1]] = "swap"
      BY <1>2 DEF JoinMove
    <2>2. ~ (l > op[g])
      BY <2>1 DEF CallInv
    <2>3. k < op[g]
      BY <2>2, CallPlace DEF CownInv, TypeOK
    <2>4. spawnPc[q[1]] = "spawned"
      BY <2>3 DEF CallInv
    <2> QED  BY <2>4 DEF Queued
  <1>3. ASSUME NEW b \in Behaviours, InsertMove(b)  PROVE <<b, 1>> # r
    <2>0. PICK h \in Goroutines : \E n \in DOMAIN Prog[h] :
            Prog[h][n].op = "successor" /\ Prog[h][n].beh = b
      BY <1>3, InsertIsSuccessor DEF InsertMove
    <2>1. PICK n \in DOMAIN Prog[h] : Prog[h][n].op = "successor" /\ Prog[h][n].beh = b
      BY <2>0
    <2>2. b # r[1]
      BY <2>1, CallAssumption
    <2> QED  BY <2>2
  <1> QED  BY <1>1, <1>2, <1>3, BlockKept

\* A successor stands ahead of every request from outside.
LEMMA MovesKeepSuccessors ==
  ASSUME CownInv, LinesExist, CallInv, SuccessorInv, CownInv', LinesExist', Moves
  PROVE  SuccessorInv'
  <1> SUFFICES ASSUME NEW g \in Goroutines, NEW k \in DOMAIN Prog[g],
                      Prog[g][k].op = "successor",
                      NEW q \in Requests, NEW r \in Requests,
                      q[1] = Prog[g][k].beh, r[1] # g, External(r[1]), CownOf(q) = CownOf(r),
                      Live(q)', ~Released(r)'
               PROVE  Blocks(q, r)'
    BY DEF SuccessorInv
  <1>1. ~Released(r) /\ ~Released(q)' /\ ~Released(q)
    BY MovesRelease DEF Live
  <1>2. ASSUME NEW b \in Behaviours, InsertMove(b)  PROVE <<b, 1>> # r
    <2>0. PICK h \in Goroutines : \E n \in DOMAIN Prog[h] :
            Prog[h][n].op = "successor" /\ Prog[h][n].beh = b
      BY <1>2, InsertIsSuccessor DEF InsertMove
    <2>1. PICK n \in DOMAIN Prog[h] : Prog[h][n].op = "successor" /\ Prog[h][n].beh = b
      BY <2>0
    <2>2. b # r[1]
      BY <2>1 DEF External
    <2> QED  BY <2>2
  <1>3. CASE Live(q)
    <2>1. Blocks(q, r)
      BY <1>1, <1>3 DEF SuccessorInv
    <2>2. Queued(q)
      BY <1>3 DEF Live
    <2> QED  BY <1>1, <1>2, <2>1, <2>2, BlockKept
  <1>4. CASE ~Live(q)
    <2>1. ~Queued(q) /\ Queued(q)'
      BY <1>1, <1>4 DEF Live
    <2>2. PICK b \in Behaviours : InsertMove(b) /\ <<b, 1>> = q
      <3>1. ~Stays
        BY <2>1 DEF Stays
      <3>2. ASSUME NEW b \in Behaviours, ReleaseMove(b)  PROVE FALSE
        BY <2>1, <3>2 DEF ReleaseMove, Releases
      <3>3. ASSUME NEW b \in Behaviours, JoinMove(b)  PROVE FALSE
        <4>1. PICK e \in Requests : e[1] = b /\ Appends(e)
          BY <3>3 DEF JoinMove
        <4>2. q = e
          BY <2>1, <4>1 DEF Appends
        <4>3. spawnPc[q[1]] = "swap"
          BY <3>3, <4>1, <4>2 DEF JoinMove
        <4> QED  BY <4>3 DEF CallInv, EnqueuePcs
      <3>4. PICK b \in Behaviours : InsertMove(b)
        BY <3>1, <3>2, <3>3 DEF Moves, QuietMove, TurnMove
      <3>5. PICK p, e \in Requests : e = <<b, 1>> /\ Inserts(p, e)
        BY <3>4 DEF InsertMove
      <3>6. q = e
        BY <2>1, <3>5 DEF Inserts
      <3> QED  BY <3>4, <3>5, <3>6
    <2>3. PICK p \in Requests : p = at[b] /\ Inserts(p, q)
      BY <2>2 DEF InsertMove
    <2>4. Anchored(b) /\ q[1] = b
      BY <2>2 DEF InsertMove
    <2>5. p[1] = g
      <3>0. PICK h \in Goroutines : \E n \in DOMAIN Prog[h] :
              h = at[b][1] /\ Prog[h][n].op = "successor" /\ Prog[h][n].beh = b
        BY <2>4, InsertIsSuccessor
      <3>1. PICK n \in DOMAIN Prog[h] :
              h = at[b][1] /\ Prog[h][n].op = "successor" /\ Prog[h][n].beh = b
        BY <3>0
      <3>2. h = g
        BY <2>4, <3>1, CallAssumption
      <3> QED  BY <2>3, <3>1, <3>2
    <2>6. PICK c \in Cowns : c = CownOf(q)
      BY RequestFacts
    <2>7. PICK s : s = Line(c)
      OBVIOUS
    <2>8. s # <<>> /\ s[1] = p /\ Line(c)' = <<p, q>> \o Tail(s) /\ s \in Seq(Requests)
      <3>1. s \in Seq(Requests)
        BY <2>7, LinePlaces DEF LinesExist
      <3> QED  BY <2>3, <2>6, <2>7, <3>1, LineInserts
    <2>9. Precedes(<<p, q>> \o Tail(s), q, r)
      <3> DEFINE t == <<p, q>> \o Tail(s)
                 u == Tail(s)
      <3>1. u \in Seq(Requests) /\ <<p, q>> \in Seq(Requests)
        BY <2>8
      <3> HIDE DEF u
      <3>2. Len(<<p, q>> \o u) >= 2 /\ (<<p, q>> \o u)[1] = p /\ (<<p, q>> \o u)[2] = q
            /\ DOMAIN (<<p, q>> \o u) = 1..Len(<<p, q>> \o u) /\ Len(<<p, q>> \o u) \in Nat
        BY <3>1
      <3>3. r # p /\ r # q
        <4>1. ~ External(b)
          BY <2>4 DEF External
        <4> QED  BY <2>4, <2>5, <4>1
      <3> HIDE DEF t
      <3>4. t[1] = p /\ t[2] = q /\ DOMAIN t = 1..Len(t) /\ Len(t) \in Nat /\ Len(t) >= 2
        BY <3>2 DEF t, u
      <3>5. ASSUME NEW n \in DOMAIN t, t[n] = r  PROVE 2 < n /\ 2 \in DOMAIN t
        BY <3>3, <3>4, <3>5
      <3> QED  BY <3>4, <3>5 DEF Precedes, t
    <2>10. Ahead(q, r, CownOf(r))'
      BY <2>6, <2>8, <2>9 DEF Ahead, Precedes
    <2>11. runPc[r[1]] = "idle"
      <3>1. PICK i \in Slots(r[1]) : r = <<r[1], i>>
        BY RequestFacts
      <3>2. PICK j \in Slots(g) : p = <<g, j>>
        BY <2>5, RequestFacts
      <3>3. g \in Behaviours /\ r[1] \in Behaviours
        BY <2>5, RequestFacts
      <3>4. Holds(g, j)
        BY <2>3, <2>4, <2>5, <3>2 DEF Anchored, Holds, Released
      <3>5. CownsOf[r[1]][i] = CownsOf[g][j]
        BY <2>3, <3>1, <3>2 DEF CownOf, Inserts
      <3>6. ~ Holds(r[1], i)
        BY <3>3, <3>4, <3>5, Holders
      <3> QED  BY <1>1, <3>1, <3>6 DEF Holds
    <2>12. runPc'[r[1]] \in {"idle", "setcur"}
      BY <2>11, MovesWake, RequestFacts
    <2> QED  BY <2>10, <2>12, AheadBlocksNext
  <1> QED  BY <1>3, <1>4

\* Nobody stands in a line at the start.
LEMMA InitLines ==
  ASSUME Init
  PROVE  LineInv /\ \A c \in Cowns : Line(c) = <<>>
  <1>1. CownInv
    BY InitEstablishesInv
  <1>2. \A r \in Requests : ~Queued(r) /\ ~Live(r)
    BY RequestFacts DEF Init, Queued, Live
  <1>3. \A c \in Cowns : Line(c) = <<>>
    BY <1>2 DEF Line, IsHead
  <1>4. LinesExist
    <2>1. <<>> \in Seq(Requests) /\ DOMAIN <<>> = {}
      OBVIOUS
    <2>2. \A c \in Cowns : IsLine(<<>>, c)
      BY <1>2, <2>1 DEF IsLine
    <2> QED  BY <1>3, <2>2 DEF LinesExist
  <1>5. CallInv
    <2>1. ASSUME NEW g \in Goroutines, NEW k \in DOMAIN Prog[g]
          PROVE  ~ (k < op[g]) /\ k > op[g] /\ spawnPc[Prog[g][k].beh] = "unspawned"
      BY CallPlace DEF Init
    <2> QED  BY <2>1 DEF Init, CallInv, EnqueuePcs
  <1>6. OrderInv
    <2>1. ASSUME NEW q \in Requests, NEW r \in Requests  PROVE Blocks(q, r)
      BY <1>3, RequestFacts DEF Init, Blocks, Ahead, Precedes
    <2> QED  BY <2>1 DEF OrderInv
  <1>7. SuccessorInv
    BY <1>2 DEF SuccessorInv
  <1> QED  BY <1>1, <1>3, <1>4, <1>5, <1>6, <1>7 DEF LineInv

\* Every step keeps the invariant of the lines.
LEMMA NextKeepsLines ==
  ASSUME LineInv, [Next]_vars
  PROVE  LineInv'
  <1>1. CownInv' /\ Moves /\ CallsMove
    BY NextKeepsInv, StepMoves DEF LineInv
  <1>2. LinesExist'
    BY <1>1, MovesKeepLines DEF LineInv
  <1>3. CallInv'
    BY <1>1, CallsKeepOrder DEF LineInv, CownInv
  <1>4. OrderInv' /\ SuccessorInv'
    BY <1>1, <1>2, MovesKeepOrder, MovesKeepSuccessors DEF LineInv
  <1> QED  BY <1>1, <1>2, <1>3, <1>4 DEF LineInv

\* The requests of every cown form a line, calls are made in program order,
\* and who stands ahead in a line keeps those behind from running.
THEOREM LineInvHolds == Spec => []LineInv
  <1>1. Init => LineInv
    BY InitLines
  <1>2. LineInv /\ [Next]_vars => LineInv'
    BY NextKeepsLines
  <1> QED  BY <1>1, <1>2, PTL DEF Spec

\* Behaviours that one goroutine schedules on a common cown run in the order
\* of the calls.
THEOREM ScheduledInOrderHolds == Spec => []ScheduledInOrder
  <1>1. ASSUME LineInv  PROVE ScheduledInOrder
    <2> SUFFICES ASSUME NEW g \in Goroutines, NEW k \in DOMAIN Prog[g],
                        NEW l \in DOMAIN Prog[g], k < l,
                        Prog[g][k].op = "schedule", Prog[g][l].op = "schedule",
                        runPc[Prog[g][l].beh] # "idle",
                        NEW i \in Slots(Prog[g][k].beh), NEW j \in Slots(Prog[g][l].beh),
                        CownsOf[Prog[g][k].beh][i] = CownsOf[Prog[g][l].beh][j]
                 PROVE  Released(<<Prog[g][k].beh, i>>)
      BY DEF ScheduledInOrder, InOrder, RunsAfter
    <2>1. PICK q \in Requests : q = <<Prog[g][k].beh, i>>
      BY CallPlace, RequestFacts
    <2>2. PICK r \in Requests : r = <<Prog[g][l].beh, j>>
      BY CallPlace, RequestFacts
    <2>3. CownOf(q) = CownOf(r)
      BY <2>1, <2>2 DEF CownOf
    <2>4. Released(q) \/ Blocks(q, r)
      BY <1>1, <2>1, <2>2, <2>3 DEF LineInv, OrderInv
    <2> QED  BY <2>1, <2>2, <2>4 DEF Blocks
  <1> QED  BY <1>1, LineInvHolds, PTL

\* From the moment a successor is in the queue no behaviour that waits for the
\* cown from outside runs before it.
THEOREM SuccessorFirstHolds == Spec => []SuccessorFirst
  <1>1. ASSUME LineInv  PROVE SuccessorFirst
    <2> SUFFICES ASSUME NEW g \in Behaviours, NEW k \in DOMAIN Prog[g],
                        Prog[g][k].op = "successor", Live(<<Prog[g][k].beh, 1>>),
                        NEW w \in Behaviours \ {g}, External(w),
                        NEW i \in Slots(w), CownsOf[w][i] = CownsOf[Prog[g][k].beh][1]
                 PROVE  runPc[w] = "idle" \/ Released(<<w, i>>)
      BY DEF SuccessorFirst
    <2>1. g \in Goroutines
      BY DEF Goroutines
    <2>2. PICK q \in Requests : q = <<Prog[g][k].beh, 1>>
      BY <2>1, CallPlace, SlotFacts, RequestFacts
    <2>3. PICK r \in Requests : r = <<w, i>>
      BY RequestFacts
    <2>4. CownOf(q) = CownOf(r)
      BY <2>2, <2>3 DEF CownOf
    <2>5. Released(r) \/ Blocks(q, r)
      BY <1>1, <2>1, <2>2, <2>3, <2>4 DEF LineInv, SuccessorInv
    <2> QED  BY <2>3, <2>5 DEF Blocks
  <1> QED  BY <1>1, LineInvHolds, PTL

-----------------------------------------------------------------------------
(* Waiting.                                                                *)

\* Waits(S, v): v stands directly behind a request of a behaviour of S.
Waits(S, v) ==
  \E i \in Slots(v) : \E r \in Requests : r = pre[<<v, i>>] /\ r[1] \in S

\* A call that stands in a line was made by a goroutine; for several cowns,
\* with Schedule.
LEMMA CallerOf ==
  ASSUME CownInv, CallInv, NEW q \in Requests, Live(q)
  PROVE  \E g \in Goroutines : \E k \in DOMAIN Prog[g] :
           /\ Prog[g][k].beh = q[1]
           /\ Len(CownsOf[q[1]]) > 1 => Prog[g][k].op = "schedule"
  <1>1. PICK v \in Behaviours : v = q[1]
    BY RequestFacts
  <1>2. spawnPc[v] # "unspawned"
    BY <1>1 DEF Live, Queued
  <1>3. PICK g \in Goroutines : \E k \in DOMAIN Prog[g] :
          Prog[g][k].op # "force" /\ Prog[g][k].beh = v
    BY <1>2 DEF CallInv
  <1>4. PICK k \in DOMAIN Prog[g] : Prog[g][k].op # "force" /\ Prog[g][k].beh = v
    BY <1>3
  <1>5. Prog[g][k] \in Op
    BY CownAssumption
  <1>6. Prog[g][k].op \in {"schedule", "successor", "force"}
    BY <1>5 DEF Op
  <1>7. Prog[g][k].op = "successor" => Len(CownsOf[v]) = 1
    BY <1>4, SuccessorAssumption
  <1>8. Len(CownsOf[v]) > 1 => Prog[g][k].op # "successor"
    <2>1. CASE Prog[g][k].op = "successor"
      <3>1. Len(CownsOf[v]) = 1
        BY <1>7, <2>1
      <3>2. ~ (1 > 1)
        OBVIOUS
      <3> QED  BY <3>1, <3>2
    <2> QED  BY <2>1
  <1> QED  BY <1>1, <1>4, <1>6, <1>8

\* A behaviour of one cown that waits behind S does so with its only request.
LEMMA SingleWaits ==
  ASSUME NEW S, NEW v \in Behaviours, ~ (Len(CownsOf[v]) > 1), Waits(S, v)
  PROVE  Slots(v) = {1} /\ \E r \in Requests : r = pre[<<v, 1>>] /\ r[1] \in S
  <1>1. Slots(v) = {1}
    BY SlotFacts
  <1> QED  BY <1>1 DEF Waits

\* No circle of waiting behaviours of one cown each.
LEMMA NoSingleCircle ==
  ASSUME CownInv, NEW S \in SUBSET Behaviours, \A v \in S : Waits(S, v),
         \A v \in S : ~ (Len(CownsOf[v]) > 1)
  PROVE  S = {}
  <1> DEFINE R == {<<v, 1>> : v \in S}
  <1>1. R \in SUBSET Requests
    BY SlotFacts, RequestFacts
  <1>2. \A q \in R : pre[q] \in R
    <2> SUFFICES ASSUME NEW v \in S  PROVE pre[<<v, 1>>] \in R
      OBVIOUS
    <2>1. PICK r \in Requests : r = pre[<<v, 1>>] /\ r[1] \in S
      BY SingleWaits
    <2>2. Slots(r[1]) = {1}
      BY <2>1, SingleWaits
    <2>3. r = <<r[1], 1>>
      BY <2>2, RequestFacts
    <2> QED  BY <2>1, <2>3
  <1>3. R = {}
    BY <1>1, <1>2 DEF CownInv, Acyclic
  <1> QED  BY <1>3

\* In a circle of waiting behaviours, a request that waits for one of the
\* circle has the request of another behaviour of several cowns ahead of it:
\* following the line ahead, the first of the circle waits for it elsewhere.
LEMMA MultiAhead ==
  ASSUME CownInv, LinesExist, DistinctCowns,
         NEW S \in SUBSET Behaviours, \A v \in S : Waits(S, v),
         NEW x \in Requests, pre[x] \in Requests, pre[x][1] \in S
  PROVE  \E q \in Requests :
           /\ q[1] \in S /\ q[1] # x[1] /\ Len(CownsOf[q[1]]) > 1
           /\ CownOf(q) = CownOf(x) /\ Live(q) /\ Live(x)
           /\ ~ Ahead(x, q, CownOf(x))
  <1>1. PICK c \in Cowns : c = CownOf(x)
    BY RequestFacts
  <1>2. PICK s : s = Line(c)
    OBVIOUS
  <1>3. IsLine(s, c)
    BY <1>2 DEF LinesExist
  <1>4. Live(x)
    BY RequestFacts DEF CownInv, PreInv
  <1>5. PICK n \in DOMAIN s : s[n] = x
    BY <1>1, <1>3, <1>4, LinePlaces
  <1>6. n # 1 /\ n - 1 \in DOMAIN s /\ s[n - 1] = pre[x]
    BY <1>3, <1>5, LinePlaces, RequestFacts
  <1>7. DOMAIN s = 1..Len(s) /\ Len(s) \in Nat
    BY <1>3, LinePlaces
  <1> DEFINE T == {k \in DOMAIN s : k < n /\ s[k][1] \in S}
  <1>8. PICK k \in T : \A j \in T : k <= j
    <2>1. n - 1 \in T
      <3>1. n - 1 < n
        BY <1>7
      <3> QED  BY <1>6, <3>1
    <2>2. T \in SUBSET Nat
      BY <1>7
    <2> HIDE DEF T
    <2> QED  BY <2>1, <2>2, Least
  <1>9. k \in DOMAIN s /\ k < n
    OBVIOUS
  <1>10. PICK q \in Requests : q = s[k] /\ q[1] \in S /\ CownOf(q) = c /\ Live(q)
    BY <1>3, <1>8, <1>9, LinePlaces
  <1>11. Len(CownsOf[q[1]]) > 1
    <2> SUFFICES ASSUME ~ (Len(CownsOf[q[1]]) > 1)  PROVE FALSE
      OBVIOUS
    <2>1. PICK v \in S : v = q[1]
      BY <1>10
    <2>2. Slots(v) = {1} /\ \E r \in Requests : r = pre[<<v, 1>>] /\ r[1] \in S
      BY <2>1, SingleWaits
    <2>3. q = <<v, 1>>
      BY <2>1, <2>2, RequestFacts
    <2>4. PICK r \in Requests : r = pre[q] /\ r[1] \in S
      BY <2>2, <2>3
    <2>5. k # 1 /\ k - 1 \in DOMAIN s /\ s[k - 1] = r
      BY <1>3, <1>9, <1>10, <2>4, LinePlaces, RequestFacts
    <2>6. k - 1 < n /\ ~ (k <= k - 1)
      BY <1>7, <1>9
    <2>7. k - 1 \in T
      BY <2>4, <2>5, <2>6
    <2> HIDE DEF T
    <2> QED  BY <1>8, <2>6, <2>7
  <1>12. q[1] # x[1]
    <2> SUFFICES ASSUME q[1] = x[1]  PROVE FALSE
      OBVIOUS
    <2>1. PICK v \in Behaviours : v = x[1]
      BY RequestFacts
    <2>2. /\ q[2] \in Slots(v) /\ x[2] \in Slots(v) /\ q = <<v, q[2]>> /\ x = <<v, x[2]>>
          /\ CownsOf[v][q[2]] = CownsOf[v][x[2]]
      BY <1>1, <1>10, <2>1, RequestFacts DEF CownOf
    <2>3. q[2] = x[2]
      BY <2>2 DEF DistinctCowns, IsInjective, Slots
    <2>4. q = x
      BY <2>2, <2>3
    <2>5. k = n
      BY <1>3, <1>5, <1>9, <1>10, <2>4, LinePlaces
    <2> QED  BY <1>7, <1>9, <2>5
  <1>13. ~ Ahead(x, q, CownOf(x))
    <2> SUFFICES ASSUME Precedes(s, x, q)  PROVE FALSE
      BY <1>1, <1>2 DEF Ahead
    <2>1. PICK i \in DOMAIN s : i < k /\ s[i] = x
      BY <1>9, <1>10 DEF Precedes
    <2>2. i = n
      BY <1>3, <1>5, <2>1, LinePlaces
    <2> QED  BY <1>7, <1>9, <2>1, <2>2
  <1> QED  BY <1>1, <1>4, <1>10, <1>11, <1>12, <1>13

\* When one goroutine makes all calls of bocs of several cowns, each on
\* different cowns, no behaviours wait for each other in a circle: the one
\* called first would have the request of a later one ahead of it.
THEOREM NoCircularWaitHolds ==
  ASSUME DistinctCowns, MultiFromOneGoroutine
  PROVE  Spec => []NoCircularWait
  <1>1. ASSUME LineInv  PROVE NoCircularWait
    <2> SUFFICES ASSUME NEW S \in SUBSET Behaviours, \A v \in S : Waits(S, v), S # {}
                 PROVE  FALSE
      BY DEF NoCircularWait, Waits
    <2>1. CownInv /\ LinesExist /\ CallInv /\ OrderInv
      BY <1>1 DEF LineInv
    <2> DEFINE M == {v \in S : Len(CownsOf[v]) > 1}
    <2>2. PICK m \in M : TRUE
      <3>1. M # {}
        BY <2>1, NoSingleCircle
      <3> QED  BY <3>1
    <2>3. ASSUME NEW v \in M
          PROVE  \E x \in Requests : /\ x[1] = v /\ pre[x] \in Requests /\ pre[x][1] \in S
                                     /\ Live(x)
      <3>1. PICK i \in Slots(v) : \E r \in Requests : r = pre[<<v, i>>] /\ r[1] \in S
        BY DEF Waits
      <3>2. PICK x \in Requests : x = <<v, i>>
        BY RequestFacts
      <3>3. pre[x] \in Requests /\ pre[x][1] \in S
        BY <3>1, <3>2
      <3>4. Live(x)
        BY <2>1, <3>3, RequestFacts DEF CownInv, PreInv
      <3> QED  BY <3>2, <3>3, <3>4
    <2>4. ASSUME NEW v \in M
          PROVE  \E g \in Goroutines : \E k \in DOMAIN Prog[g] :
                   Prog[g][k].beh = v /\ Prog[g][k].op = "schedule"
      <3>1. PICK x \in Requests : x[1] = v /\ Live(x)
        BY <2>3
      <3>2. PICK g \in Goroutines : \E k \in DOMAIN Prog[g] :
              /\ Prog[g][k].beh = x[1]
              /\ Len(CownsOf[x[1]]) > 1 => Prog[g][k].op = "schedule"
        BY <2>1, <3>1, CallerOf
      <3>3. Len(CownsOf[v]) > 1
        OBVIOUS
      <3> QED  BY <3>1, <3>2, <3>3
    <2>5. PICK g \in Goroutines : \E k \in DOMAIN Prog[g] :
            Prog[g][k].beh = m /\ Prog[g][k].op = "schedule"
      BY <2>4
    <2> DEFINE C(v) == {k \in DOMAIN Prog[g] : Prog[g][k].beh = v /\ Prog[g][k].op = "schedule"}
               T == UNION {C(v) : v \in M}
    <2>6. ASSUME NEW v \in M  PROVE \E k \in DOMAIN Prog[g] : k \in C(v)
      <3>1. PICK h \in Goroutines : \E k \in DOMAIN Prog[h] :
              Prog[h][k].beh = v /\ Prog[h][k].op = "schedule"
        BY <2>4
      <3>2. Len(CownsOf[v]) > 1 /\ Len(CownsOf[m]) > 1
        OBVIOUS
      <3>3. h = g
        BY <2>5, <3>1, <3>2, MultiFromOneGoroutine DEF MultiFromOneGoroutine
      <3> QED  BY <3>1, <3>3
    <2>7. PICK k \in T : \A j \in T : k <= j
      <3>1. T \in SUBSET Nat
        BY CallPlace
      <3>2. T # {}
        BY <2>6
      <3> HIDE DEF T
      <3> QED  BY <3>1, <3>2, Least
    <2>8. PICK v \in M : k \in C(v)
      OBVIOUS
    <2>9. PICK x \in Requests : /\ x[1] = v /\ pre[x] \in Requests /\ pre[x][1] \in S
                                /\ Live(x)
      BY <2>3
    <2>10. PICK q \in Requests : /\ q[1] \in S /\ q[1] # x[1] /\ Len(CownsOf[q[1]]) > 1
                                 /\ CownOf(q) = CownOf(x) /\ Live(q)
                                 /\ ~ Ahead(x, q, CownOf(x))
      BY <2>1, <2>9, MultiAhead
    <2>11. PICK w \in M : w = q[1]
      BY <2>10
    <2>12. PICK l \in DOMAIN Prog[g] : l \in C(w)
      BY <2>6
    <2>13. k < l
      <3>1. k <= l
        BY <2>7, <2>12
      <3>2. k # l
        BY <2>8, <2>9, <2>10, <2>11, <2>12
      <3>3. k \in Nat /\ l \in Nat
        BY <2>8, CallPlace
      <3> QED  BY <3>1, <3>2, <3>3
    <2>14. Released(x) \/ Blocks(x, q)
      BY <2>1, <2>8, <2>9, <2>10, <2>11, <2>12, <2>13 DEF OrderInv
    <2> QED  BY <2>9, <2>10, <2>14 DEF Blocks, Live
  <1> QED  BY <1>1, LineInvHolds, PTL

-----------------------------------------------------------------------------
(* Refinement of BocQueue.                                                 *)

\* The owners of the requests of a line, as it grows and shrinks.
LEMMA OwnersOf ==
  ASSUME NEW s \in Seq(Requests)
  PROVE  /\ Owners(s) \in Seq(Behaviours) /\ Len(Owners(s)) = Len(s)
         /\ DOMAIN Owners(s) = 1..Len(s) /\ Len(s) \in Nat
         /\ \A k \in 1..Len(s) : Owners(s)[k] = s[k][1]
  <1>1. s \in [1..Len(s) -> Requests] /\ Len(s) \in Nat /\ DOMAIN s = 1..Len(s)
    OBVIOUS
  <1>2. Owners(s) \in [1..Len(s) -> Behaviours]
    BY <1>1, RequestFacts DEF Owners
  <1>3. \A k \in 1..Len(s) : Owners(s)[k] = s[k][1]
    BY <1>1 DEF Owners
  <1>4. Owners(s) \in Seq(Behaviours) /\ Len(Owners(s)) = Len(s)
    BY <1>1, <1>2
  <1> QED  BY <1>1, <1>2, <1>3, <1>4

\* Their owners, when a request joins at the end of a line,
LEMMA OwnersAppended ==
  ASSUME NEW s \in Seq(Requests), NEW e \in Requests
  PROVE  Owners(Append(s, e)) = Append(Owners(s), e[1])
  <1> DEFINE t == Append(s, e)
             n == Len(s)
             o == Owners(s)
             p == Owners(t)
  <1>1. /\ n \in Nat /\ t \in Seq(Requests) /\ Len(t) = n + 1 /\ t[n + 1] = e
        /\ \A k \in 1..n : t[k] = s[k]
    OBVIOUS
  <1> HIDE DEF n, t
  <1>2. /\ o \in Seq(Behaviours) /\ Len(o) = n /\ \A k \in 1..n : o[k] = s[k][1]
    BY OwnersOf DEF n
  <1>3. /\ p \in Seq(Behaviours) /\ Len(p) = n + 1 /\ \A k \in 1..n + 1 : p[k] = t[k][1]
    BY <1>1, OwnersOf
  <1> HIDE DEF o, p
  <1>4. e[1] \in Behaviours
    BY RequestFacts
  <1>5. /\ Append(o, e[1]) \in Seq(Behaviours) /\ Len(Append(o, e[1])) = n + 1
        /\ \A k \in 1..n + 1 : Append(o, e[1])[k] = IF k = n + 1 THEN e[1] ELSE o[k]
    BY <1>1, <1>2, <1>4
  <1>6. \A k \in 1..n + 1 : k = n + 1 \/ k \in 1..n
    BY <1>1
  <1>7. \A k \in 1..n + 1 : p[k] = Append(o, e[1])[k]
    BY <1>1, <1>2, <1>3, <1>5, <1>6
  <1>8. p = Append(o, e[1])
    BY <1>3, <1>5, <1>7
  <1> QED  BY <1>8 DEF p, t, o

\* ... when the first one leaves,
LEMMA OwnersReleased ==
  ASSUME NEW s \in Seq(Requests), s # <<>>
  PROVE  /\ Owners(Tail(s)) = Tail(Owners(s))
         /\ Owners(s) # <<>> /\ Head(Owners(s)) = s[1][1]
  <1> DEFINE t == Tail(s)
             n == Len(s)
             o == Owners(s)
             p == Owners(t)
  <1>1. /\ n \in Nat /\ n >= 1 /\ t \in Seq(Requests) /\ Len(t) = n - 1
        /\ \A k \in 1..n - 1 : t[k] = s[k + 1] /\ k + 1 \in 1..n
    OBVIOUS
  <1> HIDE DEF n, t
  <1>2. /\ o \in Seq(Behaviours) /\ Len(o) = n /\ \A k \in 1..n : o[k] = s[k][1]
    BY OwnersOf DEF n
  <1>3. /\ p \in Seq(Behaviours) /\ Len(p) = n - 1 /\ \A k \in 1..n - 1 : p[k] = t[k][1]
    BY <1>1, OwnersOf
  <1> HIDE DEF o, p
  <1>4. o # <<>> /\ Head(o) = s[1][1]
    BY <1>1, <1>2
  <1>5. /\ Tail(o) \in Seq(Behaviours) /\ Len(Tail(o)) = n - 1
        /\ \A k \in 1..n - 1 : Tail(o)[k] = o[k + 1]
    BY <1>1, <1>2, <1>4
  <1>6. \A k \in 1..n - 1 : p[k] = Tail(o)[k]
    BY <1>1, <1>2, <1>3, <1>5
  <1>7. p = Tail(o)
    BY <1>3, <1>5, <1>6
  <1> QED  BY <1>4, <1>7 DEF p, t, o

\* ... and when one joins behind the first.
LEMMA OwnersInserted ==
  ASSUME NEW s \in Seq(Requests), s # <<>>, NEW e \in Requests
  PROVE  Owners(<<s[1], e>> \o Tail(s)) = <<s[1][1], e[1]>> \o Tail(Owners(s))
  <1> DEFINE u == Tail(s)
             t == <<s[1], e>> \o u
             n == Len(s)
             o == Owners(u)
             p == Owners(t)
             v == <<s[1][1], e[1]>> \o o
  <1>1. /\ n \in Nat /\ n >= 1 /\ u \in Seq(Requests) /\ Len(u) = n - 1 /\ s[1] \in Requests
    OBVIOUS
  <1> HIDE DEF n, u
  <1>2. <<s[1], e>> \in Seq(Requests) /\ Len(<<s[1], e>>) = 2
    BY <1>1
  <1>3. /\ t \in Seq(Requests) /\ Len(t) = n + 1
        /\ \A k \in 1..n + 1 : t[k] = IF k <= 2 THEN <<s[1], e>>[k] ELSE u[k - 2]
    BY <1>1, <1>2
  <1> HIDE DEF t
  <1>4. /\ o \in Seq(Behaviours) /\ Len(o) = n - 1 /\ \A k \in 1..n - 1 : o[k] = u[k][1]
    BY <1>1, OwnersOf
  <1>5. /\ p \in Seq(Behaviours) /\ Len(p) = n + 1 /\ \A k \in 1..n + 1 : p[k] = t[k][1]
    BY <1>3, OwnersOf
  <1> HIDE DEF o, p
  <1>6. /\ s[1][1] \in Behaviours /\ e[1] \in Behaviours
        /\ <<s[1][1], e[1]>> \in Seq(Behaviours) /\ Len(<<s[1][1], e[1]>>) = 2
    BY <1>1, RequestFacts
  <1>7. /\ v \in Seq(Behaviours) /\ Len(v) = n + 1
        /\ \A k \in 1..n + 1 : v[k] = IF k <= 2 THEN <<s[1][1], e[1]>>[k] ELSE o[k - 2]
    BY <1>1, <1>4, <1>6
  <1> HIDE DEF v
  <1>8. ASSUME NEW k \in 1..n + 1  PROVE p[k] = v[k]
    <2>1. CASE k = 1
      BY <1>1, <1>3, <1>5, <1>7, <2>1
    <2>2. CASE k = 2
      BY <1>1, <1>3, <1>5, <1>7, <2>2
    <2>3. CASE k > 2
      <3>1. k - 2 \in 1..n - 1 /\ ~ (k <= 2)
        BY <1>1, <2>3
      <3> QED  BY <1>3, <1>4, <1>5, <1>7, <3>1
    <2> QED  BY <1>1, <2>1, <2>2, <2>3
  <1>9. p = v
    BY <1>5, <1>7, <1>8
  <1>10. o = Tail(Owners(s))
    BY OwnersReleased DEF o, u
  <1> QED  BY <1>9, <1>10 DEF p, v, t, u

\* The queues after a step, from the lines after it.
LEMMA QueuesAfter ==
  ASSUME NEW M, \A c \in Cowns : Line(c)' = M[c]
  PROVE  Queues' = [c \in Cowns |-> Owners(M[c])]
  <1>1. ASSUME NEW c \in Cowns  PROVE Owners(Line(c))' = Owners(M[c])
    <2>1. PICK s : s = M[c]
      OBVIOUS
    <2>2. Line(c)' = s
      BY <2>1
    <2> QED  BY <2>1, <2>2 DEF Owners
  <1> QED  BY <1>1 DEF Queues

\* No line moves.
LEMMA QueuesKept ==
  ASSUME \A c \in Cowns : Line(c)' = Line(c)
  PROVE  Queues' = Queues
  <1>1. PICK L : L = [c \in Cowns |-> Line(c)]
    OBVIOUS
  <1>2. Queues' = [c \in Cowns |-> Owners(L[c])]
    BY <1>1, QueuesAfter
  <1>3. \A c \in Cowns : Owners(L[c]) = Owners(Line(c))
    BY <1>1
  <1> QED  BY <1>2, <1>3 DEF Queues

\* One line moves.
LEMMA QueuesChange ==
  ASSUME NEW c \in Cowns, NEW t, Line(c)' = t, \A d \in Cowns \ {c} : Line(d)' = Line(d)
  PROVE  Queues' = [Queues EXCEPT ![c] = Owners(t)]
  <1>1. PICK M : M = [d \in Cowns |-> IF d = c THEN t ELSE Line(d)]
    OBVIOUS
  <1>2. Queues' = [d \in Cowns |-> Owners(M[d])]
    BY <1>1, QueuesAfter
  <1>3. \A d \in Cowns : Owners(M[d]) = IF d = c THEN Owners(t) ELSE Owners(Line(d))
    BY <1>1
  <1> QED  BY <1>2, <1>3 DEF Queues

\* A behaviour none of whose requests joins, and that is not taken further
\* than its launch, stays in its phase.
LEMMA PhaseKept ==
  ASSUME CownInv, NEW w \in Behaviours, RunsKept({w}),
         \A q \in Requests : q[1] = w => Queued(q)' = Queued(q)
  PROVE  PhaseOf(w)' = PhaseOf(w)
  <1>1. runPc[w] = "idle" => runIdx[w] = 1
    BY DEF CownInv, RunInv, RunOK
  <1>2. \A i \in Slots(w) : Queued(<<w, i>>)' = Queued(<<w, i>>)
    BY RequestFacts
  <1>3. /\ runIdx'[w] = runIdx[w]
        /\ runPc'[w] = runPc[w] \/ (runPc[w] = "idle" /\ runPc'[w] = "setcur")
    BY DEF RunsKept
  <1>4. CASE runPc'[w] = runPc[w]
    BY <1>2, <1>3, <1>4 DEF PhaseOf
  <1>5. CASE runPc[w] = "idle" /\ runPc'[w] = "setcur"
    BY <1>1, <1>2, <1>3, <1>5 DEF PhaseOf
  <1> QED  BY <1>3, <1>4, <1>5

\* A behaviour is new as long as none of its requests is in a line, and waits
\* from the first one until it starts.
LEMMA PhaseIdle ==
  ASSUME CownInv, NEW w \in Behaviours, runPc[w] = "idle"
  PROVE  PhaseOf(w) = IF \E i \in Slots(w) : Queued(<<w, i>>) THEN "waiting" ELSE "new"
  BY DEF PhaseOf

\* A behaviour waits once a request of its joins.
LEMMA PhaseJoins ==
  ASSUME CownInv, NEW r \in Requests, runPc[r[1]] = "idle", RunsKept({r[1]}), Live(r)'
  PROVE  PhaseOf(r[1])' = "waiting"
  <1>1. PICK w \in Behaviours : w = r[1]
    BY RequestFacts
  <1>2. PICK i \in Slots(w) : r = <<w, i>>
    BY <1>1, RequestFacts
  <1>3. Queued(<<w, i>>)'
    BY <1>2 DEF Live
  <1>4. runIdx[w] = 1
    BY <1>1 DEF CownInv, RunInv, RunOK
  <1>5. runIdx'[w] = 1 /\ runPc'[w] \in {"idle", "setcur"}
    BY <1>1, <1>4 DEF RunsKept
  <1>6. PhaseOf(w)' = "waiting"
    BY <1>3, <1>5 DEF PhaseOf
  <1> QED  BY <1>1, <1>6

\* The phases after a step in which one behaviour changes its phase.
LEMMA PhasesChange ==
  ASSUME NEW b \in Behaviours, NEW x, PhaseOf(b)' = x,
         \A w \in Behaviours \ {b} : PhaseOf(w)' = PhaseOf(w)
  PROVE  Phases' = [Phases EXCEPT ![b] = x]
  BY DEF Phases

\* No behaviour changes its phase.
LEMMA PhasesKept ==
  ASSUME \A w \in Behaviours : PhaseOf(w)' = PhaseOf(w)
  PROVE  Phases' = Phases
  BY DEF Phases

\* The initial lines are the empty queues, and no behaviour has joined one.
LEMMA InitAbstract ==
  ASSUME Init
  PROVE  Abstract!Init
  <1>1. \A c \in Cowns : Line(c) = <<>>
    BY InitLines
  <1>2. Owners(<<>>) = <<>>
    <2>1. <<>> \in Seq(Requests) /\ Len(<<>>) = 0
      OBVIOUS
    <2>2. Owners(<<>>) \in Seq(Behaviours) /\ Len(Owners(<<>>)) = 0
      BY <2>1, OwnersOf
    <2> QED  BY <2>2
  <1>3. Queues = [c \in Cowns |-> <<>>]
    BY <1>1, <1>2 DEF Queues
  <1>4. \A w \in Behaviours : PhaseOf(w) = "new"
    BY DEF Init, PhaseOf, Queued
  <1>5. Phases = [b \in Behaviours |-> "new"]
    BY <1>4 DEF Phases
  <1> QED  BY <1>3, <1>5 DEF Abstract!Init

\* A step that moves no line and changes no phase is a stutter of BocQueue.
LEMMA QuietAbstract ==
  ASSUME CownInv, LinesExist, CownInv', Stays,
         \A w \in Behaviours : PhaseOf(w)' = PhaseOf(w)
  PROVE  UNCHANGED Abstract!vars
  <1>1. Queues' = Queues
    BY LinesStay, QueuesKept
  <1>2. Phases' = Phases
    BY PhasesKept
  <1> QED  BY <1>1, <1>2 DEF Abstract!vars

\* The behaviour that holds a cown is first in its queue.
LEMMA FirstInQueue ==
  ASSUME CownInv, LinesExist, NEW r \in Requests, Live(r), pre[r] = Nil
  PROVE  Abstract!IsFirst(r[1], CownOf(r))
  <1>1. PICK c \in Cowns : c = CownOf(r)
    BY RequestFacts
  <1>2. PICK s : s = Line(c)
    OBVIOUS
  <1>3. IsLine(s, c)
    BY <1>2 DEF LinesExist
  <1>4. PICK k \in DOMAIN s : s[k] = r
    BY <1>1, <1>3, LinePlaces
  <1>5. k = 1
    BY <1>3, <1>4, LinePlaces, RequestFacts
  <1>6. s \in Seq(Requests) /\ s # <<>>
    BY <1>3, <1>4, LinePlaces
  <1>7. Owners(s) # <<>> /\ Head(Owners(s)) = r[1]
    BY <1>4, <1>5, <1>6, OwnersReleased
  <1>8. Queues[c] = Owners(s)
    BY <1>2 DEF Queues
  <1> QED  BY <1>1, <1>7, <1>8 DEF Abstract!IsFirst

\* SetCurrent starts a behaviour that is first in the queues of all its cowns;
\* Close completes one.
LEMMA TurnAbstract ==
  ASSUME CownInv, LinesExist, CownInv', NEW b \in Behaviours, TurnMove(b)
  PROVE  [Abstract!Next]_(Abstract!vars)
  <1>1. Stays /\ RunsKept(Behaviours \ {b})
    BY DEF TurnMove
  <1>2. \A w \in Behaviours \ {b} : PhaseOf(w)' = PhaseOf(w)
    <2> SUFFICES ASSUME NEW w \in Behaviours \ {b}  PROVE PhaseOf(w)' = PhaseOf(w)
      OBVIOUS
    <2>1. RunsKept({w}) /\ \A q \in Requests : q[1] = w => Queued(q)' = Queued(q)
      BY <1>1 DEF RunsKept, Stays
    <2> QED  BY <2>1, PhaseKept
  <1>3. Queues' = Queues
    BY <1>1, LinesStay, QueuesKept
  <1>4. Phases[b] = PhaseOf(b)
    BY DEF Phases
  <1>5. CASE PhaseOf(b)' = PhaseOf(b)
    <2>1. UNCHANGED Abstract!vars
      BY <1>1, <1>2, <1>5, QuietAbstract
    <2> QED  BY <2>1
  <1>6. CASE runPc[b] = "setcur" /\ PhaseOf(b) = "waiting" /\ PhaseOf(b)' = "running"
    <2>1. Phases' = [Phases EXCEPT ![b] = "running"]
      BY <1>2, <1>6, PhasesChange
    <2>2. ASSUME NEW c \in Abstract!Needs(b)  PROVE Abstract!IsFirst(b, c)
      <3>1. PICK i \in Slots(b) : c = CownsOf[b][i]
        BY DEF Abstract!Needs, Slots
      <3>2. PICK r \in Requests : r = <<b, i>> /\ CownOf(r) = c
        BY <3>1, RequestFacts
      <3>3. Holds(b, i)
        BY <1>6 DEF Holds, Released
      <3>4. Live(r) /\ pre[r] = Nil /\ r[1] = b
        BY <3>2, <3>3, Holders
      <3> QED  BY <3>2, <3>4, FirstInQueue
    <2>3. Abstract!Start(b)
      BY <1>3, <1>4, <1>6, <2>1, <2>2 DEF Abstract!Start
    <2> QED  BY <2>3 DEF Abstract!Next
  <1>7. CASE PhaseOf(b) = "running" /\ PhaseOf(b)' = "completed"
    <2>1. Phases' = [Phases EXCEPT ![b] = "completed"]
      BY <1>2, <1>7, PhasesChange
    <2>2. Abstract!Complete(b)
      BY <1>3, <1>4, <1>7, <2>1 DEF Abstract!Complete
    <2> QED  BY <2>2 DEF Abstract!Next
  <1> QED  BY <1>5, <1>6, <1>7 DEF TurnMove

\* releaseCown, with the cowns still held, is a release from the front.
LEMMA ReleaseAbstract ==
  ASSUME CownInv, LinesExist, CownInv', NEW b \in Behaviours, ReleaseMove(b)
  PROVE  \E c \in Cowns : Abstract!Release(b, c)
  <1>1. PICK r \in Requests : r[1] = b /\ Releases(r)
    BY DEF ReleaseMove, Releases
  <1>2. PICK c \in Cowns : c = CownOf(r)
    BY <1>1, RequestFacts
  <1>3. PICK s : s = Line(c)
    OBVIOUS
  <1>4. s \in Seq(Requests) /\ s # <<>>
    BY <1>1, <1>2, <1>3, LineReleases, LinePlaces DEF LinesExist
  <1>5. Line(c)' = Tail(s) /\ \A d \in Cowns \ {c} : Line(d)' = Line(d)
    BY <1>1, <1>2, <1>3, LineReleases
  <1>6. Queues' = [Queues EXCEPT ![c] = Owners(Tail(s))]
    BY <1>5, QueuesChange
  <1>7. Queues[c] = Owners(s) /\ Owners(Tail(s)) = Tail(Owners(s))
    BY <1>3, <1>4, OwnersReleased DEF Queues
  <1>8. Phases[b] = "completed" /\ Phases' = Phases
    <2>1. \A w \in Behaviours \ {b} : PhaseOf(w)' = PhaseOf(w)
      <3> SUFFICES ASSUME NEW w \in Behaviours \ {b}  PROVE PhaseOf(w)' = PhaseOf(w)
        OBVIOUS
      <3>1. RunsKept({w}) /\ \A q \in Requests : q[1] = w => Queued(q)' = Queued(q)
        BY <1>1 DEF RunsKept, ReleaseMove, Releases
      <3> QED  BY <3>1, PhaseKept
    <2>2. PhaseOf(b) = "completed" /\ PhaseOf(b)' = "completed"
      BY DEF ReleaseMove
    <2>3. \A w \in Behaviours : PhaseOf(w)' = PhaseOf(w)
      BY <2>1, <2>2
    <2>4. Phases[b] = "completed"
      BY <2>2 DEF Phases
    <2> QED  BY <2>3, <2>4, PhasesKept
  <1>9. Abstract!IsFirst(b, c)
    BY <1>1, <1>2, FirstInQueue DEF Releases
  <1> QED  BY <1>6, <1>7, <1>8, <1>9 DEF Abstract!Release

\* The Swap of enqueueCown joins the queue of a cown in which the behaviour
\* does not stand yet, its cowns being different ones.
LEMMA JoinAbstract ==
  ASSUME CownInv, LinesExist, CownInv', DistinctCowns, NEW b \in Behaviours, JoinMove(b)
  PROVE  \E c \in Cowns : Abstract!Join(b, c)
  <1>1. PICK r \in Requests : r[1] = b /\ Appends(r)
    BY DEF JoinMove, Appends
  <1>2. PICK c \in Cowns : c = CownOf(r)
    BY <1>1, RequestFacts
  <1>3. PICK i \in Slots(b) : r = <<b, i>> /\ c = CownsOf[b][i]
    BY <1>1, <1>2, RequestFacts
  <1>4. PICK s : s = Line(c)
    OBVIOUS
  <1>5. s \in Seq(Requests) /\ IsLine(s, c)
    BY <1>4, LinePlaces DEF LinesExist
  <1>6. Line(c)' = Append(s, r) /\ \A d \in Cowns \ {c} : Line(d)' = Line(d)
    BY <1>1, <1>2, <1>4, LineAppends
  <1>7. Queues' = [Queues EXCEPT ![c] = Owners(Append(s, r))]
    BY <1>6, QueuesChange
  <1>8. Queues[c] = Owners(s) /\ Owners(Append(s, r)) = Append(Owners(s), b)
    BY <1>1, <1>4, <1>5, OwnersAppended DEF Queues
  <1>9. ~Queued(r) /\ runPc[b] = "idle"
    BY <1>1, Standing DEF Appends
  <1>10. Phases[b] \in {"new", "waiting"}
    BY <1>9, PhaseIdle DEF Phases
  <1>11. Phases' = [Phases EXCEPT ![b] = "waiting"]
    <2>1. RunsKept(Behaviours)
      BY DEF JoinMove
    <2>2. PhaseOf(b)' = "waiting"
      <3>1. RunsKept({b}) /\ Live(r)'
        BY <1>1, <2>1 DEF RunsKept, Appends
      <3> QED  BY <1>1, <1>9, <3>1, PhaseJoins
    <2>3. ASSUME NEW w \in Behaviours \ {b}  PROVE PhaseOf(w)' = PhaseOf(w)
      <3>1. RunsKept({w}) /\ \A q \in Requests : q[1] = w => Queued(q)' = Queued(q)
        BY <1>1, <2>1 DEF RunsKept, Appends
      <3> QED  BY <3>1, PhaseKept
    <2> QED  BY <2>2, <2>3, PhasesChange
  <1>12. c \in Abstract!Needs(b)
    BY <1>3 DEF Abstract!Needs, Slots
  <1>13. ~Abstract!InQueue(b, c)
    <2> SUFFICES ASSUME NEW k \in DOMAIN Owners(s), Owners(s)[k] = b  PROVE FALSE
      BY <1>8 DEF Abstract!InQueue
    <2>1. k \in DOMAIN s /\ s[k][1] = b
      BY <1>5, OwnersOf, LinePlaces
    <2>2. PICK q \in Requests : q = s[k] /\ q[1] = b /\ Live(q) /\ CownOf(q) = c
      BY <1>5, <2>1, LinePlaces
    <2>3. PICK j \in Slots(b) : q = <<b, j>> /\ CownsOf[b][j] = c
      BY <2>2, RequestFacts
    <2>4. j = i
      BY <1>3, <2>3 DEF DistinctCowns, IsInjective, Slots
    <2> QED  BY <1>3, <1>9, <2>2, <2>3, <2>4 DEF Live
  <1> QED  BY <1>7, <1>8, <1>10, <1>11, <1>12, <1>13 DEF Abstract!Join

\* A successful compare-and-swap of insertSuccessor joins the queue directly
\* behind the running caller.
LEMMA InsertAbstract ==
  ASSUME CownInv, LinesExist, CownInv', NEW b \in Behaviours, InsertMove(b)
  PROVE  \E p \in Behaviours, c \in Cowns : Abstract!JoinBehind(p, b, c)
  <1>1. PICK h, r \in Requests : h = at[b] /\ r = <<b, 1>> /\ Inserts(h, r)
    BY DEF InsertMove
  <1>2. PICK c \in Cowns : c = CownOf(r)
    BY RequestFacts
  <1>3. PICK p \in Behaviours : p = h[1]
    BY RequestFacts
  <1>4. PICK s : s = Line(c)
    OBVIOUS
  <1>5. s \in Seq(Requests) /\ s # <<>> /\ s[1] = h
    BY <1>1, <1>2, <1>4, LineInserts, LinePlaces DEF LinesExist
  <1>6. Line(c)' = <<h, r>> \o Tail(s) /\ \A d \in Cowns \ {c} : Line(d)' = Line(d)
    BY <1>1, <1>2, <1>4, LineInserts
  <1>7. Queues' = [Queues EXCEPT ![c] = Owners(<<h, r>> \o Tail(s))]
    BY <1>6, QueuesChange
  <1>8. Queues[c] = Owners(s) /\ Owners(<<h, r>> \o Tail(s)) = <<p, b>> \o Tail(Owners(s))
    <2>1. r[1] = b
      BY <1>1
    <2> QED  BY <1>3, <1>4, <1>5, <2>1, OwnersInserted DEF Queues
  <1>9. r[1] = b /\ ~Queued(r) /\ runPc[b] = "idle" /\ Slots(b) = {1}
    BY <1>1, Standing DEF Inserts, InsertMove
  <1>10. Phases[b] = "new"
    <2>1. ~ (\E i \in Slots(b) : Queued(<<b, i>>))
      BY <1>1, <1>9
    <2> QED  BY <1>9, <2>1, PhaseIdle DEF Phases
  <1>11. Phases' = [Phases EXCEPT ![b] = "waiting"]
    <2>1. RunsKept(Behaviours)
      BY DEF InsertMove
    <2>2. PhaseOf(b)' = "waiting"
      <3>1. RunsKept({b}) /\ Live(r)'
        BY <1>1, <2>1 DEF RunsKept, Inserts
      <3> QED  BY <1>9, <3>1, PhaseJoins
    <2>3. ASSUME NEW w \in Behaviours \ {b}  PROVE PhaseOf(w)' = PhaseOf(w)
      <3>1. RunsKept({w}) /\ \A q \in Requests : q[1] = w => Queued(q)' = Queued(q)
        BY <1>1, <1>9, <2>1 DEF RunsKept, Inserts
      <3> QED  BY <3>1, PhaseKept
    <2> QED  BY <2>2, <2>3, PhasesChange
  <1>12. Abstract!Needs(b) = {c}
    BY <1>1, <1>2, <1>9 DEF Abstract!Needs, Slots, CownOf
  <1>13. Phases[p] = "running"
    BY <1>1, <1>3 DEF InsertMove, Anchored, Phases, PhaseOf
  <1>14. Abstract!IsFirst(p, c)
    BY <1>1, <1>2, <1>3, FirstInQueue DEF Inserts
  <1> QED  BY <1>7, <1>8, <1>10, <1>11, <1>12, <1>13, <1>14 DEF Abstract!JoinBehind

\* Every step of the cowns is a step of the first-come queues or a stutter.
LEMMA MovesAbstract ==
  ASSUME CownInv, LinesExist, CownInv', DistinctCowns, Moves
  PROVE  [Abstract!Next]_(Abstract!vars)
  <1>1. CASE QuietMove
    <2>1. Stays /\ RunsKept(Behaviours)
      BY <1>1 DEF QuietMove
    <2>2. ASSUME NEW w \in Behaviours  PROVE PhaseOf(w)' = PhaseOf(w)
      <3>1. RunsKept({w}) /\ \A q \in Requests : q[1] = w => Queued(q)' = Queued(q)
        BY <2>1 DEF RunsKept, Stays
      <3> QED  BY <3>1, PhaseKept
    <2>3. UNCHANGED Abstract!vars
      BY <2>1, <2>2, QuietAbstract
    <2> QED  BY <2>3
  <1>2. ASSUME NEW b \in Behaviours, JoinMove(b)  PROVE Abstract!Next
    BY <1>2, JoinAbstract DEF Abstract!Next
  <1>3. ASSUME NEW b \in Behaviours, InsertMove(b)  PROVE Abstract!Next
    BY <1>3, InsertAbstract DEF Abstract!Next
  <1>4. ASSUME NEW b \in Behaviours, ReleaseMove(b)  PROVE Abstract!Next
    BY <1>4, ReleaseAbstract DEF Abstract!Next
  <1>5. ASSUME NEW b \in Behaviours, TurnMove(b)  PROVE [Abstract!Next]_(Abstract!vars)
    BY <1>5, TurnAbstract
  <1> QED  BY <1>1, <1>2, <1>3, <1>4, <1>5 DEF Moves

\* When the cowns of every call are different objects, cown.go implements one
\* first-come queue per cown, with insertion behind the running holder and
\* release from the front.
THEOREM CownImplementsBocQueue ==
  ASSUME DistinctCowns
  PROVE  Spec => ImplementsBocQueue
  <1>1. Init => Abstract!Init
    BY InitAbstract
  <1>2. LineInv /\ LineInv' /\ [Next]_vars => [Abstract!Next]_(Abstract!vars)
    BY StepMoves, MovesAbstract DEF LineInv
  <1> QED  BY <1>1, <1>2, LineInvHolds, PTL DEF Spec, ImplementsBocQueue, Abstract!SafeSpec
=============================================================================
