---------------------------- MODULE BocQueueProofs ----------------------------
(***************************************************************************)
(* Proofs about the queues the cowns promise: who runs holds every cown it *)
(* needs, and who joins a queue later starts later.                        *)
(***************************************************************************)
EXTENDS BocQueue, TLAPS

-----------------------------------------------------------------------------
(* The three ways a queue changes.                                         *)

\* The places of a queue.
LEMMA Places ==
  ASSUME TypeOK, NEW c \in Cowns
  PROVE  /\ queue[c] \in Seq(Behaviours)
         /\ DOMAIN queue[c] = 1 .. Len(queue[c]) /\ Len(queue[c]) \in Nat
         /\ \A k \in DOMAIN queue[c] : queue[c][k] \in Behaviours
         /\ \A b : IsFirst(b, c) <=> 1 \in DOMAIN queue[c] /\ queue[c][1] = b
  BY DEF TypeOK, IsFirst

\* A behaviour that joins stands behind everybody.
LEMMA Joined ==
  ASSUME TypeOK, NEW b \in Behaviours, NEW c \in Cowns,
         queue' = [queue EXCEPT ![c] = Append(queue[c], b)]
  PROVE  LET n == Len(queue[c]) + 1 IN
         /\ queue' \in [Cowns -> Seq(Behaviours)]
         /\ DOMAIN queue'[c] = 1 .. n /\ n \in Nat
         /\ \A k \in 1 .. n : queue'[c][k] = IF k = n THEN b ELSE queue[c][k]
         /\ \A d \in Cowns \ {c} : queue'[d] = queue[d]
  <1>1. queue[c] \in Seq(Behaviours) /\ DOMAIN queue = Cowns
    BY DEF TypeOK
  <1>2. /\ Append(queue[c], b) \in Seq(Behaviours)
        /\ Len(Append(queue[c], b)) = Len(queue[c]) + 1
        /\ \A k \in 1 .. Len(queue[c]) + 1 :
             Append(queue[c], b)[k] = IF k = Len(queue[c]) + 1 THEN b ELSE queue[c][k]
    BY <1>1
  <1>3. queue'[c] = Append(queue[c], b)
    BY <1>1
  <1> QED  BY <1>1, <1>2, <1>3 DEF TypeOK

\* A successor stands directly behind the holder.
LEMMA Inserted ==
  ASSUME TypeOK, NEW p \in Behaviours, NEW b \in Behaviours, NEW c \in Cowns,
         IsFirst(p, c), queue' = [queue EXCEPT ![c] = <<p, b>> \o Tail(queue[c])]
  PROVE  LET n == Len(queue[c]) + 1 IN
         /\ queue' \in [Cowns -> Seq(Behaviours)]
         /\ DOMAIN queue'[c] = 1 .. n /\ n \in Nat /\ n >= 2
         /\ queue'[c][1] = p /\ queue'[c][2] = b
         /\ \A k \in 3 .. n : queue'[c][k] = queue[c][k - 1]
         /\ \A d \in Cowns \ {c} : queue'[d] = queue[d]
  <1> DEFINE q == queue[c]
             t == Tail(q)
  <1>1. q \in Seq(Behaviours) /\ DOMAIN queue = Cowns /\ Len(q) \in Nat /\ Len(q) >= 1
        /\ q # <<>>
    BY DEF TypeOK, IsFirst
  <1>2. /\ t \in Seq(Behaviours) /\ Len(t) = Len(q) - 1
        /\ \A k \in 1 .. Len(q) - 1 : t[k] = q[k + 1]
    BY <1>1
  <1> HIDE DEF q, t
  <1>3. <<p, b>> \in Seq(Behaviours) /\ Len(<<p, b>>) = 2
    OBVIOUS
  <1>4. /\ <<p, b>> \o t \in Seq(Behaviours) /\ Len(<<p, b>> \o t) = Len(q) + 1
        /\ \A k \in 1 .. Len(q) + 1 :
             (<<p, b>> \o t)[k] = IF k <= 2 THEN <<p, b>>[k] ELSE t[k - 2]
    BY <1>1, <1>2, <1>3
  <1>5. queue'[c] = <<p, b>> \o t /\ queue' \in [Cowns -> Seq(Behaviours)]
    BY <1>1, <1>4 DEF TypeOK, q, t
  <1>6. ASSUME NEW k \in 3 .. Len(q) + 1  PROVE queue'[c][k] = q[k - 1]
    <2>1. k - 2 \in 1 .. Len(q) - 1 /\ (k - 2) + 1 = k - 1
      BY <1>1
    <2>2. queue'[c][k] = t[k - 2]
      BY <1>1, <1>4, <1>5
    <2> QED  BY <1>2, <2>1, <2>2
  <1> QED  BY <1>1, <1>4, <1>5, <1>6 DEF TypeOK, q

\* When the holder lets go everybody moves up.
LEMMA MovedUp ==
  ASSUME TypeOK, NEW c \in Cowns, queue[c] # <<>>,
         queue' = [queue EXCEPT ![c] = Tail(queue[c])]
  PROVE  LET n == Len(queue[c]) - 1 IN
         /\ queue' \in [Cowns -> Seq(Behaviours)]
         /\ DOMAIN queue'[c] = 1 .. n /\ n \in Nat
         /\ \A k \in 1 .. n : queue'[c][k] = queue[c][k + 1]
         /\ \A d \in Cowns \ {c} : queue'[d] = queue[d]
  <1>1. queue[c] \in Seq(Behaviours) /\ DOMAIN queue = Cowns
    BY DEF TypeOK
  <1>2. /\ Tail(queue[c]) \in Seq(Behaviours) /\ Len(Tail(queue[c])) = Len(queue[c]) - 1
        /\ Len(queue[c]) - 1 \in Nat
        /\ \A k \in 1 .. Len(queue[c]) - 1 : Tail(queue[c])[k] = queue[c][k + 1]
    BY <1>1
  <1>3. queue'[c] = Tail(queue[c])
    BY <1>1
  <1> QED  BY <1>1, <1>2, <1>3 DEF TypeOK

-----------------------------------------------------------------------------
(* The invariant.                                                          *)

\* Joining keeps the invariant.
LEMMA JoinKeepsInv ==
  ASSUME QueueInv, NEW b \in Behaviours, NEW c \in Cowns, Join(b, c)
  PROVE  QueueInv'
  <1>0. /\ TypeOK /\ RunningIsFirst /\ InQueueMeansJoined /\ OncePerQueue
        /\ phase[b] \in {"new", "waiting"} /\ c \in Needs(b)
        /\ \A k \in DOMAIN queue[c] : queue[c][k] # b
        /\ queue' = [queue EXCEPT ![c] = Append(queue[c], b)]
        /\ phase' = [phase EXCEPT ![b] = "waiting"]
    BY DEF QueueInv, Join, InQueue
  <1> DEFINE n == Len(queue[c]) + 1
  <1>1. /\ queue' \in [Cowns -> Seq(Behaviours)]
        /\ DOMAIN queue'[c] = 1 .. n /\ n \in Nat
        /\ \A k \in 1 .. n : queue'[c][k] = IF k = n THEN b ELSE queue[c][k]
        /\ \A d \in Cowns \ {c} : queue'[d] = queue[d]
    BY <1>0, Joined
  <1>2. DOMAIN queue[c] = 1 .. n - 1 /\ Len(queue[c]) \in Nat
    BY <1>0, Places
  <1> HIDE DEF n
  <1>3. /\ phase' \in [Behaviours -> {"new", "waiting", "running", "completed"}]
        /\ phase'[b] = "waiting"
        /\ \A v \in Behaviours \ {b} : phase'[v] = phase[v]
    BY <1>0 DEF TypeOK
  <1>4. TypeOK'
    BY <1>1, <1>3 DEF TypeOK
  <1>5. RunningIsFirst'
    <2> SUFFICES ASSUME NEW v \in Behaviours, phase'[v] = "running",
                        NEW d \in Cowns, d \in Needs(v)
                 PROVE  IsFirst(v, d)'
      BY DEF RunningIsFirst, Needs
    <2>1. IsFirst(v, d)
      BY <1>0, <1>3 DEF RunningIsFirst
    <2>2. 1 \in DOMAIN queue[d] /\ queue[d][1] = v
      BY <1>0, <2>1, Places
    <2>3. 1 \in DOMAIN queue'[d] /\ queue'[d][1] = v
      BY <1>1, <1>2, <2>2
    <2> QED  BY <1>1, <2>3 DEF IsFirst
  <1>6. InQueueMeansJoined'
    <2> SUFFICES ASSUME NEW d \in Cowns, NEW k \in DOMAIN queue'[d]
                 PROVE  phase'[queue'[d][k]] # "new" /\ d \in Needs(queue'[d][k])
      BY DEF InQueueMeansJoined, Needs
    <2>1. CASE d = c /\ k = n
      BY <1>0, <1>1, <1>3, <2>1
    <2>2. CASE d # c \/ k # n
      <3>1. k \in DOMAIN queue[d] /\ queue'[d][k] = queue[d][k] /\ queue[d][k] \in Behaviours
        BY <1>0, <1>1, <1>2, <2>2, Places
      <3> QED  BY <1>0, <1>3, <3>1 DEF InQueueMeansJoined
    <2> QED  BY <2>1, <2>2
  <1>7. OncePerQueue'
    BY <1>0, <1>1, <1>2 DEF OncePerQueue
  <1> QED  BY <1>4, <1>5, <1>6, <1>7 DEF QueueInv

\* Inserting a successor keeps the invariant.
LEMMA JoinBehindKeepsInv ==
  ASSUME QueueInv, NEW p \in Behaviours, NEW b \in Behaviours, NEW c \in Cowns,
         JoinBehind(p, b, c)
  PROVE  QueueInv'
  <1>0. /\ TypeOK /\ RunningIsFirst /\ InQueueMeansJoined /\ OncePerQueue
        /\ IsFirst(p, c) /\ phase[b] = "new" /\ Needs(b) = {c}
        /\ queue' = [queue EXCEPT ![c] = <<p, b>> \o Tail(queue[c])]
        /\ phase' = [phase EXCEPT ![b] = "waiting"]
    BY DEF QueueInv, JoinBehind
  <1> DEFINE n == Len(queue[c]) + 1
  <1>1. /\ queue' \in [Cowns -> Seq(Behaviours)]
        /\ DOMAIN queue'[c] = 1 .. n /\ n \in Nat /\ n >= 2
        /\ queue'[c][1] = p /\ queue'[c][2] = b
        /\ \A k \in 3 .. n : queue'[c][k] = queue[c][k - 1]
        /\ \A d \in Cowns \ {c} : queue'[d] = queue[d]
    BY <1>0, Inserted
  <1>2. /\ DOMAIN queue[c] = 1 .. n - 1 /\ Len(queue[c]) \in Nat /\ queue[c][1] = p
        /\ \A k \in DOMAIN queue[c] : queue[c][k] # b
    BY <1>0, Places DEF InQueueMeansJoined
  <1> HIDE DEF n
  <1>3. /\ phase' \in [Behaviours -> {"new", "waiting", "running", "completed"}]
        /\ phase'[b] = "waiting"
        /\ \A v \in Behaviours \ {b} : phase'[v] = phase[v]
    BY <1>0 DEF TypeOK
  <1>4. TypeOK'
    BY <1>1, <1>3 DEF TypeOK
  <1>5. RunningIsFirst'
    <2> SUFFICES ASSUME NEW v \in Behaviours, phase'[v] = "running",
                        NEW d \in Cowns, d \in Needs(v)
                 PROVE  IsFirst(v, d)'
      BY DEF RunningIsFirst, Needs
    <2>1. IsFirst(v, d)
      BY <1>0, <1>3 DEF RunningIsFirst
    <2>2. 1 \in DOMAIN queue[d] /\ queue[d][1] = v
      BY <1>0, <2>1, Places
    <2>3. 1 \in DOMAIN queue'[d] /\ queue'[d][1] = v
      BY <1>1, <1>2, <2>2
    <2> QED  BY <1>1, <2>3 DEF IsFirst
  <1>6. InQueueMeansJoined'
    <2> SUFFICES ASSUME NEW d \in Cowns, NEW k \in DOMAIN queue'[d]
                 PROVE  phase'[queue'[d][k]] # "new" /\ d \in Needs(queue'[d][k])
      BY DEF InQueueMeansJoined, Needs
    <2>1. CASE d = c /\ k = 2
      BY <1>0, <1>1, <1>3, <2>1
    <2>2. CASE d # c \/ k # 2
      <3>1. PICK j \in DOMAIN queue[d] : queue'[d][k] = queue[d][j]
        <4>1. CASE d # c
          BY <1>1, <4>1
        <4>2. CASE d = c /\ k = 1
          BY <1>1, <1>2, <4>2
        <4>3. CASE d = c /\ k >= 3
          <5>1. k - 1 \in DOMAIN queue[d] /\ queue'[d][k] = queue[d][k - 1]
            BY <1>1, <1>2, <4>3
          <5> QED  BY <5>1
        <4> QED  BY <1>1, <2>2, <4>1, <4>2, <4>3
      <3>2. queue[d][j] \in Behaviours
        BY <1>0, Places
      <3> QED  BY <1>0, <1>3, <3>1, <3>2 DEF InQueueMeansJoined
    <2> QED  BY <2>1, <2>2
  <1>7. OncePerQueue'
    <2> SUFFICES ASSUME NEW d \in Cowns, NEW i \in DOMAIN queue'[d],
                        NEW j \in DOMAIN queue'[d], queue'[d][i] = queue'[d][j]
                 PROVE  i = j
      BY DEF OncePerQueue
    <2> DEFINE old(k) == IF k = 1 THEN 1 ELSE k - 1
    <2>1. CASE d # c
      BY <1>0, <1>1, <2>1 DEF OncePerQueue
    <2>2. CASE d = c
      <3>1. \A k \in 1 .. n : k # 2 => /\ old(k) \in DOMAIN queue[c]
                                       /\ queue'[c][k] = queue[c][old(k)]
        BY <1>1, <1>2
      <3>2. \A k \in 1 .. n : k # 2 => queue'[c][k] # b
        BY <1>2, <3>1
      <3>3. i \in 1 .. n /\ j \in 1 .. n /\ queue'[c][i] = queue'[c][j]
        BY <1>1, <2>2
      <3>4. CASE i = 2 \/ j = 2
        BY <1>1, <3>2, <3>3, <3>4
      <3>5. CASE i # 2 /\ j # 2
        <4>1. /\ old(i) \in DOMAIN queue[c] /\ old(j) \in DOMAIN queue[c]
              /\ queue[c][old(i)] = queue[c][old(j)]
          BY <3>1, <3>5, <3>3
        <4>2. old(i) = old(j)
          BY <1>0, <4>1 DEF OncePerQueue
        <4> QED  BY <1>1, <3>5, <3>3, <4>2
      <3> QED  BY <3>4, <3>5
    <2> QED  BY <2>1, <2>2
  <1> QED  BY <1>4, <1>5, <1>6, <1>7 DEF QueueInv

\* A step of the phases alone keeps the invariant.
LEMMA PhaseKeepsInv ==
  ASSUME QueueInv, NEW b \in Behaviours, Start(b) \/ Complete(b)
  PROVE  QueueInv'
  <1>0. TypeOK /\ RunningIsFirst /\ InQueueMeansJoined /\ OncePerQueue
    BY DEF QueueInv
  <1>1. /\ queue' = queue
        /\ phase' \in [Behaviours -> {"new", "waiting", "running", "completed"}]
        /\ phase'[b] # "new"
        /\ phase'[b] = "running" => \A c \in Needs(b) : IsFirst(b, c)
        /\ \A v \in Behaviours \ {b} : phase'[v] = phase[v]
    BY <1>0 DEF Start, Complete, TypeOK
  <1>2. TypeOK' /\ OncePerQueue'
    BY <1>0, <1>1 DEF TypeOK, OncePerQueue
  <1>3. RunningIsFirst'
    BY <1>0, <1>1 DEF RunningIsFirst, IsFirst, Needs
  <1>4. InQueueMeansJoined'
    <2> SUFFICES ASSUME NEW d \in Cowns, NEW k \in DOMAIN queue[d]
                 PROVE  phase'[queue[d][k]] # "new" /\ d \in Needs(queue[d][k])
      BY <1>1 DEF InQueueMeansJoined, Needs
    <2> QED  BY <1>0, <1>1, Places DEF InQueueMeansJoined
  <1> QED  BY <1>2, <1>3, <1>4 DEF QueueInv

\* Giving up a cown keeps the invariant.
LEMMA ReleaseKeepsInv ==
  ASSUME QueueInv, NEW b \in Behaviours, NEW c \in Cowns, Release(b, c)
  PROVE  QueueInv'
  <1>0. /\ TypeOK /\ RunningIsFirst /\ InQueueMeansJoined /\ OncePerQueue
        /\ phase[b] = "completed" /\ IsFirst(b, c) /\ queue[c] # <<>>
        /\ queue' = [queue EXCEPT ![c] = Tail(queue[c])]
        /\ phase' = phase
    BY DEF QueueInv, Release, IsFirst
  <1> DEFINE n == Len(queue[c]) - 1
  <1>1. /\ queue' \in [Cowns -> Seq(Behaviours)]
        /\ DOMAIN queue'[c] = 1 .. n /\ n \in Nat
        /\ \A k \in 1 .. n : queue'[c][k] = queue[c][k + 1]
        /\ \A d \in Cowns \ {c} : queue'[d] = queue[d]
    BY <1>0, MovedUp
  <1>2. DOMAIN queue[c] = 1 .. n + 1 /\ Len(queue[c]) \in Nat /\ queue[c][1] = b
    BY <1>0, Places
  <1> HIDE DEF n
  <1>3. TypeOK'
    BY <1>0, <1>1 DEF TypeOK
  <1>4. RunningIsFirst'
    <2> SUFFICES ASSUME NEW v \in Behaviours, phase[v] = "running",
                        NEW d \in Cowns, d \in Needs(v)
                 PROVE  IsFirst(v, d)'
      BY <1>0 DEF RunningIsFirst, Needs
    <2>1. IsFirst(v, d)
      BY <1>0 DEF RunningIsFirst
    <2>2. d # c
      BY <1>0, <1>2, <2>1, Places
    <2> QED  BY <1>1, <2>1, <2>2 DEF IsFirst
  <1>5. InQueueMeansJoined'
    <2> SUFFICES ASSUME NEW d \in Cowns, NEW k \in DOMAIN queue'[d]
                 PROVE  phase[queue'[d][k]] # "new" /\ d \in Needs(queue'[d][k])
      BY <1>0 DEF InQueueMeansJoined, Needs
    <2>1. PICK j \in DOMAIN queue[d] : queue'[d][k] = queue[d][j]
      <3>1. CASE d # c
        BY <1>1, <3>1
      <3>2. CASE d = c
        <4>1. k + 1 \in DOMAIN queue[d] /\ queue'[d][k] = queue[d][k + 1]
          BY <1>1, <1>2, <3>2
        <4> QED  BY <4>1
      <3> QED  BY <3>1, <3>2
    <2> QED  BY <1>0, <2>1 DEF InQueueMeansJoined
  <1>6. OncePerQueue'
    <2> SUFFICES ASSUME NEW d \in Cowns, NEW i \in DOMAIN queue'[d],
                        NEW j \in DOMAIN queue'[d], queue'[d][i] = queue'[d][j]
                 PROVE  i = j
      BY DEF OncePerQueue
    <2>1. CASE d # c
      BY <1>0, <1>1, <2>1 DEF OncePerQueue
    <2>2. CASE d = c
      <3>1. i + 1 \in DOMAIN queue[c] /\ j + 1 \in DOMAIN queue[c]
            /\ queue[c][i + 1] = queue[c][j + 1]
        BY <1>1, <1>2, <2>2
      <3>2. i + 1 = j + 1
        BY <1>0, <3>1 DEF OncePerQueue
      <3> QED  BY <1>1, <2>2, <3>2
    <2> QED  BY <2>1, <2>2
  <1> QED  BY <1>3, <1>4, <1>5, <1>6 DEF QueueInv

\* Every step keeps the invariant.
LEMMA NextKeepsQueueInv ==
  ASSUME QueueInv, [Next]_vars
  PROVE  QueueInv'
  <1>1. CASE UNCHANGED vars
    BY <1>1 DEF vars, QueueInv, TypeOK, RunningIsFirst, InQueueMeansJoined,
                OncePerQueue, IsFirst, Needs
  <1>2. CASE Next
    BY <1>2, JoinKeepsInv, JoinBehindKeepsInv, PhaseKeepsInv, ReleaseKeepsInv
       DEF Next
  <1> QED  BY <1>1, <1>2

-----------------------------------------------------------------------------
(* Order.                                                                  *)

\* Joining behind v: v stays before w.
LEMMA JoinKeepsBefore ==
  ASSUME TypeOK, NEW b \in Behaviours, NEW c \in Cowns, Join(b, c),
         NEW v, NEW w, NEW d \in Cowns, Before(v, w, d),
         b = w /\ d = c => InQueue(v, d)
  PROVE  Before(v, w, d)'
  <1> DEFINE n == Len(queue[c]) + 1
  <1>1. /\ DOMAIN queue'[c] = 1 .. n /\ n \in Nat
        /\ \A k \in 1 .. n : queue'[c][k] = IF k = n THEN b ELSE queue[c][k]
        /\ \A e \in Cowns \ {c} : queue'[e] = queue[e]
        /\ DOMAIN queue[c] = 1 .. n - 1
    <2>1. queue' = [queue EXCEPT ![c] = Append(queue[c], b)]
      BY DEF Join
    <2>2. DOMAIN queue[c] = 1 .. Len(queue[c]) /\ Len(queue[c]) \in Nat
      BY Places
    <2>3. Len(queue[c]) = n - 1
      BY <2>2
    <2> QED  BY <2>1, <2>2, <2>3, Joined
  <1> HIDE DEF n
  <1>2. CASE d # c
    BY <1>1, <1>2 DEF Before
  <1>3. CASE d = c
    <2> SUFFICES ASSUME NEW j \in DOMAIN queue'[c], queue'[c][j] = w
                 PROVE  \E i \in DOMAIN queue'[c] : i < j /\ queue'[c][i] = v
      BY <1>3 DEF Before
    <2>1. CASE j = n
      <3>1. PICK i \in DOMAIN queue[c] : queue[c][i] = v
        BY <1>1, <1>3, <2>1 DEF InQueue
      <3> QED  BY <1>1, <2>1, <3>1
    <2>2. CASE j # n
      <3>1. j \in DOMAIN queue[c] /\ queue[c][j] = w
        BY <1>1, <2>2
      <3>2. PICK i \in DOMAIN queue[c] : i < j /\ queue[c][i] = v
        BY <1>3, <3>1 DEF Before
      <3> QED  BY <1>1, <3>2
    <2> QED  BY <2>1, <2>2
  <1> QED  BY <1>2, <1>3

\* A successor other than w gets no one out of order.
LEMMA JoinBehindKeepsBefore ==
  ASSUME TypeOK, NEW p \in Behaviours, NEW b \in Behaviours, NEW c \in Cowns,
         JoinBehind(p, b, c), NEW v, NEW w, NEW d \in Cowns, Before(v, w, d),
         b = w /\ d = c => p = v
  PROVE  Before(v, w, d)'
  <1> DEFINE n == Len(queue[c]) + 1
  <1>1. /\ DOMAIN queue'[c] = 1 .. n /\ n \in Nat /\ n >= 2
        /\ queue'[c][1] = p /\ queue'[c][2] = b
        /\ \A k \in 3 .. n : queue'[c][k] = queue[c][k - 1]
        /\ \A e \in Cowns \ {c} : queue'[e] = queue[e]
        /\ DOMAIN queue[c] = 1 .. n - 1 /\ queue[c][1] = p
    <2>1. IsFirst(p, c) /\ queue' = [queue EXCEPT ![c] = <<p, b>> \o Tail(queue[c])]
      BY DEF JoinBehind
    <2>2. DOMAIN queue[c] = 1 .. Len(queue[c]) /\ Len(queue[c]) \in Nat /\ queue[c][1] = p
      BY <2>1, Places
    <2>3. Len(queue[c]) = n - 1
      BY <2>2
    <2>4. /\ DOMAIN queue'[c] = 1 .. n /\ n \in Nat /\ n >= 2
          /\ queue'[c][1] = p /\ queue'[c][2] = b
          /\ \A k \in 3 .. n : queue'[c][k] = queue[c][k - 1]
          /\ \A e \in Cowns \ {c} : queue'[e] = queue[e]
      BY <2>1, Inserted
    <2> HIDE DEF n
    <2> QED  BY <2>2, <2>3, <2>4
  <1> HIDE DEF n
  <1>2. CASE d # c
    BY <1>1, <1>2 DEF Before
  <1>3. CASE d = c
    <2> SUFFICES ASSUME NEW j \in DOMAIN queue'[c], queue'[c][j] = w
                 PROVE  \E i \in DOMAIN queue'[c] : i < j /\ queue'[c][i] = v
      BY <1>3 DEF Before
    <2>1. CASE j = 1
      BY <1>1, <1>3, <2>1 DEF Before
    <2>2. CASE j = 2
      BY <1>1, <1>3, <2>2
    <2>3. CASE j >= 3
      <3>1. j - 1 \in DOMAIN queue[c] /\ queue[c][j - 1] = w
        BY <1>1, <2>3
      <3>2. PICK i \in DOMAIN queue[c] : i < j - 1 /\ queue[c][i] = v
        BY <1>3, <3>1 DEF Before
      <3>3. CASE i = 1
        BY <1>1, <2>3, <3>2, <3>3
      <3>4. CASE i # 1
        <4>1. i + 1 \in 3 .. n /\ i + 1 < j /\ (i + 1) - 1 = i
          BY <1>1, <3>2, <3>4
        <4>2. queue'[c][i + 1] = v
          BY <1>1, <3>2, <4>1
        <4> QED  BY <1>1, <4>1, <4>2
      <3> QED  BY <3>3, <3>4
    <2> QED  BY <1>1, <2>1, <2>2, <2>3
  <1> QED  BY <1>2, <1>3

\* Only v itself can give up its place before w.
LEMMA ReleaseKeepsBefore ==
  ASSUME TypeOK, NEW b \in Behaviours, NEW c \in Cowns, Release(b, c),
         NEW v, NEW w, NEW d \in Cowns, Before(v, w, d), b # v
  PROVE  Before(v, w, d)'
  <1> DEFINE n == Len(queue[c]) - 1
  <1>1. /\ DOMAIN queue'[c] = 1 .. n /\ n \in Nat
        /\ \A k \in 1 .. n : queue'[c][k] = queue[c][k + 1]
        /\ \A e \in Cowns \ {c} : queue'[e] = queue[e]
        /\ DOMAIN queue[c] = 1 .. n + 1 /\ queue[c][1] = b
    <2>1. /\ IsFirst(b, c) /\ queue[c] # <<>>
          /\ queue' = [queue EXCEPT ![c] = Tail(queue[c])]
      BY DEF Release, IsFirst
    <2>2. DOMAIN queue[c] = 1 .. Len(queue[c]) /\ Len(queue[c]) \in Nat /\ queue[c][1] = b
      BY <2>1, Places
    <2>3. Len(queue[c]) = n + 1
      BY <2>2
    <2> QED  BY <2>1, <2>2, <2>3, MovedUp
  <1> HIDE DEF n
  <1>2. CASE d # c
    BY <1>1, <1>2 DEF Before
  <1>3. CASE d = c
    <2> SUFFICES ASSUME NEW j \in DOMAIN queue'[c], queue'[c][j] = w
                 PROVE  \E i \in DOMAIN queue'[c] : i < j /\ queue'[c][i] = v
      BY <1>3 DEF Before
    <2>1. j + 1 \in DOMAIN queue[c] /\ queue[c][j + 1] = w
      BY <1>1
    <2>2. PICK i \in DOMAIN queue[c] : i < j + 1 /\ queue[c][i] = v
      BY <1>3, <2>1 DEF Before
    <2>3. i - 1 \in 1 .. n /\ i - 1 < j /\ (i - 1) + 1 = i
      BY <1>1, <2>2
    <2> QED  BY <1>1, <2>2, <2>3
  <1> QED  BY <1>2, <1>3

\* Whoever joins the queue of c after v stays behind v until v has completed.
LEMMA NextKeepsBefore ==
  ASSUME QueueInv, [Next]_vars, NEW v \in Behaviours, NEW w \in Behaviours,
         NEW c \in Cowns, Before(v, w, c), phase[v] # "completed",
         Join(w, c) => InQueue(v, c),
         \A p \in Behaviours : JoinBehind(p, w, c) => p = v
  PROVE  Before(v, w, c)'
  <1>0. TypeOK
    BY DEF QueueInv
  <1>1. CASE UNCHANGED queue
    BY <1>1 DEF Before
  <1>2. ASSUME NEW b \in Behaviours, NEW d \in Cowns, Join(b, d)
        PROVE  Before(v, w, c)'
    BY <1>0, <1>2, JoinKeepsBefore
  <1>3. ASSUME NEW b \in Behaviours, NEW d \in Cowns, Release(b, d)
        PROVE  Before(v, w, c)'
    BY <1>0, <1>3, ReleaseKeepsBefore DEF Release
  <1>4. ASSUME NEW p \in Behaviours, NEW b \in Behaviours, NEW d \in Cowns,
               JoinBehind(p, b, d)
        PROVE  Before(v, w, c)'
    BY <1>0, <1>4, JoinBehindKeepsBefore
  <1> QED
    BY <1>1, <1>2, <1>3, <1>4 DEF Next, Start, Complete, vars

\* Who has joined a queue stays in it until it has completed.
LEMMA NextKeepsInQueue ==
  ASSUME QueueInv, [Next]_vars, NEW v, NEW c \in Cowns, InQueue(v, c), phase[v] # "completed"
  PROVE  InQueue(v, c)'
  <1>0. TypeOK
    BY DEF QueueInv
  <1>1. PICK k \in DOMAIN queue[c] : queue[c][k] = v
    BY DEF InQueue
  <1>2. CASE UNCHANGED queue
    BY <1>2 DEF InQueue
  <1>3. ASSUME NEW b \in Behaviours, NEW d \in Cowns, Join(b, d)
        PROVE  InQueue(v, c)'
    <2>1. queue' = [queue EXCEPT ![d] = Append(queue[d], b)]
      BY <1>3 DEF Join
    <2>2. CASE d = c
      <3>1. k \in 1 .. Len(queue[c]) /\ Len(queue[c]) \in Nat
        BY <1>0, <1>1, Places
      <3>2. k \in DOMAIN queue'[c] /\ queue'[c][k] = queue[c][k]
        BY <1>0, <2>1, <2>2, <3>1, Joined
      <3> QED  BY <1>1, <3>2 DEF InQueue
    <2>3. CASE d # c
      BY <1>0, <1>1, <2>1, <2>3, Joined DEF InQueue
    <2> QED  BY <2>2, <2>3
  <1>4. ASSUME NEW b \in Behaviours, NEW d \in Cowns, Release(b, d)
        PROVE  InQueue(v, c)'
    <2>1. /\ queue' = [queue EXCEPT ![d] = Tail(queue[d])] /\ queue[d] # <<>>
          /\ IsFirst(b, d) /\ b # v
      BY <1>4 DEF Release, IsFirst
    <2>2. CASE d = c
      <3>1. /\ k \in 1 .. Len(queue[c]) /\ Len(queue[c]) \in Nat /\ k # 1
            /\ k - 1 \in 1 .. Len(queue[c]) - 1 /\ (k - 1) + 1 = k
        BY <1>0, <1>1, <2>1, <2>2, Places
      <3>2. k - 1 \in DOMAIN queue'[c] /\ queue'[c][k - 1] = queue[c][k]
        BY <1>0, <2>1, <2>2, <3>1, MovedUp
      <3> QED  BY <1>1, <3>2 DEF InQueue
    <2>3. CASE d # c
      BY <1>0, <1>1, <2>1, <2>3, MovedUp DEF InQueue
    <2> QED  BY <2>2, <2>3
  <1>5. ASSUME NEW p \in Behaviours, NEW b \in Behaviours, NEW d \in Cowns,
               JoinBehind(p, b, d)
        PROVE  InQueue(v, c)'
    <2>1. IsFirst(p, d) /\ queue' = [queue EXCEPT ![d] = <<p, b>> \o Tail(queue[d])]
      BY <1>5 DEF JoinBehind
    <2>2. /\ DOMAIN queue'[d] = 1 .. Len(queue[d]) + 1 /\ queue'[d][1] = p
          /\ \A i \in 3 .. Len(queue[d]) + 1 : queue'[d][i] = queue[d][i - 1]
      BY <1>0, <2>1, Inserted
    <2>3. CASE d = c
      <3>1. k \in 1 .. Len(queue[c]) /\ Len(queue[c]) \in Nat /\ queue[c][1] = p
        BY <1>0, <1>1, <2>1, <2>3, Places
      <3>2. CASE k = 1
        <4>1. 1 \in DOMAIN queue'[c] /\ queue'[c][1] = p
          BY <2>3, <2>2, <3>1
        <4> QED  BY <1>1, <3>1, <3>2, <4>1 DEF InQueue
      <3>3. CASE k # 1
        <4>1. k + 1 \in 3 .. Len(queue[c]) + 1 /\ (k + 1) - 1 = k
          BY <3>1, <3>3
        <4>2. k + 1 \in DOMAIN queue'[c] /\ queue'[c][k + 1] = queue[c][k]
          BY <2>3, <2>2, <3>1, <4>1
        <4> QED  BY <1>1, <4>2 DEF InQueue
      <3> QED  BY <3>2, <3>3
    <2>4. CASE d # c
      BY <1>0, <1>1, <2>1, <2>4, Inserted DEF InQueue
    <2> QED  BY <2>3, <2>4
  <1> QED
    BY <1>2, <1>3, <1>4, <1>5 DEF Next, Start, Complete, vars

\* Whoever joins a queue is in it.
LEMMA JoinEnters ==
  ASSUME TypeOK, NEW b \in Behaviours, NEW c \in Cowns, Join(b, c)
  PROVE  InQueue(b, c)'
  <1>1. queue' = [queue EXCEPT ![c] = Append(queue[c], b)]
    BY DEF Join
  <1> DEFINE n == Len(queue[c]) + 1
  <1>2. DOMAIN queue'[c] = 1 .. n /\ n \in Nat /\ Len(queue[c]) \in Nat
    BY <1>1, Joined, Places
  <1>3. n \in 1 .. n
    BY <1>2
  <1>4. queue'[c][n] = b
    BY <1>1, <1>3, Joined
  <1> QED  BY <1>2, <1>3, <1>4 DEF InQueue

\* Only the first of all its queues starts.
LEMMA StartIsFirst ==
  ASSUME TypeOK, [Next]_vars, NEW b \in Behaviours,
         phase[b] \in {"new", "waiting"}, phase'[b] \notin {"new", "waiting"},
         NEW c \in Needs(b)
  PROVE  IsFirst(b, c)
  BY DEF TypeOK, Next, vars, Join, JoinBehind, Start, Complete, Release

\* Whoever has another one before it is not first.
LEMMA BehindIsNotFirst ==
  ASSUME TypeOK, NEW v, NEW w, NEW c \in Cowns, Before(v, w, c)
  PROVE  ~IsFirst(w, c)
  BY Places DEF Before

-----------------------------------------------------------------------------
(* The theorem.                                                            *)

\* The empty queues satisfy the invariant.
LEMMA InitQueueInv == Init => QueueInv
  BY DEF Init, QueueInv, TypeOK, RunningIsFirst, InQueueMeansJoined, OncePerQueue

\* Behaviours that need a common cown exclude each other, whatever joins the
\* queues in whatever order.
THEOREM QueuesExclude == SafeSpec => [](QueueInv /\ Exclusive)
  <1>1. QueueInv => Exclusive
    BY DEF QueueInv, RunningIsFirst, Exclusive, IsFirst
  <1> QED  BY <1>1, InitQueueInv, NextKeepsQueueInv, PTL DEF SafeSpec
=============================================================================
