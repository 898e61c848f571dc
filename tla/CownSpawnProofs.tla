---------------------------- MODULE CownSpawnProofs ----------------------------
(***************************************************************************)
(* Proofs that the cown queue keeps its invariant under every interleaving *)
(* of its atomic operations, for every set of cowns, behaviours and        *)
(* goroutines and every program they run.                                  *)
(***************************************************************************)
EXTENDS CownInvariant, FiniteSetTheorems, TLAPS

-----------------------------------------------------------------------------
(* Requests and slots.                                                     *)

\* Every behaviour lists at least one cown, and its slots are 1..n.
LEMMA SlotFacts ==
  ASSUME NEW b \in Behaviours
  PROVE  /\ Len(CownsOf[b]) \in Nat \ {0}
         /\ Slots(b) = 1..Len(CownsOf[b])
         /\ 1 \in Slots(b)
         /\ \A i \in Slots(b) : CownsOf[b][i] \in Cowns
  <1>1. CownsOf[b] \in Seq(Cowns) /\ CownsOf[b] # <<>>
    BY CownAssumption
  <1>2. Len(CownsOf[b]) \in Nat \ {0} /\ DOMAIN CownsOf[b] = 1..Len(CownsOf[b])
    BY <1>1
  <1> QED  BY <1>1, <1>2 DEF Slots

\* A request is a behaviour with one of its slots; nil is none.
LEMMA RequestFacts ==
  /\ \A b \in Behaviours : \A i \in Slots(b) :
       <<b, i>> \in Requests /\ CownOf(<<b, i>>) = CownsOf[b][i]
  /\ \A r \in Requests :
       /\ r[1] \in Behaviours /\ r[2] \in Slots(r[1]) /\ r = <<r[1], r[2]>>
       /\ CownOf(r) \in Cowns
  /\ Nil \notin Requests
  <1>1. \A b \in Behaviours : \A i \in Slots(b) :
          <<b, i>> \in Requests /\ CownOf(<<b, i>>) = CownsOf[b][i]
    BY DEF Requests, CownOf
  <1>2. \A r \in Requests :
          r[1] \in Behaviours /\ r[2] \in Slots(r[1]) /\ r = <<r[1], r[2]>>
    BY DEF Requests
  <1>3. \A r \in Requests : CownOf(r) \in Cowns
    BY <1>2, SlotFacts DEF CownOf
  <1>4. \A r \in Requests : r \in Behaviours \X Nat
    BY <1>2, SlotFacts
  <1> QED  BY <1>1, <1>2, <1>3, <1>4, CownAssumption

\* The calls of a program are records of Op.
LEMMA ProgFacts ==
  ASSUME NEW g \in Goroutines
  PROVE  /\ Len(Prog[g]) \in Nat
         /\ \A k \in 1..Len(Prog[g]) :
              /\ Prog[g][k].beh \in Behaviours
              /\ Prog[g][k] = [op |-> Prog[g][k].op, beh |-> Prog[g][k].beh]
         /\ \A k \in 1..Len(Prog[g]) : Prog[g][k].op = "successor" =>
              /\ Len(CownsOf[Prog[g][k].beh]) = 1
              /\ g \in Behaviours
              /\ \E i \in Slots(g) : CownsOf[g][i] = CownsOf[Prog[g][k].beh][1]
  <1>1. Prog[g] \in Seq(Op)
    BY CownAssumption
  <1>2. Len(Prog[g]) \in Nat /\ DOMAIN Prog[g] = 1..Len(Prog[g])
    BY <1>1
  <1>3. \A k \in 1..Len(Prog[g]) : Prog[g][k] \in Op
    BY <1>1, <1>2
  <1>4. \A o \in Op : o.beh \in Behaviours /\ o = [op |-> o.op, beh |-> o.beh]
    BY DEF Op
  <1>5. \A k \in 1..Len(Prog[g]) : Prog[g][k].op = "successor" =>
              /\ Len(CownsOf[Prog[g][k].beh]) = 1
              /\ g \in Behaviours
              /\ \E i \in Slots(g) : CownsOf[g][i] = CownsOf[Prog[g][k].beh][1]
    BY <1>2, SuccessorAssumption DEF Slots
  <1> QED  BY <1>2, <1>3, <1>4, <1>5

-----------------------------------------------------------------------------
(* Steps that leave the chain alone.                                       *)

QueueInv ==
  TailInv /\ PreInv /\ PreInjective /\ UniqueHead /\ Acyclic /\ NextInv

\* A step that moves no pointer and no request keeps the chain.
LEMMA ChainUnchanged ==
  ASSUME TypeOK, QueueInv, UNCHANGED <<last, next, pre>>,
         \A r \in Requests : Queued(r)' = Queued(r) /\ Released(r)' = Released(r)
  PROVE  QueueInv'
  <1>1. \A r \in Requests : Live(r)' = Live(r)
    BY DEF Live
  <1>2. /\ \A c \in Cowns : last[c] # Nil => last[c] \in Requests
        /\ \A r \in Requests : pre[r] # Nil => pre[r] \in Requests
    BY DEF TypeOK
  <1>3. TailInv'
    BY <1>1, <1>2 DEF QueueInv, TailInv
  <1>4. PreInv'
    BY <1>1, <1>2 DEF QueueInv, PreInv
  <1>5. PreInjective' /\ UniqueHead'
    BY <1>1 DEF QueueInv, PreInjective, UniqueHead
  <1>6. NextInv'
    BY <1>1 DEF QueueInv, NextInv
  <1>7. Acyclic'
    BY DEF QueueInv, Acyclic
  <1> QED  BY <1>3, <1>4, <1>5, <1>6, <1>7 DEF QueueInv

\* A step that grants nothing and starts or ends no call keeps the counts.
LEMMA CountsUnchanged ==
  ASSUME CountInv, UNCHANGED count,
         \A r \in Requests : Granted(r)' = Granted(r),
         \A b \in Behaviours :
           /\ (spawnPc[b] = "unspawned")' = (spawnPc[b] = "unspawned")
           /\ (runPc[b] = "idle")' = (runPc[b] = "idle")
  PROVE  CountInv'
  <1>1. \A b \in Behaviours : Missing(b)' = Missing(b)
    BY RequestFacts DEF Missing, Slots
  <1> QED  BY <1>1 DEF CountInv, CountOK

-----------------------------------------------------------------------------
(* Calls.                                                                  *)

\* The goroutine that is about to take a step of its own is not waiting for
\* a call of ScheduleAsSuccessor.
LEMMA NotAnchor ==
  ASSUME NEW b \in Behaviours, NEW g, LastReturned(g),
         spawnPc[b] \in SuccessorPcs,
         op[g] \in 1..Len(Prog[g]),
         Prog[g][op[g]] = [op |-> "successor", beh |-> b]
  PROVE  FALSE
  BY DEF LastReturned, SuccessorPcs

\* A call by g leaves the insertion points of the calls in progress alone.
LEMMA AnchorsKept ==
  ASSUME NEW g \in Goroutines, LastReturned(g), UNCHANGED runPc,
         \A w \in Goroutines \ {g} : op'[w] = op[w],
         NEW v \in Behaviours, spawnPc[v] \in SuccessorPcs, Anchored(v),
         at'[v] = at[v]
  PROVE  Anchored(v)'
  <1> DEFINE w == at[v][1]
  <1>1. /\ at[v] \in Requests /\ CownOf(at[v]) = CownsOf[v][1]
        /\ runPc[w] = "body"
        /\ op[w] \in 1..Len(Prog[w])
        /\ Prog[w][op[w]] = [op |-> "successor", beh |-> v]
    BY DEF Anchored
  <1>2. w \in Goroutines
    BY <1>1, RequestFacts DEF Goroutines
  <1> HIDE DEF w
  <1>3. w # g
    BY <1>1, NotAnchor
  <1>4. op'[w] = op[w]
    BY <1>2, <1>3
  <1>5. w = at'[v][1]
    BY DEF w
  <1> QED  BY <1>1, <1>4, <1>5 DEF Anchored

\* Frames of other calls depend on next and pre only where they point.
LEMMA OtherSpawnKept ==
  ASSUME NEW v \in Behaviours, SpawnOK(v),
         spawnPc'[v] = spawnPc[v], spawnIdx'[v] = spawnIdx[v],
         at'[v] = at[v], seen'[v] = seen[v],
         spawnPc[v] \in SuccessorPcs => Anchored(v)',
         spawnPc[v] = "grant" => pre'[SpawnReq(v)] = pre[SpawnReq(v)],
         spawnPc[v] \in {"link", "linkcur"} =>
           /\ pre'[SpawnReq(v)] = pre[SpawnReq(v)]
           /\ next'[at[v]] = next[at[v]],
         spawnPc[v] = "linknew" =>
           /\ pre'[SpawnReq(v)] = pre[SpawnReq(v)]
           /\ pre'[seen[v]] = pre[seen[v]]
           /\ ~BeingLinked(seen[v])'
           /\ next'[SpawnReq(v)] = next[SpawnReq(v)]
  PROVE  SpawnOK(v)'
  BY DEF SpawnOK, SpawnReq

\* No step but a Swap or a CAS puts a request between place and link.
LEMMA NotLinkedKept ==
  ASSUME NEW r \in Requests, ~BeingLinked(r),
         \A w \in Behaviours : spawnPc'[w] \in {"link", "linkcur"} =>
           \/ spawnPc'[w] = spawnPc[w] /\ spawnIdx'[w] = spawnIdx[w]
           \/ <<w, spawnIdx'[w]>> # r
  PROVE  ~BeingLinked(r)'
  BY RequestFacts DEF BeingLinked, SpawnReq

\* A call's frame survives a step that writes neither next nor pre.
LEMMA SpawnFrameKept ==
  ASSUME NEW v \in Behaviours, SpawnOK(v), UNCHANGED <<next, pre>>,
         spawnPc'[v] = spawnPc[v], spawnIdx'[v] = spawnIdx[v],
         at'[v] = at[v], seen'[v] = seen[v],
         spawnPc[v] \in SuccessorPcs => Anchored(v)',
         \A w \in Behaviours : spawnPc'[w] \in {"link", "linkcur"} =>
           spawnPc'[w] = spawnPc[w] /\ spawnIdx'[w] = spawnIdx[w]
  PROVE  SpawnOK(v)'
  <1>1. ASSUME spawnPc[v] = "linknew"  PROVE ~BeingLinked(seen[v])'
    <2>1. seen[v] \in Requests /\ ~BeingLinked(seen[v])
      BY <1>1 DEF SpawnOK
    <2>2. \A r \in Requests : ~BeingLinked(r) => ~BeingLinked(r)'
      BY NotLinkedKept
    <2>3. PICK r \in Requests : r = seen[v]
      BY <2>1
    <2>4. ~BeingLinked(r)'
      BY <2>1, <2>2, <2>3
    <2> QED  BY <2>3, <2>4 DEF BeingLinked
  <1> QED  BY <1>1, OtherSpawnKept

\* Force of a completed thunk moves nothing in any queue.
LEMMA ForceKeepsInv ==
  ASSUME CownInv, NEW g \in Goroutines, ForceThunk(g)
  PROVE  CownInv'
  <1> USE DEF ForceThunk, NextCall, sharedVars, spawnVars, runVars
  <1>1. TypeOK'
    BY DEF CownInv, TypeOK
  <1>2. \A r \in Requests :
          /\ Queued(r)' = Queued(r) /\ Released(r)' = Released(r)
          /\ Granted(r)' = Granted(r)
    BY DEF Queued, Released, Granted
  <1>3. QueueInv'
    BY <1>2, ChainUnchanged DEF CownInv, QueueInv
  <1>4. SpawnInv'
    <2>1. ASSUME NEW b \in Behaviours, spawnPc[b] \in SuccessorPcs, Anchored(b)
          PROVE  Anchored(b)'
      <3>1. \A w \in Goroutines \ {g} : op'[w] = op[w]
        BY DEF CownInv, TypeOK
      <3>2. LastReturned(g) /\ runPc' = runPc /\ at'[b] = at[b]
        OBVIOUS
      <3> QED  BY <2>1, <3>1, <3>2, AnchorsKept
    <2> SUFFICES ASSUME NEW v \in Behaviours  PROVE SpawnOK(v)'
      BY DEF SpawnInv
    <2>2. SpawnOK(v)
      BY DEF CownInv, SpawnInv
    <2>3. spawnPc[v] \in SuccessorPcs => Anchored(v)'
      BY <2>1, <2>2 DEF SpawnOK
    <2> QED  BY <2>2, <2>3, SpawnFrameKept
  <1>5. RunInv' /\ CurrentInv'
    BY <1>2, RequestFacts DEF RunInv, RunOK, CurrentInv, CurrentOK, CownInv, RunReq
  <1>6. CountInv'
    BY <1>2, CountsUnchanged DEF CownInv
  <1> QED  BY <1>1, <1>3, <1>4, <1>5, <1>6 DEF CownInv, QueueInv

\* A behaviour lists as many cowns as it has slots.
LEMMA SlotCount ==
  ASSUME NEW b \in Behaviours
  PROVE  /\ IsFiniteSet(Slots(b))
         /\ Cardinality(Slots(b)) = Len(CownsOf[b])
  <1>1. Len(CownsOf[b]) \in Nat \ {0} /\ Slots(b) = 1..Len(CownsOf[b])
    BY SlotFacts
  <1>2. /\ IsFiniteSet(1..Len(CownsOf[b]))
        /\ Cardinality(1..Len(CownsOf[b])) = Len(CownsOf[b])
    BY <1>1, FS_Interval
  <1> QED  BY <1>1, <1>2

\* The flat form of a call: which behaviour it is for, and its place in Prog.
LEMMA CallFacts ==
  ASSUME CownInv, NEW g \in Goroutines, NEW kind, NextCall(g, kind)
  PROVE  /\ Callee(g) \in Behaviours
         /\ op[g] \in Nat /\ Len(Prog[g]) \in Nat
         /\ op[g] + 1 \in 1..Len(Prog[g])
         /\ Prog[g][op[g] + 1] = [op |-> kind, beh |-> Callee(g)]
         /\ op' = [op EXCEPT ![g] = op[g] + 1]
         /\ LastReturned(g) /\ InBody(g)
  <1>1. op[g] \in Nat /\ Len(Prog[g]) \in Nat
    BY ProgFacts DEF CownInv, TypeOK
  <1>2. op[g] + 1 \in 1..Len(Prog[g])
    BY <1>1 DEF NextCall
  <1>3. Callee(g) \in Behaviours
    BY <1>2, ProgFacts DEF Callee
  <1>4. Prog[g][op[g] + 1] = [op |-> kind, beh |-> Callee(g)]
    BY <1>2, ProgFacts DEF Callee, NextCall
  <1>5. op' = [op EXCEPT ![g] = op[g] + 1] /\ LastReturned(g) /\ InBody(g)
    BY DEF NextCall
  <1> QED  BY <1>1, <1>2, <1>3, <1>4, <1>5

\* A call of Schedule or ScheduleMulti starts with every token missing.
LEMMA ScheduleKeepsInv ==
  ASSUME CownInv, NEW g \in Goroutines, Schedule(g)
  PROVE  CownInv'
  <1>z. NextCall(g, "schedule")
    BY DEF Schedule
  <1>y. PICK b \in Behaviours : b = Callee(g)
    BY <1>z, CallFacts
  <1>0. /\ spawnPc[b] = "unspawned"
        /\ spawnPc' = [spawnPc EXCEPT ![b] = "swap"]
        /\ count' = [count EXCEPT ![b] = Len(CownsOf[b])]
        /\ UNCHANGED <<last, currentReq, next, closed, spawnIdx, at, seen,
                       runPc, runIdx, succ, pre>>
    BY <1>y DEF Schedule, runVars
  <1>a. /\ b \in Behaviours /\ op[g] \in Nat
        /\ op' = [op EXCEPT ![g] = op[g] + 1] /\ LastReturned(g)
    BY <1>y, <1>z, CallFacts
  <1>b. TypeOK /\ Len(CownsOf[b]) \in Nat
    BY <1>a, SlotFacts DEF CownInv
  <1>1. TypeOK'
    BY <1>0, <1>a, <1>b DEF TypeOK, SpawnPcs
  <1>2. \A r \in Requests :
          /\ Queued(r)' = Queued(r) /\ Released(r)' = Released(r)
          /\ Granted(r)' = Granted(r)
    <2>1. spawnIdx[b] = 1 /\ \A i \in Slots(b) : ~(i < 1)
      BY <1>0, <1>a, SlotFacts DEF CownInv, SpawnInv, SpawnOK
    <2>2. \A r \in Requests : Queued(r)' = Queued(r) /\ Released(r)' = Released(r)
      BY <1>0, <1>a, <1>b, <2>1, RequestFacts DEF Queued, Released, TypeOK
    <2> QED  BY <1>0, <1>a, <1>b, <2>2, RequestFacts DEF Granted, TypeOK
  <1>3. QueueInv'
    BY <1>0, <1>b, <1>2, ChainUnchanged DEF CownInv, QueueInv
  <1>4. SpawnInv'
    <2>1. ASSUME NEW v \in Behaviours, spawnPc[v] \in SuccessorPcs, Anchored(v)
          PROVE  Anchored(v)'
      <3>1. \A w \in Goroutines \ {g} : op'[w] = op[w]
        BY <1>a, <1>b DEF TypeOK
      <3>2. at'[v] = at[v]
        BY <1>0
      <3> QED  BY <1>0, <1>a, <2>1, <3>1, <3>2, AnchorsKept
    <2>2. /\ spawnPc'[b] = "swap"
          /\ \A v \in Behaviours \ {b} : spawnPc'[v] = spawnPc[v]
      BY <1>0, <1>a, <1>b DEF TypeOK
    <2>3. SpawnOK(b)'
      BY <1>0, <1>a, <2>2 DEF SpawnOK, SuccessorPcs, CownInv, SpawnInv
    <2>4. ASSUME NEW v \in Behaviours, v # b  PROVE SpawnOK(v)'
      <3>1. SpawnOK(v)
        BY DEF CownInv, SpawnInv
      <3>2. spawnPc[v] \in SuccessorPcs => Anchored(v)'
        BY <2>1, <3>1 DEF SpawnOK
      <3> QED  BY <1>0, <2>2, <2>4, <3>1, <3>2, SpawnFrameKept
    <2> QED  BY <2>3, <2>4 DEF SpawnInv
  <1>5. RunInv' /\ CurrentInv'
    BY <1>0, <1>2, RequestFacts DEF RunInv, RunOK, CurrentInv, CurrentOK, CownInv, RunReq
  <1>6. CountInv'
    <2>1. Missing(b) = Slots(b)
      BY <1>0, <1>a, RequestFacts, SlotFacts
         DEF Missing, Granted, Queued, CownInv, SpawnInv, SpawnOK
    <2>2. Cardinality(Slots(b)) = Len(CownsOf[b])
      BY <1>a, SlotCount
    <2>3. \A v \in Behaviours : Missing(v)' = Missing(v)
      BY <1>2, RequestFacts DEF Missing, Slots
    <2>4. runPc[b] = "idle" /\ Len(CownsOf[b]) > 0
      BY <1>0, <1>a, SlotFacts DEF CountInv, CountOK, CownInv
    <2> QED
      BY <1>0, <1>a, <1>b, <2>1, <2>2, <2>3, <2>4 DEF CountInv, CountOK, CownInv, TypeOK
  <1> QED  BY <1>1, <1>3, <1>4, <1>5, <1>6 DEF CownInv, QueueInv

\* The insertion point ScheduleAsSuccessor reads is its caller's request.
LEMMA ScheduleAsSuccessorKeepsInv ==
  ASSUME CownInv, NEW g \in Goroutines, ScheduleAsSuccessor(g)
  PROVE  CownInv'
  <1>z. NextCall(g, "successor")
    BY DEF ScheduleAsSuccessor
  <1>y. PICK b \in Behaviours : b = Callee(g)
    BY <1>z, CallFacts
  <1>0. /\ spawnPc[b] = "unspawned"
        /\ spawnPc' = [spawnPc EXCEPT ![b] = "load"]
        /\ count' = [count EXCEPT ![b] = 1]
        /\ at' = [at EXCEPT ![b] = currentReq[CownOf(SpawnReq(b))]]
        /\ UNCHANGED <<last, currentReq, next, closed, spawnIdx, seen,
                       runPc, runIdx, succ, pre>>
    BY <1>y DEF ScheduleAsSuccessor, runVars
  <1>a. /\ b \in Behaviours /\ op[g] \in Nat /\ Len(Prog[g]) \in Nat
        /\ op[g] + 1 \in 1..Len(Prog[g])
        /\ Prog[g][op[g] + 1] = [op |-> "successor", beh |-> b]
        /\ op' = [op EXCEPT ![g] = op[g] + 1] /\ LastReturned(g) /\ InBody(g)
    BY <1>y, <1>z, CallFacts
  <1>b. /\ Len(CownsOf[b]) = 1 /\ g \in Behaviours
        /\ \E i \in Slots(g) : CownsOf[g][i] = CownsOf[b][1]
    BY <1>a, ProgFacts
  <1>c. PICK i \in Slots(g) : CownsOf[g][i] = CownsOf[b][1]
    BY <1>b
  <1>d. TypeOK /\ spawnIdx[b] = 1 /\ Slots(b) = {1}
    BY <1>0, <1>a, <1>b, SlotFacts DEF CownInv, SpawnInv, SpawnOK
  <1>e. /\ runPc[g] = "body" /\ currentReq[CownsOf[b][1]] = <<g, i>>
        /\ CownOf(SpawnReq(b)) = CownsOf[b][1]
        /\ <<g, i>> \in Requests
    <2>1. runPc[g] = "body"
      BY <1>a, <1>b, CownAssumption DEF InBody
    <2>2. currentReq[CownsOf[g][i]] = <<g, i>>
      BY <2>1, <1>b, <1>c DEF CownInv, CurrentInv, CurrentOK
    <2> QED  BY <2>1, <2>2, <1>b, <1>c, <1>d, RequestFacts DEF SpawnReq, CownOf
  <1>f. at' = [at EXCEPT ![b] = <<g, i>>]
    BY <1>0, <1>e
  <1>1. TypeOK'
    <2>1. at' \in [Behaviours -> Requests \cup {Nil}]
      BY <1>a, <1>d, <1>e, <1>f DEF TypeOK
    <2>2. spawnPc' \in [Behaviours -> SpawnPcs] /\ count' \in [Behaviours -> Nat]
      BY <1>0, <1>a, <1>d DEF TypeOK, SpawnPcs
    <2>3. op' \in [Goroutines -> Nat]
      BY <1>a, <1>d DEF TypeOK
    <2> QED  BY <1>0, <1>d, <2>1, <2>2, <2>3 DEF TypeOK
  <1>2. \A r \in Requests :
          /\ Queued(r)' = Queued(r) /\ Released(r)' = Released(r)
          /\ Granted(r)' = Granted(r)
    <2>1. \A r \in Requests : Queued(r)' = Queued(r) /\ Released(r)' = Released(r)
      BY <1>0, <1>a, <1>d, RequestFacts DEF Queued, Released, TypeOK
    <2> QED  BY <1>0, <1>a, <1>d, <2>1, RequestFacts DEF Granted, TypeOK
  <1>3. QueueInv'
    BY <1>0, <1>d, <1>2, ChainUnchanged DEF CownInv, QueueInv
  <1>4. SpawnInv'
    <2>1. ASSUME NEW v \in Behaviours, v # b, spawnPc[v] \in SuccessorPcs,
                 Anchored(v)
          PROVE  Anchored(v)'
      <3>1. at'[v] = at[v]
        BY <2>1, <1>f
      <3>2. \A w \in Goroutines \ {g} : op'[w] = op[w]
        BY <1>a, <1>d DEF TypeOK
      <3> QED  BY <1>0, <1>a, <2>1, <3>1, <3>2, AnchorsKept
    <2>2. Anchored(b)'
      <3>1. at'[b] = <<g, i>>
        BY <1>a, <1>d, <1>f DEF TypeOK
      <3>2. op'[g] = op[g] + 1
        BY <1>a, <1>d DEF TypeOK
      <3>3. runPc'[g] = "body"
        BY <1>0, <1>e
      <3>4. CownOf(<<g, i>>) = CownsOf[b][1]
        BY <1>c DEF CownOf
      <3>5. at'[b][1] = g
        BY <3>1
      <3>6. at'[b] \in Requests /\ CownOf(at'[b]) = CownsOf[b][1]
        BY <3>1, <3>4, <1>e
      <3>7. /\ op'[at'[b][1]] \in 1..Len(Prog[at'[b][1]])
            /\ Prog[at'[b][1]][op'[at'[b][1]]] = [op |-> "successor", beh |-> b]
        BY <3>2, <3>5, <1>a
      <3>8. runPc'[at'[b][1]] = "body"
        BY <3>3, <3>5
      <3> QED  BY <3>6, <3>7, <3>8 DEF Anchored
    <2>3. ASSUME NEW v \in Behaviours, v # b
          PROVE  /\ spawnPc'[v] = spawnPc[v] /\ spawnIdx'[v] = spawnIdx[v]
                 /\ at'[v] = at[v] /\ seen'[v] = seen[v]
      BY <1>0, <1>a, <1>d, <1>f, <2>3 DEF TypeOK
    <2>4. spawnPc'[b] = "load" /\ spawnIdx'[b] = 1
      BY <1>0, <1>a, <1>d DEF TypeOK
    <2>5. \A v \in Behaviours \ {b} : spawnPc[v] \in SuccessorPcs => Anchored(v)'
      BY <2>1 DEF CownInv, SpawnInv, SpawnOK
    <2>6. SpawnOK(b)'
      BY <1>b, <1>d, <2>2, <2>4 DEF SpawnOK
    <2>7. ASSUME NEW v \in Behaviours, v # b
          PROVE  SpawnOK(v)'
      <3>1. SpawnOK(v)
        BY DEF CownInv, SpawnInv
      <3> QED  BY <1>0, <2>3, <2>4, <2>5, <2>7, <3>1, SpawnFrameKept
    <2> QED  BY <2>6, <2>7 DEF SpawnInv
  <1>5. RunInv' /\ CurrentInv'
    BY <1>0, <1>2, RequestFacts DEF RunInv, RunOK, CurrentInv, CurrentOK, CownInv, RunReq
  <1>6. CountInv'
    <2>1. Missing(b) = {1}
      BY <1>0, <1>a, <1>d, RequestFacts DEF Missing, Granted, Queued
    <2>2. Cardinality({1}) = 1
      BY FS_Singleton
    <2>3. \A v \in Behaviours : Missing(v)' = Missing(v)
      BY <1>2, RequestFacts DEF Missing, Slots
    <2>4. runPc[b] = "idle"
      BY <1>0, <1>a DEF CountInv, CountOK, CownInv
    <2>5. count'[b] = 1 /\ spawnPc'[b] = "load" /\ runPc'[b] = "idle"
      BY <1>0, <1>a, <1>d, <2>4 DEF TypeOK
    <2>6. \A v \in Behaviours \ {b} :
            count'[v] = count[v] /\ spawnPc'[v] = spawnPc[v] /\ runPc'[v] = runPc[v]
      BY <1>0, <1>a, <1>d DEF TypeOK
    <2> SUFFICES ASSUME NEW v \in Behaviours
                 PROVE  CountOK(v)'
      BY DEF CountInv
    <2>7. CASE v = b
      BY <2>1, <2>2, <2>3, <2>5, <2>7 DEF CountOK
    <2>8. CASE v # b
      BY <2>3, <2>6, <2>8 DEF CountInv, CountOK, CownInv
    <2> QED  BY <2>7, <2>8
  <1> QED  BY <1>1, <1>3, <1>4, <1>5, <1>6 DEF CownInv, QueueInv

-----------------------------------------------------------------------------
(* insertSuccessor.                                                        *)

\* An insertion point stays one while its behaviour is still inside fn.
LEMMA AnchorKept ==
  ASSUME NEW v \in Behaviours, Anchored(v), UNCHANGED op, at'[v] = at[v],
         runPc'[at[v][1]] = runPc[at[v][1]]
  PROVE  Anchored(v)'
  BY DEF Anchored

\* Requests whose state no step touches keep their grants.
LEMMA FramesKept ==
  ASSUME CownInv, UNCHANGED <<runPc, runIdx, succ, currentReq>>,
         \A r \in Requests : Granted(r) => Granted(r)',
         \A r \in Requests : next[r] # Nil => next'[r] # Nil,
         \A v \in Behaviours : runPc[v] = "handover" => pre'[succ[v]] = pre[succ[v]]
  PROVE  RunInv' /\ CurrentInv'
  BY RequestFacts DEF RunInv, RunOK, CurrentInv, CurrentOK, CownInv, RunReq

\* insertSuccessor reads cur.next.
LEMMA LoadNextKeepsInv ==
  ASSUME CownInv, NEW b \in Behaviours, LoadNext(b)
  PROVE  CownInv'
  <1>0. /\ spawnPc[b] = "load"
        /\ seen' = [seen EXCEPT ![b] = next[at[b]]]
        /\ spawnPc' = [spawnPc EXCEPT ![b] = IF next[at[b]] = Nil
                                             THEN "castail" ELSE "casnext"]
        /\ UNCHANGED <<last, currentReq, next, count, closed, op, spawnIdx, at,
                       runPc, runIdx, succ, pre>>
    BY DEF LoadNext, sharedVars, runVars
  <1>a. TypeOK /\ SpawnOK(b) /\ SpawnInv
    BY DEF CownInv, SpawnInv
  <1>b. Anchored(b) /\ at[b] \in Requests /\ next[at[b]] \in Requests \cup {Nil}
    <2>1. Anchored(b)
      BY <1>0, <1>a DEF SpawnOK, SuccessorPcs
    <2> QED  BY <2>1, <1>a DEF Anchored, TypeOK
  <1>c. /\ spawnPc'[b] = IF next[at[b]] = Nil THEN "castail" ELSE "casnext"
        /\ seen'[b] = next[at[b]]
        /\ \A v \in Behaviours \ {b} : spawnPc'[v] = spawnPc[v] /\ seen'[v] = seen[v]
    BY <1>0, <1>a DEF TypeOK
  <1>1. TypeOK'
    BY <1>0, <1>a, <1>b DEF TypeOK, SpawnPcs
  <1>2. \A r \in Requests :
          /\ Queued(r)' = Queued(r) /\ Released(r)' = Released(r)
          /\ Granted(r)' = Granted(r)
    <2>1. \A r \in Requests : Queued(r)' = Queued(r) /\ Released(r)' = Released(r)
      BY <1>0, <1>c, RequestFacts DEF Queued, Released
    <2> QED  BY <1>0, <1>c, <2>1, RequestFacts DEF Granted
  <1>3. QueueInv'
    BY <1>0, <1>a, <1>2, ChainUnchanged DEF CownInv, QueueInv
  <1>4. SpawnInv'
    <2>1. \A v \in Behaviours : Anchored(v) => Anchored(v)'
      BY <1>0, AnchorKept
    <2>2. SpawnOK(b)'
      BY <1>0, <1>a, <1>b, <1>c, <2>1 DEF SpawnOK, SuccessorPcs
    <2>3. ASSUME NEW v \in Behaviours, v # b  PROVE SpawnOK(v)'
      <3>1. SpawnOK(v)
        BY <1>a DEF SpawnInv
      <3>2. spawnPc[v] \in SuccessorPcs => Anchored(v)'
        BY <3>1, <2>1 DEF SpawnOK
      <3> QED  BY <1>0, <1>c, <2>3, <3>1, <3>2, SpawnFrameKept
    <2> QED  BY <2>2, <2>3 DEF SpawnInv
  <1>5. RunInv' /\ CurrentInv'
    BY <1>0, <1>2, FramesKept
  <1>6. CountInv'
    <2>1. \A v \in Behaviours :
            /\ (spawnPc[v] = "unspawned")' = (spawnPc[v] = "unspawned")
            /\ (runPc[v] = "idle")' = (runPc[v] = "idle")
      BY <1>0, <1>c
    <2> QED  BY <1>0, <1>2, <2>1, CountsUnchanged DEF CownInv
  <1> QED  BY <1>1, <1>3, <1>4, <1>5, <1>6 DEF CownInv, QueueInv

\* Facts about requests that follow from the invariant alone: a request that
\* has not been enqueued has nobody ahead, behind or granted, and what runs
\* has all its requests granted and live until it releases them.
LEMMA Standing ==
  ASSUME CownInv
  PROVE  /\ \A r \in Requests : ~Queued(r) =>
              /\ pre[r] = Nil /\ next[r] = Nil /\ ~Granted(r) /\ ~Released(r)
              /\ runPc[r[1]] = "idle"
              /\ \A q \in Requests : pre[q] # r
         /\ \A r \in Requests : runPc[r[1]] = "body" =>
              Live(r) /\ pre[r] = Nil
         /\ \A r \in Requests : pre[r] # Nil => runPc[r[1]] = "idle"
  <1>1. \A r \in Requests : runPc[r[1]] # "idle" => Granted(r)
    BY RequestFacts DEF CownInv, RunInv, RunOK
  <1>2. \A r \in Requests : runPc[r[1]] = "idle" => ~Released(r)
    BY DEF Released
  <1>3. \A r \in Requests : ~Queued(r) => ~Granted(r) /\ pre[r] = Nil /\ next[r] = Nil
    BY DEF Granted, CownInv, PreInv, NextInv, Live
  <1>4. \A r \in Requests : ~Queued(r) => \A q \in Requests : pre[q] # r
    <2>1. \A q, r \in Requests : pre[q] = r /\ r # Nil => Queued(r)
      BY DEF CownInv, PreInv, Live
    <2> QED  BY <2>1, RequestFacts
  <1>5. \A r \in Requests : runPc[r[1]] = "body" => Queued(r) /\ ~Released(r) /\ pre[r] = Nil
    BY <1>1 DEF Granted, Released
  <1> QED  BY <1>1, <1>2, <1>3, <1>4, <1>5 DEF Live, Granted

\* Putting a new request at the tail keeps the chain.
LEMMA AppendTail ==
  ASSUME CownInv, NEW r \in Requests, ~Queued(r), Live(r)',
         last' = [last EXCEPT ![CownOf(r)] = r],
         pre' = [pre EXCEPT ![r] = last[CownOf(r)]],
         UNCHANGED next,
         \A q \in Requests \ {r} :
           Queued(q)' = Queued(q) /\ Released(q)' = Released(q)
  PROVE  QueueInv'
  <1> DEFINE c == CownOf(r)
             p == last[c]
  <1>0. /\ TypeOK /\ TailInv /\ PreInv /\ PreInjective /\ UniqueHead /\ NextInv
        /\ c \in Cowns /\ Nil \notin Requests
        /\ p \in Requests \cup {Nil}
    BY RequestFacts DEF CownInv, TypeOK
  <1>1. /\ pre[r] = Nil /\ next[r] = Nil /\ ~Live(r)
        /\ \A q \in Requests : pre[q] # r
    BY Standing DEF Live
  <1>2. \A q \in Requests \ {r} : Live(q)' = Live(q) /\ pre'[q] = pre[q]
    BY <1>0 DEF Live, TypeOK
  <1>3. pre'[r] = p /\ last'[c] = r /\ \A d \in Cowns \ {c} : last'[d] = last[d]
    BY <1>0 DEF TypeOK
  <1>4. p # Nil => /\ CownOf(p) = c /\ Live(p) /\ p # r
                   /\ \A q \in Requests : pre[q] # p
    BY <1>0, <1>1 DEF TailInv
  <1>5. \A d \in Cowns : last[d] # Nil => last[d] \in Requests
    BY <1>0 DEF TypeOK
  <1>6. \A q \in Requests : pre[q] # Nil => pre[q] \in Requests
    BY <1>0 DEF TypeOK
  <1> HIDE DEF p, c
  <1>7. TailInv'
    <2>1. ASSUME NEW d \in Cowns, d # c, last[d] = Nil
          PROVE  \A q \in Requests : Live(q)' => CownOf(q) # d
      BY <1>0, <1>2, <2>1 DEF TailInv, c
    <2>2. ASSUME NEW d \in Cowns, d # c, last[d] # Nil
          PROVE  /\ CownOf(last[d]) = d /\ Live(last[d])'
                 /\ \A q \in Requests : pre'[q] # last[d]
      <3>1. /\ last[d] \in Requests /\ CownOf(last[d]) = d /\ Live(last[d])
            /\ \A q \in Requests : pre[q] # last[d]
        BY <1>0, <1>5, <2>2 DEF TailInv
      <3>2. last[d] # r /\ last[d] # p
        BY <1>4, <2>2, <3>1 DEF c
      <3> QED  BY <1>2, <1>3, <3>1, <3>2
    <2>3. CownOf(r) = c /\ \A q \in Requests : pre'[q] # r
      BY <1>0, <1>1, <1>2, <1>3, <1>4 DEF c
    <2>4. ASSUME NEW d \in Cowns
          PROVE  /\ last'[d] = Nil => \A q \in Requests : Live(q)' => CownOf(q) # d
                 /\ last'[d] # Nil => /\ CownOf(last'[d]) = d
                                      /\ Live(last[d])'
                                      /\ \A q \in Requests : pre'[q] # last'[d]
      <3>1. CASE d = c
        <4>1. Live(last[d])'
          BY <1>3, <3>1 DEF Live, Queued, Released
        <4> QED  BY <1>0, <1>3, <2>3, <3>1, <4>1
      <3>2. CASE d # c
        <4>1. last'[d] = last[d]
          BY <1>3, <3>2
        <4>2. last[d] # Nil => Live(last[d])'
          BY <2>2, <3>2, <4>1 DEF Live, Queued, Released
        <4> QED  BY <2>1, <2>2, <3>2, <4>1, <4>2
      <3> QED  BY <3>1, <3>2
    <2> QED  BY <2>4 DEF TailInv
  <1>8. PreInv'
    BY <1>0, <1>1, <1>2, <1>3, <1>4, <1>6 DEF PreInv, c
  <1>9. PreInjective'
    BY <1>0, <1>2, <1>3, <1>4 DEF PreInjective
  <1>10. UniqueHead'
    <2>1. p = Nil => \A q \in Requests : Live(q) => CownOf(q) # c
      BY <1>0 DEF TailInv, p
    <2> QED  BY <1>0, <1>2, <1>3, <2>1 DEF UniqueHead, c
  <1>11. NextInv'
    <2>1. \A q \in Requests : next[q] # Nil => next[q] \in Requests
      BY <1>0 DEF TypeOK
    <2>2. \A q \in Requests : Live(q) /\ next[q] # Nil => next[q] # r
      BY <1>0, <1>1 DEF NextInv
    <2>3. Queued(r)'
      BY DEF Live
    <2>4. \A q \in Requests \ {r} : Queued(q)' = Queued(q)
      OBVIOUS
    <2> QED  BY <1>0, <1>1, <1>2, <2>1, <2>2, <2>3, <2>4 DEF NextInv
  <1>12. Acyclic'
    <2> SUFFICES ASSUME NEW S \in SUBSET Requests, \A q \in S : pre'[q] \in S
                 PROVE  S = {}
      BY DEF Acyclic
    <2>1. \A q \in S \ {r} : pre[q] \in S \ {r}
      BY <1>1, <1>2
    <2>2. S \ {r} = {}
      BY <2>1 DEF CownInv, Acyclic
    <2>3. r \notin S
      BY <1>0, <1>3, <1>4, <2>2
    <2> QED  BY <2>2, <2>3
  <1> QED  BY <1>7, <1>8, <1>9, <1>10, <1>11, <1>12 DEF QueueInv

\* A compare-and-swap of insertSuccessor that fails goes back to the load.
LEMMA RetryKeepsInv ==
  ASSUME CownInv, NEW b \in Behaviours, spawnPc[b] \in {"castail", "casnext"},
         spawnPc' = [spawnPc EXCEPT ![b] = "load"],
         UNCHANGED <<last, currentReq, next, count, closed, op, spawnIdx, at,
                     seen, runPc, runIdx, succ, pre>>
  PROVE  CownInv'
  <1>a. TypeOK /\ SpawnOK(b) /\ SpawnInv
    BY DEF CownInv, SpawnInv
  <1>c. /\ spawnPc'[b] = "load"
        /\ \A v \in Behaviours \ {b} : spawnPc'[v] = spawnPc[v]
    BY <1>a DEF TypeOK
  <1>1. TypeOK'
    BY <1>a DEF TypeOK, SpawnPcs
  <1>2. \A r \in Requests :
          /\ Queued(r)' = Queued(r) /\ Released(r)' = Released(r)
          /\ Granted(r)' = Granted(r)
    <2>1. \A r \in Requests : Queued(r)' = Queued(r) /\ Released(r)' = Released(r)
      BY <1>c, RequestFacts DEF Queued, Released
    <2> QED  BY <1>c, <2>1, RequestFacts DEF Granted
  <1>3. QueueInv'
    BY <1>a, <1>2, ChainUnchanged DEF CownInv, QueueInv
  <1>4. SpawnInv'
    <2>1. \A v \in Behaviours : Anchored(v) => Anchored(v)'
      BY AnchorKept
    <2>2. SpawnOK(b)'
      BY <1>a, <1>c, <2>1 DEF SpawnOK, SuccessorPcs
    <2>3. ASSUME NEW v \in Behaviours, v # b  PROVE SpawnOK(v)'
      <3>1. SpawnOK(v)
        BY <1>a DEF SpawnInv
      <3>2. spawnPc[v] \in SuccessorPcs => Anchored(v)'
        BY <3>1, <2>1 DEF SpawnOK
      <3> QED  BY <1>c, <2>3, <3>1, <3>2, SpawnFrameKept
    <2> QED  BY <2>2, <2>3 DEF SpawnInv
  <1>5. RunInv' /\ CurrentInv'
    BY <1>2, FramesKept
  <1>6. CountInv'
    <2>1. \A v \in Behaviours :
            /\ (spawnPc[v] = "unspawned")' = (spawnPc[v] = "unspawned")
            /\ (runPc[v] = "idle")' = (runPc[v] = "idle")
      BY <1>c
    <2> QED  BY <1>2, <2>1, CountsUnchanged DEF CownInv
  <1> QED  BY <1>1, <1>3, <1>4, <1>5, <1>6 DEF CownInv, QueueInv

\* insertSuccessor claims the tail behind cur, or tries again.
LEMMA CasTailKeepsInv ==
  ASSUME CownInv, NEW b \in Behaviours, CasTail(b)
  PROVE  CownInv'
  <1> DEFINE r == <<b, 1>>
             c == CownsOf[b][1]
  <1>a. TypeOK /\ SpawnOK(b) /\ SpawnInv /\ spawnPc[b] = "castail"
    BY DEF CownInv, SpawnInv, CasTail
  <1>b. /\ Anchored(b) /\ Len(CownsOf[b]) = 1
        /\ spawnIdx[b] = 1 /\ Slots(b) = {1} /\ SpawnReq(b) = r
        /\ r \in Requests /\ CownOf(r) = c /\ c \in Cowns
    <2>1. Anchored(b) /\ Len(CownsOf[b]) = 1 /\ spawnIdx[b] \in Slots(b)
      BY <1>a DEF SpawnOK, SuccessorPcs
    <2>2. Slots(b) = {1}
      BY <2>1, SlotFacts
    <2> QED  BY <2>1, <2>2, RequestFacts DEF SpawnReq
  <1>c. /\ at[b] \in Requests /\ CownOf(at[b]) = c /\ runPc[at[b][1]] = "body"
    BY <1>b DEF Anchored
  <1>d. CASE last[c] # at[b]
    <2>1. /\ spawnPc' = [spawnPc EXCEPT ![b] = "load"]
          /\ UNCHANGED <<last, currentReq, next, count, closed, op, spawnIdx,
                         at, seen, runPc, runIdx, succ, pre>>
      BY <1>b, <1>d DEF CasTail, runVars
    <2> QED  BY <1>a, <2>1, RetryKeepsInv
  <1>e. CASE last[c] = at[b]
    <2>0. /\ last' = [last EXCEPT ![CownOf(r)] = r]
          /\ pre' = [pre EXCEPT ![r] = last[CownOf(r)]]
          /\ spawnPc' = [spawnPc EXCEPT ![b] = "linkcur"]
          /\ UNCHANGED <<currentReq, next, count, closed, op, spawnIdx, at,
                         seen, runPc, runIdx, succ>>
      BY <1>b, <1>e DEF CasTail, runVars
    <2>1. ~Queued(r)
      BY <1>a, <1>b DEF Queued
    <2>2. /\ runPc[b] = "idle" /\ pre[r] = Nil /\ next[r] = Nil /\ ~Granted(r)
          /\ \A q \in Requests : pre[q] # r
      BY <1>b, <2>1, Standing
    <2>3. /\ spawnPc'[b] = "linkcur" /\ pre'[r] = at[b]
          /\ \A v \in Behaviours \ {b} : spawnPc'[v] = spawnPc[v]
          /\ \A q \in Requests \ {r} : pre'[q] = pre[q]
      BY <1>a, <1>b, <1>e, <2>0 DEF TypeOK
    <2>4. TypeOK'
      <3>1. last' \in [Cowns -> Requests \cup {Nil}]
        BY <1>a, <1>b, <2>0 DEF TypeOK
      <3>2. pre' \in [Requests -> Requests \cup {Nil}]
        BY <1>a, <1>b, <2>0 DEF TypeOK
      <3> QED  BY <1>a, <2>0, <3>1, <3>2 DEF TypeOK, SpawnPcs
    <2>5. /\ Queued(r)' /\ ~Granted(r)' /\ ~Released(r)'
          /\ \A q \in Requests \ {r} :
               /\ Queued(q)' = Queued(q) /\ Released(q)' = Released(q)
               /\ Granted(q)' = Granted(q)
      <3>1. Queued(r)' /\ ~Released(r)'
        BY <1>b, <2>0, <2>2, <2>3 DEF Queued, Released
      <3>2. ~Granted(r)'
        BY <1>c, <2>3, RequestFacts DEF Granted
      <3>3. \A q \in Requests \ {r} : q[1] # b
        BY <1>b, RequestFacts
      <3>4. \A q \in Requests \ {r} :
              Queued(q)' = Queued(q) /\ Released(q)' = Released(q)
        BY <2>0, <2>3, <3>3, RequestFacts DEF Queued, Released
      <3>5. \A q \in Requests \ {r} : Granted(q)' = Granted(q)
        BY <2>0, <2>3, <3>3, <3>4, RequestFacts DEF Granted
      <3> QED  BY <3>1, <3>2, <3>4, <3>5
    <2>6. QueueInv'
      BY <1>b, <2>0, <2>1, <2>5, AppendTail DEF Live
    <2>7. SpawnInv'
      <3>1. \A v \in Behaviours : Anchored(v) => Anchored(v)'
        BY <2>0, AnchorKept
      <3>2. next[at[b]] = Nil
        BY <1>b, <1>c, <1>e, Standing, RequestFacts
           DEF CownInv, TailInv, NextInv, TypeOK
      <3>3. SpawnOK(b)'
        <4>1. SpawnReq(b)' = r /\ at'[b] = at[b] /\ next'[at[b]] = Nil
          BY <1>b, <2>0, <3>2 DEF SpawnReq
        <4> QED  BY <1>b, <1>c, <2>0, <2>3, <3>1, <4>1 DEF SpawnOK
      <3>4. ASSUME NEW v \in Behaviours, v # b  PROVE SpawnOK(v)'
        <4>1. SpawnOK(v)
          BY <1>a DEF SpawnInv
        <4>2. spawnPc[v] \in SuccessorPcs => Anchored(v)'
          BY <3>1, <4>1 DEF SpawnOK
        <4>3. SpawnReq(v) \in Requests \ {r}
          BY <3>4, <4>1, RequestFacts DEF SpawnReq, SpawnOK
        <4>4. spawnPc[v] = "linknew" => pre'[seen[v]] = pre[seen[v]]
          BY <2>2, <2>3, <4>1, <4>3, RequestFacts DEF SpawnOK
        <4>5. ASSUME spawnPc[v] = "linknew"  PROVE ~BeingLinked(seen[v])'
          <5>1. /\ seen[v] \in Requests /\ ~BeingLinked(seen[v])
                /\ pre[seen[v]] \in Requests
            BY <4>1, <4>3, <4>5 DEF SpawnOK
          <5>2. seen[v] # r
            BY <2>2, <5>1, RequestFacts
          <5>3. PICK q \in Requests : q = seen[v]
            BY <5>1
          <5>4. ~BeingLinked(q)'
            BY <1>b, <2>0, <2>3, <5>1, <5>2, <5>3, NotLinkedKept
          <5> QED  BY <2>0, <5>3, <5>4 DEF BeingLinked
        <4> QED
          BY <2>0, <2>3, <3>4, <4>1, <4>2, <4>3, <4>4, <4>5, OtherSpawnKept
      <3> QED  BY <3>3, <3>4 DEF SpawnInv
    <2>8. RunInv' /\ CurrentInv'
      <3>1. \A v \in Behaviours : runPc[v] = "handover" => pre'[succ[v]] = pre[succ[v]]
        <4> SUFFICES ASSUME NEW v \in Behaviours, runPc[v] = "handover"
                     PROVE  pre'[succ[v]] = pre[succ[v]]
          OBVIOUS
        <4>1. /\ succ[v] \in Requests /\ pre[succ[v]] = RunReq(v)
              /\ RunReq(v) \in Requests
          BY RequestFacts DEF CownInv, RunInv, RunOK, RunReq
        <4> QED  BY <2>2, <2>3, <4>1, RequestFacts
      <3>2. \A q \in Requests : Granted(q) => Granted(q)'
        BY <2>2, <2>5
      <3> QED  BY <2>0, <3>1, <3>2, FramesKept
    <2>9. CountInv'
      <3>1. \A v \in Behaviours :
              /\ (spawnPc[v] = "unspawned")' = (spawnPc[v] = "unspawned")
              /\ (runPc[v] = "idle")' = (runPc[v] = "idle")
        BY <1>a, <2>0, <2>3
      <3>2. \A q \in Requests : Granted(q)' = Granted(q)
        BY <2>2, <2>5 DEF Granted
      <3> QED  BY <2>0, <3>1, <3>2, CountsUnchanged DEF CownInv
    <2> QED  BY <2>4, <2>6, <2>7, <2>8, <2>9 DEF CownInv, QueueInv
  <1> QED  BY <1>d, <1>e

\* Storing the next pointer of a request whose follower is already behind it
\* keeps the chain.
LEMMA LinkKeepsChain ==
  ASSUME CownInv, NEW p \in Requests, NEW q \in Requests, pre[q] = p,
         next' = [next EXCEPT ![p] = q], UNCHANGED <<last, pre>>,
         \A r \in Requests : Queued(r)' = Queued(r) /\ Released(r)' = Released(r)
  PROVE  QueueInv'
  <1>0. TypeOK /\ TailInv /\ PreInv /\ PreInjective /\ UniqueHead /\ NextInv
    BY DEF CownInv
  <1>1. \A r \in Requests : Live(r)' = Live(r)
    BY DEF Live
  <1>2. /\ \A c \in Cowns : last[c] # Nil => last[c] \in Requests
        /\ \A r \in Requests : pre[r] # Nil => pre[r] \in Requests
        /\ next'[p] = q /\ \A r \in Requests \ {p} : next'[r] = next[r]
    BY <1>0 DEF TypeOK
  <1>3. TailInv'
    BY <1>0, <1>1, <1>2 DEF TailInv
  <1>4. PreInv'
    BY <1>0, <1>1, <1>2 DEF PreInv
  <1>5. PreInjective' /\ UniqueHead'
    BY <1>0, <1>1 DEF PreInjective, UniqueHead
  <1>6. NextInv'
    <2>1. Queued(p)
      BY <1>0, RequestFacts DEF PreInv, Live
    <2> QED  BY <1>0, <1>1, <1>2, <2>1 DEF NextInv
  <1>7. Acyclic'
    BY DEF CownInv, Acyclic
  <1> QED  BY <1>3, <1>4, <1>5, <1>6, <1>7 DEF QueueInv

\* insertSuccessor links cur to the tail it claimed.
LEMMA LinkCurKeepsInv ==
  ASSUME CownInv, NEW b \in Behaviours, LinkCur(b)
  PROVE  CownInv'
  <1> DEFINE r == SpawnReq(b)
  <1>0. /\ spawnPc[b] = "linkcur"
        /\ next' = [next EXCEPT ![at[b]] = SpawnReq(b)]
        /\ spawnPc' = [spawnPc EXCEPT ![b] = "spawned"]
        /\ UNCHANGED <<last, currentReq, count, closed, op, spawnIdx, at, seen,
                       runPc, runIdx, succ, pre>>
    BY DEF LinkCur, runVars
  <1>a. TypeOK /\ SpawnOK(b) /\ SpawnInv
    BY DEF CownInv, SpawnInv
  <1>b. /\ at[b] \in Requests /\ pre[SpawnReq(b)] = at[b] /\ next[at[b]] = Nil
        /\ SpawnReq(b) = <<b, 1>> /\ <<b, 1>> \in Requests /\ Slots(b) = {1}
        /\ spawnIdx[b] = 1
    <2>1. /\ at[b] \in Requests /\ pre[SpawnReq(b)] = at[b] /\ next[at[b]] = Nil
          /\ Len(CownsOf[b]) = 1 /\ spawnIdx[b] \in Slots(b)
      BY <1>0, <1>a DEF SpawnOK, SuccessorPcs
    <2>2. Slots(b) = {1}
      BY <2>1, SlotFacts
    <2> QED  BY <2>1, <2>2, RequestFacts DEF SpawnReq
  <1>c. /\ spawnPc'[b] = "spawned" /\ next'[at[b]] = <<b, 1>>
        /\ \A v \in Behaviours \ {b} : spawnPc'[v] = spawnPc[v]
        /\ \A q \in Requests \ {at[b]} : next'[q] = next[q]
    BY <1>0, <1>a, <1>b DEF TypeOK
  <1>1. TypeOK'
    <2>1. next' \in [Requests -> Requests \cup {Nil}]
      BY <1>0, <1>a, <1>b DEF TypeOK
    <2> QED  BY <1>0, <1>a, <2>1 DEF TypeOK, SpawnPcs
  <1>2. \A q \in Requests :
          /\ Queued(q)' = Queued(q) /\ Released(q)' = Released(q)
          /\ Granted(q)' = Granted(q)
    <2>1. \A q \in Requests : Queued(q)' = Queued(q) /\ Released(q)' = Released(q)
      BY <1>0, <1>b, <1>c, RequestFacts DEF Queued, Released
    <2> QED  BY <1>0, <1>c, <2>1, RequestFacts DEF Granted
  <1>3. QueueInv'
    BY <1>0, <1>b, <1>2, LinkKeepsChain
  <1>4. SpawnInv'
    <2>1. \A v \in Behaviours : Anchored(v) => Anchored(v)'
      BY <1>0, AnchorKept
    <2>2. SpawnOK(b)'
      BY <1>0, <1>b, <1>c DEF SpawnOK, SuccessorPcs
    <2>3. ASSUME NEW v \in Behaviours, v # b  PROVE SpawnOK(v)'
      <3>1. SpawnOK(v)
        BY <1>a DEF SpawnInv
      <3>2. spawnPc[v] \in SuccessorPcs => Anchored(v)'
        BY <3>1, <2>1 DEF SpawnOK
      <3>3. SpawnReq(v) \in Requests /\ SpawnReq(v) # <<b, 1>>
        BY <2>3, <3>1, RequestFacts DEF SpawnReq, SpawnOK
      <3>4. spawnPc[v] \in {"link", "linkcur"} => at[v] # at[b]
        BY <1>a, <1>b, <3>1, <3>3, RequestFacts DEF SpawnOK, CownInv, PreInjective
      <3>5. spawnPc[v] \in {"link", "linkcur"} => next'[at[v]] = next[at[v]]
        BY <1>c, <3>1, <3>4 DEF SpawnOK
      <3>6. spawnPc[v] = "linknew" => SpawnReq(v) # at[b]
        <4> SUFFICES ASSUME spawnPc[v] = "linknew", SpawnReq(v) = at[b]
                     PROVE  FALSE
          OBVIOUS
        <4>1. pre[at[b]] = at[v] /\ at[v] \in Requests
          BY <3>1 DEF SpawnOK, SuccessorPcs, Anchored
        <4>2. runPc[at[b][1]] = "body"
          BY <1>0, <1>a DEF SpawnOK, Anchored, SuccessorPcs
        <4> QED  BY <1>b, <4>1, <4>2, Standing, RequestFacts
      <3>7. spawnPc[v] = "linknew" => next'[SpawnReq(v)] = next[SpawnReq(v)]
        BY <1>c, <3>3, <3>6
      <3>8. ASSUME spawnPc[v] = "linknew"  PROVE ~BeingLinked(seen[v])'
        <4>1. PICK q \in Requests : q = seen[v] /\ ~BeingLinked(q)
          BY <3>1, <3>8 DEF SpawnOK
        <4>2. ~BeingLinked(q)'
          BY <1>0, <1>c, <4>1, NotLinkedKept
        <4> QED  BY <1>0, <4>1, <4>2 DEF BeingLinked
      <3> QED  BY <1>0, <1>c, <2>3, <3>1, <3>2, <3>5, <3>7, <3>8, OtherSpawnKept
    <2> QED  BY <2>2, <2>3 DEF SpawnInv
  <1>5. RunInv' /\ CurrentInv'
    <2>1. \A q \in Requests : next[q] # Nil => next'[q] # Nil
      BY <1>b, <1>c, RequestFacts
    <2> QED  BY <1>0, <1>2, <2>1, FramesKept
  <1>6. CountInv'
    <2>1. \A v \in Behaviours :
            /\ (spawnPc[v] = "unspawned")' = (spawnPc[v] = "unspawned")
            /\ (runPc[v] = "idle")' = (runPc[v] = "idle")
      BY <1>0, <1>c
    <2> QED  BY <1>0, <1>2, <2>1, CountsUnchanged DEF CownInv
  <1> QED  BY <1>1, <1>3, <1>4, <1>5, <1>6 DEF CownInv, QueueInv

\* insertSuccessor links the inserted request to the rest of the queue.
LEMMA LinkNewKeepsInv ==
  ASSUME CownInv, NEW b \in Behaviours, LinkNew(b)
  PROVE  CownInv'
  <1>0. /\ spawnPc[b] = "linknew"
        /\ next' = [next EXCEPT ![SpawnReq(b)] = seen[b]]
        /\ spawnPc' = [spawnPc EXCEPT ![b] = "spawned"]
        /\ UNCHANGED <<last, currentReq, count, closed, op, spawnIdx, at, seen,
                       runPc, runIdx, succ, pre>>
    BY DEF LinkNew, runVars
  <1>a. TypeOK /\ SpawnOK(b) /\ SpawnInv
    BY DEF CownInv, SpawnInv
  <1>b. /\ seen[b] \in Requests /\ pre[seen[b]] = SpawnReq(b)
        /\ ~BeingLinked(seen[b]) /\ SpawnReq(b) \in Requests
        /\ SpawnReq(b) = <<b, 1>> /\ Slots(b) = {1} /\ spawnIdx[b] = 1
    <2>1. /\ seen[b] \in Requests /\ pre[seen[b]] = SpawnReq(b)
          /\ ~BeingLinked(seen[b])
          /\ Len(CownsOf[b]) = 1 /\ spawnIdx[b] \in Slots(b)
      BY <1>0, <1>a DEF SpawnOK, SuccessorPcs
    <2>2. Slots(b) = {1}
      BY <2>1, SlotFacts
    <2> QED  BY <2>1, <2>2, RequestFacts DEF SpawnReq
  <1>c. /\ spawnPc'[b] = "spawned" /\ next'[SpawnReq(b)] = seen[b]
        /\ \A v \in Behaviours \ {b} : spawnPc'[v] = spawnPc[v]
        /\ \A q \in Requests \ {SpawnReq(b)} : next'[q] = next[q]
    BY <1>0, <1>a, <1>b DEF TypeOK
  <1>1. TypeOK'
    <2>1. next' \in [Requests -> Requests \cup {Nil}]
      BY <1>0, <1>a, <1>b DEF TypeOK
    <2> QED  BY <1>0, <1>a, <2>1 DEF TypeOK, SpawnPcs
  <1>2. \A q \in Requests :
          /\ Queued(q)' = Queued(q) /\ Released(q)' = Released(q)
          /\ Granted(q)' = Granted(q)
    <2>1. \A q \in Requests : Queued(q)' = Queued(q) /\ Released(q)' = Released(q)
      BY <1>0, <1>b, <1>c, RequestFacts DEF Queued, Released
    <2> QED  BY <1>0, <1>c, <2>1, RequestFacts DEF Granted
  <1>3. QueueInv'
    <2>1. PICK p \in Requests : p = SpawnReq(b)
      BY <1>b
    <2>2. PICK q \in Requests : q = seen[b]
      BY <1>b
    <2> QED  BY <1>0, <1>b, <1>2, <2>1, <2>2, LinkKeepsChain
  <1>4. SpawnInv'
    <2>1. \A v \in Behaviours : Anchored(v) => Anchored(v)'
      BY <1>0, AnchorKept
    <2>2. SpawnOK(b)'
      BY <1>0, <1>a, <1>c DEF SpawnOK, SuccessorPcs
    <2>3. ASSUME NEW v \in Behaviours, v # b  PROVE SpawnOK(v)'
      <3>1. SpawnOK(v)
        BY <1>a DEF SpawnInv
      <3>2. spawnPc[v] \in SuccessorPcs => Anchored(v)'
        BY <3>1, <2>1 DEF SpawnOK
      <3>3. SpawnReq(v) \in Requests /\ SpawnReq(v) # SpawnReq(b)
        BY <1>b, <2>3, <3>1, RequestFacts DEF SpawnReq, SpawnOK
      <3>4. ASSUME spawnPc[v] \in {"link", "linkcur"}
            PROVE  next'[at[v]] = next[at[v]]
        <4>1. at[v] \in Requests /\ pre[SpawnReq(v)] = at[v] /\ BeingLinked(SpawnReq(v))
          BY <3>1, <3>4 DEF SpawnOK, BeingLinked, SpawnReq
        <4>2. SpawnReq(v) # seen[b]
          BY <1>b, <4>1 DEF BeingLinked
        <4>3. at[v] # SpawnReq(b)
          BY <1>b, <3>3, <4>1, <4>2, RequestFacts DEF CownInv, PreInjective
        <4> QED  BY <1>c, <4>1, <4>3
      <3>5. next'[SpawnReq(v)] = next[SpawnReq(v)]
        BY <1>c, <3>3
      <3>6. ASSUME spawnPc[v] = "linknew"  PROVE ~BeingLinked(seen[v])'
        <4>1. PICK q \in Requests : q = seen[v] /\ ~BeingLinked(q)
          BY <3>1, <3>6 DEF SpawnOK
        <4>2. ~BeingLinked(q)'
          BY <1>0, <1>c, <4>1, NotLinkedKept
        <4> QED  BY <1>0, <4>1, <4>2 DEF BeingLinked
      <3> QED  BY <1>0, <1>c, <2>3, <3>1, <3>2, <3>4, <3>5, <3>6, OtherSpawnKept
    <2> QED  BY <2>2, <2>3 DEF SpawnInv
  <1>5. RunInv' /\ CurrentInv'
    <2>1. \A q \in Requests : next[q] # Nil => next'[q] # Nil
      BY <1>b, <1>c, RequestFacts
    <2> QED  BY <1>0, <1>2, <2>1, FramesKept
  <1>6. CountInv'
    <2>1. \A v \in Behaviours :
            /\ (spawnPc[v] = "unspawned")' = (spawnPc[v] = "unspawned")
            /\ (runPc[v] = "idle")' = (runPc[v] = "idle")
      BY <1>0, <1>c
    <2> QED  BY <1>0, <1>2, <2>1, CountsUnchanged DEF CownInv
  <1> QED  BY <1>1, <1>3, <1>4, <1>5, <1>6 DEF CownInv, QueueInv

\* insertSuccessor puts the request between cur and its follower.
LEMMA CasNextKeepsInv ==
  ASSUME CownInv, NEW b \in Behaviours, CasNext(b)
  PROVE  CownInv'
  <1> DEFINE r == <<b, 1>>
  <1>a. TypeOK /\ SpawnOK(b) /\ SpawnInv /\ spawnPc[b] = "casnext"
    BY DEF CownInv, SpawnInv, CasNext
  <1>b. /\ Anchored(b) /\ Len(CownsOf[b]) = 1 /\ seen[b] \in Requests
        /\ spawnIdx[b] = 1 /\ Slots(b) = {1} /\ SpawnReq(b) = r
        /\ r \in Requests /\ CownOf(r) = CownsOf[b][1]
    <2>1. /\ Anchored(b) /\ Len(CownsOf[b]) = 1 /\ spawnIdx[b] \in Slots(b)
          /\ seen[b] \in Requests
      BY <1>a DEF SpawnOK, SuccessorPcs
    <2>2. Slots(b) = {1}
      BY <2>1, SlotFacts
    <2> QED  BY <2>1, <2>2, RequestFacts DEF SpawnReq
  <1>c. PICK p \in Requests : p = at[b]
    BY <1>b DEF Anchored
  <1>d. PICK s \in Requests : s = seen[b]
    BY <1>b
  <1>e. CASE next[p] # s
    <2>1. /\ spawnPc' = [spawnPc EXCEPT ![b] = "load"]
          /\ UNCHANGED <<last, currentReq, next, count, closed, op, spawnIdx,
                         at, seen, runPc, runIdx, succ, pre>>
      BY <1>c, <1>d, <1>e DEF CasNext, runVars
    <2> QED  BY <1>a, <2>1, RetryKeepsInv
  <1>f. CASE next[p] = s
    <2>0. /\ next' = [next EXCEPT ![p] = r]
          /\ pre' = [pre EXCEPT ![r] = p, ![s] = r]
          /\ spawnPc' = [spawnPc EXCEPT ![b] = "linknew"]
          /\ UNCHANGED <<last, currentReq, count, closed, op, spawnIdx, at,
                         seen, runPc, runIdx, succ>>
      BY <1>b, <1>c, <1>d, <1>f DEF CasNext, runVars
    <2>1. ~Queued(r)
      BY <1>a, <1>b DEF Queued
    <2>2. /\ runPc[b] = "idle" /\ pre[r] = Nil /\ next[r] = Nil /\ ~Granted(r)
          /\ \A q \in Requests : pre[q] # r
      BY <1>b, <2>1, Standing
    <2>3. /\ CownOf(p) = CownOf(r) /\ runPc[p[1]] = "body" /\ Live(p)
          /\ pre[p] = Nil /\ pre[s] = p
      <3>1. CownOf(p) = CownOf(r) /\ runPc[p[1]] = "body"
        BY <1>b, <1>c DEF Anchored
      <3>2. Live(p) /\ pre[p] = Nil
        BY <3>1, Standing
      <3> QED  BY <1>f, <3>1, <3>2, RequestFacts DEF CownInv, NextInv
    <2>4. r # s /\ r # p /\ s # p
      BY <2>2, <2>3, RequestFacts
    <2>5. /\ spawnPc'[b] = "linknew" /\ pre'[r] = p /\ pre'[s] = r
          /\ next'[p] = r
          /\ \A v \in Behaviours \ {b} : spawnPc'[v] = spawnPc[v]
          /\ \A q \in Requests \ {r, s} : pre'[q] = pre[q]
          /\ \A q \in Requests \ {p} : next'[q] = next[q]
      BY <1>a, <1>b, <2>0, <2>4 DEF TypeOK
    <2>6. TypeOK'
      <3>1. next' \in [Requests -> Requests \cup {Nil}]
        BY <1>a, <1>b, <2>0 DEF TypeOK
      <3>2. pre' \in [Requests -> Requests \cup {Nil}]
        BY <1>a, <1>b, <2>0 DEF TypeOK
      <3> QED  BY <1>a, <2>0, <3>1, <3>2 DEF TypeOK, SpawnPcs
    <2>7. /\ Queued(r)' /\ ~Granted(r)' /\ ~Released(r)'
          /\ \A q \in Requests \ {r} :
               /\ Queued(q)' = Queued(q) /\ Released(q)' = Released(q)
               /\ Granted(q)' = Granted(q)
      <3>1. Queued(r)' /\ ~Released(r)'
        BY <1>b, <2>0, <2>2, <2>5 DEF Queued, Released
      <3>2. ~Granted(r)' /\ ~Granted(s)' /\ ~Granted(s)
        <4>1. pre'[r] # Nil /\ pre'[s] # Nil /\ pre[s] # Nil
          BY <1>b, <2>3, <2>5, RequestFacts
        <4> QED  BY <4>1 DEF Granted
      <3>3. \A q \in Requests \ {r} : q[1] # b
        BY <1>b, RequestFacts
      <3>4. \A q \in Requests \ {r} :
              Queued(q)' = Queued(q) /\ Released(q)' = Released(q)
        BY <2>0, <2>5, <3>3, RequestFacts DEF Queued, Released
      <3>5. \A q \in Requests \ {r, s} : Granted(q)' = Granted(q)
        BY <2>0, <2>5, <3>3, <3>4, RequestFacts DEF Granted
      <3>6. Granted(s)' = Granted(s)
        BY <3>2 DEF Granted
      <3> QED  BY <3>1, <3>2, <3>4, <3>5, <3>6
    <2>8. /\ Live(r)' /\ Live(p)' /\ Live(s) /\ ~Live(r)
          /\ \A q \in Requests \ {r} : Live(q)' = Live(q)
          /\ CownOf(s) = CownOf(r)
      <3>1. \A q \in Requests \ {r} : Live(q)' = Live(q)
        BY <2>7 DEF Live
      <3>2. Live(s) /\ CownOf(s) = CownOf(r)
        BY <2>3, RequestFacts DEF CownInv, PreInv
      <3>3. Live(r)' /\ ~Live(r)
        BY <2>1, <2>7 DEF Live
      <3> QED  BY <2>3, <2>4, <3>1, <3>2, <3>3
    <2>9. QueueInv'
      <3>0. TypeOK /\ TailInv /\ PreInv /\ PreInjective /\ UniqueHead /\ NextInv
        BY DEF CownInv
      <3>1. /\ \A c \in Cowns : last[c] # Nil => last[c] \in Requests
            /\ \A q \in Requests : pre[q] # Nil => pre[q] \in Requests
            /\ \A q \in Requests : next[q] # Nil => next[q] \in Requests
        BY <3>0 DEF TypeOK
      <3>2. TailInv'
        <4>1. \A c \in Cowns : last[c] # Nil =>
                 last[c] # r /\ last[c] # p /\ Live(last[c])
          BY <2>3, <2>8, <3>0, <3>1 DEF TailInv
        <4>2. ASSUME NEW c \in Cowns, last[c] = Nil
              PROVE  \A q \in Requests : Live(q)' => CownOf(q) # c
          BY <2>3, <2>8, <3>0, <4>2 DEF TailInv
        <4>3. ASSUME NEW c \in Cowns, NEW q \in Requests, last[c] = q
              PROVE  /\ CownOf(q) = c /\ Live(q)'
                     /\ \A w \in Requests : pre'[w] # q
          BY <2>5, <2>8, <3>0, <4>1, <4>3, RequestFacts DEF TailInv
        <4> SUFFICES ASSUME NEW c \in Cowns
                     PROVE  /\ last[c] = Nil =>
                                 \A q \in Requests : Live(q)' => CownOf(q) # c
                            /\ last[c] # Nil =>
                                 /\ CownOf(last[c]) = c
                                 /\ Live(last[c])'
                                 /\ \A w \in Requests : pre'[w] # last[c]
          BY <2>0 DEF TailInv
        <4>4. CASE last[c] = Nil
          BY <4>2, <4>4
        <4>5. CASE last[c] # Nil
          <5>1. PICK q \in Requests : last[c] = q
            BY <3>1, <4>5
          <5>2. last'[c] = q
            BY <2>0, <5>1
          <5>3. Live(last[c])'
            BY <4>3, <5>1, <5>2 DEF Live, Queued, Released
          <5> QED  BY <4>3, <4>5, <5>1, <5>3
        <4> QED  BY <4>4, <4>5
      <3>3. PreInv'
        BY <2>3, <2>5, <2>8, <3>0, <3>1 DEF PreInv
      <3>4. PreInjective'
        BY <2>2, <2>3, <2>5, <3>0 DEF PreInjective
      <3>5. UniqueHead'
        <4>1. pre'[r] # Nil /\ pre'[s] # Nil
          BY <1>b, <2>5, RequestFacts
        <4> QED  BY <2>5, <2>8, <3>0, <4>1 DEF UniqueHead
      <3>6. NextInv'
        <4>1. \A q \in Requests : ~Queued(q)' => next'[q] = Nil
          BY <2>3, <2>5, <2>7, <3>0 DEF NextInv, Live
        <4>2. \A q \in Requests \ {p, r} : Live(q) /\ next[q] # Nil =>
                next[q] # r /\ next[q] # s
          BY <2>2, <2>3, <3>0, RequestFacts DEF NextInv
        <4>3. \A q \in Requests : Live(q)' /\ next'[q] # Nil => pre'[next'[q]] = q
          BY <2>2, <2>4, <2>5, <2>8, <3>0, <3>1, <4>2 DEF NextInv
        <4> QED  BY <4>1, <4>3 DEF NextInv
      <3>7. Acyclic'
        <4> SUFFICES ASSUME NEW S \in SUBSET Requests, \A q \in S : pre'[q] \in S
                     PROVE  S = {}
          BY DEF Acyclic
        <4>1. r \in S => p \in S \ {r}
          BY <2>4, <2>5
        <4>2. \A q \in S \ {r} : pre[q] \in S \ {r}
          BY <2>2, <2>3, <2>5, <4>1
        <4>3. S \ {r} = {}
          BY <4>2 DEF CownInv, Acyclic
        <4> QED  BY <4>1, <4>3
      <3> QED  BY <3>2, <3>3, <3>4, <3>5, <3>6, <3>7 DEF QueueInv
    <2>10. SpawnInv'
      <3>1. \A v \in Behaviours : Anchored(v) => Anchored(v)'
        BY <2>0, AnchorKept
      <3>2. ~BeingLinked(s)
        <4> SUFFICES ASSUME BeingLinked(s)  PROVE FALSE
          OBVIOUS
        <4>1. SpawnOK(s[1]) /\ spawnPc[s[1]] \in {"link", "linkcur"} /\ SpawnReq(s[1]) = s
          BY <1>a, RequestFacts DEF BeingLinked, SpawnInv
        <4>2. at[s[1]] = p /\ next[p] = Nil
          BY <2>3, <4>1 DEF SpawnOK
        <4> QED  BY <1>f, <4>2, RequestFacts
      <3>3. SpawnOK(b)'
        <4>1. ~BeingLinked(s)'
          BY <1>b, <2>0, <2>5, <3>2, NotLinkedKept
        <4>2. ~BeingLinked(seen[b])'
          BY <1>d, <2>0, <4>1 DEF BeingLinked
        <4>3. SpawnReq(b)' = r /\ next'[r] = Nil /\ at'[b] = p /\ seen'[b] = s
          BY <1>b, <1>c, <1>d, <2>0, <2>2, <2>4, <2>5 DEF SpawnReq
        <4>4. Anchored(b)'
          BY <1>b, <3>1
        <4> QED  BY <1>b, <2>0, <2>5, <4>2, <4>3, <4>4 DEF SpawnOK
      <3>4. ASSUME NEW v \in Behaviours, v # b  PROVE SpawnOK(v)'
        <4>1. SpawnOK(v)
          BY <1>a DEF SpawnInv
        <4>2. spawnPc[v] \in SuccessorPcs => Anchored(v)'
          BY <3>1, <4>1 DEF SpawnOK
        <4>3. SpawnReq(v) \in Requests \ {r}
          BY <3>4, <4>1, RequestFacts DEF SpawnReq, SpawnOK
        <4>4. ASSUME spawnPc[v] \in {"link", "linkcur"}
              PROVE  pre'[SpawnReq(v)] = pre[SpawnReq(v)] /\ next'[at[v]] = next[at[v]]
          <5>1. at[v] \in Requests /\ next[at[v]] = Nil /\ BeingLinked(SpawnReq(v))
            BY <4>1, <4>4 DEF SpawnOK, BeingLinked, SpawnReq
          <5>2. SpawnReq(v) # s /\ at[v] # p
            BY <1>f, <3>2, <5>1, RequestFacts DEF BeingLinked
          <5> QED  BY <2>5, <4>3, <5>1, <5>2
        <4>5. ASSUME spawnPc[v] = "grant"
              PROVE  pre'[SpawnReq(v)] = pre[SpawnReq(v)]
          BY <2>3, <2>5, <4>1, <4>3, <4>5, RequestFacts DEF SpawnOK
        <4>6. ASSUME spawnPc[v] = "linknew"
              PROVE  /\ pre'[SpawnReq(v)] = pre[SpawnReq(v)]
                     /\ pre'[seen[v]] = pre[seen[v]]
                     /\ ~BeingLinked(seen[v])'
                     /\ next'[SpawnReq(v)] = next[SpawnReq(v)]
          <5>1. /\ seen[v] \in Requests /\ pre[seen[v]] = SpawnReq(v)
                /\ pre[SpawnReq(v)] = at[v] /\ next[SpawnReq(v)] = Nil
                /\ ~BeingLinked(seen[v]) /\ Anchored(v)
            BY <4>1, <4>6 DEF SpawnOK, SuccessorPcs
          <5>2. SpawnReq(v) # p
            BY <1>f, <5>1, RequestFacts
          <5>3. runPc[v] = "idle"
            BY <4>3, <5>1, Standing, RequestFacts DEF SpawnReq, Anchored
          <5>4. at[v] # p
            <6> SUFFICES ASSUME at[v] = p  PROVE FALSE
              OBVIOUS
            <6>1. Prog[p[1]][op[p[1]]].beh = v /\ Prog[p[1]][op[p[1]]].beh = b
              BY <1>b, <1>c, <5>1 DEF Anchored
            <6> QED  BY <3>4, <6>1
          <5>5. SpawnReq(v) # s
            BY <2>3, <5>1, <5>4
          <5>6. seen[v] # s /\ seen[v] # r
            BY <2>2, <2>3, <4>3, <5>1, <5>2, RequestFacts
          <5>7. PICK q \in Requests : q = seen[v]
            BY <5>1
          <5>8. ~BeingLinked(q)'
            BY <1>b, <2>0, <2>5, <5>1, <5>7, NotLinkedKept
          <5>9. ~BeingLinked(seen[v])'
            BY <2>0, <5>7, <5>8 DEF BeingLinked
          <5> QED  BY <2>5, <4>3, <5>1, <5>2, <5>5, <5>6, <5>9
        <4> QED
          BY <2>0, <2>5, <3>4, <4>1, <4>2, <4>4, <4>5, <4>6, OtherSpawnKept
      <3> QED  BY <3>3, <3>4 DEF SpawnInv
    <2>11. RunInv' /\ CurrentInv'
      <3>1. ASSUME NEW v \in Behaviours, runPc[v] = "handover"
            PROVE  pre'[succ[v]] = pre[succ[v]]
        <4>1. succ[v] \in Requests /\ pre[succ[v]] = RunReq(v)
          BY <3>1 DEF CownInv, RunInv, RunOK
        <4>2. RunReq(v) # p
          BY <2>3, <3>1 DEF RunReq
        <4>3. RunReq(v) \in Requests
          BY <3>1, RequestFacts DEF CownInv, RunInv, RunOK, RunReq
        <4> QED  BY <2>2, <2>3, <2>5, <4>1, <4>2, <4>3, RequestFacts
      <3>2. \A q \in Requests : Granted(q) => Granted(q)'
        BY <2>2, <2>7
      <3>3. \A q \in Requests : next[q] # Nil => next'[q] # Nil
        BY <1>b, <2>5, RequestFacts
      <3> QED  BY <2>0, <3>1, <3>2, <3>3, FramesKept
    <2>12. CountInv'
      <3>1. \A v \in Behaviours :
              /\ (spawnPc[v] = "unspawned")' = (spawnPc[v] = "unspawned")
              /\ (runPc[v] = "idle")' = (runPc[v] = "idle")
        BY <1>a, <2>0, <2>5
      <3>2. \A q \in Requests : Granted(q)' = Granted(q)
        BY <2>2, <2>7 DEF Granted
      <3> QED  BY <2>0, <3>1, <3>2, CountsUnchanged DEF CownInv
    <2> QED  BY <2>6, <2>9, <2>10, <2>11, <2>12 DEF CownInv, QueueInv
  <1> QED  BY <1>e, <1>f

-----------------------------------------------------------------------------
(* enqueueCown.                                                            *)

\* enqueueCown puts the request at the tail.
LEMMA SwapLastKeepsInv ==
  ASSUME CownInv, NEW b \in Behaviours, SwapLast(b)
  PROVE  CownInv'
  <1>a. TypeOK /\ SpawnOK(b) /\ SpawnInv /\ spawnPc[b] = "swap"
    BY DEF CownInv, SpawnInv, SwapLast
  <1>b. PICK i \in Slots(b) : spawnIdx[b] = i
    BY <1>a DEF SpawnOK
  <1> DEFINE r == <<b, i>>
  <1>c. r \in Requests /\ SpawnReq(b) = r /\ i \in Nat
    BY <1>b, RequestFacts, SlotFacts DEF SpawnReq
  <1>d. PICK p \in Requests \cup {Nil} : p = last[CownOf(r)]
    BY <1>a, <1>c, RequestFacts DEF TypeOK
  <1>0. /\ last' = [last EXCEPT ![CownOf(r)] = r]
        /\ at' = [at EXCEPT ![b] = p]
        /\ pre' = [pre EXCEPT ![r] = p]
        /\ spawnPc' = [spawnPc EXCEPT ![b] = IF p = Nil THEN "grant" ELSE "link"]
        /\ UNCHANGED <<currentReq, next, count, closed, op, spawnIdx, seen,
                       runPc, runIdx, succ>>
    BY <1>c, <1>d DEF SwapLast, runVars
  <1>e. /\ spawnPc'[b] = (IF p = Nil THEN "grant" ELSE "link")
        /\ at'[b] = p /\ pre'[r] = p
        /\ \A v \in Behaviours \ {b} : spawnPc'[v] = spawnPc[v] /\ at'[v] = at[v]
        /\ \A q \in Requests \ {r} : pre'[q] = pre[q]
    BY <1>0, <1>a, <1>c DEF TypeOK
  <1>1. TypeOK'
    <2>1. last' \in [Cowns -> Requests \cup {Nil}] /\ pre' \in [Requests -> Requests \cup {Nil}]
      BY <1>0, <1>a, <1>c DEF TypeOK
    <2>2. at' \in [Behaviours -> Requests \cup {Nil}] /\ spawnPc' \in [Behaviours -> SpawnPcs]
      BY <1>0, <1>a DEF TypeOK, SpawnPcs
    <2> QED  BY <1>0, <1>a, <2>1, <2>2 DEF TypeOK
  <1>2. ~Queued(r)
    BY <1>a, <1>b, <1>c DEF Queued
  <1>3. /\ runPc[b] = "idle" /\ pre[r] = Nil /\ next[r] = Nil /\ ~Granted(r)
        /\ \A q \in Requests : pre[q] # r
    BY <1>c, <1>2, Standing
  <1>4. /\ Queued(r)' /\ ~Granted(r)' /\ ~Released(r)'
        /\ \A q \in Requests \ {r} :
             /\ Queued(q)' = Queued(q) /\ Released(q)' = Released(q)
             /\ Granted(q)' = Granted(q)
    <2>1. Queued(r)' /\ ~Released(r)'
      BY <1>0, <1>b, <1>c, <1>e, <1>3 DEF Queued, Released
    <2>2. ~Granted(r)'
      BY <1>0, <1>b, <1>c, <1>e DEF Granted
    <2>3. \A q \in Requests \ {r} : q[1] = b => q[2] # i /\ q[2] \in Nat
      BY <1>c, RequestFacts, SlotFacts
    <2>4. \A q \in Requests \ {r} : Queued(q)' = Queued(q) /\ Released(q)' = Released(q)
      BY <1>0, <1>a, <1>b, <1>e, <2>3, RequestFacts DEF Queued, Released
    <2>5. \A q \in Requests \ {r} : Granted(q)' = Granted(q)
      BY <1>0, <1>a, <1>b, <1>e, <2>3, <2>4, RequestFacts DEF Granted
    <2> QED  BY <2>1, <2>2, <2>4, <2>5
  <1>5. QueueInv'
    BY <1>0, <1>c, <1>d, <1>2, <1>4, AppendTail DEF Live
  <1>6. SpawnInv'
    <2>1. SpawnOK(b)'
      <3>1. SpawnReq(b)' = r /\ spawnIdx'[b] = i
        BY <1>b, <1>0 DEF SpawnReq
      <3>2. p # Nil => p \in Requests /\ next'[p] = Nil
        <4>1. p # Nil => Live(p) /\ \A q \in Requests : pre[q] # p
          BY <1>c, <1>d, RequestFacts DEF CownInv, TailInv
        <4>2. p # Nil => (next[p] # Nil => next[p] \in Requests)
          BY <1>a, <1>d DEF TypeOK
        <4> QED  BY <1>0, <4>1, <4>2 DEF CownInv, NextInv
      <3> QED  BY <1>b, <1>e, <3>1, <3>2 DEF SpawnOK, SuccessorPcs
    <2>2. ASSUME NEW v \in Behaviours, v # b  PROVE SpawnOK(v)'
      <3>1. SpawnOK(v)
        BY <1>a DEF SpawnInv
      <3>2. spawnPc[v] \in SuccessorPcs => Anchored(v)'
        BY <1>0, <1>e, <2>2, <3>1, AnchorKept DEF SpawnOK
      <3>3. SpawnReq(v) \in Requests \ {r}
        BY <2>2, <3>1, RequestFacts DEF SpawnReq, SpawnOK
      <3>4. ASSUME spawnPc[v] = "linknew"
            PROVE  pre'[seen[v]] = pre[seen[v]] /\ ~BeingLinked(seen[v])'
        <4>1. /\ seen[v] \in Requests /\ ~BeingLinked(seen[v])
              /\ pre[seen[v]] \in Requests
          BY <3>1, <3>3, <3>4 DEF SpawnOK
        <4>2. seen[v] # r
          BY <1>3, <4>1, RequestFacts
        <4>3. PICK q \in Requests : q = seen[v]
          BY <4>1
        <4>4. ~BeingLinked(q)'
          BY <1>b, <1>0, <1>e, <4>1, <4>2, <4>3, NotLinkedKept
        <4> QED  BY <1>0, <1>e, <4>1, <4>2, <4>3, <4>4 DEF BeingLinked
      <3> QED  BY <1>0, <1>e, <2>2, <3>1, <3>2, <3>3, <3>4, OtherSpawnKept
    <2> QED  BY <2>1, <2>2 DEF SpawnInv
  <1>7. RunInv' /\ CurrentInv'
    <2>1. \A v \in Behaviours : runPc[v] = "handover" => pre'[succ[v]] = pre[succ[v]]
      <3> SUFFICES ASSUME NEW v \in Behaviours, runPc[v] = "handover"
                   PROVE  pre'[succ[v]] = pre[succ[v]]
        OBVIOUS
      <3>1. /\ succ[v] \in Requests /\ pre[succ[v]] = RunReq(v)
            /\ RunReq(v) \in Requests
        BY RequestFacts DEF CownInv, RunInv, RunOK, RunReq
      <3> QED  BY <1>3, <1>e, <3>1, RequestFacts
    <2>2. \A q \in Requests : Granted(q) => Granted(q)'
      BY <1>3, <1>4
    <2> QED  BY <1>0, <2>1, <2>2, FramesKept
  <1>8. CountInv'
    <2>1. \A v \in Behaviours :
            /\ (spawnPc[v] = "unspawned")' = (spawnPc[v] = "unspawned")
            /\ (runPc[v] = "idle")' = (runPc[v] = "idle")
      BY <1>a, <1>0, <1>e
    <2>2. \A q \in Requests : Granted(q)' = Granted(q)
      BY <1>3, <1>4 DEF Granted
    <2> QED  BY <1>0, <2>1, <2>2, CountsUnchanged DEF CownInv
  <1> QED  BY <1>1, <1>5, <1>6, <1>7, <1>8 DEF CownInv, QueueInv

\* Between two turns of ScheduleMulti's loop every earlier request is queued
\* and no later one is.
LEMMA EnqueueReturns ==
  ASSUME TypeOK, NEW b \in Behaviours, SpawnOK(b),
         spawnPc[b] \in {"grant", "link"}, NextEnqueue(b),
         UNCHANGED runIdx,
         \A v \in Behaviours : \/ runPc'[v] = runPc[v]
                               \/ runPc[v] = "idle" /\ runPc'[v] = "setcur"
  PROVE  /\ spawnPc'[b] \in {"swap", "spawned"} /\ spawnIdx'[b] \in Slots(b)
         /\ spawnPc' \in [Behaviours -> SpawnPcs] /\ spawnIdx' \in [Behaviours -> Nat]
         /\ \A v \in Behaviours \ {b} :
              spawnPc'[v] = spawnPc[v] /\ spawnIdx'[v] = spawnIdx[v]
         /\ \A r \in Requests : Queued(r)' = Queued(r) /\ Released(r)' = Released(r)
  <1>1. /\ spawnIdx[b] \in Slots(b) /\ Slots(b) = 1..Len(CownsOf[b])
        /\ Len(CownsOf[b]) \in Nat /\ spawnIdx[b] \in Nat
    BY SlotFacts DEF SpawnOK, TypeOK
  <1>2. CASE spawnIdx[b] < Len(CownsOf[b])
    <2>1. /\ spawnPc' = [spawnPc EXCEPT ![b] = "swap"]
          /\ spawnIdx' = [spawnIdx EXCEPT ![b] = spawnIdx[b] + 1]
      BY <1>2 DEF NextEnqueue
    <2>2. /\ spawnPc'[b] = "swap" /\ spawnIdx'[b] = spawnIdx[b] + 1
          /\ spawnPc' \in [Behaviours -> SpawnPcs] /\ spawnIdx' \in [Behaviours -> Nat]
          /\ \A v \in Behaviours \ {b} :
               spawnPc'[v] = spawnPc[v] /\ spawnIdx'[v] = spawnIdx[v]
      BY <1>1, <2>1 DEF TypeOK, SpawnPcs
    <2>3. spawnIdx'[b] \in Slots(b)
      BY <1>1, <1>2, <2>2
    <2>4. \A r \in Requests : Queued(r)' = Queued(r)
      <3> SUFFICES ASSUME NEW r \in Requests  PROVE Queued(r)' = Queued(r)
        OBVIOUS
      <3>1. r[1] \in Behaviours /\ (r[1] = b => r[2] \in Nat)
        BY RequestFacts, SlotFacts
      <3>2. CASE r[1] = b
        BY <1>1, <2>2, <3>1, <3>2 DEF Queued
      <3>3. CASE r[1] # b
        BY <2>2, <3>1, <3>3 DEF Queued
      <3> QED  BY <3>2, <3>3
    <2>5. \A r \in Requests : Released(r)' = Released(r)
      BY RequestFacts DEF Released
    <2> QED  BY <2>2, <2>3, <2>4, <2>5
  <1>3. CASE ~(spawnIdx[b] < Len(CownsOf[b]))
    <2>1. /\ spawnPc' = [spawnPc EXCEPT ![b] = "spawned"]
          /\ spawnIdx' = spawnIdx
      BY <1>3 DEF NextEnqueue
    <2>2. /\ spawnPc'[b] = "spawned"
          /\ spawnPc' \in [Behaviours -> SpawnPcs] /\ spawnIdx' \in [Behaviours -> Nat]
          /\ \A v \in Behaviours \ {b} :
               spawnPc'[v] = spawnPc[v] /\ spawnIdx'[v] = spawnIdx[v]
      BY <1>1, <2>1 DEF TypeOK, SpawnPcs
    <2>3. spawnIdx[b] = Len(CownsOf[b])
      BY <1>1, <1>3
    <2>4. \A r \in Requests : Queued(r)' = Queued(r)
      <3> SUFFICES ASSUME NEW r \in Requests  PROVE Queued(r)' = Queued(r)
        OBVIOUS
      <3>1. /\ r[1] \in Behaviours
            /\ r[1] = b => r[2] \in Nat /\ r[2] <= Len(CownsOf[b])
        BY <1>1, RequestFacts
      <3>2. CASE r[1] = b
        BY <1>1, <2>2, <2>3, <3>1, <3>2 DEF Queued
      <3>3. CASE r[1] # b
        BY <2>1, <2>2, <3>1, <3>3 DEF Queued
      <3> QED  BY <3>2, <3>3
    <2>5. \A r \in Requests : Released(r)' = Released(r)
      BY RequestFacts DEF Released
    <2> QED  BY <1>1, <2>1, <2>2, <2>4, <2>5
  <1> QED  BY <1>2, <1>3

\* enqueueCown links the old tail to the request.
LEMMA LinkPrevKeepsInv ==
  ASSUME CownInv, NEW b \in Behaviours, LinkPrev(b)
  PROVE  CownInv'
  <1>a. TypeOK /\ SpawnOK(b) /\ SpawnInv /\ spawnPc[b] = "link"
    BY DEF CownInv, SpawnInv, LinkPrev
  <1>b. PICK i \in Slots(b) : spawnIdx[b] = i
    BY <1>a DEF SpawnOK
  <1> DEFINE r == <<b, i>>
  <1>c. r \in Requests /\ SpawnReq(b) = r /\ i \in Nat
    BY <1>b, RequestFacts, SlotFacts DEF SpawnReq
  <1>d. PICK p \in Requests : p = at[b]
    BY <1>a DEF SpawnOK
  <1>0. /\ next' = [next EXCEPT ![p] = r]
        /\ UNCHANGED <<last, currentReq, count, closed, op, at, seen, runPc,
                       runIdx, succ, pre>>
    BY <1>c, <1>d DEF LinkPrev, runVars
  <1>e. /\ spawnPc'[b] \in {"swap", "spawned"} /\ spawnIdx'[b] \in Slots(b)
        /\ spawnPc' \in [Behaviours -> SpawnPcs]
        /\ spawnIdx' \in [Behaviours -> Nat]
        /\ \A v \in Behaviours \ {b} :
             spawnPc'[v] = spawnPc[v] /\ spawnIdx'[v] = spawnIdx[v]
        /\ \A q \in Requests : Queued(q)' = Queued(q) /\ Released(q)' = Released(q)
    <2>1. NextEnqueue(b)
      BY DEF LinkPrev
    <2>2. UNCHANGED runIdx /\ \A v \in Behaviours : runPc'[v] = runPc[v]
      BY <1>0
    <2>3. TypeOK /\ SpawnOK(b) /\ spawnPc[b] \in {"grant", "link"}
      BY <1>a
    <2> QED  BY <2>1, <2>2, <2>3, EnqueueReturns
  <1>f. pre[r] = p /\ next[p] = Nil /\ BeingLinked(r)
    BY <1>a, <1>c, <1>d DEF SpawnOK, BeingLinked
  <1>g. next'[p] = r /\ \A q \in Requests \ {p} : next'[q] = next[q]
    BY <1>0, <1>a, <1>c DEF TypeOK
  <1>1. TypeOK'
    <2>1. next' \in [Requests -> Requests \cup {Nil}]
      BY <1>0, <1>a, <1>c DEF TypeOK
    <2> QED  BY <1>0, <1>a, <1>e, <2>1 DEF TypeOK
  <1>2. \A q \in Requests : Granted(q)' = Granted(q)
    <2>1. pre[r] # Nil
      BY <1>f, RequestFacts
    <2>2. ASSUME NEW q \in Requests, q[1] = b  PROVE Granted(q)' = Granted(q)
      BY <1>0, <1>a, <1>e, <2>2 DEF Granted
    <2>3. ASSUME NEW q \in Requests, q[1] # b  PROVE Granted(q)' = Granted(q)
      BY <1>0, <1>e, <2>3, RequestFacts DEF Granted
    <2> QED  BY <2>2, <2>3
  <1>3. QueueInv'
    BY <1>0, <1>c, <1>e, <1>f, LinkKeepsChain
  <1>4. SpawnInv'
    <2>1. \A v \in Behaviours : Anchored(v) => Anchored(v)'
      BY <1>0, AnchorKept
    <2>2. SpawnOK(b)'
      BY <1>e DEF SpawnOK, SuccessorPcs
    <2>3. ASSUME NEW v \in Behaviours, v # b  PROVE SpawnOK(v)'
      <3>1. SpawnOK(v)
        BY <1>a DEF SpawnInv
      <3>2. spawnPc[v] \in SuccessorPcs => Anchored(v)'
        BY <3>1, <2>1 DEF SpawnOK
      <3>3. SpawnReq(v) \in Requests /\ SpawnReq(v) # r
        BY <2>3, <3>1, RequestFacts DEF SpawnReq, SpawnOK
      <3>4. spawnPc[v] \in {"link", "linkcur"} => at[v] \in Requests \ {p}
        BY <1>c, <1>f, <3>1, <3>3, RequestFacts DEF SpawnOK, CownInv, PreInjective
      <3>5. spawnPc[v] \in {"link", "linkcur"} => next'[at[v]] = next[at[v]]
        BY <1>g, <3>4
      <3>6. spawnPc[v] = "linknew" => SpawnReq(v) # p
        <4> SUFFICES ASSUME spawnPc[v] = "linknew", SpawnReq(v) = p
                     PROVE  FALSE
          OBVIOUS
        <4>1. /\ pre[seen[v]] = p /\ seen[v] \in Requests
              /\ ~BeingLinked(seen[v])
          BY <3>1 DEF SpawnOK
        <4>2. seen[v] = r
          BY <1>c, <1>f, <4>1, RequestFacts DEF CownInv, PreInjective
        <4> QED  BY <1>f, <4>1, <4>2
      <3>7. spawnPc[v] = "linknew" => next'[SpawnReq(v)] = next[SpawnReq(v)]
        BY <1>g, <3>3, <3>6
      <3>8. ASSUME spawnPc[v] = "linknew"  PROVE ~BeingLinked(seen[v])'
        <4>1. PICK q \in Requests : q = seen[v] /\ ~BeingLinked(q)
          BY <3>1, <3>8 DEF SpawnOK
        <4>2. ~BeingLinked(q)'
          BY <1>e, <4>1, NotLinkedKept
        <4> QED  BY <1>0, <4>1, <4>2 DEF BeingLinked
      <3> QED  BY <1>0, <1>e, <2>3, <3>1, <3>2, <3>5, <3>7, <3>8, OtherSpawnKept
    <2> QED  BY <2>2, <2>3 DEF SpawnInv
  <1>5. RunInv' /\ CurrentInv'
    <2>1. \A q \in Requests : next[q] # Nil => next'[q] # Nil
      BY <1>c, <1>g, RequestFacts
    <2> QED  BY <1>0, <1>2, <2>1, FramesKept
  <1>6. CountInv'
    <2>1. \A v \in Behaviours :
            /\ (spawnPc[v] = "unspawned")' = (spawnPc[v] = "unspawned")
            /\ (runPc[v] = "idle")' = (runPc[v] = "idle")
      BY <1>0, <1>a, <1>e
    <2> QED  BY <1>0, <1>2, <2>1, CountsUnchanged DEF CownInv
  <1> QED  BY <1>1, <1>3, <1>4, <1>5, <1>6 DEF CownInv, QueueInv
=============================================================================
