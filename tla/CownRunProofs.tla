----------------------------- MODULE CownRunProofs -----------------------------
(***************************************************************************)
(* Proofs that behaviour.run and releaseCown keep the invariant of the     *)
(* cown queue, and the theorems of the specification.                      *)
(***************************************************************************)
EXTENDS CownSpawnProofs

-----------------------------------------------------------------------------
(* Tokens.                                                                 *)

\* A token that arrives is one the behaviour was waiting for; the last one
\* launches it.
LEMMA TokenArrives ==
  ASSUME CownInv, NEW r \in Requests, Queued(r), ~Granted(r), Granted(r)',
         \A q \in Requests \ {r} : Granted(q)' = Granted(q),
         count' = [count EXCEPT ![r[1]] = count[r[1]] - 1],
         \A v \in Behaviours : (spawnPc[v] = "unspawned")' = (spawnPc[v] = "unspawned"),
         \A v \in Behaviours \ {r[1]} : (runPc[v] = "idle")' = (runPc[v] = "idle"),
         runPc'[r[1]] = IF count[r[1]] = 1 THEN "setcur" ELSE runPc[r[1]]
  PROVE  /\ CountInv' /\ count' \in [Behaviours -> Nat]
         /\ runPc[r[1]] = "idle"
         /\ count[r[1]] = 1 => \A i \in Slots(r[1]) : Granted(<<r[1], i>>)'
  <1>0. PICK b \in Behaviours : r[1] = b
    BY RequestFacts
  <1>1. PICK i \in Slots(b) : r = <<b, i>>
    BY <1>0, RequestFacts
  <1>2. count \in [Behaviours -> Nat] /\ CountOK(b) /\ CountInv
    BY DEF CownInv, TypeOK, CountInv
  <1>3. spawnPc[b] # "unspawned"
    BY <1>1 DEF Queued
  <1>4. /\ i \in Missing(b) /\ IsFiniteSet(Missing(b))
        /\ Missing(b)' = Missing(b) \ {i}
        /\ \A v \in Behaviours \ {b} : Missing(v)' = Missing(v)
    <2>1. i \in Missing(b)
      BY <1>1 DEF Missing
    <2>2. IsFiniteSet(Missing(b))
      BY SlotCount, FS_Subset DEF Missing
    <2>3. Missing(b)' = Missing(b) \ {i}
      <3>1. \A j \in Slots(b) \ {i} : Granted(<<b, j>>)' = Granted(<<b, j>>)
        BY <1>1, RequestFacts
      <3> QED  BY <1>1, <3>1 DEF Missing, Slots
    <2>4. \A v \in Behaviours \ {b} : Missing(v)' = Missing(v)
      <3>1. \A v \in Behaviours \ {b} : \A j \in Slots(v) :
              Granted(<<v, j>>)' = Granted(<<v, j>>)
        BY <1>1, RequestFacts
      <3> QED  BY <3>1 DEF Missing, Slots
    <2> QED  BY <2>1, <2>2, <2>3, <2>4
  <1>5. /\ Cardinality(Missing(b)) \in Nat /\ Cardinality(Missing(b)) > 0
        /\ Cardinality(Missing(b) \ {i}) = Cardinality(Missing(b)) - 1
    <2>1. Cardinality(Missing(b)) \in Nat
      BY <1>4, FS_CardinalityType
    <2>2. Cardinality(Missing(b) \ {i}) = Cardinality(Missing(b)) - 1
      BY <1>4, FS_RemoveElement
    <2>3. Cardinality(Missing(b)) # 0
      BY <1>4, FS_EmptySet
    <2> QED  BY <2>1, <2>2, <2>3
  <1>6. /\ count[b] = Cardinality(Missing(b)) /\ count[b] \in Nat /\ count[b] > 0
        /\ runPc[b] = "idle"
    BY <1>2, <1>3, <1>5 DEF CountOK
  <1>7. /\ count'[b] = Cardinality(Missing(b)') /\ count'[b] \in Nat
        /\ count' \in [Behaviours -> Nat]
        /\ \A v \in Behaviours \ {b} : count'[v] = count[v]
        /\ runPc'[b] = "idle" <=> count'[b] > 0
    <2>1. /\ count'[b] = count[b] - 1
          /\ \A v \in Behaviours \ {b} : count'[v] = count[v]
          /\ count' \in [Behaviours -> Int]
      BY <1>1, <1>2, <1>6
    <2>2. runPc'[b] = IF count[b] = 1 THEN "setcur" ELSE "idle"
      BY <1>1, <1>6
    <2>3. count'[b] = Cardinality(Missing(b)')
      BY <1>4, <1>5, <1>6, <2>1
    <2>4. count' \in [Behaviours -> Nat]
      BY <1>1, <1>2, <1>6
    <2>5. runPc'[b] = "idle" <=> count'[b] > 0
      BY <1>6, <2>1, <2>2
    <2> QED  BY <1>6, <2>1, <2>3, <2>4, <2>5
  <1>8. count[b] = 1 => \A j \in Slots(b) : Granted(<<b, j>>)'
    <2> SUFFICES ASSUME count[b] = 1  PROVE \A j \in Slots(b) : Granted(<<b, j>>)'
      OBVIOUS
    <2>1. Cardinality(Missing(b)') = 0
      BY <1>4, <1>5, <1>6
    <2>2. IsFiniteSet(Missing(b) \ {i})
      BY <1>4, FS_Subset
    <2>3. Missing(b)' = {}
      BY <1>4, <2>1, <2>2, FS_EmptySet
    <2> QED  BY <2>3 DEF Missing, Slots
  <1>9. CountInv'
    <2>1. CountOK(b)'
      BY <1>3, <1>7 DEF CountOK
    <2>2. ASSUME NEW v \in Behaviours, v # b  PROVE CountOK(v)'
      BY <1>1, <1>2, <1>4, <1>7, <2>2 DEF CountOK, CountInv
    <2> QED  BY <2>1, <2>2 DEF CountInv
  <1> QED  BY <1>1, <1>6, <1>7, <1>8, <1>9

\* The frame of a goroutine that takes no step keeps its meaning.
LEMMA RunFrameKept ==
  ASSUME NEW v \in Behaviours, RunOK(v), CurrentOK(v),
         runPc'[v] = runPc[v], runIdx'[v] = runIdx[v], succ'[v] = succ[v],
         \A i \in Slots(v) : Granted(<<v, i>>) => Granted(<<v, i>>)',
         runPc[v] = "handover" => /\ pre'[succ[v]] = pre[succ[v]]
                                  /\ next'[RunReq(v)] = next[RunReq(v)],
         \A i \in Slots(v) :
           currentReq[CownsOf[v][i]] = <<v, i>> /\ runPc[v] # "idle"
             => currentReq'[CownsOf[v][i]] = <<v, i>>
  PROVE  RunOK(v)' /\ CurrentOK(v)'
  <1>1. RunOK(v)'
    BY DEF RunOK, RunReq, Slots
  <1>2. CurrentOK(v)'
    BY DEF CurrentOK, Slots
  <1> QED  BY <1>1, <1>2

\* The cown is idle: the token arrives at once.
LEMMA GrantIdleKeepsInv ==
  ASSUME CownInv, NEW b \in Behaviours, GrantIdle(b)
  PROVE  CownInv'
  <1>a. TypeOK /\ SpawnOK(b) /\ SpawnInv /\ spawnPc[b] = "grant"
    BY DEF CownInv, SpawnInv, GrantIdle
  <1>b. PICK i \in Slots(b) : spawnIdx[b] = i
    BY <1>a DEF SpawnOK
  <1> DEFINE r == <<b, i>>
  <1>c. r \in Requests /\ SpawnReq(b) = r /\ i \in Nat
    BY <1>b, RequestFacts, SlotFacts DEF SpawnReq
  <1>0. /\ count' = [count EXCEPT ![b] = count[b] - 1]
        /\ runPc' = [runPc EXCEPT ![b] = IF count[b] = 1 THEN "setcur" ELSE runPc[b]]
        /\ NextEnqueue(b)
        /\ UNCHANGED <<last, currentReq, next, closed, op, at, seen, runIdx,
                       succ, pre>>
    BY DEF GrantIdle, Grant
  <1>d. /\ pre[r] = Nil /\ Queued(r) /\ ~Granted(r) /\ runPc[b] = "idle"
    <2>1. pre[r] = Nil /\ Queued(r) /\ ~Granted(r)
      BY <1>a, <1>b, <1>c DEF SpawnOK, Queued, Granted
    <2>2. runPc[b] = "idle"
      BY <1>b, <2>1 DEF CownInv, RunInv, RunOK
    <2> QED  BY <2>1, <2>2
  <1>e. /\ runPc'[b] = IF count[b] = 1 THEN "setcur" ELSE "idle"
        /\ \A v \in Behaviours \ {b} : runPc'[v] = runPc[v]
        /\ runPc' \in [Behaviours -> RunPcs]
    BY <1>a, <1>0, <1>d DEF TypeOK, RunPcs
  <1>f. /\ spawnPc'[b] \in {"swap", "spawned"} /\ spawnIdx'[b] \in Slots(b)
        /\ spawnPc' \in [Behaviours -> SpawnPcs]
        /\ spawnIdx' \in [Behaviours -> Nat]
        /\ \A v \in Behaviours \ {b} :
             spawnPc'[v] = spawnPc[v] /\ spawnIdx'[v] = spawnIdx[v]
        /\ \A q \in Requests : Queued(q)' = Queued(q) /\ Released(q)' = Released(q)
    <2>1. spawnPc[b] \in {"grant", "link"} /\ UNCHANGED runIdx
      BY <1>a, <1>0
    <2>2. \A v \in Behaviours : \/ runPc'[v] = runPc[v]
                                \/ runPc[v] = "idle" /\ runPc'[v] = "setcur"
      BY <1>d, <1>e
    <2> QED  BY <1>a, <1>0, <2>1, <2>2, EnqueueReturns
  <1>1. Granted(r)' /\ \A q \in Requests \ {r} : Granted(q)' = Granted(q)
    <2>1. Granted(r)'
      BY <1>0, <1>c, <1>d, <1>f DEF Granted
    <2>2. ASSUME NEW q \in Requests \ {r}, q[1] = b  PROVE Granted(q)' = Granted(q)
      <3>1. q[2] # i
        BY <2>2, RequestFacts
      <3> QED  BY <1>0, <1>b, <1>f, <2>2, <3>1 DEF Granted
    <2>3. ASSUME NEW q \in Requests \ {r}, q[1] # b  PROVE Granted(q)' = Granted(q)
      BY <1>0, <1>f, <2>3, RequestFacts DEF Granted
    <2> QED  BY <2>1, <2>2, <2>3
  <1>2. /\ CountInv' /\ count' \in [Behaviours -> Nat]
        /\ count[b] = 1 => \A j \in Slots(b) : Granted(<<b, j>>)'
    <2>1. \A v \in Behaviours : (spawnPc[v] = "unspawned")' = (spawnPc[v] = "unspawned")
      BY <1>a, <1>f
    <2>2. \A v \in Behaviours \ {b} : (runPc[v] = "idle")' = (runPc[v] = "idle")
      BY <1>e
    <2>3. r[1] = b /\ runPc'[b] = IF count[b] = 1 THEN "setcur" ELSE runPc[b]
      BY <1>d, <1>e
    <2> QED  BY <1>0, <1>c, <1>d, <1>1, <2>1, <2>2, <2>3, TokenArrives
  <1>3. TypeOK'
    BY <1>a, <1>0, <1>e, <1>f, <1>2 DEF TypeOK
  <1>4. QueueInv'
    BY <1>a, <1>0, <1>f, ChainUnchanged DEF CownInv, QueueInv
  <1>5. SpawnInv'
    <2>1. SpawnOK(b)'
      BY <1>f DEF SpawnOK, SuccessorPcs
    <2>2. ASSUME NEW v \in Behaviours, v # b  PROVE SpawnOK(v)'
      <3>1. SpawnOK(v)
        BY <1>a DEF SpawnInv
      <3>2. ASSUME spawnPc[v] \in SuccessorPcs  PROVE Anchored(v)'
        <4>1. Anchored(v) /\ at'[v] = at[v] /\ UNCHANGED op
          BY <1>0, <3>1, <3>2 DEF SpawnOK
        <4>2. at[v] \in Requests /\ runPc[at[v][1]] = "body"
          BY <4>1 DEF Anchored
        <4>3. runPc'[at[v][1]] = runPc[at[v][1]]
          BY <1>d, <1>e, <4>2, RequestFacts
        <4> QED  BY <4>1, <4>3, AnchorKept
      <3>3. \A w \in Behaviours : spawnPc'[w] \in {"link", "linkcur"} =>
              spawnPc'[w] = spawnPc[w] /\ spawnIdx'[w] = spawnIdx[w]
        BY <1>f
      <3> QED  BY <1>0, <1>f, <2>2, <3>1, <3>2, <3>3, SpawnFrameKept
    <2> QED  BY <2>1, <2>2 DEF SpawnInv
  <1>6. RunInv' /\ CurrentInv'
    <2>1. \A v \in Behaviours : RunOK(v) /\ CurrentOK(v)
      BY DEF CownInv, RunInv, CurrentInv
    <2>2. RunOK(b)' /\ CurrentOK(b)'
      <3>1. runIdx'[b] = 1 /\ 1 \in Slots(b) /\ \A j \in Slots(b) : ~(j < 1)
        BY <1>0, <1>d, <2>1, SlotFacts DEF RunOK
      <3>2. RunOK(b)'
        BY <1>e, <1>2, <3>1 DEF RunOK, Slots
      <3>3. CurrentOK(b)'
        BY <1>e, <3>1 DEF CurrentOK, Slots
      <3> QED  BY <3>2, <3>3
    <2>3. ASSUME NEW v \in Behaviours, v # b  PROVE RunOK(v)' /\ CurrentOK(v)'
      <3>1. \A j \in Slots(v) : Granted(<<v, j>>) => Granted(<<v, j>>)'
        BY <1>1, <2>3, RequestFacts
      <3> QED  BY <1>0, <1>e, <2>1, <2>3, <3>1, RunFrameKept
    <2> QED  BY <2>2, <2>3 DEF RunInv, CurrentInv
  <1> QED  BY <1>2, <1>3, <1>4, <1>5, <1>6 DEF CownInv, QueueInv

-----------------------------------------------------------------------------
(* Steps of behaviour.run that move no token.                              *)

\* What a goroutine holds is live and has nothing ahead of it, and no other
\* request holds the same cown.
LEMMA Holders ==
  ASSUME CownInv, NEW b \in Behaviours, NEW i \in Slots(b), Holds(b, i)
  PROVE  /\ Live(<<b, i>>) /\ Granted(<<b, i>>) /\ pre[<<b, i>>] = Nil
         /\ \A v \in Behaviours : \A j \in Slots(v) :
              Holds(v, j) /\ CownsOf[v][j] = CownsOf[b][i] => v = b /\ j = i
  <1>1. \A v \in Behaviours : \A j \in Slots(v) : Holds(v, j) =>
          /\ Live(<<v, j>>) /\ Granted(<<v, j>>) /\ pre[<<v, j>>] = Nil
    BY DEF Holds, CownInv, RunInv, RunOK, Granted, Live
  <1>2. ASSUME NEW v \in Behaviours, NEW j \in Slots(v), Holds(v, j),
               CownsOf[v][j] = CownsOf[b][i]
        PROVE  v = b /\ j = i
    <2>1. CownOf(<<v, j>>) = CownOf(<<b, i>>)
      BY <1>2, RequestFacts
    <2>2. <<v, j>> \in Requests /\ <<b, i>> \in Requests
      BY RequestFacts
    <2>3. <<v, j>> = <<b, i>>
      BY <1>1, <1>2, <2>1, <2>2 DEF CownInv, UniqueHead
    <2> QED  BY <2>3
  <1> QED  BY <1>1, <1>2

\* A turn of a loop of run.
LEMMA NextSlotFacts ==
  ASSUME TypeOK, NEW b \in Behaviours, runIdx[b] \in Slots(b),
         NEW pc \in RunPcs, NEW done \in RunPcs, NextSlot(b, pc, done)
  PROVE  /\ runPc' \in [Behaviours -> RunPcs] /\ runIdx' \in [Behaviours -> Nat]
         /\ runIdx'[b] \in Slots(b)
         /\ runIdx[b] < Len(CownsOf[b])
              => runPc'[b] = pc /\ runIdx'[b] = runIdx[b] + 1
         /\ ~(runIdx[b] < Len(CownsOf[b]))
              => /\ runPc'[b] = done /\ runIdx'[b] = 1
                 /\ runIdx[b] = Len(CownsOf[b])
         /\ \A v \in Behaviours \ {b} : runPc'[v] = runPc[v] /\ runIdx'[v] = runIdx[v]
  <1>1. /\ Slots(b) = 1..Len(CownsOf[b]) /\ Len(CownsOf[b]) \in Nat \ {0}
        /\ runIdx \in [Behaviours -> Nat] /\ runPc \in [Behaviours -> RunPcs]
    BY SlotFacts DEF TypeOK
  <1>2. CASE runIdx[b] < Len(CownsOf[b])
    <2>1. /\ runIdx' = [runIdx EXCEPT ![b] = runIdx[b] + 1]
          /\ runPc' = [runPc EXCEPT ![b] = pc]
      BY <1>2 DEF NextSlot
    <2> QED  BY <1>1, <1>2, <2>1
  <1>3. CASE ~(runIdx[b] < Len(CownsOf[b]))
    <2>1. /\ runIdx' = [runIdx EXCEPT ![b] = 1]
          /\ runPc' = [runPc EXCEPT ![b] = done]
      BY <1>3 DEF NextSlot
    <2> QED  BY <1>1, <1>3, <2>1
  <1> QED  BY <1>2, <1>3

\* A step of a running behaviour that moves no pointer leaves every call, every
\* grant and every count as it was.
LEMMA RunStepFrame ==
  ASSUME CownInv, NEW b \in Behaviours, runPc[b] # "idle", runPc'[b] # "idle",
         runPc[b] = "body" => LastReturned(b),
         \A v \in Behaviours \ {b} : runPc'[v] = runPc[v],
         UNCHANGED <<next, count, op, spawnPc, spawnIdx, at, seen, pre>>
  PROVE  /\ SpawnInv' /\ CountInv'
         /\ \A q \in Requests : Queued(q)' = Queued(q) /\ Granted(q)' = Granted(q)
  <1>1. \A q \in Requests : Queued(q)' = Queued(q) /\ Granted(q)' = Granted(q)
    <2>1. \A q \in Requests : Queued(q)' = Queued(q)
      BY DEF Queued
    <2> QED  BY <2>1 DEF Granted
  <1>2. CountInv'
    <2>1. \A v \in Behaviours :
            /\ (spawnPc[v] = "unspawned")' = (spawnPc[v] = "unspawned")
            /\ (runPc[v] = "idle")' = (runPc[v] = "idle")
      OBVIOUS
    <2> QED  BY <1>1, <2>1, CountsUnchanged DEF CownInv
  <1>3. ASSUME NEW v \in Behaviours  PROVE SpawnOK(v)'
    <2>1. SpawnOK(v)
      BY DEF CownInv, SpawnInv
    <2>2. ASSUME spawnPc[v] \in SuccessorPcs  PROVE Anchored(v)'
      <3>1. Anchored(v)
        BY <2>1, <2>2 DEF SpawnOK
      <3>2. PICK g \in Behaviours : g = at[v][1]
        BY <3>1, RequestFacts DEF Anchored
      <3>3. /\ runPc[g] = "body" /\ op[g] \in 1..Len(Prog[g])
            /\ Prog[g][op[g]] = [op |-> "successor", beh |-> v]
        BY <3>1, <3>2 DEF Anchored
      <3>4. g # b
        BY <2>2, <3>3, NotAnchor
      <3>5. runPc'[at[v][1]] = runPc[at[v][1]]
        BY <3>2, <3>4
      <3> QED  BY <3>1, <3>5, AnchorKept
    <2>3. \A w \in Behaviours : spawnPc'[w] \in {"link", "linkcur"} =>
            spawnPc'[w] = spawnPc[w] /\ spawnIdx'[w] = spawnIdx[w]
      OBVIOUS
    <2> QED  BY <2>1, <2>2, <2>3, SpawnFrameKept
  <1> QED  BY <1>1, <1>2, <1>3 DEF SpawnInv

\* run names its request on a cown it holds.
LEMMA SetCurrentKeepsInv ==
  ASSUME CownInv, NEW b \in Behaviours, SetCurrent(b)
  PROVE  CownInv'
  <1>a. TypeOK /\ RunOK(b) /\ CurrentOK(b) /\ runPc[b] = "setcur"
    BY DEF CownInv, RunInv, CurrentInv, SetCurrent
  <1>b. PICK i \in Slots(b) : runIdx[b] = i
    BY <1>a DEF RunOK
  <1> DEFINE r == <<b, i>>
             c == CownsOf[b][i]
  <1>c. /\ r \in Requests /\ RunReq(b) = r /\ CownOf(r) = c /\ c \in Cowns
        /\ i \in Nat /\ Slots(b) = 1..Len(CownsOf[b]) /\ Len(CownsOf[b]) \in Nat
    BY <1>b, RequestFacts, SlotFacts DEF RunReq
  <1>0. /\ currentReq' = [currentReq EXCEPT ![c] = r]
        /\ NextSlot(b, "setcur", "body")
        /\ UNCHANGED <<last, next, count, closed, op, spawnPc, spawnIdx, at,
                       seen, succ, pre>>
    BY <1>c DEF SetCurrent, spawnVars
  <1>d. /\ runPc' \in [Behaviours -> RunPcs] /\ runIdx' \in [Behaviours -> Nat]
        /\ runIdx'[b] \in Slots(b)
        /\ i < Len(CownsOf[b]) => runPc'[b] = "setcur" /\ runIdx'[b] = i + 1
        /\ ~(i < Len(CownsOf[b])) => /\ runPc'[b] = "body"
                                     /\ i = Len(CownsOf[b])
        /\ \A v \in Behaviours \ {b} : runPc'[v] = runPc[v] /\ runIdx'[v] = runIdx[v]
    <2>1. "setcur" \in RunPcs /\ "body" \in RunPcs
      BY DEF RunPcs
    <2> QED  BY <1>a, <1>b, <1>0, <2>1, NextSlotFacts
  <1>e. currentReq'[c] = r /\ \A d \in Cowns \ {c} : currentReq'[d] = currentReq[d]
    BY <1>a, <1>c, <1>0 DEF TypeOK
  <1>1. TypeOK'
    <2>1. currentReq' \in [Cowns -> Requests \cup {Nil}]
      BY <1>a, <1>c, <1>0 DEF TypeOK
    <2> QED  BY <1>a, <1>0, <1>d, <2>1 DEF TypeOK
  <1>2. /\ SpawnInv' /\ CountInv'
        /\ \A q \in Requests : Queued(q)' = Queued(q) /\ Granted(q)' = Granted(q)
    <2>1. runPc'[b] # "idle"
      BY <1>d
    <2> QED  BY <1>a, <1>0, <1>d, <2>1, RunStepFrame
  <1>3. \A q \in Requests : Released(q)' = Released(q)
    BY <1>a, <1>d, RequestFacts DEF Released
  <1>4. QueueInv'
    BY <1>a, <1>0, <1>2, <1>3, ChainUnchanged DEF CownInv, QueueInv
  <1>5. Holds(b, i)
    BY <1>a DEF Holds, Released
  <1>6. RunOK(b)' /\ CurrentOK(b)'
    <2>1. RunOK(b)'
      <3>1. \A j \in Slots(b) : Granted(<<b, j>>)'
        BY <1>a, <1>2, RequestFacts DEF RunOK
      <3> QED  BY <1>d, <3>1 DEF RunOK, Slots
    <2>2. ASSUME NEW j \in Slots(b), j < i  PROVE currentReq'[CownsOf[b][j]] = <<b, j>>
      <3>1. currentReq[CownsOf[b][j]] = <<b, j>>
        BY <1>a, <1>b, <2>2 DEF CurrentOK
      <3>2. Holds(b, j)
        BY <1>a DEF Holds, Released
      <3>3. CownsOf[b][j] # c /\ CownsOf[b][j] \in Cowns
        BY <1>5, <2>2, <3>2, <1>c, Holders, SlotFacts
      <3> QED  BY <1>e, <3>1, <3>3
    <2>3. ASSUME NEW j \in Slots(b), runPc'[b] = "body" \/ (runPc'[b] = "setcur" /\ j < runIdx'[b])
          PROVE  currentReq'[CownsOf[b][j]] = <<b, j>>
      <3>1. j \in Nat /\ j <= i
        BY <1>c, <1>d, <2>3
      <3>2. CASE j = i
        BY <1>e, <3>2
      <3>3. CASE j < i
        BY <2>2, <3>3
      <3> QED  BY <1>c, <3>1, <3>2, <3>3
    <2> QED  BY <2>1, <2>3 DEF CurrentOK, Slots
  <1>7. ASSUME NEW v \in Behaviours, v # b  PROVE RunOK(v)' /\ CurrentOK(v)'
    <2>1. RunOK(v) /\ CurrentOK(v)
      BY DEF CownInv, RunInv, CurrentInv
    <2>2. \A j \in Slots(v) : Granted(<<v, j>>) => Granted(<<v, j>>)'
      BY <1>2, RequestFacts
    <2>3. runPc[v] = "body" \/ runPc[v] = "setcur" =>
            \A j \in Slots(v) : CownsOf[v][j] \in Cowns \ {c}
      <3> SUFFICES ASSUME runPc[v] = "body" \/ runPc[v] = "setcur", NEW j \in Slots(v)
                   PROVE  CownsOf[v][j] \in Cowns \ {c}
        OBVIOUS
      <3>1. Holds(v, j)
        BY DEF Holds, Released
      <3> QED  BY <1>5, <1>7, <3>1, Holders, SlotFacts
    <2>4. RunOK(v)'
      BY <1>0, <1>d, <1>7, <2>1, <2>2 DEF RunOK, RunReq, Slots
    <2>5. CurrentOK(v)'
      BY <1>d, <1>e, <1>7, <2>1, <2>3 DEF CurrentOK, Slots
    <2> QED  BY <2>4, <2>5
  <1> QED  BY <1>1, <1>2, <1>4, <1>6, <1>7 DEF CownInv, QueueInv, RunInv, CurrentInv

\* A step that leaves behaviour.run outside fn and outside its first loop
\* keeps what run relies on.
LEMMA PastBodyKept ==
  ASSUME CownInv, NEW b \in Behaviours, runPc[b] # "idle",
         runPc'[b] \in {"clearcur", "close", "release", "await", "finished"},
         runIdx'[b] \in Slots(b), runPc'[b] = "close" => runIdx'[b] = 1,
         \A v \in Behaviours \ {b} : runPc'[v] = runPc[v] /\ runIdx'[v] = runIdx[v],
         UNCHANGED <<next, pre, succ>>,
         \A q \in Requests : Granted(q)' = Granted(q),
         \A v \in Behaviours \ {b} : \A j \in Slots(v) :
           runPc[v] \in {"body", "setcur"}
             => currentReq'[CownsOf[v][j]] = currentReq[CownsOf[v][j]]
  PROVE  RunInv' /\ CurrentInv'
  <1>1. \A v \in Behaviours : RunOK(v) /\ CurrentOK(v)
    BY DEF CownInv, RunInv, CurrentInv
  <1>2. \A v \in Behaviours : \A j \in Slots(v) : Granted(<<v, j>>)' = Granted(<<v, j>>)
    BY RequestFacts
  <1>3. RunOK(b)' /\ CurrentOK(b)'
    <2>1. RunOK(b)'
      BY <1>1, <1>2 DEF RunOK, Slots
    <2>2. CurrentOK(b)'
      BY DEF CurrentOK
    <2> QED  BY <2>1, <2>2
  <1>4. ASSUME NEW v \in Behaviours, v # b  PROVE RunOK(v)' /\ CurrentOK(v)'
    <2>1. RunOK(v)'
      BY <1>1, <1>2, <1>4 DEF RunOK, RunReq, Slots
    <2>2. CurrentOK(v)'
      BY <1>1, <1>4 DEF CurrentOK, Slots
    <2> QED  BY <2>1, <2>2
  <1> QED  BY <1>3, <1>4 DEF RunInv, CurrentInv

\* fn returns when its calls have.
LEMMA FnReturnsKeepsInv ==
  ASSUME CownInv, NEW b \in Behaviours, FnReturns(b)
  PROVE  CownInv'
  <1>a. TypeOK /\ RunOK(b)
    BY DEF CownInv, RunInv
  <1>0. /\ runPc[b] = "body" /\ LastReturned(b)
        /\ runPc' = [runPc EXCEPT ![b] = "clearcur"]
        /\ UNCHANGED <<last, currentReq, next, count, closed, op, spawnPc,
                       spawnIdx, at, seen, runIdx, succ, pre>>
    BY CownAssumption DEF FnReturns, InBody, sharedVars, spawnVars
  <1>1. /\ runPc'[b] = "clearcur" /\ runPc' \in [Behaviours -> RunPcs]
        /\ \A v \in Behaviours \ {b} : runPc'[v] = runPc[v] /\ runIdx'[v] = runIdx[v]
    BY <1>a, <1>0 DEF TypeOK, RunPcs
  <1>2. TypeOK'
    BY <1>a, <1>0, <1>1 DEF TypeOK
  <1>3. /\ SpawnInv' /\ CountInv'
        /\ \A q \in Requests : Queued(q)' = Queued(q) /\ Granted(q)' = Granted(q)
    BY <1>0, <1>1, RunStepFrame
  <1>4. QueueInv'
    <2>1. \A q \in Requests : Released(q)' = Released(q)
      BY <1>0, <1>1, RequestFacts DEF Released
    <2> QED  BY <1>a, <1>0, <1>3, <2>1, ChainUnchanged DEF CownInv, QueueInv
  <1>5. RunInv' /\ CurrentInv'
    <2>1. runIdx'[b] \in Slots(b)
      BY <1>a, <1>0 DEF RunOK
    <2> QED  BY <1>0, <1>1, <1>3, <2>1, PastBodyKept
  <1> QED  BY <1>2, <1>3, <1>4, <1>5 DEF CownInv, QueueInv

\* run clears its request on a cown it holds.
LEMMA ClearCurrentKeepsInv ==
  ASSUME CownInv, NEW b \in Behaviours, ClearCurrent(b)
  PROVE  CownInv'
  <1>a. TypeOK /\ RunOK(b) /\ runPc[b] = "clearcur"
    BY DEF CownInv, RunInv, ClearCurrent
  <1>b. PICK i \in Slots(b) : runIdx[b] = i
    BY <1>a DEF RunOK
  <1> DEFINE c == CownsOf[b][i]
  <1>c. CownOf(RunReq(b)) = c /\ c \in Cowns
    BY <1>b, RequestFacts, SlotFacts DEF RunReq
  <1>0. /\ currentReq' = [currentReq EXCEPT ![c] = Nil]
        /\ NextSlot(b, "clearcur", "close")
        /\ UNCHANGED <<last, next, count, closed, op, spawnPc, spawnIdx, at,
                       seen, succ, pre>>
    BY <1>c DEF ClearCurrent, spawnVars
  <1>1. /\ runPc' \in [Behaviours -> RunPcs] /\ runIdx' \in [Behaviours -> Nat]
        /\ runIdx'[b] \in Slots(b) /\ runPc'[b] \in {"clearcur", "close"}
        /\ runPc'[b] = "close" => runIdx'[b] = 1
        /\ \A v \in Behaviours \ {b} : runPc'[v] = runPc[v] /\ runIdx'[v] = runIdx[v]
    <2>1. "clearcur" \in RunPcs /\ "close" \in RunPcs
      BY DEF RunPcs
    <2> QED  BY <1>a, <1>0, <2>1, NextSlotFacts DEF RunOK
  <1>2. TypeOK'
    <2>1. currentReq' \in [Cowns -> Requests \cup {Nil}]
      BY <1>a, <1>c, <1>0 DEF TypeOK
    <2> QED  BY <1>a, <1>0, <1>1, <2>1 DEF TypeOK
  <1>3. /\ SpawnInv' /\ CountInv'
        /\ \A q \in Requests : Queued(q)' = Queued(q) /\ Granted(q)' = Granted(q)
    BY <1>a, <1>0, <1>1, RunStepFrame
  <1>4. QueueInv'
    <2>1. \A q \in Requests : Released(q)' = Released(q)
      BY <1>a, <1>1, RequestFacts DEF Released
    <2> QED  BY <1>a, <1>0, <1>3, <2>1, ChainUnchanged DEF CownInv, QueueInv
  <1>5. RunInv' /\ CurrentInv'
    <2>1. Holds(b, i)
      BY <1>a DEF Holds, Released
    <2>2. ASSUME NEW v \in Behaviours \ {b}, NEW j \in Slots(v),
                 runPc[v] \in {"body", "setcur"}
          PROVE  currentReq'[CownsOf[v][j]] = currentReq[CownsOf[v][j]]
      <3>1. Holds(v, j)
        BY <2>2 DEF Holds, Released
      <3>2. CownsOf[v][j] \in Cowns \ {c}
        BY <2>1, <2>2, <3>1, Holders, SlotFacts
      <3> QED  BY <1>a, <1>0, <3>2 DEF TypeOK
    <2> QED  BY <1>a, <1>0, <1>1, <1>3, <2>2, PastBodyKept
  <1> QED  BY <1>2, <1>3, <1>4, <1>5 DEF CownInv, QueueInv

\* run publishes its result.
LEMMA CloseKeepsInv ==
  ASSUME CownInv, NEW b \in Behaviours, Close(b)
  PROVE  CownInv'
  <1>a. TypeOK /\ RunOK(b)
    BY DEF CownInv, RunInv
  <1>0. /\ runPc[b] = "close"
        /\ closed' = closed \cup {b}
        /\ runPc' = [runPc EXCEPT ![b] = "release"]
        /\ UNCHANGED <<last, currentReq, next, count, op, spawnPc, spawnIdx,
                       at, seen, runIdx, succ, pre>>
    BY DEF Close, spawnVars
  <1>1. /\ runPc'[b] = "release" /\ runPc' \in [Behaviours -> RunPcs]
        /\ \A v \in Behaviours \ {b} : runPc'[v] = runPc[v] /\ runIdx'[v] = runIdx[v]
    BY <1>a, <1>0 DEF TypeOK, RunPcs
  <1>2. TypeOK'
    BY <1>a, <1>0, <1>1 DEF TypeOK
  <1>3. /\ SpawnInv' /\ CountInv'
        /\ \A q \in Requests : Queued(q)' = Queued(q) /\ Granted(q)' = Granted(q)
    BY <1>0, <1>1, RunStepFrame
  <1>4. QueueInv'
    <2>1. runIdx[b] = 1 /\ \A j \in Slots(b) : ~(j < 1)
      BY <1>0, <1>a, SlotFacts DEF RunOK
    <2>2. \A q \in Requests : Released(q)' = Released(q)
      BY <1>0, <1>1, <2>1, RequestFacts DEF Released
    <2> QED  BY <1>a, <1>0, <1>3, <2>2, ChainUnchanged DEF CownInv, QueueInv
  <1>5. RunInv' /\ CurrentInv'
    <2>1. runIdx'[b] \in Slots(b)
      BY <1>a, <1>0 DEF RunOK
    <2> QED  BY <1>0, <1>1, <1>3, <2>1, PastBodyKept
  <1> QED  BY <1>2, <1>3, <1>4, <1>5 DEF CownInv, QueueInv

-----------------------------------------------------------------------------
(* releaseCown.                                                            *)

\* The loop that releases the cowns leaves exactly one more request behind.
LEMMA ReleaseMoves ==
  ASSUME CownInv, NEW b \in Behaviours, NEW i \in Slots(b), runIdx[b] = i,
         runPc[b] \in {"release", "handover"},
         i < Len(CownsOf[b]) => runPc'[b] = "release" /\ runIdx'[b] = i + 1,
         ~(i < Len(CownsOf[b])) => runPc'[b] = "finished",
         \A v \in Behaviours \ {b} :
           /\ runIdx'[v] = runIdx[v]
           /\ \/ runPc'[v] = runPc[v]
              \/ runPc[v] = "idle" /\ runPc'[v] = "setcur"
  PROVE  /\ Released(<<b, i>>)' /\ ~Released(<<b, i>>)
         /\ \A q \in Requests \ {<<b, i>>} : Released(q)' = Released(q)
  <1>1. Slots(b) = 1..Len(CownsOf[b]) /\ Len(CownsOf[b]) \in Nat
    BY SlotFacts
  <1>2. Released(<<b, i>>)' /\ ~Released(<<b, i>>)
    BY <1>1 DEF Released
  <1>3. ASSUME NEW q \in Requests \ {<<b, i>>}, q[1] = b
        PROVE  Released(q)' = Released(q)
    <2>1. q[2] \in 1..Len(CownsOf[b]) /\ q[2] # i
      BY <1>1, <1>3, RequestFacts
    <2> QED  BY <1>1, <1>3, <2>1 DEF Released
  <1>4. ASSUME NEW q \in Requests \ {<<b, i>>}, q[1] # b
        PROVE  Released(q)' = Released(q)
    BY <1>4, RequestFacts DEF Released
  <1> QED  BY <1>2, <1>3, <1>4

\* A cown whose holder is the tail of its queue is idle once it is released.
LEMMA TailReleased ==
  ASSUME CownInv, NEW r \in Requests, Live(r), pre[r] = Nil,
         last[CownOf(r)] = r,
         last' = [last EXCEPT ![CownOf(r)] = Nil], UNCHANGED <<next, pre>>,
         Released(r)', \A q \in Requests : Queued(q)' = Queued(q),
         \A q \in Requests \ {r} : Released(q)' = Released(q)
  PROVE  QueueInv'
  <1>0. /\ TypeOK /\ TailInv /\ PreInv /\ PreInjective /\ UniqueHead /\ Acyclic
        /\ NextInv /\ Nil \notin Requests
    BY RequestFacts DEF CownInv
  <1>1. PICK c \in Cowns : c = CownOf(r)
    BY RequestFacts
  <1>2. /\ last'[c] = Nil /\ \A d \in Cowns \ {c} : last'[d] = last[d]
        /\ \A d \in Cowns : last[d] # Nil => last[d] \in Requests
        /\ \A q \in Requests : pre[q] # Nil => pre[q] \in Requests
    BY <1>0, <1>1 DEF TypeOK
  <1>3. ~Live(r)' /\ \A q \in Requests \ {r} : Live(q)' = Live(q)
    BY DEF Live
  <1>4. \A q \in Requests : pre[q] # r
    BY <1>0, <1>1 DEF TailInv
  <1>5. \A q \in Requests : Live(q) /\ CownOf(q) = c => q = r
    <2> DEFINE S == {q \in Requests : Live(q) /\ CownOf(q) = c /\ pre[q] # Nil}
    <2>1. \A q \in S : pre[q] \in S
      <3> SUFFICES ASSUME NEW q \in S  PROVE pre[q] \in S
        OBVIOUS
      <3>1. pre[q] \in Requests /\ Live(pre[q]) /\ CownOf(pre[q]) = c
        BY <1>0, <1>2 DEF PreInv
      <3>2. pre[q] # r
        BY <1>4
      <3>3. pre[pre[q]] # Nil
        BY <1>0, <1>1, <3>1, <3>2 DEF UniqueHead
      <3> QED  BY <3>1, <3>3
    <2>2. S = {}
      <3>1. S \in SUBSET Requests
        OBVIOUS
      <3> HIDE DEF S
      <3> QED  BY <1>0, <2>1, <3>1 DEF Acyclic
    <2>3. \A q \in Requests : Live(q) /\ CownOf(q) = c => pre[q] = Nil
      BY <2>2
    <2> QED  BY <1>0, <1>1, <2>3 DEF UniqueHead
  <1>6. TailInv'
    <2>1. ASSUME NEW d \in Cowns, d # c
          PROVE  /\ last[d] = Nil => \A q \in Requests : Live(q)' => CownOf(q) # d
                 /\ last[d] # Nil => /\ CownOf(last[d]) = d
                                     /\ Live(last[d])'
                                     /\ \A q \in Requests : pre'[q] # last[d]
      <3>1. CASE last[d] = Nil
        BY <1>0, <1>3, <3>1 DEF TailInv
      <3>2. CASE last[d] # Nil
        <4>1. PICK q \in Requests : q = last[d]
          BY <1>2, <3>2
        <4>2. CownOf(q) = d /\ Live(q) /\ \A w \in Requests : pre[w] # q
          BY <1>0, <3>2, <4>1 DEF TailInv
        <4>3. Live(q)'
          BY <1>1, <1>3, <2>1, <4>2
        <4>4. last'[d] = q
          BY <1>2, <2>1, <4>1
        <4>5. Live(last[d])'
          BY <4>1, <4>3, <4>4 DEF Live, Queued, Released
        <4> QED  BY <3>2, <4>1, <4>2, <4>5
      <3> QED  BY <3>1, <3>2
    <2>2. \A q \in Requests : Live(q)' => CownOf(q) # c
      BY <1>3, <1>5
    <2>3. ASSUME NEW d \in Cowns
          PROVE  /\ last'[d] = Nil => \A q \in Requests : Live(q)' => CownOf(q) # d
                 /\ last'[d] # Nil => /\ CownOf(last'[d]) = d
                                      /\ Live(last[d])'
                                      /\ \A q \in Requests : pre'[q] # last'[d]
      <3>1. CASE d = c
        BY <1>2, <2>2, <3>1
      <3>2. CASE d # c
        <4>1. last'[d] = last[d]
          BY <1>2, <3>2
        <4> QED  BY <2>1, <3>2, <4>1
      <3> QED  BY <3>1, <3>2
    <2> QED  BY <2>3 DEF TailInv
  <1>7. PreInv'
    BY <1>0, <1>2, <1>3, <1>4 DEF PreInv
  <1>8. PreInjective' /\ UniqueHead'
    BY <1>0, <1>3 DEF PreInjective, UniqueHead
  <1>9. NextInv'
    BY <1>0, <1>3 DEF NextInv
  <1>10. Acyclic'
    BY <1>0 DEF Acyclic
  <1> QED  BY <1>6, <1>7, <1>8, <1>9, <1>10 DEF QueueInv

\* releaseCown leaves the cown idle, or finds someone behind.
LEMMA ReleaseTailKeepsInv ==
  ASSUME CownInv, NEW b \in Behaviours, ReleaseTail(b)
  PROVE  CownInv'
  <1>a. TypeOK /\ RunOK(b) /\ runPc[b] = "release"
    BY DEF CownInv, RunInv, ReleaseTail
  <1>b. PICK i \in Slots(b) : runIdx[b] = i
    BY <1>a DEF RunOK
  <1> DEFINE r == <<b, i>>
             c == CownsOf[b][i]
  <1>c. /\ RunReq(b) = r /\ CownOf(r) = c /\ c \in Cowns /\ r \in Requests
    BY <1>b, RequestFacts DEF RunReq
  <1>d. Holds(b, i) /\ Live(r) /\ pre[r] = Nil
    <2>1. Holds(b, i)
      BY <1>a, <1>b, SlotFacts DEF Holds, Released
    <2> QED  BY <2>1, Holders
  <1>e. UNCHANGED <<currentReq, next, count, closed, op, spawnPc, spawnIdx,
                    at, seen, succ, pre>>
    BY DEF ReleaseTail, spawnVars
  <1>f. CASE last[c] # r
    <2>0. runPc' = [runPc EXCEPT ![b] = "await"] /\ UNCHANGED <<last, runIdx>>
      BY <1>c, <1>f DEF ReleaseTail
    <2>1. /\ runPc'[b] = "await" /\ runPc' \in [Behaviours -> RunPcs]
          /\ \A v \in Behaviours \ {b} : runPc'[v] = runPc[v] /\ runIdx'[v] = runIdx[v]
          /\ runIdx'[b] \in Slots(b)
      BY <1>a, <1>b, <2>0 DEF TypeOK, RunPcs
    <2>2. TypeOK'
      BY <1>a, <1>e, <2>0, <2>1 DEF TypeOK
    <2>3. /\ SpawnInv' /\ CountInv'
          /\ \A q \in Requests : Queued(q)' = Queued(q) /\ Granted(q)' = Granted(q)
      BY <1>a, <1>e, <2>1, RunStepFrame
    <2>4. QueueInv'
      <3>1. \A q \in Requests : Released(q)' = Released(q)
        BY <1>a, <2>0, <2>1, RequestFacts DEF Released
      <3> QED  BY <1>a, <1>e, <2>0, <2>3, <3>1, ChainUnchanged DEF CownInv, QueueInv
    <2>5. RunInv' /\ CurrentInv'
      BY <1>a, <1>e, <2>1, <2>3, PastBodyKept
    <2> QED  BY <2>2, <2>3, <2>4, <2>5 DEF CownInv, QueueInv
  <1>g. CASE last[c] = r
    <2>0. last' = [last EXCEPT ![c] = Nil] /\ NextSlot(b, "release", "finished")
      BY <1>c, <1>g DEF ReleaseTail
    <2>1. /\ runPc' \in [Behaviours -> RunPcs] /\ runIdx' \in [Behaviours -> Nat]
          /\ runIdx'[b] \in Slots(b) /\ runPc'[b] \in {"release", "finished"}
          /\ i < Len(CownsOf[b]) => runPc'[b] = "release" /\ runIdx'[b] = i + 1
          /\ ~(i < Len(CownsOf[b])) => runPc'[b] = "finished"
          /\ \A v \in Behaviours \ {b} : runPc'[v] = runPc[v] /\ runIdx'[v] = runIdx[v]
      <3>1. "release" \in RunPcs /\ "finished" \in RunPcs
        BY DEF RunPcs
      <3> QED  BY <1>a, <1>b, <2>0, <3>1, NextSlotFacts
    <2>2. TypeOK'
      <3>1. last' \in [Cowns -> Requests \cup {Nil}]
        BY <1>a, <1>c, <2>0 DEF TypeOK
      <3> QED  BY <1>a, <1>e, <2>1, <3>1 DEF TypeOK
    <2>3. /\ SpawnInv' /\ CountInv'
          /\ \A q \in Requests : Queued(q)' = Queued(q) /\ Granted(q)' = Granted(q)
      <3>1. runPc'[b] # "idle"
        BY <2>1
      <3> QED  BY <1>a, <1>e, <2>1, <3>1, RunStepFrame
    <2>4. QueueInv'
      <3>1. Released(r)' /\ \A q \in Requests \ {r} : Released(q)' = Released(q)
        BY <1>a, <1>b, <2>1, ReleaseMoves
      <3> QED  BY <1>c, <1>d, <1>e, <1>g, <2>0, <2>3, <3>1, TailReleased
    <2>5. RunInv' /\ CurrentInv'
      BY <1>a, <1>e, <2>1, <2>3, PastBodyKept
    <2> QED  BY <2>2, <2>3, <2>4, <2>5 DEF CownInv, QueueInv
  <1> QED  BY <1>f, <1>g

\* releaseCown sees the link to the request behind.
LEMMA AwaitNextKeepsInv ==
  ASSUME CownInv, NEW b \in Behaviours, AwaitNext(b)
  PROVE  CownInv'
  <1>a. TypeOK /\ RunOK(b) /\ runPc[b] = "await"
    BY DEF CownInv, RunInv, AwaitNext
  <1>b. PICK i \in Slots(b) : runIdx[b] = i
    BY <1>a DEF RunOK
  <1> DEFINE r == <<b, i>>
  <1>c. RunReq(b) = r /\ r \in Requests
    BY <1>b, RequestFacts DEF RunReq
  <1>d. PICK s \in Requests : s = next[r]
    BY <1>a, <1>c DEF AwaitNext, TypeOK
  <1>e. pre[s] = r
    <2>1. Holds(b, i)
      BY <1>a, <1>b, SlotFacts DEF Holds, Released
    <2>2. Live(r)
      BY <2>1, Holders
    <2> QED  BY <1>c, <1>d, <2>2, RequestFacts DEF CownInv, NextInv
  <1>0. /\ succ' = [succ EXCEPT ![b] = s]
        /\ runPc' = [runPc EXCEPT ![b] = "handover"]
        /\ UNCHANGED <<last, currentReq, next, count, closed, op, spawnPc,
                       spawnIdx, at, seen, runIdx, pre>>
    BY <1>c, <1>d DEF AwaitNext, sharedVars, spawnVars
  <1>1. /\ runPc'[b] = "handover" /\ runPc' \in [Behaviours -> RunPcs]
        /\ succ'[b] = s /\ succ' \in [Behaviours -> Requests \cup {Nil}]
        /\ \A v \in Behaviours \ {b} : runPc'[v] = runPc[v] /\ succ'[v] = succ[v]
    BY <1>a, <1>0 DEF TypeOK, RunPcs
  <1>2. TypeOK'
    BY <1>a, <1>0, <1>1 DEF TypeOK
  <1>3. /\ SpawnInv' /\ CountInv'
        /\ \A q \in Requests : Queued(q)' = Queued(q) /\ Granted(q)' = Granted(q)
    BY <1>a, <1>0, <1>1, RunStepFrame
  <1>4. QueueInv'
    <2>1. \A q \in Requests : Released(q)' = Released(q)
      BY <1>a, <1>0, <1>1, RequestFacts DEF Released
    <2> QED  BY <1>a, <1>0, <1>3, <2>1, ChainUnchanged DEF CownInv, QueueInv
  <1>5. RunInv' /\ CurrentInv'
    <2>1. \A v \in Behaviours : \A j \in Slots(v) : Granted(<<v, j>>)' = Granted(<<v, j>>)
      BY <1>3, RequestFacts
    <2>2. RunOK(b)' /\ CurrentOK(b)'
      <3>1. RunReq(b)' = r /\ next'[r] = s /\ s # Nil /\ pre'[s] = r
        BY <1>b, <1>d, <1>e, <1>0, RequestFacts DEF RunReq
      <3>2. RunOK(b)'
        BY <1>a, <1>b, <1>0, <1>1, <2>1, <3>1 DEF RunOK, Slots
      <3>3. CurrentOK(b)'
        BY <1>1 DEF CurrentOK
      <3> QED  BY <3>2, <3>3
    <2>3. ASSUME NEW v \in Behaviours, v # b  PROVE RunOK(v)' /\ CurrentOK(v)'
      <3>1. RunOK(v) /\ CurrentOK(v)
        BY DEF CownInv, RunInv, CurrentInv
      <3> QED  BY <1>0, <1>1, <2>1, <2>3, <3>1, RunFrameKept
    <2> QED  BY <2>2, <2>3 DEF RunInv, CurrentInv
  <1> QED  BY <1>2, <1>3, <1>4, <1>5 DEF CownInv, QueueInv

\* The request behind the released one becomes the head of the queue.
LEMMA HandOverKeepsChain ==
  ASSUME CownInv, NEW r \in Requests, NEW s \in Requests,
         Live(r), pre[r] = Nil, pre[s] = r,
         pre' = [pre EXCEPT ![s] = Nil], UNCHANGED <<last, next>>,
         Released(r)', \A q \in Requests : Queued(q)' = Queued(q),
         \A q \in Requests \ {r} : Released(q)' = Released(q)
  PROVE  QueueInv'
  <1>0. /\ TypeOK /\ TailInv /\ PreInv /\ PreInjective /\ UniqueHead /\ Acyclic
        /\ NextInv /\ Nil \notin Requests
    BY RequestFacts DEF CownInv
  <1>1. /\ \A d \in Cowns : last[d] # Nil => last[d] \in Requests
        /\ \A q \in Requests : pre[q] # Nil => pre[q] \in Requests
        /\ \A q \in Requests : next[q] # Nil => next[q] \in Requests
        /\ pre'[s] = Nil /\ \A q \in Requests \ {s} : pre'[q] = pre[q]
    BY <1>0 DEF TypeOK
  <1>2. ~Live(r)' /\ \A q \in Requests \ {r} : Live(q)' = Live(q)
    BY DEF Live
  <1>3. \A q \in Requests : pre[q] = r => q = s
    BY <1>0 DEF PreInjective
  <1>4. CownOf(s) = CownOf(r) /\ Live(s) /\ s # r
    BY <1>0 DEF PreInv
  <1>5. TailInv'
    <2>1. ASSUME NEW d \in Cowns, last[d] # Nil
          PROVE  /\ CownOf(last[d]) = d /\ Live(last[d])'
                 /\ \A q \in Requests : pre'[q] # last[d]
      <3>1. PICK q \in Requests : q = last[d]
        BY <1>1, <2>1
      <3>2. CownOf(q) = d /\ Live(q) /\ \A w \in Requests : pre[w] # q
        BY <1>0, <2>1, <3>1 DEF TailInv
      <3>3. Live(q)'
        BY <1>2, <3>2
      <3>4. last'[d] = q
        BY <3>1
      <3>5. Live(last[d])'
        BY <3>3, <3>4 DEF Live, Queued, Released
      <3> QED  BY <1>0, <1>1, <3>1, <3>2, <3>5
    <2>2. ASSUME NEW d \in Cowns, last[d] = Nil
          PROVE  \A q \in Requests : Live(q)' => CownOf(q) # d
      BY <1>0, <1>2, <2>2 DEF TailInv
    <2> QED  BY <2>1, <2>2 DEF TailInv
  <1>6. PreInv'
    BY <1>0, <1>1, <1>2, <1>3 DEF PreInv
  <1>7. PreInjective'
    BY <1>0, <1>1 DEF PreInjective
  <1>8. UniqueHead'
    <2>1. \A q \in Requests \ {r} :
            ~(Live(q) /\ CownOf(q) = CownOf(r) /\ pre[q] = Nil)
      BY <1>0 DEF UniqueHead
    <2> QED  BY <1>0, <1>1, <1>2, <1>4, <2>1 DEF UniqueHead
  <1>9. NextInv'
    BY <1>0, <1>1, <1>2 DEF NextInv
  <1>10. Acyclic'
    <2> SUFFICES ASSUME NEW S \in SUBSET Requests, \A q \in S : pre'[q] \in S
                 PROVE  S = {}
      BY DEF Acyclic
    <2>1. s \notin S
      BY <1>0, <1>1
    <2>2. \A q \in S : pre[q] \in S
      BY <1>1, <2>1
    <2> QED  BY <1>0, <2>2 DEF Acyclic
  <1> QED  BY <1>5, <1>6, <1>7, <1>8, <1>9, <1>10 DEF QueueInv

\* releaseCown gives the token to the request behind.
LEMMA HandOverKeepsInv ==
  ASSUME CownInv, NEW b \in Behaviours, HandOver(b)
  PROVE  CownInv'
  <1>a. TypeOK /\ RunOK(b) /\ runPc[b] = "handover" /\ SpawnInv
    BY DEF CownInv, RunInv, HandOver
  <1>b. PICK i \in Slots(b) : runIdx[b] = i
    BY <1>a DEF RunOK
  <1> DEFINE r == <<b, i>>
  <1>c. /\ RunReq(b) = r /\ r \in Requests /\ i \in Nat
        /\ Slots(b) = 1..Len(CownsOf[b]) /\ Len(CownsOf[b]) \in Nat
    BY <1>b, RequestFacts, SlotFacts DEF RunReq
  <1>d. PICK s \in Requests : s = succ[b] /\ pre[s] = r /\ next[r] # Nil
    BY <1>a, <1>c DEF RunOK
  <1>e. PICK v \in Behaviours : v = s[1]
    BY RequestFacts
  <1>f. Live(r) /\ pre[r] = Nil
    <2>1. Holds(b, i)
      BY <1>a, <1>b, SlotFacts DEF Holds, Released
    <2> QED  BY <2>1, Holders
  <1>g. runPc[v] = "idle" /\ v # b /\ s # r
    BY <1>a, <1>c, <1>d, <1>e, <1>f, Standing, RequestFacts
  <1> DEFINE again == i < Len(CownsOf[b])
  <1>0. /\ count' = [count EXCEPT ![v] = count[v] - 1]
        /\ runPc' = [runPc EXCEPT
                       ![v] = IF count[v] = 1 THEN "setcur" ELSE runPc[v],
                       ![b] = IF again THEN "release" ELSE "finished"]
        /\ runIdx' = [runIdx EXCEPT ![b] = IF again THEN i + 1 ELSE 1]
        /\ pre' = [pre EXCEPT ![s] = Nil]
        /\ UNCHANGED <<last, currentReq, next, closed, op, spawnPc, spawnIdx,
                       at, seen, succ>>
    BY <1>b, <1>d, <1>e, <1>g DEF HandOver, spawnVars
  <1>1. /\ runPc' \in [Behaviours -> RunPcs] /\ runIdx' \in [Behaviours -> Nat]
        /\ runIdx'[b] \in Slots(b) /\ runPc'[b] \in {"release", "finished"}
        /\ again => runPc'[b] = "release" /\ runIdx'[b] = i + 1
        /\ ~again => runPc'[b] = "finished"
        /\ runPc'[v] = IF count[v] = 1 THEN "setcur" ELSE "idle"
        /\ \A w \in Behaviours \ {b, v} : runPc'[w] = runPc[w]
        /\ \A w \in Behaviours \ {b} : runIdx'[w] = runIdx[w]
    <2>1. runPc' \in [Behaviours -> RunPcs]
      BY <1>a, <1>0, <1>g DEF TypeOK, RunPcs
    <2>2. runIdx' \in [Behaviours -> Nat]
      BY <1>a, <1>c, <1>0 DEF TypeOK
    <2>3. runIdx'[b] = (IF again THEN i + 1 ELSE 1)
      BY <1>a, <1>0 DEF TypeOK
    <2>4. runPc'[b] = IF again THEN "release" ELSE "finished"
      BY <1>a, <1>0, <1>g DEF TypeOK
    <2>5. runPc'[v] = IF count[v] = 1 THEN "setcur" ELSE "idle"
      BY <1>a, <1>0, <1>g DEF TypeOK
    <2>6. /\ \A w \in Behaviours \ {b, v} : runPc'[w] = runPc[w]
          /\ \A w \in Behaviours \ {b} : runIdx'[w] = runIdx[w]
      BY <1>a, <1>0 DEF TypeOK
    <2> QED  BY <1>c, <2>1, <2>2, <2>3, <2>4, <2>5, <2>6
  <1>2. /\ pre'[s] = Nil /\ \A q \in Requests \ {s} : pre'[q] = pre[q]
        /\ pre' \in [Requests -> Requests \cup {Nil}]
    BY <1>a, <1>0 DEF TypeOK
  <1>3. Queued(s) /\ ~Granted(s)
    <2>1. pre[s] # Nil
      BY <1>c, <1>d, RequestFacts
    <2>2. Live(s)
      BY <2>1 DEF CownInv, PreInv
    <2> QED  BY <2>1, <2>2 DEF Granted, Live
  <1>4. /\ \A q \in Requests : Queued(q)' = Queued(q)
        /\ Granted(s)' /\ \A q \in Requests \ {s} : Granted(q)' = Granted(q)
    <2>1. \A q \in Requests : Queued(q)' = Queued(q)
      BY <1>0 DEF Queued
    <2>2. ~(spawnPc[s[1]] = "grant" /\ s[2] = spawnIdx[s[1]])
      <3>1. SpawnOK(v) /\ s = <<v, s[2]>>
        BY <1>a, <1>e, RequestFacts DEF SpawnInv
      <3>2. pre[s] # Nil
        BY <1>c, <1>d, RequestFacts
      <3> QED  BY <1>e, <3>1, <3>2 DEF SpawnOK, SpawnReq
    <2>3. Granted(s)'
      BY <1>0, <1>2, <1>3, <2>1, <2>2 DEF Granted
    <2>4. \A q \in Requests \ {s} : Granted(q)' = Granted(q)
      BY <1>0, <1>2, <2>1 DEF Granted
    <2> QED  BY <2>1, <2>3, <2>4
  <1>5. /\ CountInv' /\ count' \in [Behaviours -> Nat]
        /\ count[v] = 1 => \A j \in Slots(v) : Granted(<<v, j>>)'
    <2>1. /\ runPc'[s[1]] = IF count[s[1]] = 1 THEN "setcur" ELSE runPc[s[1]]
          /\ count' = [count EXCEPT ![s[1]] = count[s[1]] - 1]
      BY <1>e, <1>g, <1>0, <1>1
    <2>2. \A w \in Behaviours \ {s[1]} : (runPc[w] = "idle")' = (runPc[w] = "idle")
      BY <1>a, <1>e, <1>1
    <2>3. \A w \in Behaviours : (spawnPc[w] = "unspawned")' = (spawnPc[w] = "unspawned")
      BY <1>0
    <2> QED  BY <1>e, <1>3, <1>4, <2>1, <2>2, <2>3, TokenArrives
  <1>6. TypeOK'
    BY <1>a, <1>0, <1>1, <1>2, <1>5 DEF TypeOK
  <1>7. QueueInv'
    <2>1. /\ \A w \in Behaviours \ {b} :
               /\ runIdx'[w] = runIdx[w]
               /\ \/ runPc'[w] = runPc[w]
                  \/ runPc[w] = "idle" /\ runPc'[w] = "setcur"
      BY <1>g, <1>1
    <2>2. Released(r)' /\ \A q \in Requests \ {r} : Released(q)' = Released(q)
      BY <1>a, <1>b, <1>1, <2>1, ReleaseMoves
    <2> QED  BY <1>c, <1>d, <1>f, <1>0, <1>4, <2>2, HandOverKeepsChain
  <1>8. ASSUME NEW w \in Behaviours  PROVE SpawnOK(w)'
    <2>1. SpawnOK(w)
      BY <1>a DEF SpawnInv
    <2>2. SpawnReq(w) \in Requests
      BY <2>1, RequestFacts DEF SpawnReq, SpawnOK
    <2>3. ASSUME spawnPc[w] \in SuccessorPcs  PROVE Anchored(w)' /\ runPc[at[w][1]] = "body"
      <3>1. Anchored(w)
        BY <2>1, <2>3 DEF SpawnOK
      <3>2. PICK g \in Behaviours : g = at[w][1] /\ runPc[g] = "body"
        BY <3>1, RequestFacts DEF Anchored
      <3>3. runPc'[g] = runPc[g]
        BY <1>a, <1>g, <1>1, <3>2
      <3>4. runPc'[at[w][1]] = runPc[at[w][1]] /\ UNCHANGED op /\ at'[w] = at[w]
        BY <1>0, <3>2, <3>3
      <3> QED  BY <3>1, <3>2, <3>4, AnchorKept
    <2>4. spawnPc[w] = "grant" => SpawnReq(w) # s
      BY <1>c, <1>d, <2>1, RequestFacts DEF SpawnOK
    <2>5. spawnPc[w] \in {"link", "linkcur"} => SpawnReq(w) # s
      BY <1>d, <2>1 DEF SpawnOK
    <2>6. ASSUME spawnPc[w] = "linknew"
          PROVE  SpawnReq(w) # s /\ seen[w] # s /\ seen[w] \in Requests
      <3>1. /\ pre[SpawnReq(w)] = at[w] /\ pre[seen[w]] = SpawnReq(w)
            /\ seen[w] \in Requests /\ at[w] \in Requests
            /\ runPc[at[w][1]] = "body"
        BY <2>1, <2>3, <2>6 DEF SpawnOK, SuccessorPcs, Anchored
      <3>2. at[w] # r
        BY <1>a, <3>1
      <3>3. SpawnReq(w) # r
        BY <1>f, <3>1, RequestFacts
      <3> QED  BY <1>d, <3>1, <3>2, <3>3
    <2>7. ASSUME spawnPc[w] = "linknew"  PROVE ~BeingLinked(seen[w])'
      <3>1. PICK q \in Requests : q = seen[w] /\ ~BeingLinked(q)
        BY <2>1, <2>7 DEF SpawnOK
      <3>2. ~BeingLinked(q)'
        BY <1>0, <3>1, NotLinkedKept
      <3> QED  BY <1>0, <3>1, <3>2 DEF BeingLinked
    <2> QED
      BY <1>0, <1>2, <2>1, <2>2, <2>3, <2>4, <2>5, <2>6, <2>7, OtherSpawnKept
  <1>9. ASSUME NEW w \in Behaviours  PROVE RunOK(w)' /\ CurrentOK(w)'
    <2>1. RunOK(w) /\ CurrentOK(w)
      BY DEF CownInv, RunInv, CurrentInv
    <2>2. \A j \in Slots(w) : Granted(<<w, j>>) => Granted(<<w, j>>)'
      BY <1>3, <1>4, RequestFacts
    <2>3. CASE w = b
      <3>1. RunOK(w)'
        BY <1>a, <1>1, <2>1, <2>2, <2>3 DEF RunOK, Slots
      <3>2. CurrentOK(w)'
        BY <1>1, <2>3 DEF CurrentOK
      <3> QED  BY <3>1, <3>2
    <2>4. CASE w = v
      <3>1. runIdx'[w] = 1 /\ 1 \in Slots(w) /\ \A j \in Slots(w) : ~(j < 1)
        BY <1>g, <1>1, <2>1, <2>4, SlotFacts DEF RunOK
      <3>2. RunOK(w)'
        BY <1>1, <1>5, <2>4, <3>1 DEF RunOK, Slots
      <3>3. CurrentOK(w)'
        BY <1>1, <2>4, <3>1 DEF CurrentOK, Slots
      <3> QED  BY <3>2, <3>3
    <2>5. CASE w # b /\ w # v
      <3>1. ASSUME runPc[w] = "handover"
            PROVE  /\ pre'[succ[w]] = pre[succ[w]]
                   /\ next'[RunReq(w)] = next[RunReq(w)]
        <4>1. succ[w] \in Requests /\ pre[succ[w]] = RunReq(w)
          BY <2>1, <3>1 DEF RunOK
        <4>2. RunReq(w) # r
          BY <2>5 DEF RunReq
        <4> QED  BY <1>d, <1>0, <1>2, <4>1, <4>2
      <3>2. runPc'[w] = runPc[w] /\ runIdx'[w] = runIdx[w] /\ succ'[w] = succ[w]
        BY <1>0, <1>1, <2>5
      <3>3. \A j \in Slots(w) :
              currentReq[CownsOf[w][j]] = <<w, j>> /\ runPc[w] # "idle"
                => currentReq'[CownsOf[w][j]] = <<w, j>>
        BY <1>0
      <3> QED  BY <2>1, <2>2, <3>1, <3>2, <3>3, RunFrameKept
    <2> QED  BY <2>3, <2>4, <2>5
  <1> QED  BY <1>5, <1>6, <1>7, <1>8, <1>9 DEF CownInv, QueueInv, SpawnInv, RunInv, CurrentInv

-----------------------------------------------------------------------------
(* The theorems.                                                           *)

\* No request is anywhere at the start.
LEMMA InitEstablishesInv ==
  ASSUME Init
  PROVE  CownInv
  <1>1. TypeOK
    BY DEF Init, TypeOK, SpawnPcs, RunPcs
  <1>2. \A r \in Requests : ~Queued(r) /\ ~Released(r) /\ ~Granted(r) /\ ~Live(r)
    BY RequestFacts DEF Init, Queued, Released, Granted, Live
  <1>3. QueueInv
    <2>1. Acyclic
      BY RequestFacts DEF Init, Acyclic
    <2>2. TailInv /\ PreInv /\ PreInjective /\ UniqueHead /\ NextInv
      BY <1>2 DEF Init, TailInv, PreInv, PreInjective, UniqueHead, NextInv
    <2> QED  BY <2>1, <2>2 DEF QueueInv
  <1>4. SpawnInv /\ RunInv
    <2>1. \A b \in Behaviours : 1 \in Slots(b)
      BY SlotFacts
    <2> QED  BY <2>1 DEF Init, SpawnInv, SpawnOK, RunInv, RunOK, SuccessorPcs
  <1>5. CurrentInv /\ CountInv
    BY DEF Init, CurrentInv, CurrentOK, CountInv, CountOK
  <1> QED  BY <1>1, <1>3, <1>4, <1>5 DEF CownInv, QueueInv

\* Every step keeps the invariant.
LEMMA NextKeepsInv ==
  ASSUME CownInv, [Next]_vars
  PROVE  CownInv'
  <1>1. CASE UNCHANGED vars
    <2>1. UNCHANGED <<last, currentReq, next, count, closed, op, spawnPc,
                      spawnIdx, at, seen, runPc, runIdx, succ, pre>>
      BY <1>1 DEF vars
    <2>2. TypeOK' /\ TailInv' /\ PreInv' /\ PreInjective'
      BY <2>1 DEF CownInv, TypeOK, TailInv, PreInv, PreInjective, Live, Queued,
                  Released
    <2>3. UniqueHead' /\ Acyclic' /\ NextInv'
      BY <2>1 DEF CownInv, UniqueHead, Acyclic, NextInv, Live, Queued, Released
    <2>4. SpawnInv'
      BY <2>1 DEF CownInv, SpawnInv, SpawnOK, SpawnReq, Anchored, BeingLinked
    <2>5. RunInv' /\ CurrentInv'
      BY <2>1 DEF CownInv, RunInv, RunOK, CurrentInv, CurrentOK, RunReq, Granted,
                  Queued
    <2>6. CountInv'
      <3>1. \A r \in Requests : Granted(r)' = Granted(r)
        BY <2>1 DEF Granted, Queued
      <3>2. \A v \in Behaviours :
              /\ (spawnPc[v] = "unspawned")' = (spawnPc[v] = "unspawned")
              /\ (runPc[v] = "idle")' = (runPc[v] = "idle")
        BY <2>1
      <3> QED  BY <2>1, <3>1, <3>2, CountsUnchanged DEF CownInv
    <2> QED  BY <2>2, <2>3, <2>4, <2>5, <2>6 DEF CownInv
  <1>2. ASSUME NEW g \in Goroutines, CallStep(g)  PROVE CownInv'
    BY <1>2, ScheduleKeepsInv, ScheduleAsSuccessorKeepsInv, ForceKeepsInv
       DEF CallStep
  <1>3. ASSUME NEW b \in Behaviours, SpawnStep(b)  PROVE CownInv'
    BY <1>3, SwapLastKeepsInv, GrantIdleKeepsInv, LinkPrevKeepsInv,
       LoadNextKeepsInv, CasTailKeepsInv, LinkCurKeepsInv, CasNextKeepsInv,
       LinkNewKeepsInv
       DEF SpawnStep
  <1>4. ASSUME NEW b \in Behaviours, RunStep(b)  PROVE CownInv'
    BY <1>4, SetCurrentKeepsInv, FnReturnsKeepsInv, ClearCurrentKeepsInv,
       CloseKeepsInv, ReleaseTailKeepsInv, AwaitNextKeepsInv, HandOverKeepsInv
       DEF RunStep
  <1>5. Terminating => UNCHANGED vars
    BY DEF Terminating
  <1> QED  BY <1>1, <1>2, <1>3, <1>4, <1>5 DEF Next

\* The requests of every cown form one queue with one holder at its head, and
\* every pointer, counter and local of cown.go agrees with it.
THEOREM InvariantHolds == Spec => []CownInv
  <1>1. Init => CownInv
    BY InitEstablishesInv
  <1>2. CownInv /\ [Next]_vars => CownInv'
    BY NextKeepsInv
  <1> QED  BY <1>1, <1>2, PTL DEF Spec

\* Every variable of the model keeps its type; in particular count, which
\* cown.go only decrements, never passes below zero.
THEOREM TypeCorrect == Spec => []TypeOK
  <1>1. CownInv => TypeOK
    BY DEF CownInv
  <1> QED  BY <1>1, InvariantHolds, PTL

\* At most one behaviour holds a cown, from the launch of behaviour.run to the
\* end of releaseCown, under every interleaving of the atomic operations.
THEOREM MutualExclusionHolds == Spec => []MutualExclusion
  <1>1. ASSUME CownInv  PROVE MutualExclusion
    <2> SUFFICES ASSUME NEW b1 \in Behaviours, NEW b2 \in Behaviours,
                        NEW i \in Slots(b1), NEW j \in Slots(b2),
                        Holds(b1, i), Holds(b2, j),
                        CownsOf[b1][i] = CownsOf[b2][j]
                 PROVE  b1 = b2
      BY DEF MutualExclusion
    <2> QED  BY <1>1, Holders
  <1> QED  BY <1>1, InvariantHolds, PTL

\* Inside fn every listed cown names the running behaviour's request, so a
\* nested ScheduleAsSuccessor inserts behind the right one.
THEOREM CurrentReqIsExact == Spec => []CurrentReqExact
  <1>1. CownInv => CurrentReqExact
    BY DEF CownInv, CurrentInv, CurrentOK, CurrentReqExact
  <1> QED  BY <1>1, InvariantHolds, PTL

\* behaviour.count is exactly the number of cowns that have not granted, and
\* the goroutine of behaviour.run exists exactly when it has reached zero.
THEOREM CountIsExact == Spec => []CountIsMissingTokens
  <1>1. CownInv => CountIsMissingTokens
    BY DEF CownInv, CountInv, CountOK, Missing, CountIsMissingTokens
  <1> QED  BY <1>1, InvariantHolds, PTL

-----------------------------------------------------------------------------
(* No request is lost.                                                     *)

\* A request that waits is linked behind the one ahead of it, or will be.
LinkInv ==
  \A r \in Requests : pre[r] # Nil => next[pre[r]] = r \/ LinkPending(pre[r], r)

\* A pending link stays pending while another call moves.
LEMMA PendingKept ==
  ASSUME NEW b \in Behaviours, NEW p \in Requests, NEW q \in Requests,
         LinkPending(p, q),
         spawnPc[b] \in {"link", "linkcur"} => SpawnReq(b) # q,
         spawnPc[b] = "linknew" => SpawnReq(b) # p,
         \A v \in Behaviours \ {b} :
           /\ spawnPc'[v] = spawnPc[v] /\ spawnIdx'[v] = spawnIdx[v]
           /\ at'[v] = at[v] /\ seen'[v] = seen[v]
  PROVE  LinkPending(p, q)'
  <1>1. CASE spawnPc[q[1]] \in {"link", "linkcur"} /\ SpawnReq(q[1]) = q /\ at[q[1]] = p
    <2>1. q[1] \in Behaviours \ {b}
      BY <1>1, RequestFacts
    <2> QED  BY <1>1, <2>1 DEF LinkPending, SpawnReq
  <1>2. CASE spawnPc[p[1]] = "linknew" /\ SpawnReq(p[1]) = p /\ seen[p[1]] = q
    <2>1. p[1] \in Behaviours \ {b}
      BY <1>2, RequestFacts
    <2> QED  BY <1>2, <2>1 DEF LinkPending, SpawnReq
  <1> QED  BY <1>1, <1>2 DEF LinkPending

\* A step that moves only the frame of b, and b's frame holds no pending link.
LEMMA LinksKept ==
  ASSUME LinkInv, TypeOK, NEW b \in Behaviours,
         spawnPc[b] \notin {"link", "linkcur", "linknew"},
         UNCHANGED <<next, pre>>,
         \A v \in Behaviours \ {b} :
           /\ spawnPc'[v] = spawnPc[v] /\ spawnIdx'[v] = spawnIdx[v]
           /\ at'[v] = at[v] /\ seen'[v] = seen[v]
  PROVE  LinkInv'
  <1> SUFFICES ASSUME NEW q \in Requests, pre[q] # Nil
               PROVE  (next[pre[q]] = q \/ LinkPending(pre[q], q))'
    BY DEF LinkInv
  <1>1. PICK p \in Requests : p = pre[q]
    BY DEF TypeOK
  <1>2. next[p] = q \/ LinkPending(p, q)
    BY <1>1 DEF LinkInv
  <1>3. CASE next[p] = q
    BY <1>1, <1>3
  <1>4. CASE LinkPending(p, q)
    <2>1. LinkPending(p, q)' /\ pre'[q] = p
      BY <1>1, <1>4, PendingKept
    <2> QED  BY <2>1 DEF LinkPending
  <1> QED  BY <1>2, <1>3, <1>4

\* The three steps that store the pointer to a waiting request.
LEMMA LinkStored ==
  ASSUME CownInv, LinkInv, NEW b \in Behaviours, NEW p \in Requests,
         NEW s \in Requests, pre[s] = p,
         next' = [next EXCEPT ![p] = s], UNCHANGED pre,
         spawnPc[b] \in {"link", "linkcur"} => SpawnReq(b) = s,
         spawnPc[b] = "linknew" => SpawnReq(b) = p,
         \A v \in Behaviours \ {b} :
           /\ spawnPc'[v] = spawnPc[v] /\ spawnIdx'[v] = spawnIdx[v]
           /\ at'[v] = at[v] /\ seen'[v] = seen[v]
  PROVE  LinkInv'
  <1>0. TypeOK /\ PreInjective
    BY DEF CownInv
  <1> SUFFICES ASSUME NEW q \in Requests, pre[q] # Nil
               PROVE  (next[pre[q]] = q \/ LinkPending(pre[q], q))'
    BY DEF LinkInv
  <1>1. PICK o \in Requests : o = pre[q]
    BY <1>0 DEF TypeOK
  <1>2. next[o] = q \/ LinkPending(o, q)
    BY <1>1 DEF LinkInv
  <1>3. CASE o = p
    <2>1. q = s
      BY <1>0, <1>1, <1>3 DEF PreInjective
    <2> QED  BY <1>0, <1>1, <1>3, <2>1 DEF TypeOK
  <1>4. CASE o # p
    <2>1. q # s
      BY <1>1, <1>4
    <2>2. LinkPending(o, q) => LinkPending(o, q)'
      BY <1>4, <2>1, PendingKept
    <2>3. next'[o] = next[o]
      BY <1>0, <1>4 DEF TypeOK
    <2>4. CASE next[o] = q
      BY <1>1, <2>3, <2>4
    <2>5. CASE LinkPending(o, q)
      <3>1. LinkPending(o, q)' /\ pre'[q] = o
        BY <1>1, <2>2, <2>5
      <3> QED  BY <3>1 DEF LinkPending
    <2> QED  BY <1>2, <2>4, <2>5
  <1> QED  BY <1>3, <1>4

\* A Swap or a CAS that queues a request leaves its own link pending.
LEMMA LinkAnnounced ==
  ASSUME CownInv, LinkInv, NEW b \in Behaviours, NEW r \in Requests,
         NEW p \in Requests \cup {Nil}, SpawnReq(b) = r,
         spawnPc[b] \in {"swap", "castail"},
         pre' = [pre EXCEPT ![r] = p], UNCHANGED <<next, spawnIdx>>,
         p # Nil => spawnPc'[b] \in {"link", "linkcur"} /\ at'[b] = p,
         \A v \in Behaviours \ {b} :
           /\ spawnPc'[v] = spawnPc[v] /\ spawnIdx'[v] = spawnIdx[v]
           /\ at'[v] = at[v] /\ seen'[v] = seen[v]
  PROVE  LinkInv'
  <1>0. TypeOK
    BY DEF CownInv
  <1> SUFFICES ASSUME NEW q \in Requests, pre'[q] # Nil
               PROVE  (next[pre[q]] = q \/ LinkPending(pre[q], q))'
    BY DEF LinkInv
  <1>1. CASE q = r
    <2>1. pre'[q] = p /\ r[1] = b
      BY <1>0, <1>1 DEF TypeOK, SpawnReq
    <2>2. LinkPending(pre[q], q)'
      BY <1>1, <2>1 DEF LinkPending, SpawnReq
    <2> QED  BY <2>2
  <1>2. CASE q # r
    <2>1. pre'[q] = pre[q]
      BY <1>0, <1>2 DEF TypeOK
    <2>2. PICK o \in Requests : o = pre[q]
      BY <1>0, <2>1 DEF TypeOK
    <2>3. next[o] = q \/ LinkPending(o, q)
      BY <2>1, <2>2 DEF LinkInv
    <2>4. CASE next[o] = q
      BY <2>1, <2>2, <2>4
    <2>5. CASE LinkPending(o, q)
      <3>1. LinkPending(o, q)' /\ pre'[q] = o
        BY <2>1, <2>2, <2>5, PendingKept
      <3> QED  BY <3>1 DEF LinkPending
    <2> QED  BY <2>3, <2>4, <2>5
  <1> QED  BY <1>1, <1>2

\* Inserting between two linked requests keeps every waiting request linked.
LEMMA CasNextKeepsLinks ==
  ASSUME CownInv, LinkInv, NEW b \in Behaviours, CasNext(b)
  PROVE  LinkInv'
  <1>0. TypeOK /\ SpawnOK(b) /\ PreInjective /\ spawnPc[b] = "casnext"
    BY DEF CownInv, SpawnInv, CasNext
  <1>1. PICK r \in Requests : r = SpawnReq(b) /\ r[1] = b
    BY <1>0, RequestFacts DEF SpawnOK, SpawnReq
  <1>2. PICK p \in Requests : p = at[b] /\ runPc[p[1]] = "body"
    BY <1>0 DEF SpawnOK, Anchored, SuccessorPcs
  <1>3. PICK s \in Requests : s = seen[b]
    BY <1>0 DEF SpawnOK
  <1>4. \A v \in Behaviours \ {b} :
          /\ spawnPc'[v] = spawnPc[v] /\ spawnIdx'[v] = spawnIdx[v]
          /\ at'[v] = at[v] /\ seen'[v] = seen[v]
    BY <1>0 DEF CasNext, TypeOK
  <1>5. CASE next[p] # s
    <2>1. UNCHANGED <<next, pre>>
      BY <1>2, <1>3, <1>5 DEF CasNext
    <2> QED  BY <1>0, <1>4, <2>1, LinksKept
  <1>6. CASE next[p] = s
    <2>0. /\ next' = [next EXCEPT ![p] = r]
          /\ pre' = [pre EXCEPT ![r] = p, ![s] = r]
          /\ spawnPc' = [spawnPc EXCEPT ![b] = "linknew"]
          /\ UNCHANGED <<spawnIdx, at, seen>>
      BY <1>1, <1>2, <1>3, <1>6 DEF CasNext
    <2>1. pre[s] = p
      <3>1. Live(p)
        BY <1>2, Standing
      <3> QED  BY <1>6, <3>1, RequestFacts DEF CownInv, NextInv
    <2>2. ~Queued(r)
      BY <1>0, <1>1 DEF Queued, SpawnReq
    <2>3. r # s /\ r # p /\ \A w \in Requests : pre[w] # r
      BY <1>2, <2>1, <2>2, Standing, RequestFacts
    <2>4. /\ next'[p] = r /\ pre'[r] = p /\ pre'[s] = r /\ spawnPc'[b] = "linknew"
          /\ \A w \in Requests \ {p} : next'[w] = next[w]
          /\ \A w \in Requests \ {r, s} : pre'[w] = pre[w]
      BY <1>0, <2>0, <2>3 DEF TypeOK
    <2> SUFFICES ASSUME NEW q \in Requests, pre'[q] # Nil
                 PROVE  (next[pre[q]] = q \/ LinkPending(pre[q], q))'
      BY DEF LinkInv
    <2>5. CASE q = r
      BY <2>4, <2>5
    <2>6. CASE q = s
      <3>1. spawnPc'[r[1]] = "linknew" /\ seen'[r[1]] = q
        BY <1>1, <1>3, <2>0, <2>4, <2>6
      <3>2. SpawnReq(r[1])' = r
        BY <1>1, <2>0 DEF SpawnReq
      <3>3. LinkPending(r, q)'
        BY <3>1, <3>2 DEF LinkPending
      <3>4. (pre[q])' = r
        BY <2>4, <2>6
      <3> QED  BY <3>3, <3>4 DEF LinkPending
    <2>7. CASE q # r /\ q # s
      <3>1. PICK o \in Requests : o = pre[q]
        BY <1>0, <2>4, <2>7 DEF TypeOK
      <3>2. o # p /\ pre'[q] = o
        BY <1>0, <2>1, <2>4, <2>7, <3>1 DEF PreInjective
      <3>3. CASE next[o] = q
        BY <2>4, <3>2, <3>3
      <3>4. CASE LinkPending(o, q)
        <4>1. LinkPending(o, q)'
          BY <1>0, <1>4, <3>4, PendingKept
        <4> QED  BY <3>2, <4>1 DEF LinkPending
      <3>5. next[o] = q \/ LinkPending(o, q)
        BY <2>4, <2>7, <3>1 DEF LinkInv
      <3> QED  BY <3>3, <3>4, <3>5
    <2> QED  BY <2>5, <2>6, <2>7
  <1> QED  BY <1>5, <1>6

\* Every step of an enqueuer keeps waiting requests linked.
LEMMA SpawnKeepsLinks ==
  ASSUME CownInv, LinkInv, NEW b \in Behaviours, SpawnStep(b)
  PROVE  LinkInv'
  <1>0. TypeOK /\ SpawnOK(b)
    BY DEF CownInv, SpawnInv
  <1>1. PICK r \in Requests : r = SpawnReq(b) /\ r[1] = b
    BY <1>0, RequestFacts DEF SpawnOK, SpawnReq
  <1>2. ASSUME NextEnqueue(b)
        PROVE  \A v \in Behaviours \ {b} :
                 spawnPc'[v] = spawnPc[v] /\ spawnIdx'[v] = spawnIdx[v]
    BY <1>0, <1>2 DEF NextEnqueue, TypeOK
  <1>3. CASE SwapLast(b)
    <2>1. PICK p \in Requests \cup {Nil} : p = last[CownOf(r)]
      BY <1>0, RequestFacts DEF TypeOK
    <2>2. /\ pre' = [pre EXCEPT ![r] = p] /\ UNCHANGED <<next, spawnIdx>>
          /\ spawnPc[b] = "swap"
          /\ p # Nil => spawnPc'[b] = "link"
          /\ at'[b] = p
          /\ \A v \in Behaviours \ {b} :
               /\ spawnPc'[v] = spawnPc[v] /\ spawnIdx'[v] = spawnIdx[v]
               /\ at'[v] = at[v] /\ seen'[v] = seen[v]
      BY <1>0, <1>1, <1>3, <2>1 DEF SwapLast, TypeOK
    <2> QED  BY <1>1, <2>2, LinkAnnounced
  <1>4. CASE GrantIdle(b)
    <2>1. /\ UNCHANGED <<next, pre>> /\ spawnPc[b] = "grant"
          /\ \A v \in Behaviours \ {b} :
               /\ spawnPc'[v] = spawnPc[v] /\ spawnIdx'[v] = spawnIdx[v]
               /\ at'[v] = at[v] /\ seen'[v] = seen[v]
      BY <1>2, <1>4 DEF GrantIdle
    <2> QED  BY <1>0, <2>1, LinksKept
  <1>5. CASE LinkPrev(b) \/ LinkCur(b)
    <2>1. PICK p \in Requests : p = at[b] /\ pre[r] = p
      BY <1>0, <1>1, <1>5 DEF SpawnOK, LinkPrev, LinkCur
    <2>2. /\ next' = [next EXCEPT ![p] = r] /\ UNCHANGED pre
          /\ spawnPc[b] \in {"link", "linkcur"}
          /\ \A v \in Behaviours \ {b} :
               /\ spawnPc'[v] = spawnPc[v] /\ spawnIdx'[v] = spawnIdx[v]
               /\ at'[v] = at[v] /\ seen'[v] = seen[v]
      <3>1. CASE LinkPrev(b)
        BY <1>1, <1>2, <2>1, <3>1 DEF LinkPrev
      <3>2. CASE LinkCur(b)
        BY <1>0, <1>1, <2>1, <3>2 DEF LinkCur, TypeOK
      <3> QED  BY <1>5, <3>1, <3>2
    <2> QED  BY <1>1, <2>1, <2>2, LinkStored
  <1>6. CASE LoadNext(b)
    <2>1. /\ UNCHANGED <<next, pre>> /\ spawnPc[b] = "load"
          /\ \A v \in Behaviours \ {b} :
               /\ spawnPc'[v] = spawnPc[v] /\ spawnIdx'[v] = spawnIdx[v]
               /\ at'[v] = at[v] /\ seen'[v] = seen[v]
      BY <1>0, <1>6 DEF LoadNext, sharedVars, TypeOK
    <2> QED  BY <1>0, <2>1, LinksKept
  <1>7. CASE CasTail(b)
    <2>1. PICK p \in Requests : p = at[b]
      BY <1>0, <1>7 DEF CasTail, SpawnOK, Anchored, SuccessorPcs
    <2>2. /\ spawnPc[b] = "castail" /\ UNCHANGED <<next, spawnIdx, at>>
          /\ \A v \in Behaviours \ {b} :
               /\ spawnPc'[v] = spawnPc[v] /\ spawnIdx'[v] = spawnIdx[v]
               /\ at'[v] = at[v] /\ seen'[v] = seen[v]
      BY <1>0, <1>7 DEF CasTail, TypeOK
    <2>3. CASE last[CownOf(r)] = p
      <3>1. pre' = [pre EXCEPT ![r] = p] /\ spawnPc'[b] = "linkcur"
        BY <1>0, <1>1, <1>7, <2>1, <2>3 DEF CasTail, TypeOK
      <3> QED  BY <1>1, <2>1, <2>2, <3>1, LinkAnnounced
    <2>4. CASE last[CownOf(r)] # p
      <3>1. UNCHANGED pre
        BY <1>1, <1>7, <2>1, <2>4 DEF CasTail
      <3> QED  BY <1>0, <2>2, <3>1, LinksKept
    <2> QED  BY <2>3, <2>4
  <1>8. CASE LinkNew(b)
    <2>1. PICK s \in Requests : s = seen[b] /\ pre[s] = r
      BY <1>0, <1>1, <1>8 DEF SpawnOK, LinkNew
    <2>2. /\ next' = [next EXCEPT ![r] = s] /\ UNCHANGED pre
          /\ spawnPc[b] = "linknew"
          /\ \A v \in Behaviours \ {b} :
               /\ spawnPc'[v] = spawnPc[v] /\ spawnIdx'[v] = spawnIdx[v]
               /\ at'[v] = at[v] /\ seen'[v] = seen[v]
      BY <1>0, <1>1, <1>8, <2>1 DEF LinkNew, TypeOK
    <2> QED  BY <1>1, <2>1, <2>2, LinkStored
  <1> QED  BY <1>3, <1>4, <1>5, <1>6, <1>7, <1>8, CasNextKeepsLinks DEF SpawnStep

\* Every step keeps waiting requests linked.
LEMMA NextKeepsLinks ==
  ASSUME CownInv, LinkInv, [Next]_vars
  PROVE  LinkInv'
  <1>0. TypeOK
    BY DEF CownInv
  <1>1. ASSUME NEW g \in Goroutines, NEW kind,
               NextCall(g, kind), spawnPc[Callee(g)] = "unspawned",
               UNCHANGED <<next, pre, spawnIdx, seen>>,
               \A v \in Behaviours \ {Callee(g)} :
                 spawnPc'[v] = spawnPc[v] /\ at'[v] = at[v]
        PROVE  LinkInv'
    <2>1. PICK b \in Behaviours : b = Callee(g)
      BY <1>1, CallFacts
    <2> QED  BY <1>0, <1>1, <2>1, LinksKept
  <1>2. ASSUME UNCHANGED <<next, pre, spawnPc, spawnIdx, at, seen>>  PROVE LinkInv'
    BY <1>2 DEF LinkInv, LinkPending, SpawnReq
  <1>3. ASSUME NEW g \in Goroutines, CallStep(g)  PROVE LinkInv'
    <2>1. CASE Schedule(g)
      <3>1. NextCall(g, "schedule")
        BY <2>1 DEF Schedule
      <3>2. /\ spawnPc[Callee(g)] = "unspawned"
            /\ UNCHANGED <<next, pre, spawnIdx, at, seen>>
            /\ \A v \in Behaviours \ {Callee(g)} :
                 spawnPc'[v] = spawnPc[v] /\ at'[v] = at[v]
        BY <1>0, <2>1 DEF Schedule, TypeOK
      <3> QED  BY <1>1, <3>1, <3>2
    <2>2. CASE ScheduleAsSuccessor(g)
      <3>1. NextCall(g, "successor")
        BY <2>2 DEF ScheduleAsSuccessor
      <3>2. /\ spawnPc[Callee(g)] = "unspawned"
            /\ UNCHANGED <<next, pre, spawnIdx, seen>>
            /\ \A v \in Behaviours \ {Callee(g)} :
                 spawnPc'[v] = spawnPc[v] /\ at'[v] = at[v]
        BY <1>0, <2>2 DEF ScheduleAsSuccessor, TypeOK
      <3> QED  BY <1>1, <3>1, <3>2
    <2>3. CASE ForceThunk(g)
      BY <1>2, <2>3 DEF ForceThunk, sharedVars, spawnVars
    <2> QED  BY <1>3, <2>1, <2>2, <2>3 DEF CallStep
  <1>4. ASSUME NEW b \in Behaviours, HandOver(b)  PROVE LinkInv'
    <2>1. succ[b] \in Requests
      BY <1>4 DEF HandOver, CownInv, RunInv, RunOK
    <2>2. /\ pre' = [pre EXCEPT ![succ[b]] = Nil]
          /\ UNCHANGED <<next, spawnPc, spawnIdx, at, seen>>
      BY <1>4 DEF HandOver, spawnVars
    <2> SUFFICES ASSUME NEW q \in Requests, pre'[q] # Nil
                 PROVE  (next[pre[q]] = q \/ LinkPending(pre[q], q))'
      BY DEF LinkInv
    <2>3. pre'[q] = pre[q]
      BY <1>0, <2>1, <2>2 DEF TypeOK
    <2>4. next[pre[q]] = q \/ LinkPending(pre[q], q)
      BY <2>3 DEF LinkInv
    <2> QED  BY <2>2, <2>3, <2>4 DEF LinkPending, SpawnReq
  <1>5. ASSUME NEW b \in Behaviours, RunStep(b)  PROVE LinkInv'
    <2>1. CASE SetCurrent(b) \/ ClearCurrent(b) \/ Close(b) \/ ReleaseTail(b)
      BY <1>2, <2>1 DEF SetCurrent, ClearCurrent, Close, ReleaseTail, spawnVars
    <2>2. CASE FnReturns(b) \/ AwaitNext(b)
      BY <1>2, <2>2 DEF FnReturns, AwaitNext, sharedVars, spawnVars
    <2> QED  BY <1>4, <1>5, <2>1, <2>2 DEF RunStep
  <1>6. CASE UNCHANGED vars
    BY <1>2, <1>6 DEF vars
  <1> QED
    BY <1>3, <1>5, <1>6, SpawnKeepsLinks DEF Next, Terminating

\* No queued request is lost: it is granted, or it is linked (or about to be)
\* behind a live request of its cown, and a cown with a queue is never idle.
THEOREM NoRequestIsLost == Spec => []NoLostRequest
  <1>1. Init => LinkInv
    BY DEF Init, LinkInv
  <1>2. CownInv /\ LinkInv /\ [Next]_vars => LinkInv'
    BY NextKeepsLinks
  <1>3. CownInv /\ LinkInv => NoLostRequest
    <2> SUFFICES ASSUME CownInv, LinkInv  PROVE NoLostRequest
      OBVIOUS
    <2>1. \A r \in Requests : Live(r) /\ pre[r] # Nil =>
            /\ Live(pre[r]) /\ CownOf(pre[r]) = CownOf(r)
            /\ next[pre[r]] = r \/ LinkPending(pre[r], r)
      BY DEF CownInv, PreInv, LinkInv
    <2>2. ASSUME NEW c \in Cowns
          PROVE  last[c] = Nil <=> ~\E r \in Requests : CownOf(r) = c /\ Live(r)
      <3>1. last[c] # Nil => last[c] \in Requests
        BY DEF CownInv, TypeOK
      <3> QED  BY <3>1 DEF CownInv, TailInv
    <2> QED  BY <2>1, <2>2 DEF NoLostRequest
  <1> QED  BY <1>1, <1>2, <1>3, InvariantHolds, PTL DEF Spec
=============================================================================
