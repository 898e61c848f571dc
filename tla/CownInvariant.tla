---------------------------- MODULE CownInvariant ----------------------------
(***************************************************************************)
(* The inductive invariant behind the safety of the cown queue.  The       *)
(* requests of a cown form one chain: its head is the only request that    *)
(* no other request is ahead of, its tail is what Cown.last points to, and *)
(* request.next agrees with the chain wherever it has been stored.         *)
(***************************************************************************)
EXTENDS Cown

SuccessorPcs == {"load", "castail", "linkcur", "casnext", "linknew"}

\* The call for b is a ScheduleAsSuccessor made by a body that is still
\* executing, and its insertion point is that body's request on the cown.
Anchored(b) ==
  LET g == at[b][1] IN
    /\ at[b] \in Requests
    /\ CownOf(at[b]) = CownsOf[b][1]
    /\ runPc[g] = "body"
    /\ op[g] \in 1..Len(Prog[g])
    /\ Prog[g][op[g]] = [op |-> "successor", beh |-> b]

\* Cown.last is the tail of the chain, nil when the chain is empty.
TailInv ==
  \A c \in Cowns :
    /\ last[c] = Nil => \A r \in Requests : Live(r) => CownOf(r) # c
    /\ last[c] # Nil => /\ CownOf(last[c]) = c
                        /\ Live(last[c])
                        /\ \A r \in Requests : pre[r] # last[c]

\* A request waits behind a live request of its own cown.
PreInv ==
  \A r \in Requests : pre[r] # Nil =>
    Live(r) /\ Live(pre[r]) /\ CownOf(pre[r]) = CownOf(r)

\* No two requests wait directly behind the same one.
PreInjective ==
  \A q, r \in Requests : pre[q] = pre[r] /\ pre[q] # Nil => q = r

\* At most one request of a cown has nothing ahead of it.
UniqueHead ==
  \A q, r \in Requests :
    /\ Live(q) /\ Live(r) /\ CownOf(q) = CownOf(r)
    /\ pre[q] = Nil /\ pre[r] = Nil
    => q = r

\* Going from a request to the one ahead of it ends: no set of requests is
\* closed under pre.
Acyclic ==
  \A S \in SUBSET Requests : (\A q \in S : pre[q] \in S) => S = {}

\* A stored next pointer of a live request follows the chain.
NextInv ==
  \A p \in Requests :
    /\ ~Queued(p) => next[p] = Nil
    /\ Live(p) /\ next[p] # Nil => pre[next[p]] = p

\* r has a place in the chain but the next pointer to it is not stored yet.
BeingLinked(r) ==
  spawnPc[r[1]] \in {"link", "linkcur"} /\ SpawnReq(r[1]) = r

\* What the locals of enqueueCown and insertSuccessor stand for.
SpawnOK(b) ==
  /\ spawnIdx[b] \in Slots(b)
  /\ spawnPc[b] = "unspawned" => spawnIdx[b] = 1
  /\ spawnPc[b] = "grant" => pre[SpawnReq(b)] = Nil
  /\ spawnPc[b] \in {"link", "linkcur"} =>
       /\ at[b] \in Requests
       /\ pre[SpawnReq(b)] = at[b]
       /\ next[at[b]] = Nil
  /\ spawnPc[b] \in SuccessorPcs =>
       Anchored(b) /\ Len(CownsOf[b]) = 1
  /\ spawnPc[b] = "casnext" => seen[b] \in Requests
  /\ spawnPc[b] = "linknew" =>
       /\ seen[b] \in Requests
       /\ pre[SpawnReq(b)] = at[b]
       /\ pre[seen[b]] = SpawnReq(b)
       /\ ~BeingLinked(seen[b])
       /\ next[SpawnReq(b)] = Nil

SpawnInv == \A b \in Behaviours : SpawnOK(b)

\* What the goroutine executing b.run relies on.
RunOK(b) ==
  /\ runIdx[b] \in Slots(b)
  /\ runPc[b] \in {"idle", "close"} => runIdx[b] = 1
  /\ runPc[b] # "idle" => \A i \in Slots(b) : Granted(<<b, i>>)
  /\ runPc[b] = "handover" => /\ succ[b] \in Requests
                              /\ pre[succ[b]] = RunReq(b)
                              /\ next[RunReq(b)] # Nil

RunInv == \A b \in Behaviours : RunOK(b)

\* currentReq names the running behaviour on every cown it has set.
CurrentOK(b) ==
  \A i \in Slots(b) :
    runPc[b] = "body" \/ (runPc[b] = "setcur" /\ i < runIdx[b])
      => currentReq[CownsOf[b][i]] = <<b, i>>

CurrentInv == \A b \in Behaviours : CurrentOK(b)

Missing(b) == {i \in Slots(b) : ~Granted(<<b, i>>)}

\* count is the number of tokens that have not arrived.
CountOK(b) ==
  /\ spawnPc[b] = "unspawned" => runPc[b] = "idle"
  /\ spawnPc[b] # "unspawned" =>
       /\ count[b] = Cardinality(Missing(b))
       /\ runPc[b] = "idle" <=> count[b] > 0

CountInv == \A b \in Behaviours : CountOK(b)

CownInv ==
  /\ TypeOK
  /\ TailInv /\ PreInv /\ PreInjective /\ UniqueHead /\ Acyclic /\ NextInv
  /\ SpawnInv /\ RunInv /\ CurrentInv /\ CountInv
=============================================================================
