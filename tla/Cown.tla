-------------------------------- MODULE Cown --------------------------------
(***************************************************************************)
(* The lock-free cown queue of the Yz runtime (runtime/rt/cown.go).        *)
(*                                                                         *)
(* Every atomic memory operation of Schedule, ScheduleMulti,               *)
(* ScheduleAsSuccessor, enqueueCown, insertSuccessor and releaseCown is    *)
(* one action, so the interleavings of the goroutines are those of the     *)
(* code.  A call of Schedule* allocates a fresh behaviour; its call frame  *)
(* (spawnPc, spawnIdx, at, seen) and the frame of the goroutine that later *)
(* executes behaviour.run (runPc, runIdx, succ) are indexed by that        *)
(* behaviour.                                                              *)
(*                                                                         *)
(* What a body does with the runtime is its program Prog[g]: a sequence of *)
(* Schedule calls, ScheduleAsSuccessor calls and Force calls.              *)
(***************************************************************************)
EXTENDS Naturals, Sequences, FiniteSets

CONSTANTS
  Cowns,        \* the singleton bocs and struct instances
  Behaviours,   \* one per executed call of Schedule/ScheduleMulti/AsSuccessor
  Mains,        \* goroutines that call the runtime while holding no cown
  CownsOf,      \* CownsOf[b]: the cowns the call for b lists, in list order
  Prog,         \* Prog[g]: the runtime calls goroutine g makes, in order
  Nil           \* the nil *request

Goroutines == Mains \cup Behaviours

Op == [op : {"schedule", "successor", "force"}, beh : Behaviours]

\* A main goroutine is not a behaviour, nil is not a request, and every call
\* lists at least one cown (codegen always lists the receiver's).
ASSUME CownAssumption ==
  /\ Mains \cap Behaviours = {}
  /\ CownsOf \in [Behaviours -> Seq(Cowns) \ {<<>>}]
  /\ Prog \in [Goroutines -> Seq(Op)]
  /\ Nil \notin Behaviours \X Nat

\* ScheduleAsSuccessor takes one cown, which its caller holds ("Must be called
\* from within a behaviour that already holds c").
ASSUME SuccessorAssumption ==
  \A g \in Goroutines : \A k \in DOMAIN Prog[g] :
    Prog[g][k].op = "successor" =>
      /\ Len(CownsOf[Prog[g][k].beh]) = 1
      /\ g \in Behaviours
      /\ \E i \in DOMAIN CownsOf[g] : CownsOf[g][i] = CownsOf[Prog[g][k].beh][1]

\* Every call of Schedule* allocates its own behaviour.
ASSUME CallAssumption ==
  \A g, h \in Goroutines : \A k \in DOMAIN Prog[g], l \in DOMAIN Prog[h] :
    /\ Prog[g][k].op # "force" /\ Prog[h][l].op # "force"
    /\ Prog[g][k].beh = Prog[h][l].beh
    => g = h /\ k = l

Slots(b) == DOMAIN CownsOf[b]

\* reqs[i] of the behaviour b: its node in the queue of its i-th cown.
Requests == UNION {{b} \X Slots(b) : b \in Behaviours}

CownOf(r) == CownsOf[r[1]][r[2]]

VARIABLES
  last,        \* Cown.last
  currentReq,  \* Cown.currentReq
  next,        \* request.next
  count,       \* behaviour.count
  closed,      \* behaviours whose done channel is closed
  op,          \* number of runtime calls goroutine g has started
  spawnPc,     \* where the Schedule* call for b stands
  spawnIdx,    \* its loop index i
  at,          \* enqueueCown's prev, insertSuccessor's cur
  seen,        \* insertSuccessor's next
  runPc,       \* where the goroutine executing b.run stands
  runIdx,      \* its loop index i
  succ,        \* releaseCown's next
  pre          \* history: the request directly ahead of r, Nil once granted

sharedVars == <<last, currentReq, next, count, closed>>
spawnVars  == <<spawnPc, spawnIdx, at, seen>>
runVars    == <<runPc, runIdx, succ>>
vars == <<last, currentReq, next, count, closed, op, spawnPc, spawnIdx, at,
          seen, runPc, runIdx, succ, pre>>

SpawnPcs == {"unspawned", "swap", "grant", "link", "load", "castail",
             "linkcur", "casnext", "linknew", "spawned"}
RunPcs == {"idle", "setcur", "body", "clearcur", "close", "release", "await",
           "handover", "finished"}

TypeOK ==
  /\ last \in [Cowns -> Requests \cup {Nil}]
  /\ currentReq \in [Cowns -> Requests \cup {Nil}]
  /\ next \in [Requests -> Requests \cup {Nil}]
  /\ count \in [Behaviours -> Nat]
  /\ closed \subseteq Behaviours
  /\ op \in [Goroutines -> Nat]
  /\ spawnPc \in [Behaviours -> SpawnPcs]
  /\ spawnIdx \in [Behaviours -> Nat]
  /\ at \in [Behaviours -> Requests \cup {Nil}]
  /\ seen \in [Behaviours -> Requests \cup {Nil}]
  /\ runPc \in [Behaviours -> RunPcs]
  /\ runIdx \in [Behaviours -> Nat]
  /\ succ \in [Behaviours -> Requests \cup {Nil}]
  /\ pre \in [Requests -> Requests \cup {Nil}]

Init ==
  /\ last = [c \in Cowns |-> Nil]
  /\ currentReq = [c \in Cowns |-> Nil]
  /\ next = [r \in Requests |-> Nil]
  /\ count = [b \in Behaviours |-> 0]
  /\ closed = {}
  /\ op = [g \in Goroutines |-> 0]
  /\ spawnPc = [b \in Behaviours |-> "unspawned"]
  /\ spawnIdx = [b \in Behaviours |-> 1]
  /\ at = [b \in Behaviours |-> Nil]
  /\ seen = [b \in Behaviours |-> Nil]
  /\ runPc = [b \in Behaviours |-> "idle"]
  /\ runIdx = [b \in Behaviours |-> 1]
  /\ succ = [b \in Behaviours |-> Nil]
  /\ pre = [r \in Requests |-> Nil]

-----------------------------------------------------------------------------
(* Where requests stand, read off the frames.                              *)

SpawnReq(b) == <<b, spawnIdx[b]>>   \* the request being enqueued
RunReq(b)   == <<b, runIdx[b]>>     \* the request being set, cleared, released

\* r has been swapped or CASed into its cown's queue.
Queued(r) ==
  \/ spawnPc[r[1]] = "spawned"
  \/ spawnPc[r[1]] \in {"swap", "grant", "link"} /\ r[2] < spawnIdx[r[1]]
  \/ spawnPc[r[1]] \in {"grant", "link", "linkcur", "linknew"}
       /\ r[2] = spawnIdx[r[1]]

\* releaseCown is done with r.
Released(r) ==
  \/ runPc[r[1]] = "finished"
  \/ runPc[r[1]] \in {"release", "await", "handover"} /\ r[2] < runIdx[r[1]]

Live(r) == Queued(r) /\ ~Released(r)

\* r's cown has decremented count for it.
Granted(r) ==
  /\ Queued(r)
  /\ pre[r] = Nil
  /\ ~(spawnPc[r[1]] = "grant" /\ r[2] = spawnIdx[r[1]])

\* b.run has started and has not released its i-th cown yet.
Holds(b, i) == runPc[b] # "idle" /\ ~Released(<<b, i>>)

-----------------------------------------------------------------------------
(* Calls a goroutine makes.                                                *)

\* A main goroutine is running its program, a behaviour while inside fn().
InBody(g) == g \in Mains \/ (g \in Behaviours /\ runPc[g] = "body")

\* Mutant: the cowns are joined by a goroutine of their own.
LastReturnedAsync(g) == op[g] >= 0

\* The call started last has returned: Schedule* once every request is
\* enqueued, Force because it only starts when the channel is closed.
LastReturned(g) ==
  op[g] > 0 => \/ Prog[g][op[g]].op = "force"
               \/ spawnPc[Prog[g][op[g]].beh] = "spawned"

NextCall(g, kind) ==
  /\ InBody(g)
  /\ op[g] < Len(Prog[g])
  /\ LastReturned(g)
  /\ Prog[g][op[g] + 1].op = kind
  /\ op' = [op EXCEPT ![g] = @ + 1]

Callee(g) == Prog[g][op[g] + 1].beh

\* Schedule / ScheduleMulti up to their first enqueueCown: a fresh behaviour
\* that waits for as many tokens as cowns are listed.
Schedule(g) ==
  /\ NextCall(g, "schedule")
  /\ LET b == Callee(g) IN
       /\ spawnPc[b] = "unspawned"
       /\ spawnPc' = [spawnPc EXCEPT ![b] = "swap"]
       /\ count' = [count EXCEPT ![b] = Len(CownsOf[b])]
  /\ UNCHANGED <<last, currentReq, next, closed, spawnIdx, at, seen, runVars,
                 pre>>

\* Mutant: the successor joins at the tail.
ScheduleAsSuccessorAtTail(g) ==
  /\ NextCall(g, "successor")
  /\ spawnPc' = [spawnPc EXCEPT ![Callee(g)] = "swap"]
  /\ count' = [count EXCEPT ![Callee(g)] = 1]
  /\ UNCHANGED <<last, currentReq, next, closed, spawnIdx, at, seen, runVars,
                 pre>>

\* ScheduleAsSuccessor up to insertSuccessor: reads the request its caller is
\* executing on c.
ScheduleAsSuccessor(g) ==
  /\ NextCall(g, "successor")
  /\ LET b == Callee(g) IN
       /\ spawnPc[b] = "unspawned"
       /\ spawnPc' = [spawnPc EXCEPT ![b] = "load"]
       /\ count' = [count EXCEPT ![b] = 1]
       /\ at' = [at EXCEPT ![b] = currentReq[CownOf(SpawnReq(b))]]
  /\ UNCHANGED <<last, currentReq, next, closed, spawnIdx, seen, runVars, pre>>

\* Thunk.Force on the thunk Schedule* returned: <-done.
ForceThunk(g) ==
  /\ NextCall(g, "force")
  /\ Callee(g) \in closed
  /\ UNCHANGED <<sharedVars, spawnVars, runVars, pre>>

-----------------------------------------------------------------------------
(* enqueueCown, once per listed cown.                                      *)

\* The Add(-1) of a token and, at zero, `go beh.run()`.
Grant(b) ==
  /\ count' = [count EXCEPT ![b] = @ - 1]
  /\ runPc' = [runPc EXCEPT ![b] = IF count[b] = 1 THEN "setcur" ELSE @]

\* The loop of ScheduleMulti moves to the next cown, or the call returns.
NextEnqueue(b) ==
  IF spawnIdx[b] < Len(CownsOf[b])
  THEN /\ spawnIdx' = [spawnIdx EXCEPT ![b] = @ + 1]
       /\ spawnPc' = [spawnPc EXCEPT ![b] = "swap"]
  ELSE /\ spawnPc' = [spawnPc EXCEPT ![b] = "spawned"]
       /\ UNCHANGED spawnIdx

\* Mutant: the token is granted whether or not the cown was idle.
SwapLastUnchecked(b) ==
  /\ spawnPc[b] = "swap"
  /\ last' = [last EXCEPT ![CownOf(SpawnReq(b))] = SpawnReq(b)]
  /\ spawnPc' = [spawnPc EXCEPT ![b] = "grant"]
  /\ UNCHANGED <<currentReq, next, count, closed, op, spawnIdx, at, seen,
                 runVars, pre>>

\* prev := c.last.Swap(req)
SwapLast(b) ==
  /\ spawnPc[b] = "swap"
  /\ LET r == SpawnReq(b)
         prev == last[CownOf(r)] IN
       /\ last' = [last EXCEPT ![CownOf(r)] = r]
       /\ at' = [at EXCEPT ![b] = prev]
       /\ pre' = [pre EXCEPT ![r] = prev]
       /\ spawnPc' = [spawnPc EXCEPT ![b] = IF prev = Nil THEN "grant"
                                                         ELSE "link"]
  /\ UNCHANGED <<currentReq, next, count, closed, op, spawnIdx, seen, runVars>>

\* The cown was idle: req.beh.count.Add(-1).
GrantIdle(b) ==
  /\ spawnPc[b] = "grant"
  /\ Grant(b)
  /\ NextEnqueue(b)
  /\ UNCHANGED <<last, currentReq, next, closed, op, at, seen, runIdx, succ,
                 pre>>

\* The cown was busy: prev.next.Store(req).
LinkPrev(b) ==
  /\ spawnPc[b] = "link"
  /\ next' = [next EXCEPT ![at[b]] = SpawnReq(b)]
  /\ NextEnqueue(b)
  /\ UNCHANGED <<last, currentReq, count, closed, op, at, seen, runVars, pre>>

-----------------------------------------------------------------------------
(* insertSuccessor.                                                        *)

\* next := cur.next.Load()
LoadNext(b) ==
  /\ spawnPc[b] = "load"
  /\ seen' = [seen EXCEPT ![b] = next[at[b]]]
  /\ spawnPc' = [spawnPc EXCEPT ![b] = IF next[at[b]] = Nil THEN "castail"
                                                           ELSE "casnext"]
  /\ UNCHANGED <<sharedVars, op, spawnIdx, at, runVars, pre>>

\* Mutant: a store instead of the compare-and-swap.
CasTailUnchecked(b) ==
  /\ spawnPc[b] = "castail"
  /\ last' = [last EXCEPT ![CownOf(SpawnReq(b))] = SpawnReq(b)]
  /\ pre' = [pre EXCEPT ![SpawnReq(b)] = at[b]]
  /\ spawnPc' = [spawnPc EXCEPT ![b] = "linkcur"]
  /\ UNCHANGED <<currentReq, next, count, closed, op, spawnIdx, at, seen,
                 runVars>>

\* c.last.CompareAndSwap(cur, newReq); a failure spins back to the load.
CasTail(b) ==
  /\ spawnPc[b] = "castail"
  /\ LET r == SpawnReq(b) IN
       IF last[CownOf(r)] = at[b]
       THEN /\ last' = [last EXCEPT ![CownOf(r)] = r]
            /\ pre' = [pre EXCEPT ![r] = at[b]]
            /\ spawnPc' = [spawnPc EXCEPT ![b] = "linkcur"]
       ELSE /\ spawnPc' = [spawnPc EXCEPT ![b] = "load"]
            /\ UNCHANGED <<last, pre>>
  /\ UNCHANGED <<currentReq, next, count, closed, op, spawnIdx, at, seen,
                 runVars>>

\* cur.next.Store(newReq)
LinkCur(b) ==
  /\ spawnPc[b] = "linkcur"
  /\ next' = [next EXCEPT ![at[b]] = SpawnReq(b)]
  /\ spawnPc' = [spawnPc EXCEPT ![b] = "spawned"]
  /\ UNCHANGED <<last, currentReq, count, closed, op, spawnIdx, at, seen,
                 runVars, pre>>

\* cur.next.CompareAndSwap(next, newReq); a failure spins back to the load.
CasNext(b) ==
  /\ spawnPc[b] = "casnext"
  /\ LET r == SpawnReq(b) IN
       IF next[at[b]] = seen[b]
       THEN /\ next' = [next EXCEPT ![at[b]] = r]
            /\ pre' = [pre EXCEPT ![r] = at[b], ![seen[b]] = r]
            /\ spawnPc' = [spawnPc EXCEPT ![b] = "linknew"]
       ELSE /\ spawnPc' = [spawnPc EXCEPT ![b] = "load"]
            /\ UNCHANGED <<next, pre>>
  /\ UNCHANGED <<last, currentReq, count, closed, op, spawnIdx, at, seen,
                 runVars>>

\* newReq.next.Store(next)
LinkNew(b) ==
  /\ spawnPc[b] = "linknew"
  /\ next' = [next EXCEPT ![SpawnReq(b)] = seen[b]]
  /\ spawnPc' = [spawnPc EXCEPT ![b] = "spawned"]
  /\ UNCHANGED <<last, currentReq, count, closed, op, spawnIdx, at, seen,
                 runVars, pre>>

-----------------------------------------------------------------------------
(* behaviour.run.                                                          *)

\* A loop over the listed cowns: the next one, or on to pc with i reset.
NextSlot(b, pc, done) ==
  IF runIdx[b] < Len(CownsOf[b])
  THEN /\ runIdx' = [runIdx EXCEPT ![b] = @ + 1]
       /\ runPc' = [runPc EXCEPT ![b] = pc]
  ELSE /\ runIdx' = [runIdx EXCEPT ![b] = 1]
       /\ runPc' = [runPc EXCEPT ![b] = done]

\* Mutant: the store is forgotten.
SetCurrentForgotten(b) ==
  /\ runPc[b] = "setcur"
  /\ NextSlot(b, "setcur", "body")
  /\ UNCHANGED <<sharedVars, op, spawnVars, succ, pre>>

\* c.currentReq.Store(reqs[i])
SetCurrent(b) ==
  /\ runPc[b] = "setcur"
  /\ currentReq' = [currentReq EXCEPT ![CownOf(RunReq(b))] = RunReq(b)]
  /\ NextSlot(b, "setcur", "body")
  /\ UNCHANGED <<last, next, count, closed, op, spawnVars, succ, pre>>

\* fn() returns.
FnReturns(b) ==
  /\ InBody(b) /\ b \in Behaviours
  /\ op[b] = Len(Prog[b])
  /\ LastReturned(b)
  /\ runPc' = [runPc EXCEPT ![b] = "clearcur"]
  /\ UNCHANGED <<sharedVars, op, spawnVars, runIdx, succ, pre>>

\* c.currentReq.Store(nil)
ClearCurrent(b) ==
  /\ runPc[b] = "clearcur"
  /\ currentReq' = [currentReq EXCEPT ![CownOf(RunReq(b))] = Nil]
  /\ NextSlot(b, "clearcur", "close")
  /\ UNCHANGED <<last, next, count, closed, op, spawnVars, succ, pre>>

\* close(done): forcers may continue before any cown is released.
Close(b) ==
  /\ runPc[b] = "close"
  /\ closed' = closed \cup {b}
  /\ runPc' = [runPc EXCEPT ![b] = "release"]
  /\ UNCHANGED <<last, currentReq, next, count, op, spawnVars, runIdx, succ,
                 pre>>

\* Mutant: a store instead of the compare-and-swap.
ReleaseTailUnchecked(b) ==
  /\ runPc[b] = "release"
  /\ last' = [last EXCEPT ![CownOf(RunReq(b))] = Nil]
  /\ NextSlot(b, "release", "finished")
  /\ UNCHANGED <<currentReq, next, count, closed, op, spawnVars, succ, pre>>

\* Mutant: spins on the compare-and-swap instead of on next.
ReleaseTailSpins(b) ==
  /\ runPc[b] = "release"
  /\ LET c == CownOf(RunReq(b)) IN
       IF last[c] = RunReq(b)
       THEN /\ last' = [last EXCEPT ![c] = Nil]
            /\ NextSlot(b, "release", "finished")
       ELSE UNCHANGED <<last, runIdx, runPc>>
  /\ UNCHANGED <<currentReq, next, count, closed, op, spawnVars, succ, pre>>

\* releaseCown: c.last.CompareAndSwap(req, nil).
ReleaseTail(b) ==
  /\ runPc[b] = "release"
  /\ LET c == CownOf(RunReq(b)) IN
       IF last[c] = RunReq(b)
       THEN /\ last' = [last EXCEPT ![c] = Nil]
            /\ NextSlot(b, "release", "finished")
       ELSE /\ runPc' = [runPc EXCEPT ![b] = "await"]
            /\ UNCHANGED <<last, runIdx>>
  /\ UNCHANGED <<currentReq, next, count, closed, op, spawnVars, succ, pre>>

\* releaseCown: the spin on req.next.Load() ends.
AwaitNext(b) ==
  /\ runPc[b] = "await"
  /\ next[RunReq(b)] # Nil
  /\ succ' = [succ EXCEPT ![b] = next[RunReq(b)]]
  /\ runPc' = [runPc EXCEPT ![b] = "handover"]
  /\ UNCHANGED <<sharedVars, op, spawnVars, runIdx, pre>>

\* releaseCown: next.beh.count.Add(-1), launching next.beh at zero; then the
\* loop of run moves to the next cown.
HandOver(b) ==
  /\ runPc[b] = "handover"
  /\ LET q == succ[b][1]
         again == runIdx[b] < Len(CownsOf[b]) IN
       /\ count' = [count EXCEPT ![q] = @ - 1]
       /\ runPc' = [runPc EXCEPT
                      ![q] = IF count[q] = 1 THEN "setcur" ELSE @,
                      ![b] = IF again THEN "release" ELSE "finished"]
       /\ runIdx' = [runIdx EXCEPT ![b] = IF again THEN @ + 1 ELSE 1]
       /\ pre' = [pre EXCEPT ![succ[b]] = Nil]
  /\ UNCHANGED <<last, currentReq, next, closed, op, spawnVars, succ>>

-----------------------------------------------------------------------------
CallStep(g) == Schedule(g) \/ ScheduleAsSuccessor(g) \/ ForceThunk(g)

SpawnStep(b) == \/ SwapLast(b) \/ GrantIdle(b) \/ LinkPrev(b)
                \/ LoadNext(b) \/ CasTail(b) \/ LinkCur(b)
                \/ CasNext(b) \/ LinkNew(b)

RunStep(b) == \/ SetCurrent(b) \/ FnReturns(b) \/ ClearCurrent(b) \/ Close(b)
              \/ ReleaseTail(b) \/ AwaitNext(b) \/ HandOver(b)

\* Every goroutine has run to its end.
Quiescent ==
  /\ \A g \in Mains : op[g] = Len(Prog[g]) /\ LastReturned(g)
  /\ \A b \in Behaviours : runPc[b] = "finished"

Terminating == Quiescent /\ UNCHANGED vars

Next == \/ \E g \in Goroutines : CallStep(g)
        \/ \E b \in Behaviours : SpawnStep(b) \/ RunStep(b)
        \/ Terminating

Spec == Init /\ [][Next]_vars

\* The Go scheduler is preemptive: a goroutine that can take its next step
\* forever eventually takes it.
Fairness == /\ \A g \in Goroutines : WF_vars(CallStep(g))
            /\ \A b \in Behaviours : WF_vars(SpawnStep(b)) /\ WF_vars(RunStep(b))

FairSpec == Spec /\ Fairness

-----------------------------------------------------------------------------
(* Safety.                                                                 *)

\* No two behaviours hold the same cown, from the moment the last token
\* launches one to the moment releaseCown has given the cown up: "runs fn
\* while exclusively holding c" (cown.go, Schedule and ScheduleMulti).
MutualExclusion ==
  \A b1, b2 \in Behaviours :
    \A i \in Slots(b1), j \in Slots(b2) :
      /\ Holds(b1, i) /\ Holds(b2, j)
      /\ CownsOf[b1][i] = CownsOf[b2][j]
      => b1 = b2

\* While b executes fn, every cown it lists names b's request as current, so
\* that a nested ScheduleAsSuccessor finds the right insertion point.
CurrentReqExact ==
  \A b \in Behaviours : runPc[b] = "body" =>
    \A i \in Slots(b) : currentReq[CownsOf[b][i]] = <<b, i>>

\* Someone who will complete the link p -> r: an enqueuer between its Swap
\* and its Store, or an inserter between its CAS and its Store.
LinkPending(p, r) ==
  \/ spawnPc[r[1]] \in {"link", "linkcur"} /\ SpawnReq(r[1]) = r /\ at[r[1]] = p
  \/ spawnPc[p[1]] = "linknew" /\ SpawnReq(p[1]) = p /\ seen[p[1]] = r

\* No request is lost: a queued request either owns its cown, or is linked (or
\* about to be) behind a request that is still in the queue, so the token
\* will reach it; and an idle cown has no queued request.
NoLostRequest ==
  /\ \A r \in Requests : Live(r) /\ pre[r] # Nil =>
       /\ Live(pre[r]) /\ CownOf(pre[r]) = CownOf(r)
       /\ next[pre[r]] = r \/ LinkPending(pre[r], r)
  /\ \A c \in Cowns :
       last[c] = Nil <=> ~\E r \in Requests : CownOf(r) = c /\ Live(r)

\* A token is counted once: what count still waits for is exactly the number
\* of b's requests that no cown has granted, and b runs exactly when it is 0.
CountIsMissingTokens ==
  \A b \in Behaviours : spawnPc[b] # "unspawned" =>
    /\ count[b] = Cardinality({i \in Slots(b) : ~Granted(<<b, i>>)})
    /\ runPc[b] = "idle" <=> count[b] > 0

-----------------------------------------------------------------------------
(* Liveness.                                                               *)

\* Every behaviour that is scheduled runs to its end and releases its cowns.
EveryBehaviourFinishes ==
  \A b \in Behaviours : spawnPc[b] # "unspawned" ~> runPc[b] = "finished"
=============================================================================
