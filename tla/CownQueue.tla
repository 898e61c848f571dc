------------------------------- MODULE CownQueue -------------------------------
(***************************************************************************)
(* The queue of a cown, read off its requests, and what the language       *)
(* promises about the order in which behaviours run: the first-come queues *)
(* of BocQueue, spawn order, successors first, no circular wait.           *)
(***************************************************************************)
EXTENDS CownInvariant, Functions

-----------------------------------------------------------------------------
(* The line of a cown.                                                     *)

\* The request directly behind r, Nil at the tail.
Behind(r) ==
  IF \E q \in Requests : Live(q) /\ pre[q] = r
  THEN CHOOSE q \in Requests : Live(q) /\ pre[q] = r
  ELSE Nil

\* r and everybody behind it.
chain[r \in Requests] ==
  <<r>> \o (IF Behind(r) = Nil THEN <<>> ELSE chain[Behind(r)])

IsHead(r, c) == Live(r) /\ CownOf(r) = c /\ pre[r] = Nil

\* The requests of c that have not been released, the holder's first.
Line(c) ==
  IF \E r \in Requests : IsHead(r, c)
  THEN chain[CHOOSE r \in Requests : IsHead(r, c)]
  ELSE <<>>

\* s is the line of c: each live request of c once, each directly behind the
\* one that pre names.
IsLine(s, c) ==
  /\ s \in Seq(Requests)
  /\ \A k \in DOMAIN s : /\ Live(s[k]) /\ CownOf(s[k]) = c
                         /\ pre[s[k]] = IF k = 1 THEN Nil ELSE s[k - 1]
  /\ \A r \in Requests : Live(r) /\ CownOf(r) = c => \E k \in DOMAIN s : s[k] = r
  /\ \A i, k \in DOMAIN s : s[i] = s[k] => i = k

LinesExist == \A c \in Cowns : IsLine(Line(c), c)

\* Wherever r stands in s, q stands before it.
Precedes(s, q, r) ==
  \A k \in DOMAIN s : s[k] = r => \E i \in DOMAIN s : i < k /\ s[i] = q

\* q stands ahead of r in the line of c, when r stands in it.
Ahead(q, r, c) == Precedes(Line(c), q, r)

-----------------------------------------------------------------------------
(* Refinement of BocQueue.                                                 *)

Owners(s) == [k \in DOMAIN s |-> s[k][1]]

PhaseOf(w) ==
  CASE runPc[w] = "idle" \/ (runPc[w] = "setcur" /\ runIdx[w] = 1)
         -> IF \E i \in Slots(w) : Queued(<<w, i>>) THEN "waiting" ELSE "new"
    [] runPc[w] \in {"release", "await", "handover", "finished"} -> "completed"
    [] OTHER -> "running"

Queues == [c \in Cowns |-> Owners(Line(c))]

Phases == [w \in Behaviours |-> PhaseOf(w)]

Abstract == INSTANCE BocQueue WITH queue <- Queues, phase <- Phases

\* The atomic operations of cown.go implement one first-come queue per cown,
\* with insertion behind the holder and release from the front.
ImplementsBocQueue == Abstract!SafeSpec

\* A behaviour that is first in all of its queues starts, and one that has
\* completed lets its cowns go.
QueuesMove == Abstract!Fairness

-----------------------------------------------------------------------------
(* Orders.                                                                 *)

Shares(v, w) == \E i \in Slots(v), j \in Slots(w) : CownsOf[v][i] = CownsOf[w][j]

\* w starts only when v has given up every cown they share.
RunsAfter(w, v) ==
  runPc[w] # "idle" =>
    \A i \in Slots(v) : (\E j \in Slots(w) : CownsOf[v][i] = CownsOf[w][j])
                          => Released(<<v, i>>)

InOrder(kinds) ==
  \A g \in Goroutines : \A k, l \in DOMAIN Prog[g] :
    /\ k < l
    /\ Prog[g][k].op \in kinds /\ Prog[g][l].op \in kinds
    /\ Shares(Prog[g][k].beh, Prog[g][l].beh)
    => RunsAfter(Prog[g][l].beh, Prog[g][k].beh)

\* Behaviours one goroutine schedules run in the order of the calls when they
\* share a cown ("per-cown queues ensure spawn-order serialization").
ScheduledInOrder == InOrder({"schedule"})

\* The same for every runtime call of a body, successors included
\* (spec/08-concurrency.md: "always run in spawn order").
SpawnOrder == InOrder({"schedule", "successor"})

\* w was not scheduled by a body on a cown that body holds.
External(w) ==
  \A g \in Goroutines : \A k \in DOMAIN Prog[g] :
    Prog[g][k].op = "successor" => Prog[g][k].beh # w

\* From the moment a successor is in the queue of its cown until it has
\* released it, no behaviour that waits for the cown from outside runs ("runs
\* before any externally-waiting behaviours", ScheduleAsSuccessor).
SuccessorFirst ==
  \A g \in Behaviours : \A k \in DOMAIN Prog[g] :
    LET s == Prog[g][k].beh IN
    Prog[g][k].op = "successor" /\ Live(<<s, 1>>) =>
      \A w \in Behaviours \ {g} : External(w) =>
        \A i \in Slots(w) : CownsOf[w][i] = CownsOf[s][1] =>
          runPc[w] = "idle" \/ Released(<<w, i>>)

\* No behaviours wait for each other: in every set of behaviours there is one
\* that waits directly behind none of them (spec/08: "Deadlock: Impossible -
\* atomic multi-cown acquisition").
NoCircularWait ==
  \A S \in SUBSET Behaviours :
    (\A v \in S : \E i \in Slots(v) : \E r \in Requests :
        r = pre[<<v, i>>] /\ r[1] \in S)
    => S = {}

-----------------------------------------------------------------------------
(* What the order properties rest on.                                      *)

\* The cowns of a call are different objects.
DistinctCowns == \A b \in Behaviours : IsInjective(CownsOf[b])

\* One goroutine makes all calls of bocs of several cowns.
MultiFromOneGoroutine ==
  \A g, h \in Goroutines : \A k \in DOMAIN Prog[g], l \in DOMAIN Prog[h] :
    /\ Prog[g][k].op = "schedule" /\ Len(CownsOf[Prog[g][k].beh]) > 1
    /\ Prog[h][l].op = "schedule" /\ Len(CownsOf[Prog[h][l].beh]) > 1
    => g = h

\* The program counters of enqueueCown.
EnqueuePcs == {"swap", "grant", "link"}

\* A call has been made when its turn in the program has come, and has
\* returned when the next one is made; a successor never goes to the tail;
\* nothing else starts a behaviour.
CallInv ==
  /\ \A g \in Goroutines : \A k \in DOMAIN Prog[g] : Prog[g][k].op # "force" =>
       /\ k > op[g] <=> spawnPc[Prog[g][k].beh] = "unspawned"
       /\ k < op[g] => spawnPc[Prog[g][k].beh] = "spawned"
       /\ Prog[g][k].op = "successor" => spawnPc[Prog[g][k].beh] \notin EnqueuePcs
  /\ \A b \in Behaviours : spawnPc[b] # "unspawned" =>
       \E g \in Goroutines : \E k \in DOMAIN Prog[g] :
         Prog[g][k].op # "force" /\ Prog[g][k].beh = b

\* q, once in the line, keeps the behaviour of r from running.
Blocks(q, r) == runPc[r[1]] = "idle" /\ Ahead(q, r, CownOf(r))

\* Of two calls of a goroutine, the request of the later one stands behind
\* that of the earlier one until that is released.
OrderInv ==
  \A g \in Goroutines : \A k, l \in DOMAIN Prog[g] :
    k < l /\ Prog[g][k].op = "schedule" /\ Prog[g][l].op = "schedule" =>
      \A q, r \in Requests :
        /\ q[1] = Prog[g][k].beh /\ r[1] = Prog[g][l].beh /\ CownOf(q) = CownOf(r)
        => Released(q) \/ Blocks(q, r)

\* A request from outside stands behind the successors of the holder.
SuccessorInv ==
  \A g \in Goroutines : \A k \in DOMAIN Prog[g] : Prog[g][k].op = "successor" =>
    \A q, r \in Requests :
      /\ q[1] = Prog[g][k].beh /\ Live(q)
      /\ r[1] # g /\ External(r[1]) /\ CownOf(q) = CownOf(r)
      => Released(r) \/ Blocks(q, r)

LineInv == CownInv /\ LinesExist /\ CallInv /\ OrderInv /\ SuccessorInv
=============================================================================
