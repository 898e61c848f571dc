------------------------------ MODULE BocQueue ------------------------------
(***************************************************************************)
(* What the cowns of runtime/rt/cown.go promise their users: every cown    *)
(* has one queue of behaviours, a behaviour runs when it is first in the   *)
(* queue of every cown it needs, and it gives the cowns up one at a time   *)
(* after it has completed.  A behaviour that holds a cown may put another  *)
(* one directly behind itself (ScheduleAsSuccessor).                       *)
(*                                                                         *)
(* Joining the queues of several cowns is not one step here, because it is *)
(* not one step of ScheduleMulti either.                                   *)
(***************************************************************************)
EXTENDS Naturals, Sequences

CONSTANTS Cowns, Behaviours, CownsOf

VARIABLES
  queue,  \* queue[c]: the behaviours that need c, the holder first
  phase   \* new -> waiting -> running -> completed

vars == <<queue, phase>>

Needs(b) == {CownsOf[b][i] : i \in DOMAIN CownsOf[b]}

IsFirst(b, c) == queue[c] # <<>> /\ Head(queue[c]) = b

InQueue(b, c) == \E k \in DOMAIN queue[c] : queue[c][k] = b

Init ==
  /\ queue = [c \in Cowns |-> <<>>]
  /\ phase = [b \in Behaviours |-> "new"]

\* Schedule, and each turn of ScheduleMulti's loop.
Join(b, c) ==
  /\ phase[b] \in {"new", "waiting"}
  /\ c \in Needs(b) /\ ~InQueue(b, c)
  /\ queue' = [queue EXCEPT ![c] = Append(@, b)]
  /\ phase' = [phase EXCEPT ![b] = "waiting"]

\* ScheduleAsSuccessor(c) called by the running behaviour p.
JoinBehind(p, b, c) ==
  /\ phase[p] = "running" /\ IsFirst(p, c)
  /\ phase[b] = "new" /\ Needs(b) = {c}
  /\ queue' = [queue EXCEPT ![c] = <<p, b>> \o Tail(@)]
  /\ phase' = [phase EXCEPT ![b] = "waiting"]

Start(b) ==
  /\ phase[b] = "waiting"
  /\ \A c \in Needs(b) : IsFirst(b, c)
  /\ phase' = [phase EXCEPT ![b] = "running"]
  /\ UNCHANGED queue

Complete(b) ==
  /\ phase[b] = "running"
  /\ phase' = [phase EXCEPT ![b] = "completed"]
  /\ UNCHANGED queue

Release(b, c) ==
  /\ phase[b] = "completed" /\ IsFirst(b, c)
  /\ queue' = [queue EXCEPT ![c] = Tail(@)]
  /\ UNCHANGED phase

Next ==
  \/ \E b \in Behaviours, c \in Cowns : Join(b, c) \/ Release(b, c)
  \/ \E p, b \in Behaviours, c \in Cowns : JoinBehind(p, b, c)
  \/ \E b \in Behaviours : Start(b) \/ Complete(b)

\* A behaviour that is first everywhere starts, a completed one lets go.
Fairness ==
  /\ \A b \in Behaviours : WF_vars(Start(b))
  /\ \A b \in Behaviours, c \in Cowns : WF_vars(Release(b, c))

SafeSpec == Init /\ [][Next]_vars

Spec == SafeSpec /\ Fairness

-----------------------------------------------------------------------------
(* What follows from the queues.                                           *)

TypeOK ==
  /\ queue \in [Cowns -> Seq(Behaviours)]
  /\ phase \in [Behaviours -> {"new", "waiting", "running", "completed"}]

\* A behaviour that runs is first in the queue of every cown it needs.
RunningIsFirst ==
  \A b \in Behaviours : phase[b] = "running" =>
    \A c \in Cowns : c \in Needs(b) => IsFirst(b, c)

\* A behaviour is new until it joins a queue, and it joins only the queues of
\* the cowns it needs.
InQueueMeansJoined ==
  \A c \in Cowns : \A k \in DOMAIN queue[c] :
    phase[queue[c][k]] # "new" /\ c \in Needs(queue[c][k])

\* A behaviour is in a queue once.
OncePerQueue ==
  \A c \in Cowns : \A i, j \in DOMAIN queue[c] :
    queue[c][i] = queue[c][j] => i = j

QueueInv == TypeOK /\ RunningIsFirst /\ InQueueMeansJoined /\ OncePerQueue

\* Two behaviours that need a common cown do not run at the same time.
Exclusive ==
  \A v, w \in Behaviours :
    /\ phase[v] = "running" /\ phase[w] = "running"
    /\ Needs(v) \cap Needs(w) \cap Cowns # {}
    => v = w

\* Wherever w stands in the queue of c, v stands before it.
Before(v, w, c) ==
  \A j \in DOMAIN queue[c] : queue[c][j] = w =>
    \E i \in DOMAIN queue[c] : i < j /\ queue[c][i] = v
=============================================================================
