------------------------------- MODULE MCCown -------------------------------
(***************************************************************************)
(* Instances of Cown for TLC: programs of a few goroutines.                *)
(***************************************************************************)
EXTENDS CownQueue

CONSTANTS x, y, m1, m2, w1, w2, w3, w4, s1, s2

schedule(w)  == [op |-> "schedule", beh |-> w]
successor(w) == [op |-> "successor", beh |-> w]
force(w)     == [op |-> "force", beh |-> w]

\* One cown, two spawning goroutines; the first behaviour calls a method of
\* the cown it holds, which calls another, while the others queue up behind.
OneCowns == [w \in Behaviours |-> <<x>>]
OneProg == [g \in Goroutines |->
  CASE g = m1 -> <<schedule(w1), schedule(w2)>>
    [] g = m2 -> <<schedule(w3), force(w3)>>
    [] g = w1  -> <<successor(s1), schedule(w4)>>
    [] g = s1  -> <<successor(s2)>>
    [] OTHER  -> <<>>]

\* Two cowns listed in opposite orders by two multi-cown behaviours of one
\* goroutine, next to single-cown behaviours of another goroutine and of a
\* body that calls a method of one of the two cowns it holds.
MultiCowns == [w \in Behaviours |->
  CASE w = w1 -> <<x, y>>
    [] w = w2 -> <<y, x>>
    [] w = w3 -> <<x>>
    [] w \in {w4, s1, s2} -> <<y>>]
MultiProg == [g \in Goroutines |->
  CASE g = m1 -> <<schedule(w1), schedule(w2), schedule(w3), force(w1)>>
    [] g = m2 -> <<schedule(s2)>>
    [] g = w1  -> <<successor(s1), schedule(w4)>>
    [] OTHER  -> <<>>]

\* Two goroutines call a multi-cown boc at the same time, in the same order.
RaceCowns == [w \in Behaviours |-> <<x, y>>]
RaceProg == [g \in Goroutines |->
  CASE g = m1 -> <<schedule(w1)>>
    [] g = m2 -> <<schedule(w2)>>
    [] OTHER  -> <<>>]

\* A body that calls two methods of a cown it holds.
LifoCowns == [w \in Behaviours |-> <<x>>]
LifoProg == [g \in Goroutines |->
  CASE g = m1 -> <<schedule(w1)>>
    [] g = w1  -> <<successor(s1), successor(s2)>>
    [] OTHER  -> <<>>]

\* The conditions of the theorems about the refinement and about waits.
ASSUME MCProgramAssumption ==
  /\ DistinctCowns
  /\ Prog = MultiProg => MultiFromOneGoroutine
=============================================================================
