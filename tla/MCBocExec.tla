----------------------------- MODULE MCBocExec -----------------------------
(***************************************************************************)
(* Instances of BocExec for TLC: three compiled programs.                  *)
(***************************************************************************)
EXTENDS BocExecInvariant

CONSTANTS
  m, a, b, x, y,                     \* cowns
  p, v, u1, u2, r1, r2, s1, s2, t, d, g

call(w)      == [op |-> "call", on |-> w]
successor(w) == [op |-> "successor", on |-> w]
force(w)     == [op |-> "force", on |-> w]
inc(c)       == <<[op |-> "read", on |-> c], [op |-> "write", on |-> c]>>

\* main binds a value v that two other calls use while it is being computed;
\* u2 and main each force a boc that counts in a and calls on (r2 and r1; r1
\* counts in a once more behind its Wait), t counts in two cowns and calls a
\* method of one of them, and main ends with the value of g.
TreeShape == [w \in Acts |->
  CASE w \in {p, r1, r2} -> "cold"
    [] w = t -> "eager"
    [] OTHER -> "simple"]
TreeCowns == [w \in Acts |->
  CASE w = p -> <<m>>
    [] w = t -> <<b, a>>
    [] w = s2 -> <<b>>
    [] w = u2 -> <<y>>
    [] w \in {v, g} -> <<x>>
    [] OTHER -> <<a>>]
TreePre == [w \in Acts |->
  CASE w = p -> <<call(v), call(u2), call(r1), call(t), call(u1)>>
    [] w = u1 -> <<force(v)>>
    [] w = u2 -> <<force(v), call(r2), force(r2)>>
    [] w = r1 -> inc(a) \o <<call(s1)>>
    [] w = r2 -> inc(a) \o <<call(s2)>>
    [] w = t -> inc(a) \o <<successor(d)>> \o inc(b)
    [] w \in {s1, d} -> inc(a)
    [] w = s2 -> inc(b)
    [] OTHER -> <<>>]
TreePost == [w \in Acts |->
  CASE w = p -> <<call(g), force(g)>>
    [] w = r1 -> inc(a)
    [] OTHER -> <<>>]

\* Two bocs x and y each call a cold boc of a that waits for a call of its own
\* and then counts in a.
RaceShape == [w \in Acts |-> IF w \in {p, r1, r2} THEN "cold" ELSE "simple"]
RaceCowns == [w \in Acts |->
  CASE w = p -> <<m>>
    [] w = u1 -> <<x>>
    [] w = u2 -> <<y>>
    [] w \in {r1, r2} -> <<a>>
    [] OTHER -> <<b>>]
RacePre == [w \in Acts |->
  CASE w = p -> <<call(u1), call(u2)>>
    [] w = u1 -> <<call(r1), force(r1)>>
    [] w = u2 -> <<call(r2), force(r2)>>
    [] w = r1 -> <<call(s1)>>
    [] w = r2 -> <<call(s2)>>
    [] OTHER -> <<>>]
RacePost == [w \in Acts |-> IF w \in {r1, r2} THEN inc(a) ELSE <<>>]

\* main calls two methods; each ends in a bare call of a method of the other's
\* cown, which its closure awaits.
CycleShape == [w \in Acts |-> IF w = p THEN "cold" ELSE "simple"]
CycleCowns == [w \in Acts |->
  CASE w = p -> <<m>>
    [] w \in {u1, s2} -> <<x>>
    [] OTHER -> <<y>>]
CyclePre == [w \in Acts |->
  CASE w = p -> <<call(u1), call(u2)>>
    [] w = u1 -> <<call(s1), force(s1)>>
    [] w = u2 -> <<call(s2), force(s2)>>
    [] OTHER -> <<>>]
CyclePost == [w \in Acts |-> <<>>]

\* The condition of StructuredCompletionHolds holds of the program of the run.
ASSUME MCProgramAssumption == Pre = TreePre => CallsForced
=============================================================================
