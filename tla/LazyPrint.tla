---------------------------- MODULE LazyPrint ----------------------------
(***************************************************************************)
(* What Stringify and StringifyRepr (runtime/rt/types.go) have to print.   *)
(***************************************************************************)
EXTENDS LazyInvariant

\* What printing a value gives when nothing else runs.
RECURSIVE Render(_, _)
Render(v, seen) ==
  CASE v.is # "obj" -> <<<<"val", Final(s, v)>>>>
    [] v.is = "obj" /\ v.n \in seen -> <<<<"cycle", v.n>>>>
    [] OTHER -> <<<<"obj", v.n>>>>
         \o FlattenSeq([f \in DOMAIN s.fields[v.n] |->
                          Render(s.fields[v.n][f], seen \cup {v.n})])
         \o <<<<"end", v.n>>>>

\* Printing gives the whole graph, cut at true cycles only, whatever other
\* goroutines print at the same time; who is done has left no mark behind
\* that would cut a later print.  (LazyInv is the invariant behind the other
\* properties of values.)
PrintsWhole ==
  /\ LazyInv
  /\ \A i \in Completed({"print"}) : out[i.p] = Render(i.args[1], {})
  /\ \A m \in marks : todo[m[1]] # <<>>
=============================================================================
