--------------------------- MODULE MCBocLowering ---------------------------
(***************************************************************************)
(* The bodies TLC lowers: what a method may contain differs from what a    *)
(* singleton may, and the bodies of singletons may be longer because calls *)
(* are batched.                                                            *)
(***************************************************************************)
EXTENDS LoweringInvariant

MCKinds == [l \in {"method", "singleton"} |->
  IF l = "method"
  THEN {"unit", "inst", "bind", "lazy", "local", "do", "if"}
  ELSE {"unit", "bind", "lazy", "typed", "assign", "do", "if"}]

MCMaxLen == [l \in {"method", "singleton"} |-> IF l = "method" THEN 4 ELSE 5]

\* The hypotheses of the theorems of LoweringProofs hold of the bodies of the
\* run.
ASSUME MCLoweringAssumption == ReadersKept /\ BranchesAwaited /\ ResultsKept
=============================================================================
