--------------------------- MODULE LazyInvariant ---------------------------
(***************************************************************************)
(* The inductive invariant of LazyValues: what is on the stacks of the     *)
(* goroutines, and what has been computed, while several of them settle    *)
(* the scalars that they share.                                            *)
(***************************************************************************)
EXTENDS LazyValues

\* The operands that an operation reads without a first use.
RawOperands(i) == CASE i.op \in {"at", "set"} -> {2}
                    [] i.op \in {"filter", "lookup"} -> DOMAIN i.args
                    [] OTHER -> {}
Regular(i) == \A k \in RawOperands(i) : i.args[k].is = "val"

\* The programs for which CollectionsSeeValues is claimed (section 8 of the
\* README has the others).
OperandsPlain == \A x \in Scenarios : \A i \in OperationsOf(x) : Regular(i)

-----------------------------------------------------------------------------
Args == Scalars \cup [is : {"obj"}, n : Nat]
Ops  == {"await", "plus", "and", "any", "all", "filter", "lookup", "print", "at", "append",
         "set", "join", "settle", "repr", "unmark", "written"}
Item == [op : Ops, args : Seq(Args), p : Results \cup Cells]

Types ==
  /\ once \in [Cells -> {"new", "busy", "done"}]
  /\ val \in [Cells -> Int] /\ runs \in [Cells -> Nat]
  /\ todo \in [Goroutines -> Seq(Item)]
  /\ DOMAIN out = Results /\ finished \subseteq Results
  /\ store \in Seq(Seq(Scalars))

\* A pending scalar that an operation may use.
Known(v) == v.is = "lazy" => once[v.n] = "done"

\* What is left of i after some elements that did not decide it.
Stop(i) == IF i.op = "any" THEN 1 ELSE 0
Left(t, i) ==
  LET n == Len(i.args) - Len(t.args) IN
  /\ t.op = i.op /\ t.p = i.p /\ n \in Nat
  /\ \A k \in DOMAIN t.args : t.args[k] = i.args[k + n]
  /\ \A k \in 1 .. n : Known(i.args[k]) /\ Value(i.args[k]) # Stop(i)

\* What is on a stack: operations of the program, the steps of once.Do, and
\* the steps of a print.
FromProgram(t) ==
  \E i \in Operations : IF i.op \in {"any", "all"} THEN Left(t, i) ELSE t = i
FromOnce(t) ==
  t.p \in Cells /\ (t.op = "join" \/ (t.op = "settle" /\ t.args = <<s.result[t.p]>>))
FromPrint(t) ==
  /\ t.op \in {"repr", "unmark", "written"}
  /\ \E i \in Operations : i.op = "print" /\ i.p = t.p
  /\ t.op = "repr" => t.args \in [1 .. 1 -> Printable(s)]

StackInv ==
  \A g \in Goroutines : \A t \in ToSet(todo[g]) : FromProgram(t) \/ FromOnce(t) \/ FromPrint(t)

\* The function of a once that was entered is on one stack.
Settles(g, k, c) == k \in DOMAIN todo[g] /\ todo[g][k].op = "settle" /\ todo[g][k].p = c
OnceInv ==
  \A c \in Cells :
    /\ once[c] = "busy" <=> \E g \in Goroutines : \E k \in DOMAIN todo[g] : Settles(g, k, c)
    /\ \A g, h \in Goroutines : \A k \in DOMAIN todo[g], l \in DOMAIN todo[h] :
         Settles(g, k, c) /\ Settles(h, l, c) => g = h /\ k = l
    /\ runs[c] = IF once[c] = "new" THEN 0 ELSE 1

\* A settled scalar has the value its results lead to, through settled ones.
Done == {c \in Cells : once[c] = "done"}
ValInv == \A c \in Done : Leads(s)[Cardinality(Done)][c] = Val(val[c])

BoolInv ==
  \A B \in SUBSET Cells :
    (\A c \in B : s.result[c] \in Bools(B)) => \A c \in B \cap Done : val[c] \in {0, 1}

StoreInv ==
  /\ Len(s.arrays) <= Len(store)
  /\ \A b \in DOMAIN s.arrays : store[b] = s.arrays[b]

\* What a completed operation has left.
Correct(i) ==
  /\ i.op \in {"await", "plus", "and", "any", "all"} => out[i.p] = Expected(s, i)
  /\ i.op \in {"filter", "at", "lookup"} /\ Regular(i) => out[i.p] = Expected(s, i)
  /\ i.op \in {"append", "set"} /\ Regular(i) =>
       /\ out[i.p] \in [1 .. 2 -> Nat] /\ out[i.p][1] \in DOMAIN store
       /\ Slice(out[i.p]) = Expected(s, i)
OutInv == \A i \in Operations : i.p \in finished => Correct(i)

LazyInv ==
  /\ Types /\ StackInv /\ OnceInv /\ ValInv /\ BoolInv /\ StoreInv /\ OutInv
=============================================================================
