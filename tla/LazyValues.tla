---------------------------- MODULE LazyValues ----------------------------
(***************************************************************************)
(* Values at run time (runtime/rt/types.go, thunk.go, collections.go,      *)
(* option.go): scalars that may still be pending, their first use by       *)
(* several goroutines, printing of object graphs, and the collections.     *)
(*                                                                         *)
(* A goroutine executes a list of operations.  An operation that uses a    *)
(* pending scalar first settles it, which may put the operations of the    *)
(* scalar's thunk in front of it; `todo` is therefore a stack.             *)
(***************************************************************************)
EXTENDS Integers, Sequences, FiniteSets, SequencesExt

CONSTANTS
  Mains,        \* goroutines with a program of their own
  Cells,        \* the lazy cells; a std.Go cell has the goroutine of its name
  Scenarios,    \* records [kind, body, result, fields, arrays, prog]
  MaxInt        \* the largest int64, narrowed

\* A scalar is plain or refers to a cell; the field val of a lazy one is zero
\* for ever.  Booleans are 0 and 1.
Val(n)  == [is |-> "val", n |-> n]
Lazy(c) == [is |-> "lazy", n |-> c]
Obj(o)  == [is |-> "obj", n |-> o]
Raw(v)  == IF v.is = "val" THEN v.n ELSE 0

Scalars      == [is : {"val"}, n : Int] \cup [is : {"lazy"}, n : Cells]
Printable(x) == Scalars \cup [is : {"obj"}, n : DOMAIN x.fields]
Arrays(x)    == [is : {"obj"}, n : DOMAIN x.arrays]

\* An operation; p names its result.
Op(op, args, p) == [op |-> op, args |-> args, p |-> p]

OperationOK(x, i) ==
  /\ i = Op(i.op, i.args, i.p)
  /\ \/ i.op = "await" /\ i.args \in [1 .. 1 -> Scalars]
     \/ i.op \in {"plus", "and"} /\ i.args \in [1 .. 2 -> Scalars]
     \/ i.op \in {"any", "all", "filter", "lookup"} /\ i.args \in Seq(Scalars)
     \/ i.op = "print" /\ i.args \in [1 .. 1 -> Printable(x)]
     \/ /\ i.op \in {"at", "append", "set"}
        /\ i.args \in Seq(Arrays(x) \cup Scalars) /\ Len(i.args) = IF i.op = "set" THEN 3 ELSE 2
        /\ i.args[1] \in Arrays(x)
        /\ \A k \in 2 .. Len(i.args) : i.args[k] \in Scalars
  /\ i.op = "lookup" => i.args # <<>>

OperationsOf(x) ==
  UNION {ToSet(x.prog[g]) : g \in Mains} \cup UNION {ToSet(x.body[c]) : c \in Cells}

\* The pending scalars and the values of type Bool, if those of B are.
Bools(B) == {Val(0), Val(1)} \cup {Lazy(c) : c \in B}

\* Programs are typed, and operations have names of their own.
ASSUME LazyAssumption ==
  /\ Mains \cap Cells = {} /\ IsFiniteSet(Cells) /\ MaxInt \in Nat
  /\ \A x \in Scenarios :
       /\ x.kind \in [Cells -> {"go", "new"}] /\ x.result \in [Cells -> Scalars]
       /\ DOMAIN x.prog = Mains /\ \A g \in Mains : x.prog[g] \in Seq(OperationsOf(x))
       /\ DOMAIN x.body = Cells /\ \A c \in Cells : x.body[c] \in Seq(OperationsOf(x))
       /\ x.fields \in Seq(Seq(Printable(x))) /\ x.arrays \in Seq(Seq(Scalars))
       /\ \A i \in OperationsOf(x) : OperationOK(x, i)
       /\ \A i, j \in OperationsOf(x) : i.p = j.p => i = j
       /\ \E B \in SUBSET Cells :
            /\ \A c \in B : x.result[c] \in Bools(B)
            /\ \A i \in OperationsOf(x) : i.op = "and" => ToSet(i.args) \subseteq Bools(B)

VARIABLES
  s,            \* the scenario
  once,         \* per cell: "new", "busy" or "done" (the sync.Once)
  val,          \* per cell: the settled value
  runs,         \* per cell: how often its thunk was run
  todo,         \* per goroutine: the operations to execute
  marks,        \* stringifyInProgress: pairs of goroutine and object
  out,          \* per result name: what was computed or printed
  store,        \* the backing arrays of the arrays
  finished      \* the names of the operations that are complete
vars == <<s, once, val, runs, todo, marks, out, store, finished>>

Goroutines == Mains \cup Cells
Operations == OperationsOf(s)
Results    == {i.p : i \in Operations}

\* std.Go starts the goroutine of a cell when the cell is made.
Init ==
  /\ s \in Scenarios
  /\ once = [c \in Cells |-> "new"] /\ val = [c \in Cells |-> 0]
  /\ runs = [c \in Cells |-> 0]
  /\ todo = [g \in Goroutines |->
               IF g \in Mains THEN s.prog[g]
               ELSE IF s.kind[g] = "go" THEN s.body[g] ELSE <<>>]
  /\ marks = {} /\ finished = {}
  /\ out = [p \in Results |-> <<>>]
  /\ store = s.arrays

-----------------------------------------------------------------------------
Head1(g) == Head(todo[g])
Ready(g, op) == todo[g] # <<>> /\ Head1(g).op = op
Value(v) == IF v.is = "lazy" THEN val[v.n] ELSE v.n

\* The first operand, if there is one.
First(args) == [k \in DOMAIN args \cap {1} |-> args[k]]

\* What an operation uses through GoInt, GoBool, ...: Any and All take one
\* element at a time, && stops at a false operand, and At, Set, Filter and the
\* lookup in a map use none of their operands that way.
Used(i) ==
  CASE i.op \in {"plus", "await", "settle", "repr"} -> i.args
    [] i.op \in {"any", "all"} -> First(i.args)
    [] i.op = "and" -> IF Value(i.args[1]) = 0 THEN First(i.args) ELSE i.args
    [] OTHER -> <<>>

\* The places among them of the scalars that are still pending.
Unsettled(i) ==
  {k \in DOMAIN Used(i) : Used(i)[k].is = "lazy" /\ once[Used(i)[k].n] # "done"}
CanComplete(g, op) == Ready(g, op) /\ Unsettled(Head1(g)) = {}

\* The first user of a lazy scalar: once.Do runs th.Force().GoX().  The
\* function of a NewThunk runs here, the one of std.Go in its own goroutine.
EnterOnce(g) ==
  /\ todo[g] # <<>>
  /\ \E k \in Unsettled(Head1(g)) : LET c == Used(Head1(g))[k].n IN
     /\ \A j \in Unsettled(Head1(g)) : k <= j
     /\ once[c] = "new"
     /\ once' = [once EXCEPT ![c] = "busy"]
     /\ runs' = [runs EXCEPT ![c] = @ + 1]
     /\ todo' = [todo EXCEPT ![g] =
                   (IF s.kind[c] = "go" THEN <<Op("join", <<>>, c)>> ELSE s.body[c])
                     \o <<Op("settle", <<s.result[c]>>, c)>> \o @]
  /\ UNCHANGED <<s, val, marks, out, store, finished>>

\* <-done: the goroutine of the cell has returned.
Join(g) ==
  /\ Ready(g, "join") /\ todo[Head1(g).p] = <<>>
  /\ todo' = [todo EXCEPT ![g] = Tail(@)]
  /\ UNCHANGED <<s, once, val, runs, marks, out, store, finished>>

\* Mutant: the thunk's result is taken as it is, not forced in turn.
SettleRaw(g) ==
  /\ CanComplete(g, "settle")
  /\ LET i == Head1(g) IN
     /\ val' = [val EXCEPT ![i.p] = Raw(i.args[1])]
     /\ once' = [once EXCEPT ![i.p] = "done"]
  /\ todo' = [todo EXCEPT ![g] = Tail(@)]
  /\ UNCHANGED <<s, runs, marks, out, store, finished>>

\* Mutant: the cell is never marked as done.
SettleForgotten(g) ==
  /\ CanComplete(g, "settle")
  /\ val' = [val EXCEPT ![Head1(g).p] = Value(Head1(g).args[1])]
  /\ todo' = [todo EXCEPT ![g] = Tail(@)]
  /\ UNCHANGED <<s, once, runs, marks, out, store, finished>>

\* lazy.val = fn(): the thunk's result is itself forced first.
Settle(g) ==
  /\ CanComplete(g, "settle")
  /\ LET i == Head1(g) IN
     /\ val' = [val EXCEPT ![i.p] = Value(i.args[1])]
     /\ once' = [once EXCEPT ![i.p] = "done"]
  /\ todo' = [todo EXCEPT ![g] = Tail(@)]
  /\ UNCHANGED <<s, runs, marks, out, store, finished>>

-----------------------------------------------------------------------------
(* Operations with one result.                                              *)

Return(g, r) ==
  LET p == Head1(g).p IN
  /\ out' = [out EXCEPT ![p] = r]
  /\ finished' = finished \cup {p}
  /\ todo' = [todo EXCEPT ![g] = Tail(@)]
  /\ UNCHANGED <<s, once, val, runs, marks>>

\* Await, and the operators of Int, Decimal and String.
Await(g) == CanComplete(g, "await") /\ Return(g, <<Value(Head1(g).args[1])>>) /\ UNCHANGED store
Plus(g)  ==
  /\ CanComplete(g, "plus")
  /\ Return(g, <<Value(Head1(g).args[1]) + Value(Head1(g).args[2])>>) /\ UNCHANGED store

\* Bool: the right operand is forced only if the left one is true.
Ampamp(g) ==
  /\ CanComplete(g, "and")
  /\ Return(g, <<IF Value(Head1(g).args[1]) = 0 THEN 0 ELSE Value(Head1(g).args[2])>>)
  /\ UNCHANGED store

\* Any and All: one element settles the result or is left behind.
Scan(g, op, stop) ==
  /\ CanComplete(g, op)
  /\ LET i == Head1(g) IN
     IF i.args = <<>> THEN Return(g, <<1 - stop>>)
     ELSE IF Value(i.args[1]) = stop THEN Return(g, <<stop>>)
     ELSE /\ todo' = [todo EXCEPT ![g] = <<[i EXCEPT !.args = Tail(@)]>> \o Tail(@)]
          /\ UNCHANGED <<s, once, val, runs, marks, out, finished>>
  /\ UNCHANGED store

AnyOf(g) == Scan(g, "any", 1)
AllOf(g) == Scan(g, "all", 0)

\* The places of the true ones.
Chosen(bools) == SelectSeq([i \in DOMAIN bools |-> i], LAMBDA i : bools[i] = 1)

\* Filter reads the field val of what the predicate returned: the positions it
\* keeps.
Filter(g) ==
  /\ CanComplete(g, "filter")
  /\ LET preds == Head1(g).args
     IN Return(g, Chosen([i \in DOMAIN preds |-> Raw(preds[i])]))
  /\ UNCHANGED store

\* At(i): args[1] is the array, args[2] the index.
At(g) ==
  /\ CanComplete(g, "at")
  /\ LET a == Head1(g).args[1] IN
     Return(g, <<store[a.n][Raw(Head1(g).args[2]) + 1]>>)
  /\ UNCHANGED store

\* AtOpt and Has: the keys of a Go map are compared as structs, so a pending
\* scalar is equal to no key but itself.
AtOpt(g) ==
  /\ CanComplete(g, "lookup")
  /\ LET k == Head1(g).args[1] IN
     Return(g, <<IF k \in ToSet(Tail(Head1(g).args)) THEN 1 ELSE 0>>)
  /\ UNCHANGED store

\* An array is a backing array and a length.
Slice(a) == SubSeq(store[a[1]], 1, a[2])

\* Mutant: Go's append, which writes behind the elements when it has room.
AppendInPlace(g) ==
  /\ CanComplete(g, "append")
  /\ LET b   == Head1(g).args[1].n
         len == Len(s.arrays[b])
     IN /\ store' = [store EXCEPT ![b] = SubSeq(@, 1, len) \o <<Head1(g).args[2]>>]
        /\ Return(g, <<b, len + 1>>)

\* Append copies; so do Set, NewArray, and Set of a Dict.
Append1(g) ==
  /\ CanComplete(g, "append")
  /\ LET old == s.arrays[Head1(g).args[1].n]
     IN /\ store' = Append(store, Append(old, Head1(g).args[2]))
        /\ Return(g, <<Len(store) + 1, Len(old) + 1>>)

Set(g) ==
  /\ CanComplete(g, "set")
  /\ LET old == s.arrays[Head1(g).args[1].n]
     IN /\ store' = Append(store, [old EXCEPT ![Raw(Head1(g).args[2]) + 1] =
                                     Head1(g).args[3]])
        /\ Return(g, <<Len(store) + 1, Len(old)>>)

-----------------------------------------------------------------------------
(* Stringify and StringifyRepr.  A printed object is its name, its fields   *)
(* and an end; an object that is being printed is a cycle.                  *)

Emit(p, x) == out' = [out EXCEPT ![p] = Append(@, x)]

\* Mutant: the map is keyed by the pointer alone.
VisitingAny(g, o) == \E h \in Goroutines : <<h, o>> \in marks

\* markVisiting finds <<gid, ptr>> in the map.
Visiting(g, o) == <<g, o>> \in marks

\* The String method the generator writes: every field, in order.
FieldsOf(o, p) ==
  [f \in DOMAIN s.fields[o] |-> Op("repr", <<s.fields[o][f]>>, p)]

\* The mark is set before String() is called, and removed when it returns.
Repr(g) ==
  /\ CanComplete(g, "repr")
  /\ LET i == Head1(g)
         v == i.args[1]
     IN IF v.is # "obj"
        THEN /\ Emit(i.p, <<"val", Value(v)>>)
             /\ todo' = [todo EXCEPT ![g] = Tail(@)] /\ UNCHANGED marks
        ELSE IF Visiting(g, v.n)
        THEN /\ Emit(i.p, <<"cycle", v.n>>)
             /\ todo' = [todo EXCEPT ![g] = Tail(@)] /\ UNCHANGED marks
        ELSE /\ Emit(i.p, <<"obj", v.n>>)
             /\ marks' = marks \cup {<<g, v.n>>}
             /\ todo' = [todo EXCEPT ![g] =
                  FieldsOf(v.n, i.p) \o <<Op("unmark", <<v>>, i.p)>> \o Tail(@)]
  /\ UNCHANGED <<s, once, val, runs, store, finished>>

Unmark(g) ==
  /\ Ready(g, "unmark")
  /\ Emit(Head1(g).p, <<"end", Head1(g).args[1].n>>)
  /\ marks' = marks \ {<<g, Head1(g).args[1].n>>}
  /\ todo' = [todo EXCEPT ![g] = Tail(@)]
  /\ UNCHANGED <<s, once, val, runs, store, finished>>

\* Print: Stringify of the argument, then the line is written.
PrintLine(g) ==
  /\ Ready(g, "print")
  /\ LET i == Head1(g) IN
     todo' = [todo EXCEPT ![g] = <<Op("repr", i.args, i.p), Op("written", <<>>, i.p)>>
                                    \o Tail(@)]
  /\ UNCHANGED <<s, once, val, runs, marks, out, store, finished>>

Written(g) == Ready(g, "written") /\ Return(g, out[Head1(g).p]) /\ UNCHANGED store

Step(g) ==
  \/ EnterOnce(g) \/ Join(g) \/ Settle(g)
  \/ Await(g) \/ Plus(g) \/ Ampamp(g) \/ AnyOf(g) \/ AllOf(g)
  \/ Filter(g) \/ At(g) \/ AtOpt(g) \/ Append1(g) \/ Set(g)
  \/ PrintLine(g) \/ Repr(g) \/ Unmark(g) \/ Written(g)

Next == \E g \in Goroutines : Step(g)

\* Goroutines are scheduled.
Spec == Init /\ [][Next]_vars /\ \A g \in Goroutines : WF_vars(Step(g))

-----------------------------------------------------------------------------
(* Range.                                                                   *)

MinInt == -MaxInt - 1
Wrap(n) == LET size == MaxInt - MinInt + 1 IN ((n - MinInt) % size) + MinInt

\* Each: the numbers fn is called with.
RangeEach(from, to) == [i \in 1 .. (IF from >= to THEN 0 ELSE to - from) |-> from + i - 1]
RangeLength(from, to) == IF to <= from THEN 0 ELSE Wrap(to - from)
RangeToArray(from, to) ==
  LET size == Wrap(to - from)
  IN IF size <= 0 THEN <<>> ELSE [i \in 1 .. size |-> from + i - 1]

-----------------------------------------------------------------------------
\* Where the results of scenario x lead from a cell in k steps, unless they end
\* before.
Leads(x) ==
  LET leads[k \in 0 .. Cardinality(Cells)] ==
        [c \in Cells |-> IF x.result[c].is = "lazy" /\ k > 0
                        THEN leads[k - 1][x.result[c].n] ELSE x.result[c]]
  IN leads

\* What a pending scalar stands for, and a value.
Final(x, v) == IF v.is = "lazy" THEN Leads(x)[Cardinality(Cells)][v.n].n ELSE v.n

\* The result of an operation by what the documentation of the type says.
Expected(x, i) ==
  LET a == [k \in DOMAIN i.args |-> IF i.args[k].is = "obj" THEN 0 ELSE Final(x, i.args[k])] IN
  CASE i.op = "await"  -> <<a[1]>>
    [] i.op = "plus"   -> <<a[1] + a[2]>>
    [] i.op = "and"    -> <<IF a[1] = 1 /\ a[2] = 1 THEN 1 ELSE 0>>
    [] i.op = "any"    -> <<IF 1 \in ToSet(a) THEN 1 ELSE 0>>
    [] i.op = "all"    -> <<IF 0 \in ToSet(a) THEN 0 ELSE 1>>
    [] i.op = "filter" -> Chosen(a)
    [] i.op = "at"     -> <<x.arrays[i.args[1].n][a[2] + 1]>>
    [] i.op = "lookup" -> <<IF a[1] \in ToSet(Tail(a)) THEN 1 ELSE 0>>
    [] i.op = "append" -> Append(x.arrays[i.args[1].n], i.args[2])
    [] i.op = "set"    -> [x.arrays[i.args[1].n] EXCEPT ![a[2] + 1] = i.args[3]]

Completed(ops) == {i \in Operations : i.op \in ops /\ i.p \in finished}

\* The cell of a once that is entered has one goroutine that will settle it.
TypeOK ==
  /\ \A c \in Cells : once[c] \in {"new", "busy", "done"}
  /\ \A c \in Cells :
       Cardinality({g \in Goroutines : \E i \in DOMAIN todo[g] :
                      todo[g][i].op = "settle" /\ todo[g][i].p = c})
         = IF once[c] = "busy" THEN 1 ELSE 0
  /\ finished \subseteq Results

\* Whoever uses a pending scalar first, through whichever copy, everybody gets
\* the value its computation ends with, and the computation runs once.
UsesSeeFinalValues ==
  /\ TypeOK
  /\ \A c \in Cells : runs[c] <= 1
  /\ \A i \in Completed({"await", "plus", "and", "any", "all"}) : out[i.p] = Expected(s, i)

\* Every use of a pending value and every print ends.
AllDone == <>(\A g \in Goroutines : todo[g] = <<>>)

\* A range visits what it materializes, as many numbers as its length says, as
\* long as the difference of its ends is an int64.
RangeAgrees ==
  \A from, to \in MinInt .. MaxInt :
    to - from \in MinInt .. MaxInt =>
      /\ RangeToArray(from, to) = RangeEach(from, to)
      /\ Len(RangeEach(from, to)) = RangeLength(from, to)

\* Collections work with the values of indices, keys and predicates, and an
\* array keeps its elements whatever other goroutines append to it or set.
CollectionsSeeValues ==
  /\ \A i \in Completed({"filter", "at", "lookup"}) : out[i.p] = Expected(s, i)
  /\ \A i \in Completed({"append", "set"}) : Slice(out[i.p]) = Expected(s, i)
  /\ RangeAgrees
=============================================================================
