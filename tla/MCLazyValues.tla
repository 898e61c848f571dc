--------------------------- MODULE MCLazyValues ---------------------------
(***************************************************************************)
(* Two programs, three pending scalars: c1 and c2 as the thunks of Kinds,  *)
(* c3 whose result is c1 (a call that ends with a call).  Objects o1 and   *)
(* o2 refer to each other or not, and have a pending field.                *)
(* No scalar's own computation prints an object that holds the scalar.     *)
(***************************************************************************)
EXTENDS LazyPrint

CONSTANTS
  m1, m2, c1, c2, c3,
  LazyOperands    \* whether indices, keys and predicates may be pending

MCMains == {m1, m2}
MCCells == {c1, c2, c3}

Graphs == {<<<<Lazy(c1), Obj(2)>>, <<Obj(1), Lazy(c3)>>>>,
           <<<<Lazy(c3), Obj(2), Obj(2)>>, <<Val(7)>>>>,
           <<<<Obj(1), Lazy(c1)>>, <<Obj(1)>>>>}

Operand(v) == IF LazyOperands THEN Lazy(c1) ELSE v

Programs ==
  {<<Op("await", <<Lazy(c3)>>, "a"), Op("print", <<Obj(1)>>, "b")>>,
   <<Op("plus", <<Lazy(c3), Lazy(c1)>>, "a"), Op("print", <<Obj(2)>>, "b")>>,
   <<Op("print", <<Obj(2)>>, "a"), Op("append", <<Obj(1), Lazy(c1)>>, "b")>>,
   <<Op("append", <<Obj(1), Val(5)>>, "a"), Op("any", <<Val(0), Lazy(c2), Lazy(c1)>>, "b")>>,
   <<Op("and", <<Lazy(c2), Lazy(c3)>>, "a"), Op("all", <<Lazy(c3), Lazy(c1)>>, "b")>>,
   <<Op("at", <<Obj(1), Operand(Val(1))>>, "a"),
     Op("lookup", <<Operand(Val(1)), Val(0), Val(1)>>, "b")>>,
   <<Op("filter", <<Val(0), Operand(Val(1))>>, "a"), Op("set", <<Obj(1), Val(1), Val(6)>>, "b")>>}

Named(prog, x) == [i \in DOMAIN prog |-> [prog[i] EXCEPT !.p = <<x, @>>]]

MCScenarios ==
  {[kind   |-> [c \in MCCells |-> IF c = c1 THEN k1 ELSE k2],
    body   |-> [c \in MCCells |-> IF c = c2 THEN <<>>
                                  ELSE <<Op("print", <<Obj(IF c = c3 THEN 4 ELSE 3)>>,
                                            <<c, "p">>)>>],
    result |-> [c \in MCCells |-> IF c = c3 THEN Lazy(c1) ELSE IF c = c2 THEN Val(0) ELSE Val(1)],
    fields |-> g \o <<<<Val(3)>>, <<Obj(3), Obj(4), Obj(3)>>>>,
    arrays |-> <<<<Val(8), Val(9)>>>>,
    prog   |-> [m \in MCMains |-> IF m = m1 THEN Named(x, m1) ELSE Named(y, m2)]] :
   k1 \in {"go", "new"}, k2 \in {"go", "new"}, g \in Graphs, x \in Programs, y \in Programs}

\* With plain operands the hypothesis of the theorem about collections holds.
ASSUME MCLazyAssumption == ~LazyOperands => OperandsPlain
=============================================================================
