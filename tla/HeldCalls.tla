------------------------------ MODULE HeldCalls ------------------------------
(***************************************************************************)
(* Calls between the methods of one singleton (internal/ir/lower.go).      *)
(*                                                                         *)
(* A method runs while it holds the cown of its singleton.  A call of a    *)
(* sibling that calls nothing itself (a leaf) becomes a direct Go call of  *)
(* its sync body; any other call is scheduled, and must not be forced      *)
(* before the cown is released.  hoistHeldCownCalls therefore takes calls  *)
(* out of larger expressions and declares them in front of the statement,  *)
(* so that the Wait of the body's group separates the call from its use.   *)
(*                                                                         *)
(* A program gives each method a body; the specification runs what the     *)
(* body is lowered to.                                                     *)
(***************************************************************************)
EXTENDS Naturals, Sequences, FiniteSets, SequencesExt

CONSTANTS
  Methods,      \* the methods of the singleton
  Programs,     \* the programs: functions from Methods to [result, body]
  Entries,      \* the method each client calls
  Fuel,         \* bound on the depth of calls: a call at depth Fuel is a value
  ForceArgs     \* whether a method uses the value of its argument

\* An element of a body is [slot, expr]; an expression is a literal, a
\* variable, a call or a node over other expressions.
Nobody == CHOOSE m \in Methods : TRUE   \* stands where a method means nothing
Lit           == [node |-> "lit", m |-> Nobody, kids |-> <<>>, var |-> 0]
Ref(v)        == [Lit EXCEPT !.node = "var", !.var = v]
Call(m, args) == [Lit EXCEPT !.node = "call", !.m = m, !.kids = args]
Node(k, kids) == [Lit EXCEPT !.node = k, !.kids = kids]
Element(slot, expr) == [slot |-> slot, expr |-> expr]

Eager == {"binary", "index", "interp", "group", "cond", "infix"}

\* What a method returns: "scalar" is a boxed scalar that may be lazy; "eager" is
\* Unit or a struct, whose call lowerExprForced does not return unforced.
Results == {"scalar", "eager"}

\* Programs the analyzer lets through: an operand, an argument and a variable are
\* scalars, a body that ends in a call returns what the call returns (a literal
\* stands for any plain value).
RECURSIVE ScalarIn(_, _)
ScalarIn(p, e) ==
  /\ e.node = "call" => p[e.m].result = "scalar"
  /\ \A i \in DOMAIN e.kids : ScalarIn(p, e.kids[i])

WellTyped(p) ==
  \A m \in Methods : \A i \in DOMAIN p[m].body :
    LET el == p[m].body[i]
        last == el.slot = "stmt" /\ i = Len(p[m].body)
    IN IF el.expr.node = "call" /\ el.slot = "stmt"
       THEN /\ \A k \in DOMAIN el.expr.kids : ScalarIn(p, el.expr.kids[k])
            /\ last => p[el.expr.m].result = p[m].result
       ELSE /\ ScalarIn(p, el.expr)
            /\ last /\ el.expr.node # "lit" => p[m].result = "scalar"

ASSUME HeldAssumption ==
  /\ Entries \in Seq(Methods) /\ Entries # <<>> /\ Fuel \in Nat
  /\ ForceArgs \in BOOLEAN
  /\ \A p \in Programs : \A m \in Methods :
       /\ p[m].result \in Results
       /\ \A i \in DOMAIN p[m].body : p[m].body[i].slot \in {"decl", "assign", "stmt"}

VARIABLES
  program,
  code,        \* what its methods are lowered to
  task,        \* the calls made so far; the first are the clients
  queue        \* the tasks that hold or wait for the cown, in order
vars == <<program, code, task, queue>>

Body(m) == program[m].body

-----------------------------------------------------------------------------
(* Which methods are leaves.                                                *)

RECURSIVE NodeHasBocCallShallow(_), NodeHasBocCall(_)

\* Mutant: the operands of an operator are not looked at, nor a condition.
NodeHasBocCallShallow(e) ==
  \/ e.node = "call"
  \/ /\ e.node \in {"index", "interp"}
     /\ \E i \in DOMAIN e.kids : NodeHasBocCallShallow(e.kids[i])

\* nodeHasBocCall, with the methods of the singleton the only bocs: it has no
\* case for a group or an infix match.
NodeHasBocCall(e) ==
  \/ e.node = "call"
  \/ /\ e.node \in {"binary", "index", "interp", "cond"}
     /\ \E i \in DOMAIN e.kids : NodeHasBocCall(e.kids[i])

\* collectMethodEligibility
SyncEligible(m) == \A i \in DOMAIN Body(m) : ~NodeHasBocCall(Body(m)[i].expr)

\* isNonLeafHeldCownCall: a call in m that stays asynchronous.
NonLeafCall(m, e) == e.node = "call" /\ (e.m = m \/ ~SyncEligible(e.m))

\* What nodeHasBocCall does not see: a call below a group or an infix match.
RECURSIVE HidesCall(_)
HidesCall(e) ==
  \/ e.node \in {"group", "infix"}
  \/ \E i \in DOMAIN e.kids : HidesCall(e.kids[i])

-----------------------------------------------------------------------------
(* The hoist.  h.pending: the declarations to put in front of the element;  *)
(* h.count: the names used so far; h.out: the rewritten expressions.        *)

RECURSIVE HoistIn(_, _, _, _)
HoistKids(m, h, kids) ==
  FoldLeft(LAMBDA g, e : HoistIn(m, g, e, FALSE), [h EXCEPT !.out = <<>>], kids)

HoistName(n) == 10 + n
HoistDecl(h, e) == [slot |-> "decl", expr |-> e, var |-> HoistName(h.count)]

\* Mutant: the latest declaration is put first.
HoistCallPrepended(h, e) ==
  [pending |-> <<HoistDecl(h, e)>> \o h.pending,
   count   |-> h.count + 1,
   out     |-> Append(h.out, Ref(HoistName(h.count)))]

\* hoistCall
HoistCall(h, e) ==
  [pending |-> Append(h.pending, HoistDecl(h, e)),
   count   |-> h.count + 1,
   out     |-> Append(h.out, Ref(HoistName(h.count)))]

\* hoistInExprEx.  A call that is hoisted keeps its arguments as they are.
HoistIn(m, h, e, topLevel) ==
  IF ~topLevel /\ NonLeafCall(m, e) THEN HoistCall(h, e)
  ELSE IF e.node \in Eager \cup {"call"}
       THEN LET g == HoistKids(m, h, e.kids)
            IN [g EXCEPT !.out = Append(h.out, [e EXCEPT !.kids = g.out])]
       ELSE [h EXCEPT !.out = Append(@, e)]

\* Mutant: nothing is hoisted.
NoHoist(m, h, i) ==
  [h EXCEPT !.elems = Append(@, [slot |-> Body(m)[i].slot,
                                 expr |-> Body(m)[i].expr, var |-> i])]

\* hoistInElement: every slot is a top-level slot.
HoistElement(m, h, i) ==
  LET el == Body(m)[i]
      g  == HoistIn(m, [pending |-> <<>>, count |-> h.count, out |-> <<>>],
                    el.expr, TRUE)
  IN [count |-> g.count,
      elems |-> h.elems \o g.pending
                  \o <<[slot |-> el.slot, expr |-> g.out[1], var |-> i]>>]

\* hoistHeldCownCalls
Hoisted(m) ==
  FoldLeft(LAMBDA h, i : HoistElement(m, h, i), [count |-> 1, elems |-> <<>>],
           [i \in DOMAIN Body(m) |-> i]).elems

-----------------------------------------------------------------------------
(* The code of a method: a sequence of operations.  The value of an         *)
(* operation is named by its position; 0 stands for a plain value.          *)

Op(op, m, of) == [op |-> op, m |-> m, of |-> of]

RECURSIVE LowerExpr(_, _, _)
LowerKids(m, s, kids) ==
  FoldLeft(LAMBDA t, e : LET u == LowerExpr(m, t, e)
                         IN [u EXCEPT !.vals = Append(t.vals, u.val)],
           [s EXCEPT !.vals = <<>>], kids)

Emit(s, ops) == [s EXCEPT !.ops = @ \o ops]
Forces(vals) == [i \in DOMAIN vals |-> Op("force", Nobody, <<vals[i]>>)]

\* The end of lowerCall, for a sibling of the receiver.
LowerCall(m, s, e) ==
  LET t == LowerKids(m, s, e.kids) IN
  IF NonLeafCall(m, e)
  THEN [Emit(t, <<Op("call", e.m, t.vals)>>) EXCEPT !.val = Len(t.ops) + 1]
  ELSE [Emit(t, Forces(t.vals) \o <<Op("sync", e.m, <<>>)>>) EXCEPT !.val = 0]

\* lowerExpr: an operator, an interpolation and a condition use their operands
\* at once, At does not (it reads the field of the scalar); a group is its
\* expression.
LowerExpr(m, s, e) ==
  CASE e.node = "lit"  -> [s EXCEPT !.val = 0]
    [] e.node = "var"  -> [s EXCEPT !.val = s.vars[e.var]]
    [] e.node = "call" -> LowerCall(m, s, e)
    [] e.node = "group" -> LowerExpr(m, s, e.kids[1])
    [] e.node = "index" -> [LowerKids(m, s, e.kids) EXCEPT !.val = 0]
    [] OTHER -> LET t == LowerKids(m, s, e.kids)
                IN [Emit(t, Forces(t.vals)) EXCEPT !.val = 0]

\* emitPendingWait: Wait runs what was added to the group, in order; the code
\* generator ends the function of the cown at the first of them.
PendingWait(s) ==
  IF s.group = <<>> THEN s
  ELSE [Emit(s, <<Op("wait", Nobody, <<>>)>> \o Forces(s.group))
          EXCEPT !.group = <<>>]

Names == 0 .. 20

Bind(s, v) == [s EXCEPT !.vars[v] = s.val]

\* lowerExprForced, for the result of a method: a pending scalar is returned as
\* it is, any other call is forced where it stands.
LowerResult(s, e, isCall) ==
  IF isCall /\ program[e.m].result = "eager"
  THEN [Emit(s, Forces(<<s.val>>)) EXCEPT !.ret = 0]
  ELSE [s EXCEPT !.ret = s.val]

\* One element of lowerBocBody: a call that is declared or stands alone is
\* spawned; everything else waits for the calls before it.  The last element
\* is the result.
LowerElement(m, s, elems, i) ==
  LET el     == elems[i]
      isCall == NonLeafCall(m, el.expr)
      here   == LowerExpr(m, s, el.expr)
      after  == LowerExpr(m, PendingWait(s), el.expr)
  IN CASE el.slot = "decl" /\ isCall ->
            Bind([here EXCEPT !.group = Append(@, here.val)], el.var)
       [] el.slot = "stmt" /\ isCall /\ i # Len(elems) ->
            [here EXCEPT !.group = Append(@, here.val)]
       [] el.slot \in {"decl", "assign"} /\ ~(el.slot = "decl" /\ isCall) ->
            Bind(after, el.var)
       [] OTHER -> IF i = Len(elems) THEN LowerResult(after, el.expr, isCall)
                   ELSE [after EXCEPT !.ret = 0]

\* lowerBocBody
Code(m) ==
  LET elems == Hoisted(m)
      start == [ops |-> <<>>, vars |-> [v \in Names |-> 0], val |-> 0,
                vals |-> <<>>, group |-> <<>>, ret |-> 0]
      s     == PendingWait(FoldLeft(LAMBDA t, i : LowerElement(m, t, elems, i), start,
                                    [i \in DOMAIN elems |-> i]))
  IN [ops |-> s.ops, ret |-> s.ret,
      split |-> \E i \in DOMAIN s.ops : s.ops[i].op = "wait"]

\* extractSingleCownThunk: a method whose body waits has no sync body, and a
\* call of it joins the queue of the cown only when it is forced.
Split(m) == code[m].split

-----------------------------------------------------------------------------
(* Running it.  stage "idle": not scheduled; "queued"; "held": running with *)
(* the cown; "free": running without it; "done".                            *)

NewTask(m, fuel, arg, stage) ==
  [m |-> m, fuel |-> fuel, arg |-> arg, stage |-> stage, pc |-> 1,
   vals |-> <<>>, ret |-> 0]

ClientOps(t) == <<Op("call", Entries[t], <<>>), Op("force", Nobody, <<1>>)>>
IsClient(t) == t <= Len(Entries)

\* A call at depth 0 does nothing: the base case of a recursion.
CodeOf(t) ==
  IF IsClient(t) THEN [ops |-> ClientOps(t), ret |-> 0]
  ELSE IF task[t].fuel = 0 THEN [ops |-> <<>>, ret |-> 0]
  ELSE [code[task[t].m] EXCEPT !.ops =
          (IF ForceArgs /\ task[t].arg # 0
           THEN <<Op("arg", Nobody, <<>>)>> ELSE <<>>) \o @,
        !.ret = IF @ # 0 /\ ForceArgs /\ task[t].arg # 0 THEN @ + 1 ELSE @]

Ops(t)   == CodeOf(t).ops
Value(t, v) == IF v = 0 THEN 0
               ELSE IF ForceArgs /\ task[t].arg # 0 THEN task[t].vals[v + 1]
               ELSE task[t].vals[v]

Init ==
  /\ program \in Programs /\ WellTyped(program)
  /\ code = [m \in Methods |-> Code(m)]
  /\ task = [t \in DOMAIN Entries |-> NewTask(Entries[t], Fuel + 1, 0, "free")]
  /\ queue = <<>>

Running(t) == task[t].stage \in {"held", "free"} /\ task[t].pc <= Len(Ops(t))
NextOp(t)  == Ops(t)[task[t].pc]

Advance(t, v) == [task EXCEPT ![t].pc = @ + 1, ![t].vals = Append(@, v)]

\* The task whose completion a value stands for: the result of a method may be
\* the unforced result of the call it ends with.
RECURSIVE Resolve(_)
Resolve(v) ==
  IF v # 0 /\ task[v].stage = "done" THEN Resolve(task[v].ret) ELSE v

\* The value an operation needs, if it is a force.
Needs(t) ==
  CASE NextOp(t).op = "force" -> Resolve(Value(t, NextOp(t).of[1]))
    [] NextOp(t).op = "arg" -> Resolve(task[t].arg)
    [] OTHER -> 0

\* std.Schedule runs at the call; the function of NewThunk only when forced.
CallStep(t) ==
  /\ Running(t) /\ NextOp(t).op = "call"
  /\ LET o      == NextOp(t)
         new    == Len(task) + 1
         direct == ~Split(o.m)
         arg    == IF o.of = <<>> THEN 0 ELSE Value(t, o.of[1])
     IN /\ task' = Append(Advance(t, new),
                          NewTask(o.m, task[t].fuel - 1, arg,
                                  IF direct THEN "queued" ELSE "idle"))
        /\ queue' = IF direct THEN Append(queue, new) ELSE queue
  /\ UNCHANGED <<program, code>>

\* The sync body runs within the caller.
SyncStep(t) ==
  /\ Running(t) /\ NextOp(t).op = "sync"
  /\ task' = Advance(t, 0)
  /\ UNCHANGED <<program, code, queue>>

\* Forcing a call for the first time schedules it; then the forcer waits.
Demand(t) ==
  /\ Running(t) /\ Needs(t) # 0 /\ task[Needs(t)].stage = "idle"
  /\ task' = [task EXCEPT ![Needs(t)].stage = "queued"]
  /\ queue' = Append(queue, Needs(t))
  /\ UNCHANGED <<program, code>>

ForceStep(t) ==
  /\ Running(t) /\ NextOp(t).op \in {"force", "arg"} /\ Needs(t) = 0
  /\ task' = Advance(t, 0)
  /\ UNCHANGED <<program, code, queue>>

\* The cown's queue lets its first behaviour run.
Begin(t) ==
  /\ queue # <<>> /\ Head(queue) = t /\ task[t].stage = "queued"
  /\ task' = [task EXCEPT ![t].stage = "held"]
  /\ UNCHANGED <<program, code, queue>>

\* The first Wait ends the part that runs in the cown.
Release(t) ==
  /\ Running(t) /\ NextOp(t).op = "wait"
  /\ task' = [Advance(t, 0) EXCEPT ![t].stage = "free"]
  /\ queue' = IF task[t].stage = "held" THEN Tail(queue) ELSE queue
  /\ UNCHANGED <<program, code>>

Finish(t) ==
  /\ task[t].stage \in {"held", "free"} /\ task[t].pc > Len(Ops(t))
  /\ task' = [task EXCEPT ![t].stage = "done", ![t].ret =
                IF CodeOf(t).ret = 0 THEN 0 ELSE task[t].vals[CodeOf(t).ret]]
  /\ queue' = IF task[t].stage = "held" THEN Tail(queue) ELSE queue
  /\ UNCHANGED <<program, code>>

Step(t) == \/ CallStep(t) \/ SyncStep(t) \/ Demand(t) \/ ForceStep(t)
           \/ Begin(t) \/ Release(t) \/ Finish(t)

Next == \E t \in DOMAIN task : Step(t)

\* Goroutines are scheduled: whatever can run eventually does.
Spec == Init /\ [][Next]_vars /\ WF_vars(Next)

-----------------------------------------------------------------------------
RECURSIVE CallsIn(_)
\* The calls of an expression, in the order in which they are evaluated.
CallsIn(e) ==
  FlattenSeq([i \in DOMAIN e.kids |-> CallsIn(e.kids[i])])
    \o (IF e.node = "call" THEN <<e.m>> ELSE <<>>)

SourceCalls(m) == FlattenSeq([i \in DOMAIN Body(m) |-> CallsIn(Body(m)[i].expr)])
CodeCalls(m) == SelectSeq(code[m].ops, LAMBDA o : o.op \in {"call", "sync"})

Async(m, c) == c = m \/ ~SyncEligible(c)

\* Tasks stay in the queue from the moment they are scheduled until they
\* release the cown, and only the first one holds it.
TypeOK ==
  /\ DOMAIN program = Methods /\ DOMAIN code = Methods
  /\ \A t \in DOMAIN task : task[t].stage \in {"idle", "queued", "held", "free", "done"}
  /\ \A t \in DOMAIN task :
       /\ task[t].stage = "held" => queue # <<>> /\ Head(queue) = t
       /\ (task[t].stage \in {"queued", "held"}) = (\E i \in DOMAIN queue : queue[i] = t)

\* A body that ends in a call whose result is not a lazy scalar, with no other
\* call to wait for: nothing ends the part that runs in the cown before it.
AwaitsTail(m) ==
  LET el == Last(Body(m)) IN
  /\ el.slot = "stmt" /\ NonLeafCall(m, el.expr)
  /\ program[el.expr.m].result = "eager"
  /\ Len(SelectSeq(SourceCalls(m), LAMBDA c : Async(m, c))) = 1

AtTail(t) ==
  /\ task[t].stage = "held" /\ Running(t) /\ task[t].fuel > 0
  /\ AwaitsTail(task[t].m) /\ task[t].pc = Len(Ops(t))

\* The deadlock hoistHeldCownCalls is there to prevent: a method that holds the
\* cown waits for a call of a sibling, which needs the cown, in one place only,
\* where it awaits the call it ends with; everywhere else it never waits.
HolderBlocksOnlyAtTail ==
  /\ TypeOK
  /\ \A t \in DOMAIN task :
       task[t].stage = "held" /\ Running(t) => (Needs(t) # 0) = AtTail(t)

\* A direct call finds a sync body: the generator emits none for a method
\* whose body waits.  A call below a group or an infix match is not seen.
SyncBodiesExist ==
  \A m \in Methods : \A i \in DOMAIN code[m].ops :
    LET o == code[m].ops[i] IN
    /\ o.op = "sync"
    /\ \A k \in DOMAIN Body(o.m) : ~HidesCall(Body(o.m)[k].expr)
    => ~Split(o.m)

\* Taking calls out of expressions neither loses nor repeats one, and the calls
\* that are scheduled start in the order of the source, from which the queue of
\* the cown takes theirs.
CallsKeepOrder ==
  \A m \in Methods :
    LET started == SelectSeq(CodeCalls(m), LAMBDA o : o.op = "call")
    IN /\ \A c \in Methods :
            Len(SelectSeq(CodeCalls(m), LAMBDA o : o.m = c))
              = Len(SelectSeq(SourceCalls(m), LAMBDA x : x = c))
       /\ [i \in DOMAIN started |-> started[i].m]
            = SelectSeq(SourceCalls(m), LAMBDA c : Async(m, c))

\* A sync body runs only while its caller holds the cown.
SyncUnderCown ==
  \A t \in DOMAIN task :
    Running(t) /\ NextOp(t).op = "sync" => task[t].stage = "held"

\* Every call a client makes completes, with everything it forces, unless a
\* method has come to the call it ends with and awaits it.
ClientsFinish ==
  <>(\/ \A t \in DOMAIN Entries : task[t].stage = "done"
     \/ \E t \in DOMAIN task : AtTail(t))
=============================================================================
