---------------------------- MODULE BocLowering ----------------------------
(***************************************************************************)
(* How the compiler lowers the body of a boc (internal/ir/lower.go) and    *)
(* how the code generator orders the result (internal/codegen).            *)
(*                                                                         *)
(* A body is a sequence of elements; calls of bocs become spawns that are  *)
(* joined by BocGroup.Wait.  Two lowerings exist: lowerBocBody for methods *)
(* and boc declarations, one group for the whole body; and                 *)
(* lowerSingletonBodyStmts for body-only singletons (main among them), one *)
(* group per batch of consecutive calls.  The generator then splits the    *)
(* statements at the first Wait: those before it run inside the cown.      *)
(*                                                                         *)
(* The specification extends a body by one element at a time; the          *)
(* invariants compare what the generated code does with the body, read     *)
(* from top to bottom.  A variable is named by the element declaring it, a *)
(* value by the element that wrote it.                                     *)
(***************************************************************************)
EXTENDS Naturals, Sequences, FiniteSets, SequencesExt

CONSTANTS
  Lowerings,  \* of "method" and "singleton"
  Kinds,      \* for each lowering the kinds of elements a body is built from
  Forms,      \* how a call's argument mentions a variable
  Results,    \* result types of the boc
  MaxLen      \* for each lowering a bound on the length of a body

\* "unit"/"inst": a call in statement position, on a singleton / on a struct
\* instance.  "bind"/"lazy": v : call() with a struct / a scalar result.
\* "local": v : expr.  "typed": v T = expr.  "assign": v = expr.  "do": any
\* other expression.  "if": cond ? { call() }, {} with a Unit call; "ifval":
\* the same with a scalar call; "ifbind": the branch is v : call().
CallKinds   == {"unit", "inst", "bind", "lazy"}
DeclKinds   == {"local", "typed"}
BranchKinds == {"if", "ifval", "ifbind"}
Binders     == {"bind", "lazy"} \cup DeclKinds

ASSUME LoweringAssumption ==
  /\ Lowerings \subseteq {"method", "singleton"}
  /\ Kinds \in [Lowerings ->
       SUBSET (CallKinds \cup DeclKinds \cup BranchKinds \cup {"assign", "do"})]
  /\ Forms \subseteq {"plain", "literal"} /\ "plain" \in Forms
  /\ Results \subseteq {"unit", "scalar", "struct"}
  /\ MaxLen \in [Lowerings -> Nat]

VARIABLES lowering, body, result
vars == <<lowering, body, result>>

Indices == 0 .. MaxLen[lowering]
Element == [kind : Kinds[lowering], reads : Indices, form : Forms, tgt : Indices]

Bound(x) == x \in DOMAIN body /\ body[x].kind \in Binders

Init == lowering \in Lowerings /\ body = <<>> /\ result \in Results

Extend(e) ==
  /\ Len(body) < MaxLen[lowering]
  /\ e.reads = 0 \/ Bound(e.reads)
  /\ IF e.kind = "assign" THEN Bound(e.tgt) /\ e.reads = 0 ELSE e.tgt = 0
  /\ e.form = "literal" => e.kind \in CallKinds /\ e.reads # 0
  /\ body' = Append(body, e)
  /\ UNCHANGED <<lowering, result>>

Next == \E e \in Element : Extend(e)
Spec == Init /\ [][Next]_vars

-----------------------------------------------------------------------------
(* The statements of the IR.  el is the element whose expression a          *)
(* statement contains, var a variable it declares or stores into, grp its   *)
(* BocGroup, then the branch of a conditional that is taken.                *)

Stmt(op, i, v, g) == [op |-> op, el |-> i, var |-> v, grp |-> g, lazy |-> FALSE,
                      then |-> <<>>]
Var(i)       == Stmt("var", 0, i, 0)
Decl(i)      == Stmt("decl", i, i, 0)
Bare(i)      == Stmt("bare", i, i, 0)
Assign(i)    == Stmt("assign", i, body[i].tgt, 0)
Expr(i)      == Stmt("do", i, 0, 0)
Group(g)     == Stmt("group", 0, 0, g)
Wait(g)      == Stmt("wait", 0, 0, g)
Return(i)    == Stmt("return", i, 0, 0)
ReturnVar(v) == Stmt("returnvar", v, v, 0)
ReturnUnit   == Return(0)
EndsInReturn(ss) == ss # <<>> /\ Last(ss).op \in {"return", "returnvar"}

IsLast(i) == i = Len(body)

\* isScalarBocCallExpr: a call whose result is a lazy scalar, not a Thunk.
IsScalar(i) ==
  /\ body[i].kind # "bind"
  /\ IsLast(i) => result # "struct"

Spawn(i, v, g) ==
  [op |-> "spawn", el |-> i, var |-> v, grp |-> g, lazy |-> IsScalar(i),
   then |-> <<>>]

\* A branch of a conditional in statement position.  Its call joins the group
\* of the body if there is one; otherwise only Unit calls are awaited.  A bound
\* call leaves nothing but its declaration.
Branch(i, g) ==
  CASE body[i].kind = "ifbind" -> <<Var(i)>>
    [] body[i].kind # "ifbind" /\ g # 0 -> <<[op |-> "spawn", el |-> i, var |-> 0, grp |-> g, lazy |-> TRUE,
                   then |-> <<>>]>>
    [] body[i].kind = "if" /\ g = 0 -> <<Stmt("force", i, 0, 0)>>
    [] body[i].kind = "ifval" /\ g = 0 -> <<Stmt("start", i, 0, 0)>>

If(i, g) ==
  [op |-> "if", el |-> i, var |-> 0, grp |-> 0, lazy |-> FALSE,
   then |-> Branch(i, g)]

-----------------------------------------------------------------------------
(* lowerBocBody: one group for the whole body.                              *)

\* bodyHasBocCallsInStmtPos
HasBocCalls ==
  \E i \in DOMAIN body :
    \/ body[i].kind \in {"bind", "lazy"}
    \/ body[i].kind \in {"unit", "inst"} /\ ~IsLast(i)
    \/ body[i].kind = "inst"
    \/ body[i].kind \in {"if", "ifval"} /\ (IsLast(i) => result = "unit")

MethodGroup == IF HasBocCalls THEN 1 ELSE 0

\* s.ir: the statements so far; s.pending: spawns were added since the last
\* Wait; s.waited: a Wait was emitted.
Put(s, ss) == [s EXCEPT !.ir = @ \o ss]

\* Mutant: only the first batch of calls is awaited.
PendingWaitOnce(s) ==
  IF s.pending /\ ~s.waited
  THEN [ir |-> Append(s.ir, Wait(MethodGroup)), pending |-> FALSE, waited |-> TRUE]
  ELSE s

\* emitPendingWait
PendingWait(s) ==
  IF s.pending
  THEN [ir |-> Append(s.ir, Wait(MethodGroup)), pending |-> FALSE, waited |-> TRUE]
  ELSE s

Spawned(s, ss) == [s EXCEPT !.ir = @ \o ss, !.pending = TRUE]

\* Mutant: the call is put in front of the body with its variable.
LastInstanceInFront(s, i) ==
  [ir |-> <<Var(i), Spawn(i, i, MethodGroup)>> \o s.ir
            \o <<Wait(MethodGroup), ReturnVar(i)>>,
   pending |-> FALSE, waited |-> TRUE]

\* The last element, a call on a struct instance: it is spawned so that it can
\* run as a successor, and only a scalar result is carried past the Wait.
LastInstance(s, i) ==
  IF result # "unit" /\ IsScalar(i)
  THEN [ir |-> <<Var(i)>> \o s.ir
               \o <<Spawn(i, i, MethodGroup), Wait(MethodGroup),
                    ReturnVar(i)>>,
        pending |-> FALSE, waited |-> TRUE]
  ELSE Spawned(s, <<Spawn(i, 0, MethodGroup)>>)

\* What one element of a method body becomes.
MethodElement(s, i) ==
  CASE body[i].kind \in {"bind", "lazy"} ->
         Spawned(s, <<Var(i), Spawn(i, i, MethodGroup)>>)
    [] body[i].kind \in {"unit", "inst"} /\ ~IsLast(i) ->
         Spawned(s, <<Spawn(i, 0, MethodGroup)>>)
    [] body[i].kind = "inst" /\ IsLast(i) -> LastInstance(s, i)
    [] body[i].kind = "local" -> Put(PendingWait(s), <<Decl(i)>>)
    [] body[i].kind = "typed" -> Put(PendingWait(s), <<Bare(i)>>)
    [] body[i].kind = "assign" -> Put(PendingWait(s), <<Assign(i)>>)
    [] body[i].kind \in BranchKinds /\ (IsLast(i) => result = "unit") ->
         Put(PendingWait(s), <<If(i, MethodGroup)>>)
    [] body[i].kind = "do" /\ ~IsLast(i) -> Put(PendingWait(s), <<Expr(i)>>)
    [] OTHER -> Put(PendingWait(s), <<Return(i)>>)

\* The elements up to the i-th.
methodState[i \in 0 .. Len(body)] ==
  IF i = 0 THEN [ir |-> IF HasBocCalls THEN <<Group(1)>> ELSE <<>>,
                 pending |-> FALSE, waited |-> FALSE]
  ELSE MethodElement(methodState[i - 1], i)

MethodBody ==
  LET s  == PendingWait(methodState[Len(body)])
      ir == IF HasBocCalls /\ ~s.waited /\ ~EndsInReturn(s.ir)
            THEN Append(s.ir, Wait(1)) ELSE s.ir
  IN IF EndsInReturn(ir) THEN ir ELSE Append(ir, ReturnUnit)

-----------------------------------------------------------------------------
(* lowerSingletonBodyStmts: a group per batch of consecutive calls.  The    *)
(* source keeps the calls of a batch until flushGroup appends them together *)
(* with their group; nothing comes between.  s.batch: the calls of the open *)
(* batch; s.groups: the groups so far.                                      *)

\* Mutant: every call is independent of its batch.
NeverDepends(i, batch) == FALSE

\* exprRefsAny: the call mentions a variable a call of its batch declares.  It
\* does not look into an array, dictionary, group or conditional literal.
DependsOn(i, batch) ==
  /\ body[i].form = "plain" /\ body[i].reads \in batch
  /\ body[body[i].reads].kind \in {"bind", "lazy"}

BatchedCall(i, g) ==
  IF body[i].kind \in {"bind", "lazy"} THEN <<Var(i), Spawn(i, i, g)>>
                                       ELSE <<Spawn(i, 0, g)>>

\* Mutant: the batches of a body share one group, as the calls of a method do.
BatchedInOneGroup(s, i) ==
  IF s.groups = 0
  THEN [ir |-> s.ir \o <<Group(1)>> \o BatchedCall(i, 1), batch |-> {i}, groups |-> 1]
  ELSE [s EXCEPT !.ir = @ \o BatchedCall(i, 1), !.batch = @ \cup {i}]

\* addPending
Batched(s, i) ==
  IF s.batch = {}
  THEN [ir |-> s.ir \o <<Group(s.groups + 1)>> \o BatchedCall(i, s.groups + 1),
        batch |-> {i}, groups |-> s.groups + 1]
  ELSE [s EXCEPT !.ir = @ \o BatchedCall(i, s.groups), !.batch = @ \cup {i}]

\* flushGroup
Flush(s) ==
  IF s.batch = {} THEN s
  ELSE [s EXCEPT !.ir = Append(@, Wait(s.groups)), !.batch = {}]

\* lowerMainStmt: conditionals know no group.
MainStmt(i) ==
  CASE body[i].kind \in DeclKinds -> Decl(i)
    [] body[i].kind = "assign" -> Assign(i)
    [] body[i].kind = "do" -> Expr(i)
    [] body[i].kind \in BranchKinds -> If(i, 0)

\* What one element of a singleton's body becomes.
SingletonElement(s, i) ==
  IF body[i].kind \in CallKinds
  THEN Batched(IF DependsOn(i, s.batch) THEN Flush(s) ELSE s, i)
  ELSE Put(Flush(s), <<MainStmt(i)>>)

\* The elements up to the i-th.
singletonState[i \in 0 .. Len(body)] ==
  IF i = 0 THEN [ir |-> <<>>, batch |-> {}, groups |-> 0]
  ELSE SingletonElement(singletonState[i - 1], i)

\* The call at k stores its value in a variable declared in front, which is
\* returned.
ResultOfCall(ir, k, v) ==
  <<Var(v)>> \o [ir EXCEPT ![k].var = v] \o <<ReturnVar(v)>>

\* Mutant: the first unbound call becomes the result.
WithResultFirst(ir) ==
  LET voids == {k \in DOMAIN ir : ir[k].op = "spawn" /\ ir[k].var = 0} IN
  IF voids = {} THEN Append(ir, ReturnUnit)
  ELSE LET k == CHOOSE x \in voids : \A y \in voids : y >= x
       IN ResultOfCall(ir, k, ir[k].el)

\* lowerBodyOnlySingleton makes the last value the result: the expression
\* right before the final return, or the last unbound call of the last batch.
WithResult(ir) ==
  LET voids == {k \in DOMAIN ir : ir[k].op = "spawn" /\ ir[k].var = 0} IN
  CASE ir # <<>> /\ Last(ir).op = "do" ->
         Append(Front(ir), Return(Last(ir).el))
    [] ir # <<>> /\ Last(ir).op = "wait" /\ voids # {} ->
         LET k == CHOOSE x \in voids : \A y \in voids : y <= x
         IN ResultOfCall(ir, k, ir[k].el)
    [] OTHER -> Append(ir, ReturnUnit)

SingletonBody ==
  LET ir == Flush(singletonState[Len(body)]).ir
  IN IF result = "unit" THEN Append(ir, ReturnUnit) ELSE WithResult(ir)

Lowered == IF lowering = "method" THEN MethodBody ELSE SingletonBody

-----------------------------------------------------------------------------
(* The generator.  Of the statements before the first Wait, groups and      *)
(* variables without a value are declared in front of the cown's closure;   *)
(* typed declarations come first inside it, then everything else.           *)

\* Mutant: the variables of spawns are declared inside the closure.
HoistedGroupsOnly(st) == st.op = "group"

\* partitionWaitBody
Hoisted(st)   == st.op \in {"group", "var"}
Split(st)     == st.op = "decl"
Immediate(st) == ~Hoisted(st) /\ ~Split(st)

\* thunkFindWaitIdx: the statements before the first Wait; without a Wait no
\* statement is moved.
BeforeWait(ir) ==
  {k \in DOMAIN ir : /\ \E w \in DOMAIN ir : ir[w].op = "wait"
                    /\ \A j \in 1 .. k : ir[j].op # "wait"}
HoistedAt(ir) == {k \in BeforeWait(ir) : Hoisted(ir[k])}
SplitAt(ir)   == {k \in BeforeWait(ir) : Split(ir[k])}
RestAt(ir)    == DOMAIN ir \ (HoistedAt(ir) \cup SplitAt(ir))

\* The names declared inside the closure end with it.
InnerNames(ir) ==
  {ir[k].var : k \in {j \in BeforeWait(ir) : ir[j].op \in {"var", "decl", "bare"}
                                             /\ Immediate(ir[j])}}

-----------------------------------------------------------------------------
(* Running the generated code.  m.store: who wrote a variable last (0: it   *)
(* has its zero value); m.group: what Wait will run; m.done: the calls that *)
(* have completed; m.seen: the writer an element's read observed.           *)

Observe(m, i) ==
  IF i # 0 /\ body[i].reads # 0
  THEN [m EXCEPT !.seen[i] = m.store[body[i].reads]] ELSE m

Store(m, v, i) == IF v = 0 THEN m ELSE [m EXCEPT !.store[v] = i]

\* emitSpawnStmt: a lazy scalar is stored by the spawn, a Thunk's value by the
\* function that Wait runs.
RunSpawn(m, st) ==
  LET n == Observe(m, st.el) IN
  [IF st.lazy THEN Store(n, st.var, st.el) ELSE n
     EXCEPT !.group[st.grp] = @ \cup {st}, !.started = Append(@, st.el)]

\* BocGroup.Wait runs every function ever added; each stores the value of its
\* own call, so their order shows nowhere.
RunWait(m, st) ==
  LET calls == m.group[st.grp] IN
  [m EXCEPT !.done = @ \cup {c.el : c \in calls},
            !.store = [v \in DOMAIN body |->
               IF \E c \in calls : ~c.lazy /\ c.var = v THEN v ELSE @[v]]]

RunSimple(m, st) ==
  CASE st.op = "spawn" -> RunSpawn(m, st)
    [] st.op = "wait" -> RunWait(m, st)
    [] st.op \in {"decl", "bare", "assign"} ->
         Store(Observe(m, st.el), st.var, st.el)
    [] st.op = "force" -> [Observe(m, st.el) EXCEPT !.done = @ \cup {st.el},
                                                    !.started = Append(@, st.el)]
    [] st.op = "start" -> [Observe(m, st.el) EXCEPT !.started = Append(@, st.el)]
    [] st.op = "return" ->
         [Observe(m, st.el) EXCEPT !.result = st.el, !.done = @ \cup {st.el}]
    [] st.op = "returnvar" -> [m EXCEPT !.result = m.store[st.var]]
    [] OTHER -> Observe(m, st.el)

RunStmt(m, st) ==
  IF st.op = "if" THEN RunSimple(Observe(m, st.el), st.then[1])
                  ELSE RunSimple(m, st)

Fresh ==
  [store |-> [v \in DOMAIN body |-> 0], group |-> [g \in Indices |-> {}],
   started |-> <<>>, done |-> {}, result |-> 0, seen |-> [i \in DOMAIN body |-> 0]]

\* The statements at some of the places, in order: after each place.
RunUpTo(m, ir, places) ==
  LET upTo[k \in 0 .. Len(ir)] ==
        IF k = 0 THEN m
        ELSE IF k \in places THEN RunStmt(upTo[k - 1], ir[k]) ELSE upTo[k - 1]
  IN upTo

RunAt(m, ir, places) == RunUpTo(m, ir, places)[Len(ir)]

\* emitThunk
Run(ir) ==
  RunAt(RunAt(RunAt(Fresh, ir, HoistedAt(ir)), ir, SplitAt(ir)), ir, RestAt(ir))

-----------------------------------------------------------------------------
(* The body read from top to bottom.                                        *)

Writes(i, v) == body[i].tgt = v \/ (i = v /\ body[i].kind \in Binders)

LastWrite(i) ==
  CHOOSE j \in 1 .. i - 1 :
    /\ Writes(j, body[i].reads)
    /\ \A k \in j + 1 .. i - 1 : ~Writes(k, body[i].reads)

\* The analyzer infers the result type from the last element.
WellTyped ==
  /\ body # <<>>
  /\ IF result = "unit" THEN Last(body).kind # "ifval"
                        ELSE Last(body).kind \in {"unit", "inst", "do", "ifval"}

ReadersSee(kinds) ==
  WellTyped => LET seen == Run(Lowered).seen IN
    \A i \in DOMAIN body :
      body[i].kind \in kinds /\ body[i].reads # 0 => seen[i] = LastWrite(i)

CallsDone(kinds) ==
  WellTyped => LET done == Run(Lowered).done IN
    \A i \in DOMAIN body : body[i].kind \in kinds => i \in done

\* Every statement names a group that the body declares, and a singleton never
\* awaits the same group twice.
TypeOK ==
  /\ body \in Seq(Element) /\ Len(body) <= MaxLen[lowering] /\ result \in Results
  /\ LET ir == Lowered IN
     \A k \in DOMAIN ir :
       /\ ir[k].op \in {"spawn", "wait"} =>
            \E j \in 1 .. k - 1 : ir[j].op = "group" /\ ir[j].grp = ir[k].grp
       /\ ir[k].op = "wait" /\ lowering = "singleton" =>
            \A j \in 1 .. k - 1 : ir[j].op = "wait" => ir[j].grp # ir[k].grp

\* Structured concurrency: when the boc completes, each call of its body has
\* completed (BocGroup.Wait), in a singleton also the calls in the branches of
\* conditionals.
CallsComplete ==
  /\ TypeOK
  /\ CallsDone(CallKinds \cup (IF lowering = "singleton" THEN BranchKinds ELSE {}))

\* Expressions, conditions and, in a body without reassignments, declarations
\* get the values the variables have at that point of the body, although calls
\* that store some of them run concurrently.  In a singleton the arguments of a
\* call do so too, although the calls before it are still running.
ReadersSeeLastWrite ==
  ReadersSee({"do"} \cup BranchKinds
             \cup (IF \E i \in DOMAIN body : body[i].kind = "assign" THEN {} ELSE DeclKinds)
             \cup (IF lowering = "singleton" THEN CallKinds ELSE {}))

\* The value of the boc is the value of its last element.
ResultIsLastElement ==
  WellTyped /\ result # "unit" => Run(Lowered).result = Len(body)

\* Calls start in source order, which is what gives two behaviours on a common
\* cown their order, and two adjacent ones run concurrently: no Wait separates
\* them unless the second reads the result of a call.
SpawnsInOrder ==
  WellTyped =>
    LET started == Run(Lowered).started
        ir      == Lowered
    IN /\ \A j, k \in DOMAIN started : j < k => started[j] < started[k]
       /\ \A j, k \in DOMAIN ir :
            /\ ir[j].op = "spawn" /\ ir[k].op = "spawn" /\ ir[k].el = ir[j].el + 1
            /\ body[ir[k].el].reads # 0 =>
                 body[body[ir[k].el].reads].kind \notin {"bind", "lazy"}
            => \A w \in j .. k : ir[w].op # "wait"

\* Everything the code after the first Wait mentions is declared where it can
\* be seen: not in the closure that ran in the cown.
NamesVisible ==
  lowering = "singleton" =>
  LET ir    == Lowered
      inner == InnerNames(ir)
  IN inner # {} =>
       \A k \in DOMAIN ir \ BeforeWait(ir) :
         /\ ir[k].op = "assign" => ir[k].var \notin inner
         /\ ir[k].el # 0 => body[ir[k].el].reads \notin inner
=============================================================================
