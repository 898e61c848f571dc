-------------------------- MODULE DefiniteAssign --------------------------
(***************************************************************************)
(* Definite assignment (internal/sema/definite_assign.go, and the parts of *)
(* analyzer.go and scope.go that drive it): a field of a struct that was   *)
(* constructed without it must be assigned on every path before it is read *)
(* or passed to a boc.                                                     *)
(*                                                                         *)
(* The body of a boc is analyzed one element at a time.  Next to it the    *)
(* specification collects every state in which the same elements can leave *)
(* the running program; the analysis is right about an element if it is    *)
(* right about all of them.                                                *)
(***************************************************************************)
EXTENDS Integers, Sequences, FiniteSets, SequencesExt

CONSTANTS
  Bodies,     \* the bodies: sequences of elements
  Fields,     \* per struct type: its fields, [name, type, default]
  Params      \* the parameters of the boc: a function from names to types

Scalar == "scalar"

ASSUME DefiniteAssumption ==
  \A t \in DOMAIN Fields : \A i \in DOMAIN Fields[t] :
    Fields[t][i].type \in DOMAIN Fields \cup {Scalar}

\* Expressions; an argument is [label, v].
Lit          == [e |-> "lit", x |-> "", path |-> <<>>, t |-> Scalar, args |-> <<>>]
Var(x)       == [Lit EXCEPT !.e = "var", !.x = x]
Read(x, p)   == [Lit EXCEPT !.e = "read", !.x = x, !.path = p]
New(t, args) == [Lit EXCEPT !.e = "new", !.t = t, !.args = args]
Get(t)       == [Lit EXCEPT !.e = "get", !.t = t]   \* a boc that returns a t
Pass(args)   == [Lit EXCEPT !.e = "call", !.args = args]
Pos(v)       == [label |-> "", v |-> v]
Named(l, v)  == [label |-> l, v |-> v]

\* Elements; arms are [cond, body], a last arm without a condition is the
\* default.
Elem(s, x, path, v) == [s |-> s, x |-> x, path |-> path, v |-> v, arms |-> <<>>]
Decl(x, v)      == Elem("decl", x, <<>>, v)
Set(x, path, v) == Elem("set", x, path, v)
Assign(x, v)    == Elem("assign", x, <<>>, v)
Use(v)          == Elem("use", "", <<>>, v)
Block(s, arms)  == [Elem(s, "", <<>>, Lit) EXCEPT !.arms = arms]
Arm(cond, body) == [cond |-> cond, body |-> body]
NoCond == Read("", <<>>)

VARIABLES
  body,       \* the elements
  at,         \* the next one
  sema,       \* the analyzer: [scope, fi, errs]
  paths       \* the states of the program: [env, heap, bad]
vars == <<body, at, sema, paths>>

-----------------------------------------------------------------------------
(* Scopes: a sequence of frames, the innermost first.                       *)

\* Lookup walks up the parents; every name of a body is declared.
Lookup(scope, x) ==
  LET f == CHOOSE i \in DOMAIN scope : /\ x \in DOMAIN scope[i]
                                       /\ \A j \in 1 .. i - 1 : x \notin DOMAIN scope[j]
  IN scope[f][x]

Put(f, x, v) == [y \in DOMAIN f \cup {x} |-> IF y = x THEN v ELSE f[y]]
Define(scope, x, v) == <<Put(scope[1], x, v)>> \o Tail(scope)
PushScope(scope) == <<[y \in {} |-> 0]>> \o scope

-----------------------------------------------------------------------------
(* FieldInitState: per tracked variable the set of assigned paths.          *)

Tracked(fi, x) == x \in DOMAIN fi
PathPrefixes(path) == {SubSeq(path, 1, n) : n \in 1 .. Len(path)}

MarkAssigned(fi, x, path) ==
  IF Tracked(fi, x) THEN Put(fi, x, fi[x] \cup PathPrefixes(path)) ELSE fi

\* A variable that is not tracked is a parameter: all its fields are assigned.
IsAssigned(fi, x, path) == Tracked(fi, x) => PathPrefixes(path) \subseteq fi[x]

PropagateInner(fi, x, prefix, inner) ==
  IF Tracked(fi, x)
  THEN Put(fi, x, fi[x] \cup UNION {PathPrefixes(prefix \o p) : p \in inner})
  ELSE fi

\* Mutant: what either branch assigns counts.
Unite(fi, other) ==
  [x \in DOMAIN fi \cap DOMAIN other |-> fi[x] \cup other[x]]

Intersect(fi, other) ==
  [x \in DOMAIN fi \cap DOMAIN other |-> fi[x] \cap other[x]]

Required(t) == SelectSeq(Fields[t], LAMBDA f : ~f.default)
HasNamed(args) == \E i \in DOMAIN args : args[i].label # ""

\* The field an argument of a constructor is for, as a sequence of at most one.
ArgField(t, args, i) ==
  IF HasNamed(args) THEN SelectSeq(Required(t), LAMBDA f : f.name = args[i].label)
  ELSE IF i <= Len(Required(t)) THEN <<Required(t)[i]>> ELSE <<>>

\* initLocalVar: the paths that are assigned after a constructor call.
InitLocalVar(t, args) ==
  {<<Fields[t][i].name>> : i \in {j \in DOMAIN Fields[t] : Fields[t][j].default}}
  \cup IF HasNamed(args)
       THEN {<<args[i].label>> : i \in {j \in DOMAIN args : args[j].label # ""}}
       ELSE {<<Required(t)[i].name>> :
               i \in {j \in DOMAIN args : j <= Len(Required(t))}}

AllRequired(t) == {<<Required(t)[i].name>> : i \in DOMAIN Required(t)}

\* What is known of a struct value that is stored in a field.
InnerInit(fi, t, v) ==
  CASE v.e = "var" -> IF Tracked(fi, v.x) THEN fi[v.x] ELSE AllRequired(t)
    [] v.e \in {"new", "get"} -> InitLocalVar(t, v.args)
    [] OTHER -> {}

\* propagateConstructorArgInits, one argument.  A call that is not direct is
\* taken for a constructor here.
PropagateArg(fi, x, t, args, i) ==
  LET field == ArgField(t, args, i)
  IN IF field = <<>> \/ (field # <<>> /\ field[1].type = Scalar) THEN fi
     ELSE PropagateInner(fi, x, <<field[1].name>>, InnerInit(fi, field[1].type, args[i].v))

-----------------------------------------------------------------------------
(* The analyzer.                                                            *)

RECURSIVE PathType(_, _)
PathType(t, path) ==
  IF path = <<>> THEN t
  ELSE PathType((CHOOSE f \in ToSet(Fields[t]) : f.name = path[1]).type, Tail(path))

TypeOf(s, v) ==
  CASE v.e = "var"  -> Lookup(s.scope, v.x)
    [] v.e = "read" -> PathType(Lookup(s.scope, v.x), v.path)
    [] OTHER        -> v.t

IsField(t, name) == \E i \in DOMAIN Fields[t] : Fields[t][i].name = name

\* analyzeMember: reading x.a.b reads x.a as well.
ReadErrs(s, x, path) ==
  {p \in PathPrefixes(path) : ~IsAssigned(s.fi, x, p)}

\* The check at the boundary of a boc, for an argument that is a variable.
BoundaryErrs(s, v) ==
  IF v.e # "var" THEN {}
  ELSE LET t == Lookup(s.scope, v.x)
       IN IF t = Scalar THEN {}
          ELSE {p \in AllRequired(t) : ~IsAssigned(s.fi, v.x, p)}

\* analyzeExpr: the fields reported.
RECURSIVE ExprErrs(_, _)
ExprErrs(s, v) ==
  CASE v.e = "read" -> ReadErrs(s, v.x, v.path)
    [] v.e \in {"new", "call", "get"} ->
         UNION {ExprErrs(s, v.args[i].v) \cup BoundaryErrs(s, v.args[i].v) :
                i \in DOMAIN v.args}
    [] OTHER -> {}

Report(s, errs) == [s EXCEPT !.errs = @ \cup errs]

\* analyzeShortDecl: a declaration by a constructor is tracked, one by a
\* variable like that variable, any other value is complete.
AnalyzeDecl(s, x, v) ==
  LET t == TypeOf(s, v)
      r == [Report(s, ExprErrs(s, v)) EXCEPT !.scope = Define(@, x, t)]
  IN CASE t # Scalar /\ v.e = "var" /\ Tracked(s.fi, v.x) ->
            [r EXCEPT !.fi = Put(@, x, s.fi[v.x])]
       [] v.e = "new" ->
            [r EXCEPT !.fi = FoldLeft(LAMBDA fi, i : PropagateArg(fi, x, t, v.args, i),
                                      Put(@, x, InitLocalVar(t, v.args)),
                                      [i \in DOMAIN v.args |-> i])]
       [] OTHER -> r

\* Mutant: the fields of the value are not carried over.
AnalyzeSetFlat(s, x, path, v) ==
  LET r == Report(s, ReadErrs(s, x, Front(path)) \cup ExprErrs(s, v))
  IN [r EXCEPT !.fi = MarkAssigned(@, x, path)]

\* analyzeAssignment to a field: the object is read, then the value analyzed.
AnalyzeSet(s, x, path, v) ==
  LET r  == Report(s, ReadErrs(s, x, Front(path)) \cup ExprErrs(s, v))
      fi == MarkAssigned(s.fi, x, path)
      t  == TypeOf(s, v)
  IN [r EXCEPT !.fi = IF Len(path) = 1 /\ t # Scalar
                      THEN PropagateInner(fi, x, path, InnerInit(fi, t, v))
                      ELSE fi]

RECURSIVE AnalyzeElem(_, _)

\* analyzeBranchBody: a scope of its own, the state is the caller's.
AnalyzeBranch(s, elems) ==
  LET r == FoldLeft(AnalyzeElem, [s EXCEPT !.scope = PushScope(@)], elems)
  IN [r EXCEPT !.scope = s.scope]

\* The conditional: each branch from a clone, then what both assign.
AnalyzeCond(s, arms) ==
  LET c == Report(s, ExprErrs(s, arms[1].cond))
      t == AnalyzeBranch(c, arms[1].body)
      f == AnalyzeBranch([c EXCEPT !.errs = t.errs], arms[2].body)
  IN [f EXCEPT !.fi = Intersect(t.fi, f.fi)]

\* analyzeMatch: a condition is analyzed in the state the arm before it left.
AnalyzeMatch(s, arms) ==
  LET Next1(m, arm) ==
        LET c == Report(m.s, ExprErrs(m.s, arm.cond))
            r == AnalyzeBranch([c EXCEPT !.fi = s.fi], arm.body)
        IN [s |-> r, after |-> Append(m.after, r.fi)]
      m == FoldLeft(Next1, [s |-> s, after |-> <<>>], arms)
  IN [m.s EXCEPT !.fi = FoldLeft(Intersect, m.after[1], Tail(m.after))]

\* analyzeInfixMatch: body and else are analyzed one after the other, in place.
AnalyzeInfix(s, arms) ==
  FoldLeft(LAMBDA r, arm : AnalyzeBranch(r, arm.body),
           Report(s, ExprErrs(s, arms[1].cond)), arms)

\* Mutant: what the literal assigns is kept.
AnalyzeLiteralKept(s, elems) == AnalyzeBranch(s, elems)

\* A boc literal may not run, or run later: its assignments are dropped.
AnalyzeLiteral(s, elems) == [AnalyzeBranch(s, elems) EXCEPT !.fi = s.fi]

AnalyzeElem(s, el) ==
  CASE el.s = "decl"    -> AnalyzeDecl(s, el.x, el.v)
    [] el.s = "set"     -> AnalyzeSet(s, el.x, el.path, el.v)
    [] el.s = "cond"    -> AnalyzeCond(s, el.arms)
    [] el.s = "match"   -> AnalyzeMatch(s, el.arms)
    [] el.s = "infix"   -> AnalyzeInfix(s, el.arms)
    [] el.s = "literal" -> AnalyzeLiteral(s, el.arms[1].body)
    [] OTHER            -> Report(s, ExprErrs(s, el.v))   \* use, assign

-----------------------------------------------------------------------------
(* The program: variables hold references, 0 is an unassigned field, -1 any *)
(* scalar; p.bad once a path has read what is not assigned.                 *)

NewObject(p, t, fields) ==
  [p EXCEPT !.heap = Append(@, [t |-> t, f |-> fields]), !.val = Len(p.heap) + 1]

RECURSIVE FullObject(_, _)
\* A complete value, from the caller or from a call.
FullObject(p, t) ==
  IF t = Scalar THEN [p EXCEPT !.val = -1]
  ELSE LET Fill(q, field) ==
             LET r == FullObject(q, field.type)
             IN [r EXCEPT !.acc = Put(q.acc, field.name, r.val)]
           filled == FoldLeft(Fill, [p EXCEPT !.acc = [y \in {} |-> 0]], Fields[t])
       IN [NewObject(filled, t, filled.acc) EXCEPT !.acc = p.acc]

RECURSIVE Walk(_, _, _)
\* Following a path from a reference; 0 if something on it is not assigned.
Walk(p, ref, path) ==
  IF path = <<>> \/ ref = 0 THEN ref
  ELSE Walk(p, p.heap[ref].f[path[1]], Tail(path))

RECURSIVE Eval(_, _)
EvalArgs(p, args) ==
  FoldLeft(LAMBDA q, a : LET r == Eval(q, a.v) IN [r EXCEPT !.seq = Append(q.seq, r.val)],
           [p EXCEPT !.seq = <<>>], args)

Incomplete(p, ref) ==
  ref > 0 /\ \E i \in DOMAIN Required(p.heap[ref].t) :
               p.heap[ref].f[Required(p.heap[ref].t)[i].name] = 0

\* The value of an expression; a variable is given to a boc with a complete
\* object.
Eval(p, v) ==
  CASE v.e = "lit" -> [p EXCEPT !.val = -1]
    [] v.e = "var" -> [p EXCEPT !.val = Lookup(p.env, v.x)]
    [] v.e = "read" ->
         LET r == Walk(p, Lookup(p.env, v.x), v.path)
         IN [p EXCEPT !.val = IF r = 0 THEN -1 ELSE r, !.bad = @ \/ r = 0]
    [] v.e = "get" -> FullObject(p, v.t)
    [] OTHER ->
         LET q == EvalArgs(p, v.args)
             r == [q EXCEPT !.bad = @ \/ \E i \in DOMAIN q.seq :
                                          v.args[i].v.e = "var" /\ Incomplete(q, q.seq[i])]
             Given(f) == {i \in DOMAIN v.args : ArgField(v.t, v.args, i) # <<>>
                            /\ ArgField(v.t, v.args, i)[1].name = f}
         IN IF v.e = "call" THEN r
            ELSE NewObject(r, v.t,
                   [f \in {Fields[v.t][i].name : i \in DOMAIN Fields[v.t]} |->
                      IF Given(f) # {} THEN q.seq[CHOOSE i \in Given(f) : TRUE]
                      ELSE IF \E i \in DOMAIN Fields[v.t] :
                                Fields[v.t][i].name = f /\ Fields[v.t][i].default
                      THEN -1 ELSE 0])

RECURSIVE Exec(_, _)

SetField(p, x, path, v) ==
  LET q   == Eval(p, v)
      obj == Walk(q, Lookup(q.env, x), Front(path))
  IN IF obj = 0 THEN [q EXCEPT !.bad = TRUE]
     ELSE [q EXCEPT !.heap[obj].f = Put(@, Last(path), q.val)]

AssignVar(p, x, v) ==
  LET q == Eval(p, v)
      f == CHOOSE i \in DOMAIN q.env : /\ x \in DOMAIN q.env[i]
                                       /\ \A j \in 1 .. i - 1 : x \notin DOMAIN q.env[j]
  IN [q EXCEPT !.env[f] = Put(@, x, q.val)]

ExecBlock(ps, elems) ==
  {[q EXCEPT !.env = Tail(@)] :
     q \in FoldLeft(Exec, {[p EXCEPT !.env = PushScope(@)] : p \in ps}, elems)}

EvalAll(ps, v) == {Eval(p, v) : p \in ps}

\* The arms whose condition may be the first to hold, from the first on.
RECURSIVE ExecArms(_, _)
ExecArms(ps, arms) ==
  IF arms = <<>> THEN ps
  ELSE IF arms[1].cond = NoCond THEN ExecBlock(ps, arms[1].body)
  ELSE LET qs == EvalAll(ps, arms[1].cond)
       IN ExecBlock(qs, arms[1].body) \cup ExecArms(qs, Tail(arms))

Exec(ps, el) ==
  CASE el.s = "decl" ->
         {[q EXCEPT !.env = Define(@, el.x, q.val)] : q \in EvalAll(ps, el.v)}
    [] el.s = "set"    -> {SetField(p, el.x, el.path, el.v) : p \in ps}
    [] el.s = "assign" -> {AssignVar(p, el.x, el.v) : p \in ps}
    [] el.s = "use"    -> EvalAll(ps, el.v)
    [] el.s = "literal" ->   \* run not at all, once or twice
         LET once == ExecBlock(ps, el.arms[1].body)
         IN ps \cup once \cup ExecBlock(once, el.arms[1].body)
    [] OTHER -> ExecArms(ps, el.arms)   \* cond, match, infix

-----------------------------------------------------------------------------
NoNames == [y \in {} |-> 0]
Start == [env |-> <<NoNames>>, heap |-> <<>>, bad |-> FALSE, val |-> 0,
          acc |-> NoNames, seq |-> <<>>]

WithParams(p) ==
  FoldLeft(LAMBDA q, x : LET r == FullObject(q, Params[x])
                         IN [r EXCEPT !.env = Define(@, x, r.val)],
           p, SetToSeq(DOMAIN Params))

Init ==
  /\ body \in Bodies /\ at = 1
  /\ sema = [scope |-> <<Params>>, fi |-> NoNames, errs |-> {}]
  /\ paths = {WithParams(Start)}

\* analyzeBocBody, one element.  A body with an error is not compiled.
Step ==
  /\ at <= Len(body) /\ sema.errs = {}
  /\ sema' = AnalyzeElem(sema, body[at])
  /\ paths' = Exec(paths, body[at])
  /\ at' = at + 1
  /\ UNCHANGED body

Next == Step
Spec == Init /\ [][Next]_vars

-----------------------------------------------------------------------------
\* The analyzer's scope and the program's environment name the same things,
\* and nothing is tracked that is not a struct.
TypeOK ==
  /\ \A p \in paths : [i \in DOMAIN p.env |-> DOMAIN p.env[i]]
                        = [i \in DOMAIN sema.scope |-> DOMAIN sema.scope[i]]
  /\ \A x \in DOMAIN sema.fi : Lookup(sema.scope, x) # Scalar

Accepted == sema.errs = {}

\* In an accepted body no path reads a field before it is assigned, or gives
\* an incomplete struct to a boc.
NoReadBeforeAssignment == Accepted => \A p \in paths : ~p.bad

\* What the analysis takes for assigned is assigned on every path.
AssignedOnEveryPath ==
  /\ TypeOK
  /\ Accepted =>
       \A x \in DOMAIN sema.fi : \A path \in sema.fi[x] : \A p \in paths :
         Walk(p, Lookup(p.env, x), path) # 0

\* A body is rejected only for a path that is really wrong.  (An alias is
\* tracked apart from its variable and an assignment to a variable is not
\* tracked: bodies with one of them are left out.)
Untracked ==
  \E i \in DOMAIN body : \/ body[i].s = "decl" /\ body[i].v.e = "var"
                        \/ body[i].s = "assign"
RejectedForAReason == ~Accepted /\ ~Untracked => \E p \in paths : p.bad
=============================================================================
