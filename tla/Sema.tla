------------------------------- MODULE Sema -------------------------------
(***************************************************************************)
(* The declarations of a file (internal/sema/analyzer.go).  A file is the  *)
(* body of a boc; the analyzer first registers stubs for the methods and   *)
(* the types declared in it, then analyzes one element after the other,    *)
(* filling in the stubs it has already handed out.                         *)
(*                                                                         *)
(* Next to the analyzer the specification keeps the meaning of the file:   *)
(* the environment in which everything is declared, which no order of the  *)
(* elements has an influence on.                                           *)
(***************************************************************************)
EXTENDS Types

CONSTANTS Files   \* the files: sequences of elements

\* A type expression is a Type in which structs are names.
TName(x) == [Type("name") EXCEPT !.fields = <<x>>]

\* Values: a literal, a variable, a call of a method or a constructor, a
\* constructor qualified by its type, a field, a boc literal.
Value(e, x, args)     == [e |-> e, x |-> x, args |-> args, t |-> TypInt, params |-> <<>>]
Lit(t)                == [Value("lit", "", <<>>) EXCEPT !.t = t]
Var(x)                == Value("var", x, <<>>)
Call(f, args)         == Value("call", f, args)
Qualified(t, c, args) == [Value("qualified", c, args) EXCEPT !.t = TName(t)]
FieldOf(v, f)         == Value("field", f, <<v>>)
BocLit(params, v)     == [Value("boc", "", <<v>>) EXCEPT !.params = params]

\* Elements.  A parameter is a field without a default; "colon" is
\* name: { params; v }, "sig" is name #(params, ret) { v }.
Elem(d, x) == [d |-> d, x |-> x, fields |-> <<>>, cases |-> <<>>, params |-> <<>>,
               ret |-> <<>>, v |-> Lit(TypInt)]
TypeDecl(x, fields)    == [Elem("type", x) EXCEPT !.fields = fields]
Variant(x, cases)      == [Elem("variant", x) EXCEPT !.cases = cases]
Case(x, fields)        == [x |-> x, fields |-> fields]
Colon(x, params, v)    == [Elem("colon", x) EXCEPT !.params = params, !.v = v]
Sig(x, params, ret, v) == [Elem("sig", x) EXCEPT !.params = params, !.ret = ret, !.v = v]
Check(x, t, v)         == [Elem("check", x) EXCEPT !.ret = <<t>>, !.v = v]
Decl(x, v)             == [Elem("decl", x) EXCEPT !.v = v]

VARIABLES
  file,      \* the elements
  at,        \* the next one; 0 before the stubs are registered
  sema,      \* the analyzer: [heap, scope, rel, errs, got]
  meaning    \* the declared environment: [heap, scope, rel, errs, got]
vars == <<file, at, sema, meaning>>

NoNames == [y \in {} |-> 0]
Put(f, x, v) == [y \in DOMAIN f \cup {x} |-> IF y = x THEN v ELSE f[y]]

\* A symbol; alts when several variants have a constructor of this name.
Symbol(t) == [type |-> t, parent |-> "", alts |-> <<>>]
Define(s, x, sym) == [s EXCEPT !.scope = Put(@, x, sym)]
Report(s, i, errs) == [s EXCEPT !.errs = @ \cup {<<i, e>> : e \in errs}]

IsType(el)   == el.d \in {"type", "variant"}
IsMethod(el) == el.d \in {"colon", "sig"}

-----------------------------------------------------------------------------
(* Types and values.                                                        *)

RECURSIVE Resolve(_, _)
\* resolveTypeExpr: a name that is not in scope is Unknown.
Resolve(s, te) ==
  IF te.k = "name"
  THEN IF te.fields[1] \in DOMAIN s.scope THEN s.scope[te.fields[1]].type ELSE Unknown
  ELSE [te EXCEPT !.params  = [i \in DOMAIN te.params |-> Resolve(s, te.params[i])],
                  !.returns = [i \in DOMAIN te.returns |-> Resolve(s, te.returns[i])]]

RECURSIVE Undefined(_, _)
Undefined(s, te) ==
  IF te.k = "name"
  THEN IF te.fields[1] \in DOMAIN s.scope THEN {} ELSE {"undefined type"}
  ELSE UNION {Undefined(s, te.params[i]) : i \in DOMAIN te.params}
       \cup UNION {Undefined(s, te.returns[i]) : i \in DOMAIN te.returns}

ResolveFields(s, fs) == [i \in DOMAIN fs |-> [fs[i] EXCEPT !.type = Resolve(s, fs[i].type)]]
UndefinedFields(s, fs) == UNION {Undefined(s, fs[i].type) : i \in DOMAIN fs}
TypesOf(fs) == [i \in DOMAIN fs |-> fs[i].type]

\* IsCompatibleWith, or in the declared environment what it should say.
Fits(s, t, u) ==
  IF s.rel # {} THEN Bool(Related(s.heap, s.rel, t, u)) ELSE Compat(s.heap, t, u, {})

\* The error of using a t where a u is expected.
Misfit(s, t, u, err) ==
  IF t = Unknown \/ u = Unknown THEN {}
  ELSE CASE Fits(s, t, u) = "yes"      -> {}
         [] Fits(s, t, u) = "overflow" -> {"overflow"}
         [] OTHER                      -> {err}

\* Mutant: the first constructor of that name.
DisambiguateFirst(s, alts, expected) ==
  IF expected.k # "struct" THEN <<>> ELSE <<alts[1]>>

\* disambiguateConstructor: the alternative of the expected type, by name.
Disambiguate(s, alts, expected) ==
  IF expected.k # "struct" THEN <<>>
  ELSE SelectSeq(alts, LAMBDA a : a.parent = s.heap[expected.ref].name)

\* fieldType.
FieldType(s, t, f) ==
  CASE t.k = "struct" /\ f \in FieldNames(s.heap[t.ref].fields) ->
         [t |-> FieldNamed(s.heap[t.ref].fields, f).type, errs |-> {}]
    [] t.k \in {"struct"} \cup Builtins -> [t |-> Unknown, errs |-> {"no field"}]
    [] OTHER -> [t |-> Unknown, errs |-> {}]

\* The callee of a call: its type, and the error of looking it up.
Callee(s, v, expected) ==
  IF v.e = "qualified"
  THEN LET parent == Resolve(s, v.t)
           cases  == IF parent.k = "struct" THEN s.heap[parent.ref].cases ELSE <<>>
           c      == SelectSeq(cases, LAMBDA x : x.x = v.x)
       IN IF c = <<>> THEN [t |-> Unknown, errs |-> {"no field"}]
          ELSE [t |-> Boc(TypesOf(c[1].fields), <<parent>>), errs |-> {}]
  ELSE IF v.x \notin DOMAIN s.scope THEN [t |-> Unknown, errs |-> {"undefined"}]
  ELSE IF s.scope[v.x].alts = <<>> THEN [t |-> s.scope[v.x].type, errs |-> {}]
  ELSE LET a == Disambiguate(s, s.scope[v.x].alts, expected)
       IN IF a = <<>> THEN [t |-> Unknown, errs |-> {"ambiguous"}]
          ELSE [t |-> a[1].type, errs |-> {}]

RECURSIVE Eval(_, _, _)

\* analyzeCall: each argument is expected to have its parameter's type; those
\* of a struct constructor are not compared with its fields.
EvalCall(s, v, expected) ==
  LET c    == Callee(s, v, expected)
      args == [i \in DOMAIN v.args |->
                 Eval(s, v.args[i], IF c.t.k = "boc" /\ i \in DOMAIN c.t.params
                                    THEN c.t.params[i] ELSE Type("none"))]
      errs == c.errs \cup UNION {args[i].errs : i \in DOMAIN args}
      wrong == IF c.t.k # "boc" THEN {}
               ELSE UNION {Misfit(s, args[i].t, c.t.params[i], "argument") :
                             i \in (DOMAIN args) \cap (DOMAIN c.t.params)}
  IN [t    |-> CASE c.t.k = "boc" -> IF c.t.returns = <<>> THEN TypUnit ELSE c.t.returns[1]
                 [] c.t.k = "struct" -> c.t
                 [] OTHER -> Unknown,
      errs |-> errs \cup wrong]

WithParams(s, params) ==
  FoldLeft(LAMBDA r, p : Define(r, p.name, Symbol(Resolve(s, p.type))), s, params)

\* analyzeExpr, with the type expected at this place.
Eval(s, v, expected) ==
  CASE v.e = "lit"   -> [t |-> v.t, errs |-> {}]
    [] v.e = "var"   -> IF v.x \in DOMAIN s.scope THEN [t |-> s.scope[v.x].type, errs |-> {}]
                        ELSE [t |-> Unknown, errs |-> {"undefined"}]
    [] v.e = "field" -> LET r == Eval(s, v.args[1], expected)
                            f == FieldType(s, r.t, v.x)
                        IN [f EXCEPT !.errs = @ \cup r.errs]
    [] v.e = "boc"   -> LET in == WithParams(s, v.params)
                            r  == Eval(in, v.args[1], expected)
                        IN [t |-> Literal(ResolveFields(s, v.params), <<r.t>>),
                            errs |-> r.errs \cup UndefinedFields(s, v.params)]
    [] OTHER         -> EvalCall(s, v, expected)

-----------------------------------------------------------------------------
(* The stubs.                                                               *)

\* Mutant: the declared return is not in the stub of a sibling.
RegisterSiblingUnit(s, i) ==
  LET el == file[i]
  IN Define(s, el.x, Symbol(Boc(TypesOf(ResolveFields(s, el.params)), <<TypUnit>>)))

\* preRegisterSiblingMethods.  The types are not registered yet; for a method
\* with a signature the errors of that are dropped.
RegisterSibling(s, i) ==
  LET el == file[i]
      ps == TypesOf(ResolveFields(s, el.params))
      rs == IF el.ret = <<>> THEN <<TypUnit>>
            ELSE [j \in DOMAIN el.ret |-> Resolve(s, el.ret[j])]
      r  == Define(s, el.x, Symbol(Boc(ps, rs)))
  IN IF el.d = "colon" THEN Report(r, i, UndefinedFields(s, el.params)) ELSE r

NewStruct(s, x) ==
  [s EXCEPT !.heap = Append(@, [name |-> x, fields |-> <<>>, cases |-> <<>>])]

\* preRegisterNestedTypes.
RegisterType(s, i) ==
  Define(NewStruct(s, file[i].x), file[i].x, Symbol(Struct(Len(s.heap) + 1)))

Indices(P(_)) == SelectSeq([i \in DOMAIN file |-> i], LAMBDA i : P(file[i]))

Register ==
  /\ at = 0
  /\ sema' = FoldLeft(RegisterType, FoldLeft(RegisterSibling, sema, Indices(IsMethod)),
                      Indices(IsType))
  /\ at' = 1
  /\ UNCHANGED <<file, meaning>>

-----------------------------------------------------------------------------
(* The elements.                                                            *)

\* The struct of a type declaration: the stub, if there is one.
StructFor(s, x) ==
  IF x \in DOMAIN s.scope /\ s.scope[x].type.k = "struct" THEN s.scope[x].type.ref
  ELSE Len(s.heap) + 1

\* The fields of the constructors, each name once.
MergedFields(cases) ==
  FoldLeft(LAMBDA fs, c : fs \o SelectSeq(c.fields, LAMBDA f : f.name \notin FieldNames(fs)),
           <<>>, cases)

\* A constructor of a variant; a second one of its name makes it ambiguous.
DefineConstructor(s, parent, c) ==
  LET sym == [Symbol(Boc(TypesOf(c.fields), <<s.scope[parent].type>>)) EXCEPT !.parent = parent]
      one == [type |-> sym.type, parent |-> parent]
      old == IF c.x \in DOMAIN s.scope THEN s.scope[c.x] ELSE Symbol(Unknown)
  IN IF old.parent = "" /\ old.alts = <<>> THEN Define(s, c.x, sym)
     ELSE Define(s, c.x,
            [Symbol(Unknown) EXCEPT !.alts =
               IF old.alts = <<>> THEN <<[type |-> old.type, parent |-> old.parent], one>>
               ELSE Append(old.alts, one)])

\* analyzeStructBoc: the fields are filled in, the constructors defined.
AnalyzeType(s, i) ==
  LET el    == file[i]
      ref   == StructFor(s, el.x)
      r     == IF ref > Len(s.heap) THEN NewStruct(s, el.x) ELSE s
      cases == [j \in DOMAIN el.cases |->
                  [el.cases[j] EXCEPT !.fields = ResolveFields(s, @)]]
      fs    == ResolveFields(s, el.fields) \o MergedFields(cases)
      errs  == UndefinedFields(s, el.fields)
               \cup UNION {UndefinedFields(s, el.cases[j].fields) : j \in DOMAIN el.cases}
      def   == Define([r EXCEPT !.heap[ref].fields = fs, !.heap[ref].cases = cases],
                      el.x, Symbol(Struct(ref)))
  IN FoldLeft(LAMBDA q, c : DefineConstructor(q, el.x, c), Report(def, i, errs), cases)

\* analyzeBocDecl: the method is defined before its body, with no return.
AnalyzeColon(s, i) ==
  LET el  == file[i]
      ps  == TypesOf(ResolveFields(s, el.params))
      pre == Define(s, el.x, Symbol(Boc(ps, <<TypUnit>>)))
      r   == Eval(WithParams(pre, el.params), el.v, Type("none"))
  IN Report(Define(s, el.x, Symbol(Boc(ps, <<r.t>>))), i,
            r.errs \cup UndefinedFields(s, el.params))

\* analyzeBocDeclNode: a declared return overrides the one of the body; a body
\* of unknown type returns nothing.
AnalyzeSig(s, i) ==
  LET el   == file[i]
      ps   == TypesOf(ResolveFields(s, el.params))
      decl == [j \in DOMAIN el.ret |-> Resolve(s, el.ret[j])]
      pre  == Define(s, el.x, Symbol(Boc(ps, IF decl = <<>> THEN <<TypUnit>> ELSE decl)))
      r    == Eval(WithParams(pre, el.params), el.v, Type("none"))
      body == IF r.t = Unknown THEN TypUnit ELSE r.t
      errs == r.errs \cup UndefinedFields(s, el.params)
              \cup (IF decl = <<>> THEN {} ELSE Misfit(s, r.t, decl[1], "return"))
  IN Report(Define(s, el.x, Symbol(Boc(ps, IF decl = <<>> THEN <<body>> ELSE decl))), i, errs)

\* A call that returns nothing has no value to declare (YZC-0003).
Nothing(el, t) == IF el.d = "decl" /\ t = TypUnit THEN {"nothing"} ELSE {}

\* analyzeTypedDecl and analyzeShortDecl.
AnalyzeValue(s, i) ==
  LET el == file[i]
      t  == IF el.d = "check" THEN Resolve(s, el.ret[1]) ELSE Type("none")
      r  == Eval(s, el.v, t)
      errs == IF el.d = "check"
              THEN Undefined(s, el.ret[1]) \cup Misfit(s, r.t, t, "mismatch")
              ELSE Nothing(el, r.t)
  IN [Report(Define(s, el.x, Symbol(IF el.d = "check" THEN t ELSE r.t)), i, r.errs \cup errs)
        EXCEPT !.got = Put(@, i, r.t)]

AnalyzeElem(s, i) ==
  CASE IsType(file[i])      -> AnalyzeType(s, i)
    [] file[i].d = "colon"  -> AnalyzeColon(s, i)
    [] file[i].d = "sig"    -> AnalyzeSig(s, i)
    [] OTHER                -> AnalyzeValue(s, i)

\* A stack overflow ends the compiler.
Overflowed == \E e \in sema.errs : e[2] = "overflow"

Analyze ==
  /\ at \in DOMAIN file /\ ~Overflowed
  /\ sema' = AnalyzeElem(sema, at)
  /\ at' = at + 1
  /\ UNCHANGED <<file, meaning>>

-----------------------------------------------------------------------------
(* The meaning of a file: first the types, then the methods with a declared *)
(* return, then the others, until nothing changes; then the values.         *)

Empty == [heap |-> <<>>, scope |-> NoNames, rel |-> {}, errs |-> {}, got |-> NoNames]

Meaning(f) ==
  LET Where(P(_)) == SelectSeq([i \in DOMAIN f |-> i], LAMBDA i : P(f[i]))
      Stub(s, i) == Define(NewStruct(s, f[i].x), f[i].x, Symbol(Struct(Len(s.heap) + 1)))
      Filled(s, i) ==
        LET ref == s.scope[f[i].x].type.ref
            cases == [j \in DOMAIN f[i].cases |->
                        [f[i].cases[j] EXCEPT !.fields = ResolveFields(s, @)]]
            filled == [s EXCEPT !.heap[ref].cases = cases,
                         !.heap[ref].fields = ResolveFields(s, f[i].fields) \o MergedFields(cases)]
        IN FoldLeft(LAMBDA q, c : DefineConstructor(q, f[i].x, c), filled, cases)
      Method(s, i) ==
        Define(s, f[i].x, Symbol(Boc(TypesOf(ResolveFields(s, f[i].params)),
          IF f[i].ret # <<>> THEN <<Resolve(s, f[i].ret[1])>>
          ELSE <<Eval(WithParams(s, f[i].params), f[i].v, Type("none")).t>>)))
      Name(s, i) == IF f[i].d # "check" THEN s
                    ELSE Define(s, f[i].x, Symbol(Resolve(s, f[i].ret[1])))
      types   == FoldLeft(Filled, FoldLeft(Stub, Empty, Where(IsType)), Where(IsType))
      related == [types EXCEPT
                     !.rel = Largest(types.heap, (DOMAIN types.heap) \X (DOMAIN types.heap))]
      methods == FoldLeft(LAMBDA s, n : FoldLeft(Method, s, Where(IsMethod)), related, f)
      named   == FoldLeft(Name, methods, Where(LAMBDA el : TRUE))
      Judge(s, i) ==
        LET el == f[i]
            r  == Eval(IF IsMethod(el) THEN WithParams(s, el.params) ELSE s, el.v,
                       IF el.d = "check" THEN Resolve(s, el.ret[1]) ELSE Type("none"))
            errs == r.errs \cup IF el.ret = <<>> THEN Nothing(el, r.t)
                                ELSE Misfit(s, r.t, Resolve(s, el.ret[1]), "mismatch")
        IN [s EXCEPT !.errs = @ \cup {<<i, e>> : e \in errs}, !.got = Put(@, i, r.t)]
  IN FoldLeft(Judge, named, Where(LAMBDA el : ~IsType(el)))

Init ==
  /\ file \in Files /\ at = 0
  /\ sema = Empty /\ meaning = Meaning(file)

Next == Register \/ Analyze
Spec == Init /\ [][Next]_vars

-----------------------------------------------------------------------------
RECURSIVE Refs(_)
Refs(t) == (IF t.k = "struct" THEN {t.ref} ELSE {})
           \cup UNION {Refs(t.params[i]) : i \in DOMAIN t.params}
           \cup UNION {Refs(t.returns[i]) : i \in DOMAIN t.returns}

\* Every type in scope points into the heap.
TypeOK ==
  /\ at \in 0 .. Len(file) + 1
  /\ \A x \in DOMAIN sema.scope : Refs(sema.scope[x].type) \subseteq DOMAIN sema.heap
  /\ DOMAIN sema.got \subseteq DOMAIN file

\* A field declared before its type and one declared after it point to the
\* same struct, the one in scope.
FieldsShareTypes ==
  \A r \in DOMAIN sema.heap : \A f \in ToSet(sema.heap[r].fields) : \A q \in Refs(f.type) :
    sema.scope[sema.heap[q].name].type = Struct(q)

RECURSIVE Named(_, _)
\* A type, with names for pointers.
Named(heap, t) ==
  IF t.k = "struct" THEN TName(heap[t.ref].name)
  ELSE [t EXCEPT !.params  = [i \in DOMAIN t.params |-> Named(heap, t.params[i])],
                 !.returns = [i \in DOMAIN t.returns |-> Named(heap, t.returns[i])],
                 !.fields  = [i \in DOMAIN t.fields |->
                                [t.fields[i] EXCEPT !.type = Named(heap, @)]]]

ErrsAt(s, i) == {e[2] : e \in {x \in s.errs : x[1] = i}}

SameErrors == \A i \in DOMAIN file : i < at =>
  (ErrsAt(sema, i) = {}) = (ErrsAt(meaning, i) = {})

SameTypes == \A i \in DOMAIN sema.got : ErrsAt(meaning, i) = {} =>
  Named(sema.heap, sema.got[i]) = Named(meaning.heap, meaning.got[i])

\* One pass over stubs decides what the declared environment does.  An element is
\* rejected exactly if it is wrong there (a value that lacks a field of the
\* declared type, a wrong argument or return, a field that is not there, an
\* ambiguous constructor), and a value has the type it has there, also if the
\* method it calls is declared later; the structs behind equal names are one.
ChecksAgree == TypeOK /\ FieldsShareTypes /\ SameErrors /\ SameTypes

\* Where a variant is expected, a constructor that it shares with another one
\* makes a value of it.
ConstructorsByType ==
  \A i \in DOMAIN sema.got :
    /\ file[i].d = "check" /\ file[i].v.e = "call" /\ file[i].v.x \in DOMAIN sema.scope
    /\ \E j \in DOMAIN file : /\ TName(file[j].x) = file[i].ret[1]
                             /\ \E c \in ToSet(file[j].cases) : c.x = file[i].v.x
    => Named(sema.heap, sema.got[i]) = file[i].ret[1]

\* No comparison of types recurses for ever.
ComparisonsEnd == ~Overflowed
=============================================================================
