------------------------------- MODULE Types -------------------------------
(***************************************************************************)
(* The types of the semantic analyzer (internal/sema/types.go) and         *)
(* IsCompatibleWith: a type may be used where another is expected if it    *)
(* has at least its fields, with compatible types.                         *)
(*                                                                         *)
(* A named type is a pointer: a reference into a heap of structs, so types *)
(* may be recursive.  The recursion of IsCompatibleWith is written with    *)
(* the pairs of structs that are on its stack; meeting one of them again   *)
(* is a recursion that never ends.                                         *)
(***************************************************************************)
EXTENDS Integers, Sequences, FiniteSets, SequencesExt

\* A type: kind, the struct it points to, the parts it is built from (element
\* type, parameters), its returns, and the fields of a boc literal.
Type(k)        == [k |-> k, ref |-> 0, params |-> <<>>, returns |-> <<>>, fields |-> <<>>]
TypInt         == Type("Int")
TypString      == Type("String")
TypUnit        == Type("Unit")
Unknown        == Type("unknown")
Struct(r)      == [Type("struct") EXCEPT !.ref = r]
Array(t)       == [Type("array") EXCEPT !.params = <<t>>]
Dict(k, t)     == [Type("dict") EXCEPT !.params = <<k, t>>]
Option(t)      == [Type("option") EXCEPT !.params = <<t>>]
Boc(ps, rs)    == [Type("boc") EXCEPT !.params = ps, !.returns = rs]
Literal(fs, rs) == [Type("literal") EXCEPT !.fields = fs, !.returns = rs]
Builtins == {"Int", "String", "Unit"}

\* A field of a struct or of a boc literal.
Field(name, t, default) == [name |-> name, type |-> t, default |-> default]
FieldNames(fs) == {fs[i].name : i \in DOMAIN fs}
FieldNamed(fs, name) == fs[CHOOSE i \in DOMAIN fs : fs[i].name = name]

\* The first result of a loop that is not "yes".
All(results) ==
  LET bad == {i \in DOMAIN results : results[i] # "yes"}
  IN IF bad = {} THEN "yes" ELSE results[CHOOSE i \in bad : \A j \in bad : i <= j]
Bool(b) == IF b THEN "yes" ELSE "no"

RECURSIVE Compat(_, _, _, _)

\* Any type fits where the type is unknown, a type variable, or #().
CompatBuiltin(s, t) == Bool(t.k \in {s.k, "unknown", "generic", "meta"})

\* Array, Dict and Option: the same constructor of compatible types.
CompatParts(heap, s, t, stack) ==
  IF t.k # s.k THEN Bool(t.k \in {"unknown", "generic"})
  ELSE All([i \in DOMAIN s.params |-> Compat(heap, s.params[i], t.params[i], stack)])

\* Mutant: only the parameters are compared.
CompatBocParams(heap, s, t, stack) ==
  IF t.k # "boc" THEN Bool(t.k \in {"unknown", "generic"})
  ELSE IF Len(s.params) # Len(t.params) THEN "no"
  ELSE All([i \in DOMAIN s.params |-> Compat(heap, s.params[i], t.params[i], stack)])

\* As many parameters and, unless the target declares none, as many returns.
CompatBoc(heap, s, t, stack) ==
  IF t.k # "boc" THEN Bool(t.k \in {"unknown", "generic"})
  ELSE IF Len(s.params) # Len(t.params) THEN "no"
  ELSE LET ps == [i \in DOMAIN s.params |-> Compat(heap, s.params[i], t.params[i], stack)]
           rs == [i \in DOMAIN s.returns |-> Compat(heap, s.returns[i], t.returns[i], stack)]
       IN IF t.returns = <<>> THEN All(ps)
          ELSE IF All(ps) = "yes" /\ Len(s.returns) # Len(t.returns) THEN "no"
          ELSE IF All(ps) # "yes" THEN All(ps) ELSE All(rs)

\* The fields of the target, in order.
CompatFields(heap, fs, target, stack) ==
  All([i \in DOMAIN target |->
         IF target[i].name \notin FieldNames(fs) THEN "no"
         ELSE Compat(heap, FieldNamed(fs, target[i].name).type, target[i].type, stack)])

\* A struct is compatible with itself; other pairs are compared field by field.
CompatStruct(heap, s, t, stack) ==
  IF t.k # "struct" THEN Bool(t.k \in {"unknown", "generic", "meta"})
  ELSE IF s.ref = t.ref THEN "yes"
  ELSE IF <<s.ref, t.ref>> \in stack THEN "overflow"
  ELSE CompatFields(heap, heap[s.ref].fields, heap[t.ref].fields,
                    stack \cup {<<s.ref, t.ref>>})

\* DeriveInterface: the fields without a default are the parameters.
DeriveInterface(s) ==
  LET ps == SelectSeq(s.fields, LAMBDA f : ~f.default)
  IN Boc([i \in DOMAIN ps |-> ps[i].type], s.returns)

CompatLiteral(heap, s, t, stack) ==
  CASE t.k = "struct"  -> CompatFields(heap, s.fields, heap[t.ref].fields, stack)
    [] t.k = "literal" -> CompatFields(heap, s.fields, t.fields, stack)
    [] t.k = "boc"     -> CompatBoc(heap, DeriveInterface(s), t, stack)
    [] OTHER           -> Bool(t.k \in {"unknown", "generic", "meta"})

\* IsCompatibleWith: "yes", "no", or "overflow" of the stack.
Compat(heap, s, t, stack) ==
  CASE s.k \in Builtins                     -> CompatBuiltin(s, t)
    [] s.k \in {"array", "dict", "option"}  -> CompatParts(heap, s, t, stack)
    [] s.k = "boc"                          -> CompatBoc(heap, s, t, stack)
    [] s.k = "struct"                       -> CompatStruct(heap, s, t, stack)
    [] s.k = "literal"                      -> CompatLiteral(heap, s, t, stack)
    [] OTHER                                -> "yes"   \* unknown, generic, meta

-----------------------------------------------------------------------------
(* The reference: width subtyping is the largest relation of structs that   *)
(* its own definition justifies.  Parameters have to match both ways.       *)

RECURSIVE Related(_, _, _, _)
Related(heap, rel, s, t) ==
  CASE t.k = "unknown" \/ s.k = "unknown" -> TRUE
    [] s.k = "struct" /\ t.k = "struct" -> <<s.ref, t.ref>> \in rel
    [] s.k = "literal" /\ t.k = "boc" -> Related(heap, rel, DeriveInterface(s), t)
    [] s.k = "literal" /\ t.k = "struct" ->
         \A f \in ToSet(heap[t.ref].fields) :
           /\ f.name \in FieldNames(s.fields)
           /\ Related(heap, rel, FieldNamed(s.fields, f.name).type, f.type)
    [] OTHER ->
         /\ s.k = t.k /\ Len(s.params) = Len(t.params)
         /\ \A i \in DOMAIN s.params :
              /\ Related(heap, rel, s.params[i], t.params[i])
              /\ s.k = "boc" => Related(heap, rel, t.params[i], s.params[i])
         /\ t.returns = <<>> \/ Len(s.returns) = Len(t.returns)
         /\ \A i \in DOMAIN t.returns : Related(heap, rel, s.returns[i], t.returns[i])

Justified(heap, rel) ==
  {p \in rel : \A f \in ToSet(heap[p[2]].fields) :
                 /\ f.name \in FieldNames(heap[p[1]].fields)
                 /\ Related(heap, rel, FieldNamed(heap[p[1]].fields, f.name).type, f.type)}

RECURSIVE Largest(_, _)
Largest(heap, rel) ==
  LET next == Justified(heap, rel) IN IF next = rel THEN rel ELSE Largest(heap, next)

Structural(heap, s, t) ==
  Related(heap, Largest(heap, (DOMAIN heap) \X (DOMAIN heap)), s, t)
=============================================================================
