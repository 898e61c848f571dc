------------------------------ MODULE MCSema ------------------------------
(***************************************************************************)
(* Files of up to Length elements from a menu: every closed set of them, in *)
(* every order in which a name is declared before it is used, except that  *)
(* a field may be declared before its type and a method be called before   *)
(* it is declared if its signature gives it a return.                      *)
(***************************************************************************)
EXTENDS Sema

CONSTANTS
  Length,       \* bound on the length of a file
  Twins,        \* whether two recursive types of the same structure may meet
  OwnParams     \* whether name: { p T ... } may have a T of the same file

F(x, t) == Field(x, t, FALSE)
I == F("n", TypInt)
T(x) == TName(x)

Types ==
  { TypeDecl("A", <<I>>), TypeDecl("B", <<I, F("s", TypString)>>),
    TypeDecl("W", <<F("a", T("A"))>>), TypeDecl("X", <<F("a", T("B")), I>>),
    TypeDecl("N", <<I, F("next", T("N"))>>),
    TypeDecl("M", <<I, F("next", T("N")), F("s", TypString)>>),
    TypeDecl("P", <<F("q", T("Q"))>>), TypeDecl("Q", <<F("p", T("P")), I>>),
    TypeDecl("G", <<F("get", Boc(<<>>, <<TypInt>>))>>),
    TypeDecl("H", <<F("get", Boc(<<>>, <<TypString>>)), I>>),
    TypeDecl("L", <<F("all", Array(T("A"))), F("d", Dict(TypInt, Option(T("A"))))>>),
    TypeDecl("R", <<F("all", Array(T("B"))), F("d", Dict(TypInt, Option(T("B"))))>>),
    Variant("V", <<Case("Cat", <<I>>), Case("Dog", <<>>)>>),
    Variant("U", <<Case("Fox", <<I>>), Case("Cat", <<F("s", TypString)>>)>>) }
  \cup (IF Twins THEN {TypeDecl("K", <<I, F("next", T("K"))>>)} ELSE {})

Int1 == Lit(TypInt)
Str1 == Lit(TypString)
Methods ==
  { Sig("one", <<>>, <<TypInt>>, Int1), Colon("inferred", <<>>, Call("one", <<>>)),
    Sig("make", <<>>, <<T("A")>>, Call("B", <<Int1, Str1>>)),
    Sig("take", <<F("a", T("A"))>>, <<>>, FieldOf(Var("a"), "n")),
    Sig("wrong", <<>>, <<TypInt>>, Str1), Colon("twice", <<I>>, Var("n")),
    Sig("pet", <<F("v", T("V"))>>, <<TypInt>>, Int1), Sig("quiet", <<>>, <<>>, Lit(TypUnit)) }
  \cup (IF OwnParams THEN {Colon("own", <<F("a", T("A"))>>, FieldOf(Var("a"), "n"))} ELSE {})

New(t) == Call(t, <<>>)
Checks ==
  { Check("x", T("A"), New("B")), Check("x", T("B"), New("A")), Check("x", T("W"), New("X")),
    Check("x", T("N"), New("M")), Check("x", T("P"), New("Q")), Check("x", T("G"), New("H")),
    Check("x", T("L"), New("R")), Check("x", T("R"), New("L")), Check("x", T("A"), New("Q")),
    Check("x", TypInt, Call("one", <<>>)), Decl("x", Call("quiet", <<>>)), Check("x", TypString, Call("inferred", <<>>)),
    Check("x", T("A"), Call("make", <<>>)), Decl("x", Call("take", <<New("B")>>)),
    Decl("x", Call("take", <<New("W")>>)), Check("x", TypInt, FieldOf(FieldOf(New("X"), "a"), "n")),
    Check("x", TypString, FieldOf(New("X"), "n")), Decl("x", FieldOf(New("A"), "s")),
    Check("x", TypInt, Call("twice", <<Str1>>)), Decl("x", Call("Cat", <<Int1>>)),
    Check("x", T("V"), Call("Cat", <<Int1>>)), Check("x", T("U"), Call("Cat", <<Str1>>)),
    Check("x", T("U"), Call("Cat", <<Int1>>)), Check("x", T("V"), New("Dog")),
    Decl("x", Qualified("U", "Cat", <<Str1>>)), Decl("x", Call("pet", <<Call("Cat", <<Int1>>)>>)),
    Check("x", Boc(<<TypInt>>, <<TypInt>>), BocLit(<<I>>, Var("n"))),
    Check("x", Boc(<<TypInt>>, <<TypString>>), BocLit(<<I>>, Var("n"))),
    Check("x", Boc(<<>>, <<T("A")>>), BocLit(<<>>, New("B"))),
    Check("x", T("A"), BocLit(<<I>>, Var("n"))) }
  \cup (IF Twins THEN {Check("x", T("K"), New("N")), Check("x", T("N"), New("K"))} ELSE {})

-----------------------------------------------------------------------------
RECURSIVE NamesOf(_)
NamesOf(te) == IF te.k = "name" THEN {te.fields[1]}
               ELSE UNION {NamesOf(te.params[i]) : i \in DOMAIN te.params}
                    \cup UNION {NamesOf(te.returns[i]) : i \in DOMAIN te.returns}
RECURSIVE Called(_)
Called(v) == (CASE v.e = "call" -> {v.x} [] v.e = "qualified" -> NamesOf(v.t) [] OTHER -> {})
             \cup UNION {Called(v.args[i]) : i \in DOMAIN v.args}
FieldTypes(fs) == UNION {NamesOf(fs[i].type) : i \in DOMAIN fs}
Mentions(el) == FieldTypes(el.fields) \cup FieldTypes(el.params)
                \cup UNION {NamesOf(el.ret[i]) : i \in DOMAIN el.ret} \cup Called(el.v)

\* The names an element declares; a shared constructor needs both variants.
Provides(el) == {el.x} \cup {el.cases[i].x : i \in DOMAIN el.cases}
Names(set) == UNION {Provides(el) : el \in set}
Closed(set) ==
  /\ \A el, other \in set : el # other => el.x # other.x
  /\ \A el \in set : Mentions(el) \subseteq Names(set)

\* What has to be declared before el: what its value mentions, and in turn
\* the types of their fields; a method with a builtin return may come later.
Late(el) == el.d = "sig" /\ el.ret # <<>> /\ NamesOf(el.ret[1]) = {} /\ FieldTypes(el.params) = {}
RECURSIVE Needs(_, _)
Needs(set, names) ==
  LET more == names \cup UNION {Mentions(el) \cup Provides(el) :
                                  el \in {e \in set : IsType(e) /\ Provides(e) \cap names # {}}}
  IN IF more = names THEN names ELSE Needs(set, more)
Before(f, i, j) == Provides(f[j]) \cap Needs(ToSet(f), Mentions(f[i])) = {}
Ordered(f) ==
  \A i \in DOMAIN f : IsType(f[i]) \/ \A j \in i + 1 .. Len(f) : Late(f[j]) \/ Before(f, i, j)

\* Up to Length - 1 types and methods, and at most one value.
RECURSIVE Upto(_, _)
Upto(n, from) ==
  IF n = 0 THEN {{}}
  ELSE LET less == Upto(n - 1, from) IN less \cup {set \cup {el} : set \in less, el \in from}
Sets == {set \cup c : set \in Upto(Length - 1, Types \cup Methods),
                      c \in {{}} \cup {{el} : el \in Checks}}
MCFiles == {f \in UNION {SetToSeqs(set) : set \in {x \in Sets : Closed(x)}} : Ordered(f)}
=============================================================================
