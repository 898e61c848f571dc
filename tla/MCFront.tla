------------------------------ MODULE MCFront ------------------------------
(***************************************************************************)
(* Programs: every expression with one operator over simple ones, the most *)
(* telling of them in every place an expression can have, each in every    *)
(* statement, and pairs of statements.  Words: every source of up to       *)
(* Length symbols, and longer ones over fewer symbols.                     *)
(***************************************************************************)
EXTENDS Front

CONSTANTS
  Length,        \* bound on the length of a word over all symbols
  NestedCalls    \* whether a body inside a type may begin a statement with Box(...)

N(k, x, kids) == Node(k, x, kids)
X    == N("IDENT", "x", <<>>)
Y    == N("IDENT", "y", <<>>)
Box  == N("TYPE_IDENT", "Box", <<>>)
One  == N("INT_LIT", "1", <<>>)
Text == N("TEXT", "t", <<>>)
TBox == N("type", "Box", <<>>)
TGen == N("type", "T", <<>>)
TArr == N("arraytype", "", <<TBox>>)

Call(f, args)  == N("call", "", <<f>> \o args)
Member(e)      == N("member", "y", <<e>>)
Bin(op, a, b)  == N("bin", op, <<a, b>>)
BocOf(kids)    == N("boc", "", kids)
Group(e)       == N("group", "", <<e>>)
Neg(e)         == N("neg", "", <<e>>)
Short(x, v)    == N("short", "", <<x, v>>)
Arm(kids)      == N("arm", "", kids)
If(c, kids)    == N("arm", "if", <<c>> \o kids)
Str(kids)      == N("string", "", kids)
Code(e)        == N("code", "", <<e>>)
MatchOf(kids)  == N("match", "of", kids)
Cond(a, b, c)  == N("cond", "", <<a, b, c>>)
Infix(kids)    == N("infix", "Nil", kids)
Array(kids)    == N("array", "", kids)

Atoms == {X, Box, One, Str(<<Text>>)}

\* What may stand before a dot, a call, an index or a match.
Simple == {
  Member(X), Call(X, <<>>), Call(Box, <<X, One>>), Call(X, <<N("arg", "y", <<One>>), Y>>),
  Call(Member(X), <<BocOf(<<Y>>)>>), N("index", "", <<X, One>>), Group(Bin("+", X, One)),
  Array(<<>>), Array(<<X, Y>>), N("dict", "", <<N("entry", "", <<Str(<<Text>>), X>>)>>),
  N("dict", "", <<N("entry", "", <<X, One>>), N("entry", "", <<Y, Neg(X)>>)>>),
  N("emptyarray", "", <<TBox>>), N("emptydict", "", <<TBox, TArr>>), Array(<<Box, X>>),
  BocOf(<<>>), BocOf(<<X>>), BocOf(<<Short(Y, X), Neg(Y)>>), BocOf(<<N("RETURN", "", <<>>)>>),
  BocOf(<<N("typed", "y", <<TBox>>), N("assign", "", <<Y, Array(<<X>>)>>), Group(X)>>),
  Str(<<Text, Code(X)>>), Str(<<Code(BocOf(<<X>>)), Text, Code(Bin("+", X, Y))>>),
  Str(<<N("code", "debug", <<X>>), Text>>), Str(<<Code(Call(X, <<Str(<<Text>>)>>))>>),
  Infix(<<X>>), Infix(<<X, BocOf(<<Y>>)>>), Infix(<<X, BocOf(<<Y>>), BocOf(<<One>>)>>) }

Matches == {
  N("match", "", <<If(X, <<One>>), Arm(<<Y>>)>>),
  MatchOf(<<X, If(Box, <<N("CONTINUE", "", <<>>)>>), If(Y, <<One>>)>>),
  MatchOf(<<Member(X), If(Box, <<Short(Y, X), Y>>)>>),
  N("match", "", <<If(Bin("+", X, Y), <<X, Neg(Y), N("BREAK", "", <<>>)>>), Arm(<<>>)>>),
  N("match", "", <<Arm(<<Y, N("match", "", <<If(X, <<One>>)>>)>>)>>),
  N("match", "", <<Arm(<<N("match", "", <<If(X, <<One>>), If(Y, <<X>>)>>)>>)>>) }

Chains == {
  Neg(Member(X)), Bin("-", X, Neg(Y)), Bin("+", Bin("-", X, Y), One),
  Bin("+", X, BocOf(<<Y>>)), Bin("?", X, BocOf(<<Y>>)),
  Cond(Bin("+", X, Y), BocOf(<<X>>), BocOf(<<Y>>)),
  Bin("+", Cond(X, BocOf(<<>>), BocOf(<<One>>)), Y) }

Small == Atoms \cup Simple \cup Matches \cup Chains

\* Each of them in each place, but where the grammar is not the parser's: a
\* comma ends a match or a ? only where no block may follow.
Listed(e) == e \notin Matches /\ e.k # "match" /\ ~(e.k = "bin" /\ e.x = "?") /\ e.k # "infix"
Larger ==
  LET bases == Atoms \cup Simple
  IN {Member(e) : e \in bases} \cup {Call(e, <<Y>>) : e \in Simple}
     \cup {N("index", "", <<X, e>>) : e \in Small} \cup {Group(e) : e \in Small}
     \cup {Neg(e) : e \in bases} \cup {Bin("+", e, X) : e \in bases}
     \cup {Bin("-", X, e) : e \in Simple} \cup {Call(X, <<e, Y>>) : e \in Small}
     \cup {Call(Member(Y), <<N("arg", "x", <<e>>)>>) : e \in Small}
     \cup {Array(<<e, X>>) : e \in {f \in Small : Listed(f)}}
     \cup {BocOf(<<e, X>>) : e \in Small} \cup {BocOf(<<X, e>>) : e \in Small}
     \cup {Str(<<Text, Code(e)>>) : e \in {f \in Small : f.k # "string"}}
     \cup {N("match", "", <<If(X, <<e, Y>>), Arm(<<One>>)>>) : e \in Small}
     \cup {N("match", "", <<If(X, <<e>>), Arm(<<e>>)>>) : e \in {f \in Small : f.k # "infix"}}
     \cup {N("match", "", <<If(X, <<One>>), Arm(<<Y, e>>)>>) : e \in Small}
     \cup {Cond(e, BocOf(<<X>>), BocOf(<<e>>)) : e \in Simple}

Params == {
  N("param", "x", <<TBox>>), N("param", "", <<TBox>>), N("param", "", <<TGen, TBox>>),
  N("param", "x", <<TArr, N("default", "", <<Array(<<X>>)>>)>>),
  N("param", "x", <<TGen, TBox>>), N("param", "x", <<N("default", "", <<One>>)>>),
  N("param", "", <<N("membertype", "x", <<Box>>)>>),
  N("param", "x", <<N("boctype", "", <<N("param", "", <<N("type", "Box", <<TGen, TBox>>)>>)>>)>>),
  N("param", "", <<N("dicttype", "", <<TBox, TGen>>)>>) }
Sigs == {N("boctype", "", <<>>)} \cup {N("boctype", "", <<p>>) : p \in Params}
        \cup {N("boctype", "", <<p, N("param", "", <<TBox>>)>>) : p \in Params}

Decls ==
  {Short(Y, e) : e \in Small} \cup {N("assign", "", <<Member(X), e>>) : e \in Small}
  \cup {N("RETURN", "", <<e>>) : e \in Small}
  \cup {N("typed", "x", <<t, e>>) : t \in {TBox, TArr, N("membertype", "y", <<Box>>)},
                                    e \in {X, Neg(X), BocOf(<<X>>)}}
  \cup {N("bocdecl", "x", <<s>>) : s \in Sigs}
  \cup {N(k, "x", <<s, BocOf(<<Call(Box, <<X>>)>>)>>) : s \in Sigs, k \in {"bocdecl", "bocdecl="}}
  \cup {N("bocdecl", "+", <<s, BocOf(<<X>>)>>) : s \in Sigs}
  \cup {N(k, "", <<N("names", "", <<X, Y>>), One, e>>) : e \in Atoms, k \in {"short", "assign"}}
  \cup {N("typed", "x", <<TBox>>), N("typed", "x", <<TArr>>), N("BREAK", "", <<>>)}

\* The bodies of types: variants, parameters, methods, types inside of types.
TypeBodies ==
  LET v(s) == N("variant", "Box", s.kids)
      call == BocOf(<<Call(Box, <<X>>)>>)
      method == N("bocdecl", "x", <<N("boctype", "", <<>>), call>>)
      nested == Short(N("TYPE_IDENT", "Nil", <<>>), BocOf(<<v(N("boctype", "", <<>>)), method>>))
  IN {<<v(s), method>> : s \in Sigs}
     \cup {<<N("typeparam", "T", <<TBox>>), v(N("boctype", "", <<>>)), N("typed", "x", <<TGen>>)>>,
           <<N("typeparam", "T", <<N("boctype", "", <<>>)>>), nested, method>>,
           <<N("GENERIC_IDENT", "T", <<>>), Short(X, BocOf(<<Short(Y, Call(Box, <<X>>)), Y>>))>>}
     \cup (IF NestedCalls THEN {<<Short(X, call)>>} ELSE {})

File(kids, type) == [elems |-> kids, type |-> type]
MCPrograms ==
  {File(<<e>>, FALSE) : e \in Decls} \cup {File(<<Short(Y, e)>>, FALSE) : e \in Larger}
  \cup {File(<<Short(Y, BocOf(<<Neg(X), Group(e)>>)), Call(Member(Group(e)), <<e>>)>>, FALSE) :
          e \in Larger}
  \cup {File(<<d, e>>, FALSE) : d \in Small, e \in {X, Neg(X), Group(X), Array(<<X>>)} \cup Matches}
  \cup {File(<<Short(Y, d), e>>, FALSE) : d \in Small, e \in {Neg(X), Group(X), BocOf(<<X>>)}}
  \cup {File(<<N("annotated", "", <<N("annotation", "", <<d>>), Short(Y, e)>>), X>>, FALSE) :
          d \in {X, Short(X, One), Call(Box, <<One>>)}, e \in Simple}
  \cup {File(b, TRUE) : b \in TypeBodies}
  \cup {File(<<Short(N("TYPE_IDENT", "Nil", <<>>), BocOf(b)), Call(Box, <<X>>)>>, FALSE) :
          b \in TypeBodies}

Symbols == {Name("x"), Name("Box"), Name("T"), Name("-"), Name("?"), Sym("INT_LIT", "1")}
           \cup {Punct(t) : t \in {"LBRACE", "RBRACE", "LPAREN", "RPAREN", "LBRACKET", "RBRACKET",
                                  "COMMA", "COLON", "ASSIGN", "DOT", "HASH", "FAT_ARROW", "MATCH",
                                  "NL"}}

\* A constraint with arguments that cannot be read is dropped.
Constrained(w) ==
  \E i \in 1 .. Len(w) - 2 : /\ w[i].t \in {"TYPE_IDENT", "GENERIC_IDENT"}
                            /\ w[i + 1].t = "TYPE_IDENT" /\ w[i + 2].t = "LPAREN"
WordsOver(symbols, n) == UNION {[1 .. i -> symbols] : i \in 0 .. n}
Some(names, types) == {Name(x) : x \in names} \cup {Punct(t) : t \in types}

\* Longer words, over the symbols that mean something together: brackets and
\* declarations; signatures; conditionals; the inside of a match.
Themes ==
  WordsOver(Some({"x", "Box"}, {"LBRACKET", "RBRACKET", "LPAREN", "RPAREN", "COLON", "NL"}), Length + 2)
  \cup WordsOver(Some({"x", "Box"}, {"HASH", "LPAREN", "RPAREN", "ASSIGN", "LBRACE", "RBRACE"}), Length + 2)
  \cup WordsOver(Some({"x", "-", "?"}, {"LBRACE", "RBRACE", "COMMA", "NL"}), Length + 2)
  \cup {<<Punct("MATCH"), Punct("LBRACE")>> \o w :
          w \in WordsOver(Some({"x"}, {"LBRACE", "RBRACE", "FAT_ARROW", "MATCH", "NL"}), Length + 3)}
MCWords == {w \in WordsOver(Symbols, Length) \cup Themes : ~Constrained(w)}
=============================================================================
