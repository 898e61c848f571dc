------------------------------ MODULE Parser ------------------------------
(***************************************************************************)
(* The recursive descent parser (internal/parser/parser.go).  A function   *)
(* of the parser is an operator of the tokens s, a position p and, where   *)
(* it matters, inTypeBoc (tb); it returns the position after what it has   *)
(* read and the syntax tree, or an error.                                  *)
(***************************************************************************)
EXTENDS Lexer

\* A syntax tree: its kind, a name, and its parts.
Node(k, x, kids) == [k |-> k, x |-> x, kids |-> kids]

Ok(p, n) == [ok |-> TRUE, p |-> p, n |-> n]
Err(p)   == [ok |-> FALSE, p |-> p, n |-> Node("error", "", <<>>)]   \* the parser stays at p
\* Go on after r, unless it is an error.
On(r, F(_, _)) == IF r.ok THEN F(r.p, r.n) ELSE r

At(s, p, t)        == p \in DOMAIN s /\ s[p].t = t
AtAny(s, p, ts)    == p \in DOMAIN s /\ s[p].t \in ts
Expect(s, p, t, n) == IF At(s, p, t) THEN Ok(p + 1, n) ELSE Err(p)

RECURSIVE Skip(_, _, _)
Skip(s, p, ts) == IF AtAny(s, p, ts) THEN Skip(s, p + 1, ts) ELSE p
SkipSemis(s, p) == Skip(s, p, {"SEMICOLON"})
SkipSeps(s, p)  == Skip(s, p, {"SEMICOLON", "COMMA"})

\* Item(k, s, p, tb): what a list of kind k consists of.  The functions that
\* call each other do so through it.
RECURSIVE Item(_, _, _, _)
Expr(s, p, tb)     == Item("expr", s, p, tb)
TypeExpr(s, p, tb) == Item("type", s, p, tb)

\* What may follow an item.
After(k, s, p) ==
  CASE k = "element"    -> SkipSeps(s, p)
    [] k = "armElement" -> SkipSemis(s, p)
    [] OTHER            -> IF At(s, p, "COMMA") THEN p + 1 ELSE p

RECURSIVE Until(_, _, _, _, _, _)
\* Items until a closing token; a missing separator is no error.
Until(k, close, s, p, tb, acc) ==
  IF At(s, p, close) \/ p \notin DOMAIN s THEN Expect(s, p, close, Node("list", "", acc))
  ELSE On(Item(k, s, p, tb), LAMBDA q, n :
         Until(k, close, s, After(k, s, q), tb, Append(acc, n)))

\* parseBocLiteral.
BocLiteral(s, p, tb) ==
  IF ~At(s, p, "LBRACE") THEN Err(p)
  ELSE On(Until("element", "RBRACE", s, SkipSeps(s, p + 1), tb, <<>>),
          LAMBDA q, n : Ok(q, Node("boc", "", n.kids)))

-----------------------------------------------------------------------------
(* Types.                                                                   *)

TypeStart == {"TYPE_IDENT", "GENERIC_IDENT", "IDENT", "LBRACKET", "HASH"}

\* parseSimpleType: x.Type, or a name with arguments.
SimpleType(s, p, tb) ==
  IF At(s, p, "IDENT") /\ At(s, p + 1, "DOT") /\ At(s, p + 2, "TYPE_IDENT")
  THEN Ok(p + 3, Node("membertype", s[p].x, <<Node("TYPE_IDENT", s[p + 2].x, <<>>)>>))
  ELSE IF At(s, p + 1, "LPAREN")
  THEN On(Until("type", "RPAREN", s, p + 2, tb, <<>>),
          LAMBDA q, n : Ok(q, Node("type", s[p].x, n.kids)))
  ELSE Ok(p + 1, Node("type", s[p].x, <<>>))

\* parseArrayOrDictType.
BracketType(s, p, tb) ==
  On(TypeExpr(s, p + 1, tb), LAMBDA q, key :
    IF At(s, q, "COLON")
    THEN On(TypeExpr(s, q + 1, tb), LAMBDA r, val :
           Expect(s, r, "RBRACKET", Node("dicttype", "", <<key, val>>)))
    ELSE Expect(s, q, "RBRACKET", Node("arraytype", "", <<key>>)))

\* parseBocTypeExpr.
BocType(s, p, tb) ==
  IF ~At(s, p, "LPAREN") THEN Err(p)
  ELSE On(Until("param", "RPAREN", s, p + 1, tb, <<>>),
          LAMBDA q, n : Ok(q, Node("boctype", "", n.kids)))

\* parseTypeExpr.
AnyType(s, p, tb) ==
  CASE AtAny(s, p, Idents)   -> SimpleType(s, p, tb)
    [] At(s, p, "LBRACKET")  -> BracketType(s, p, tb)
    [] At(s, p, "HASH")      -> BocType(s, p + 1, tb)
    [] OTHER                 -> Err(p)

RECURSIVE Constraints(_, _, _, _)
\* parseConstraintList; an error ends it where the parser stands.
Constraints(s, p, tb, acc) ==
  LET r == TypeExpr(s, p, tb)
  IN IF ~At(s, p, "TYPE_IDENT") THEN Ok(p, Node("list", "", acc))
     ELSE IF r.ok THEN Constraints(s, r.p, tb, Append(acc, r.n))
     ELSE Ok(r.p, Node("list", "", acc))

\* The default of a parameter.
Default(s, p, tb, n) ==
  IF ~At(s, p, "ASSIGN") THEN Ok(p, n)
  ELSE On(Expr(s, p + 1, tb), LAMBDA q, e :
         Ok(q, [n EXCEPT !.kids = Append(@, Node("default", "", <<e>>))]))

Param(x, t, n) == Node("param", x, <<t>> \o n.kids)
None == Node("list", "", <<>>)

\* parseBocParam.
BocParam(s, p, tb) ==
  CASE At(s, p, "GENERIC_IDENT") ->
         On(TypeExpr(s, p, tb), LAMBDA q, t :
           On(Constraints(s, q, tb, <<>>), LAMBDA r, cs : Ok(r, Param("", t, cs))))
    [] \/ At(s, p, "TYPE_IDENT") /\ ~AtAny(s, p + 1, TypeStart)
       \/ At(s, p, "IDENT") /\ At(s, p + 1, "DOT") /\ At(s, p + 2, "TYPE_IDENT")
       \/ AtAny(s, p, {"LBRACKET", "HASH"}) ->
         On(TypeExpr(s, p, tb), LAMBDA q, t : Ok(q, Param("", t, None)))
    [] At(s, p, "IDENT") /\ At(s, p + 1, "COLON") ->
         On(Expr(s, p + 2, tb), LAMBDA q, e :
           Ok(q, Node("param", s[p].x, <<Node("default", "", <<e>>)>>)))
    [] At(s, p, "IDENT") /\ ~AtAny(s, p + 1, {"DOT", "COLON"}) ->
         On(TypeExpr(s, p + 1, tb), LAMBDA q, t :
           On(IF At(s, p + 1, "GENERIC_IDENT") THEN Constraints(s, q, tb, <<>>) ELSE Ok(q, None),
              LAMBDA r, cs : Default(s, r, tb, Param(s[p].x, t, cs))))
    [] OTHER -> Err(IF At(s, p, "IDENT") THEN p + 1 ELSE p)

-----------------------------------------------------------------------------
(* Items of lists.                                                          *)

\* parseArgument.
Argument(s, p, tb) ==
  IF At(s, p, "IDENT") /\ At(s, p + 1, "COLON")
  THEN On(Expr(s, p + 2, tb), LAMBDA q, e : Ok(q, Node("arg", s[p].x, <<e>>)))
  ELSE Expr(s, p, tb)

\* parseVariantDef.
VariantDef(s, p, tb) ==
  On(Until("param", "RPAREN", s, p + 2, tb, <<>>),
     LAMBDA q, n : Ok(q, Node("variant", s[p].x, n.kids)))

\* An entry of a dictionary after the first.
Entry(s, p, tb) ==
  On(Expr(s, p, tb), LAMBDA q, key :
    IF ~At(s, q, "COLON") THEN Err(q)
    ELSE On(Expr(s, q + 1, tb), LAMBDA r, val : Ok(r, Node("entry", "", <<key, val>>))))

RECURSIVE ExprList(_, _, _, _)
\* parseExprList.
ExprList(s, p, tb, acc) ==
  On(Expr(s, p, tb), LAMBDA q, e :
    IF At(s, q, "COMMA") THEN ExprList(s, q + 1, tb, Append(acc, e))
    ELSE Ok(q, Node("list", "", Append(acc, e))))

RECURSIVE More(_, _, _, _, _)
\* The elements of an array or the entries of a dictionary after the first.
More(k, s, p, tb, acc) ==
  LET q == SkipSemis(s, p + 1)
  IN IF At(s, p, "COMMA") /\ ~At(s, q, "RBRACKET")
     THEN On(Item(k, s, q, tb), LAMBDA r, n :
            More(k, s, SkipSemis(s, r), tb, Append(acc, n)))
     ELSE Expect(s, IF At(s, p, "COMMA") THEN q ELSE p, "RBRACKET", Node(k, "", acc))

Elements(s, p, tb) ==
  LET q == SkipSemis(s, p)
  IN IF At(s, q, "RBRACKET") THEN Ok(q + 1, Node("array", "", <<>>))
     ELSE On(Expr(s, q, tb), LAMBDA r, first :
       LET c == SkipSemis(s, r)
       IN IF At(s, c, "COLON")
          THEN On(Expr(s, c + 1, tb), LAMBDA v, val :
                 More("dict", s, SkipSemis(s, v), tb, <<Node("entry", "", <<first, val>>)>>))
          ELSE More("array", s, c, tb, <<first>>))


\* parseArrayOrDict: [T]() and [K:V](), otherwise the elements.  A type and a
\* colon commit to the second.
ArrayOrDict(s, p, tb) ==
  LET key == IF AtAny(s, p + 1, {"TYPE_IDENT", "GENERIC_IDENT"}) THEN TypeExpr(s, p + 1, tb)
             ELSE Err(p)
      Parens(q, n) == IF At(s, q, "LPAREN") THEN Expect(s, q + 1, "RPAREN", n) ELSE Err(q)
  IN IF key.ok /\ At(s, key.p, "COLON")
     THEN On(TypeExpr(s, key.p + 1, tb), LAMBDA q, val :
            IF At(s, q, "RBRACKET") THEN Parens(q + 1, Node("emptydict", "", <<key.n, val>>))
            ELSE Err(q))
     ELSE IF key.ok /\ At(s, key.p, "RBRACKET") /\ At(s, key.p + 1, "LPAREN")
     THEN Parens(key.p + 1, Node("emptyarray", "", <<key.n>>))
     ELSE Elements(s, p + 1, tb)

-----------------------------------------------------------------------------
(* Match.                                                                   *)

RECURSIVE HasConditionArrow(_, _, _)

\* Mutant: the arrow of a nested arm counts.
HasConditionArrowDeep(s, p, depth) ==
  /\ p \in DOMAIN s /\ s[p].t # "SEMICOLON"
  /\ s[p].t = "FAT_ARROW" \/ HasConditionArrow(s, p + 1, depth)

\* hasConditionArrow: => comes before the end of the first statement.
HasConditionArrow(s, p, depth) ==
  /\ p \in DOMAIN s
  /\ ~(s[p].t \in {"RBRACE", "SEMICOLON"} /\ depth = 0)
  /\ IF s[p].t = "FAT_ARROW" THEN depth = 0
     ELSE HasConditionArrow(s, p + 1,
            depth + (CASE s[p].t \in {"LPAREN", "LBRACKET", "LBRACE"} -> 1
                       [] s[p].t \in {"RPAREN", "RBRACKET", "RBRACE"} -> -1
                       [] OTHER -> 0))

\* The body of an arm; one in braces loses them.
ArmBody(s, p, tb) ==
  IF At(s, p, "LBRACE")
  THEN On(BocLiteral(s, p, tb), LAMBDA q, n : Expect(s, SkipSemis(s, q), "RBRACE", n))
  ELSE Until("armElement", "RBRACE", s, p, tb, <<>>)

\* parseConditionalBoc.
ConditionalBoc(s, p, tb) ==
  LET q == SkipSemis(s, p + 1)
  IN IF HasConditionArrow(s, q, 0)
     THEN On(Expr(s, q, tb), LAMBDA r, cond :
       IF ~At(s, r, "FAT_ARROW") THEN Err(r)
       ELSE On(ArmBody(s, SkipSemis(s, r + 1), tb), LAMBDA e, n :
              Ok(e, Node("arm", "if", <<cond>> \o n.kids))))
     ELSE On(ArmBody(s, q, tb), LAMBDA e, n : Ok(e, Node("arm", "", n.kids)))

RECURSIVE ConditionalBocList(_, _, _, _)
\* parseConditionalBocList; a comma after the last arm is read as well.
ConditionalBocList(s, p, tb, acc) ==
  IF ~At(s, p, "LBRACE") THEN Ok(p, Node("list", "", acc))
  ELSE On(ConditionalBoc(s, p, tb), LAMBDA q, n :
         IF At(s, q, "COMMA") THEN ConditionalBocList(s, q + 1, tb, Append(acc, n))
         ELSE Ok(q, Node("list", "", Append(acc, n))))

\* parseMatch.
Match(s, p, tb) ==
  IF At(s, p + 1, "LBRACE")
  THEN On(ConditionalBocList(s, p + 1, tb, <<>>), LAMBDA q, n :
         Ok(q, Node("match", "", n.kids)))
  ELSE On(Expr(s, p + 1, tb), LAMBDA q, subject :
         On(ConditionalBocList(s, SkipSemis(s, q), tb, <<>>), LAMBDA r, n :
           Ok(r, Node("match", "of", <<subject>> \o n.kids))))

\* x match Type, with a body and an alternative or without.
InfixMatch(s, p, tb, base) ==
  IF ~At(s, p + 1, "TYPE_IDENT") THEN Err(p + 1)
  ELSE IF ~At(s, p + 2, "FAT_ARROW") THEN Ok(p + 2, Node("infix", s[p + 1].x, <<base>>))
  ELSE On(BocLiteral(s, p + 3, tb), LAMBDA q, body :
         IF At(s, q, "COMMA") /\ At(s, q + 1, "LBRACE")
         THEN On(BocLiteral(s, q + 1, tb), LAMBDA r, other :
                Ok(r, Node("infix", s[p + 1].x, <<base, body, other>>)))
         ELSE Ok(q, Node("infix", s[p + 1].x, <<base, body>>)))

-----------------------------------------------------------------------------
(* Expressions.                                                             *)

RECURSIVE StringParts(_, _, _)
\* splitStringInterp and buildInterpExpr: code between ${ and }, or between
\* ticks, is lexed and parsed on its own; what follows its first expression is
\* dropped.
StringParts(in, i, acc) ==
  IF i > Len(in) THEN Ok(i, Node("string", "", acc))
  ELSE IF in[i].t \notin {"DOLLAR", "TICK"}
  THEN StringParts(in, i + 1, Append(acc, Node("TEXT", in[i].x, <<>>)))
  ELSE LET end == IF in[i].t = "TICK" THEN AnnotationEnd(in, i + 1) ELSE CodeEnd(in, i + 1, 1)
       IN On(Expr(Tokenize(SubSeq(in, i + 1, end - 1)), 1, FALSE), LAMBDA q, e :
            StringParts(in, end + 1,
              Append(acc, Node("code", IF in[i].t = "TICK" THEN "debug" ELSE "", <<e>>))))

\* parsePrimary.
Primary(s, p, tb) ==
  CASE AtAny(s, p, Idents \cup {"INT_LIT", "NON_WORD"}) -> Ok(p + 1, Node(s[p].t, s[p].x, <<>>))
    [] At(s, p, "STRING_LIT") -> On(StringParts(s[p].in, 1, <<>>), LAMBDA q, n : Ok(p + 1, n))
    [] At(s, p, "LBRACE")     -> BocLiteral(s, p, tb)
    [] At(s, p, "LBRACKET")   -> ArrayOrDict(s, p, tb)
    [] At(s, p, "MATCH")      -> Match(s, p, tb)
    [] At(s, p, "LPAREN")     -> On(Expr(s, p + 1, tb), LAMBDA q, e :
                                   Expect(s, q, "RPAREN", Node("group", "", <<e>>)))
    [] OTHER                  -> Err(p)

RECURSIVE Postfix(_, _, _, _)
\* The loop of parsePostfix; a block is an argument of a member only.
Postfix(s, p, tb, base) ==
  CASE At(s, p, "DOT") ->
         IF ~AtAny(s, p + 1, Idents \cup {"NON_WORD"}) THEN Err(p + 1)
         ELSE Postfix(s, p + 2, tb, Node("member", s[p + 1].x, <<base>>))
    [] At(s, p, "LPAREN") ->
         On(Until("arg", "RPAREN", s, p + 1, tb, <<>>), LAMBDA q, n :
           Postfix(s, q, tb, Node("call", "", <<base>> \o n.kids)))
    [] At(s, p, "LBRACKET") ->
         On(Expr(s, p + 1, tb), LAMBDA q, i :
           On(Expect(s, q, "RBRACKET", Node("index", "", <<base, i>>)), LAMBDA r, n :
             Postfix(s, r, tb, n)))
    [] At(s, p, "LBRACE") /\ base.k = "member" ->
         On(BocLiteral(s, p, tb), LAMBDA q, b : Postfix(s, q, tb, Node("call", "", <<base, b>>)))
    [] At(s, p, "MATCH") ->
         On(InfixMatch(s, p, tb, base), LAMBDA q, n : Postfix(s, q, tb, n))
    [] OTHER -> Ok(p, base)

\* parseUnary.
Unary(s, p, tb) ==
  IF At(s, p, "NON_WORD") /\ s[p].x = "-"
  THEN On(Primary(s, p + 1, tb), LAMBDA q, b :
         On(Postfix(s, q, tb, b), LAMBDA r, e : Ok(r, Node("neg", "", <<e>>))))
  ELSE On(Primary(s, p, tb), LAMBDA q, b : Postfix(s, q, tb, b))

RECURSIVE Operators(_, _, _, _)

\* The loop of parseExpr: from left to right; a block after a comma is the
\* other case of a ? before it.
Operators(s, p, tb, left) ==
  IF ~At(s, p, "NON_WORD") THEN Ok(p, left)
  ELSE On(Unary(s, p + 1, tb), LAMBDA q, right :
    IF s[p].x = "?" /\ At(s, q, "COMMA") /\ At(s, q + 1, "LBRACE")
    THEN On(Unary(s, q + 1, tb), LAMBDA r, other :
           Operators(s, r, tb, Node("cond", "", <<left, right, other>>)))
    ELSE Operators(s, q, tb, Node("bin", s[p].x, <<left, right>>)))

\* parseExpr.
Operation(s, p, tb) ==
  On(Unary(s, p, tb), LAMBDA q, left : Operators(s, q, tb, left))

-----------------------------------------------------------------------------
(* Statements.                                                              *)

\* isTypedDeclStart: x Type, x y.Type or x [Type]; the bracket may also come
\* after y.
IsTypedDecl(s, p) ==
  LET b == IF ~At(s, p + 1, "IDENT") THEN p + 1 ELSE IF At(s, p + 2, "DOT") THEN p + 3 ELSE p + 2
  IN /\ At(s, p, "IDENT")
     /\ \/ AtAny(s, p + 1, {"TYPE_IDENT", "GENERIC_IDENT"})
        \/ b = p + 3 /\ At(s, b, "TYPE_IDENT")
        \/ /\ At(s, b, "LBRACKET") /\ At(s, b + 2, "RBRACKET")
           /\ AtAny(s, b + 1, {"TYPE_IDENT", "GENERIC_IDENT"})

\* parseTypedDecl.
TypedDecl(s, p, tb) ==
  On(TypeExpr(s, p + 1, tb), LAMBDA q, t :
    IF ~At(s, q, "ASSIGN") THEN Ok(q, Node("typed", s[p].x, <<t>>))
    ELSE On(Expr(s, q + 1, tb), LAMBDA r, e : Ok(r, Node("typed", s[p].x, <<t, e>>))))

\* parseBocDecl: the body is not the body of a type.
BocDecl(s, p, tb) ==
  On(BocType(s, p + 2, tb), LAMBDA q, sig :
    LET form == IF At(s, q, "ASSIGN") THEN "=" ELSE ""
    IN IF ~AtAny(s, q, {"LBRACE", "ASSIGN"}) THEN Ok(q, Node("bocdecl", s[p].x, <<sig>>))
       ELSE On(BocLiteral(s, IF form = "=" THEN q + 1 ELSE q, FALSE), LAMBDA r, body :
              Ok(r, Node("bocdecl" \o form, s[p].x, <<sig, body>>))))

RECURSIVE IdentList(_, _, _)
\* parseIdentList.
IdentList(s, p, acc) ==
  IF ~AtAny(s, p, Idents) THEN Err(p)
  ELSE LET ids == Append(acc, Node(s[p].t, s[p].x, <<>>))
       IN IF At(s, p + 1, "COMMA") THEN IdentList(s, p + 2, ids)
          ELSE Ok(p + 1, Node("names", "", ids))

\* parseMultiNameStmt, finishAssignment.
Finish(s, p, tb, target) ==
  On(ExprList(s, p + 1, tb, <<>>), LAMBDA q, n :
    Ok(q, Node(IF At(s, p, "COLON") THEN "short" ELSE "assign", "", <<target>> \o n.kids)))

\* finishShortDecl: Name: { ... } is the body of a type, and inTypeBoc stays
\* set in everything nested in it.
FinishShortDecl(s, p, tb, lhs) ==
  IF lhs.k \notin Idents \cup {"NON_WORD"} THEN Err(p)
  ELSE Finish(s, p, tb \/ (lhs.k = "TYPE_IDENT" /\ At(s, p + 1, "LBRACE")), lhs)

RECURSIVE AnnotationBody(_, _, _)
AnnotationBody(s, p, acc) ==
  IF p \notin DOMAIN s THEN Ok(p, Node("annotation", "", acc))
  ELSE On(Item("element", s, p, FALSE), LAMBDA q, n : AnnotationBody(s, SkipSeps(s, q), Append(acc, n)))

\* parseAnnotationAndDecl; it is lost before anything but a declaration.
Annotated(s, p, tb) ==
  LET body == Tokenize(s[p].in)
  IN On(AnnotationBody(body, SkipSeps(body, 1), <<>>), LAMBDA e, ann :
       On(Item("statement", s, SkipSemis(s, p + 1), tb), LAMBDA q, n :
         Ok(q, IF n.k \in {"short", "typed"} \/ (n.k \in {"bocdecl", "bocdecl="} /\ Len(n.kids) = 2)
               THEN Node("annotated", "", <<ann, n>>) ELSE n)))

\* parseStatement.
Statement(s, p, tb) ==
  CASE AtAny(s, p, {"BREAK", "CONTINUE"}) -> Ok(p + 1, Node(s[p].t, "", <<>>))
    [] At(s, p, "RETURN") ->
         IF p + 1 \notin DOMAIN s \/ AtAny(s, p + 1, {"SEMICOLON", "RBRACE"})
         THEN Ok(p + 1, Node("RETURN", "", <<>>))
         ELSE On(Expr(s, p + 1, tb), LAMBDA q, e : Ok(q, Node("RETURN", "", <<e>>)))
    [] At(s, p, "ANNOTATION") -> Annotated(s, p, tb)
    [] At(s, p, "IDENT") /\ At(s, p + 1, "COMMA") ->
         On(IdentList(s, p, <<>>), LAMBDA q, names :
           IF AtAny(s, q, {"COLON", "ASSIGN"}) THEN Finish(s, q, tb, names) ELSE Err(q))
    [] AtAny(s, p, {"GENERIC_IDENT", "TYPE_IDENT"}) /\ At(s, p + 1, "TYPE_IDENT") ->
         On(Constraints(s, p + 1, tb, <<>>),
             LAMBDA q, cs : Ok(q, Node("typeparam", s[p].x, cs.kids)))
    [] At(s, p, "GENERIC_IDENT") /\ At(s, p + 1, "HASH") ->
         On(BocType(s, p + 2, tb), LAMBDA q, sig : Ok(q, Node("typeparam", s[p].x, <<sig>>)))
    [] AtAny(s, p, {"IDENT", "TYPE_IDENT", "NON_WORD"}) /\ At(s, p + 1, "HASH") -> BocDecl(s, p, tb)
    [] IsTypedDecl(s, p) -> TypedDecl(s, p, tb)
    [] OTHER ->
         On(Expr(s, p, tb), LAMBDA q, e :
           CASE At(s, q, "COLON")  -> FinishShortDecl(s, q, tb, e)
             [] At(s, q, "ASSIGN") -> Finish(s, q, tb, e)
             [] OTHER              -> Ok(q, e))

\* parseBocElement.
BocElement(s, p, tb) ==
  IF tb /\ At(s, p, "TYPE_IDENT") /\ At(s, p + 1, "LPAREN") THEN VariantDef(s, p, tb)
  ELSE Statement(s, p, tb)

Item(k, s, p, tb) ==
  CASE k \in {"element", "armElement"} -> BocElement(s, p, tb)
    [] k = "statement"         -> Statement(s, p, tb)
    [] k = "arg"               -> Argument(s, p, tb)
    [] k = "param"             -> BocParam(s, p, tb)
    [] k = "type"              -> AnyType(s, p, tb)
    [] k \in {"expr", "array"} -> Operation(s, p, tb)
    [] k = "dict"              -> Entry(s, p, tb)
=============================================================================
