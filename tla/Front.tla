------------------------------- MODULE Front -------------------------------
(***************************************************************************)
(* The front end of the compiler on one file: the lexer reads token after  *)
(* token, then the parser element after element (ParseFile).               *)
(*                                                                         *)
(* The reference is the grammar (spec/02-grammar.ebnf.md): Show writes a   *)
(* syntax tree down in a layout that the rules for newlines allow.         *)
(***************************************************************************)
EXTENDS Parser

CONSTANTS
  Programs,    \* the files: [elems |-> syntax trees, type |-> BOOLEAN]
  Words        \* the sources that are not printed from a program

\* Statements on one line; one per line; and a newline wherever one may be.
Layouts == {"tight", "lines", "loose"}

VARIABLES
  program,   \* the file, or None
  source,    \* its symbols
  pos,       \* the next symbol, then the next token
  toks,      \* the tokens read
  elems,     \* the elements parsed
  phase      \* "lex", "parse", "done" or "error"
vars == <<program, source, pos, toks, elems, phase>>

-----------------------------------------------------------------------------
(* A syntax tree as source.                                                 *)

TypeNames == {"Box", "Nil"}
Generics  == {"T"}
OpNames   == {"+", "-", "?"}

\* LookupIdent, and the class of an operator.
Name(x) == Sym(CASE x \in TypeNames -> "TYPE_IDENT" [] x \in Generics -> "GENERIC_IDENT"
                 [] x \in OpNames -> "NON_WORD" [] OTHER -> "IDENT", x)

\* One-symbol lists, with the newline that may come with them.
P(t)         == <<Punct(t)>>
Loose(l)     == IF l = "loose" THEN <<Punct("COMMENT"), NL>> ELSE <<>>
Break(l)     == IF l = "tight" THEN <<>> ELSE <<NL>>
Separator(l) == IF l = "tight" THEN P("SEMICOLON") ELSE <<NL>> \o Loose(l)
Mark(t, l)   == P(t) \o Loose(l)

Joined(parts, sep) ==
  FoldLeft(LAMBDA out, i : IF i = 1 THEN parts[1] ELSE out \o sep \o parts[i],
           <<>>, [i \in DOMAIN parts |-> i])

RECURSIVE Show(_, _)
Each(kids, l) == [i \in DOMAIN kids |-> Show(kids[i], l)]
List(kids, l) == Joined(Each(kids, l), Mark("COMMA", l))
Args(kids, l) == P("LPAREN") \o List(kids, l) \o P("RPAREN")
Body(kids, l) == Joined(Each(kids, l), Separator(l))

\* An arm loses the braces of its body: one that begins with a block has its own.
ShowArm(n, l) ==
  LET body == IF n.x = "if" THEN Tail(n.kids) ELSE n.kids
      braced == \/ n.x = "if" /\ Len(body) # 1
                \/ body # <<>> /\ Show(body[1], l)[1] = Punct("LBRACE")
  IN P("LBRACE") \o Break(l)
     \o (IF n.x = "if" THEN Show(n.kids[1], l) \o Mark("FAT_ARROW", l) ELSE <<>>)
     \o (IF braced
         THEN P("LBRACE") \o Break(l) \o Body(body, l) \o Break(l) \o P("RBRACE")
         ELSE Body(body, l))
     \o Break(l) \o P("RBRACE")

\* A subject that is a member ends its line: a block would be its argument.
ShowMatch(n, l) ==
  LET arms == IF n.x = "of" THEN Tail(n.kids) ELSE n.kids
  IN P("MATCH")
     \o (IF n.x # "of" THEN <<>>
         ELSE Show(n.kids[1], l) \o (IF n.kids[1].k = "member" THEN <<NL>> ELSE Break(l)))
     \o List(arms, l)

\* The parentheses around a block are optional after a member.
ShowCall(n, l) ==
  LET args == Tail(n.kids)
  IN Show(n.kids[1], l)
     \o (IF l # "tight" /\ n.kids[1].k = "member" /\ Len(args) = 1 /\ args[1].k = "boc"
         THEN Show(args[1], l) ELSE Args(args, l))

ShowParam(n, l) ==
  (IF n.x = "" THEN <<>> ELSE <<Name(n.x)>>)
  \o (IF n.kids[1].k = "default" THEN Mark("COLON", l) \o Show(n.kids[1].kids[1], l)
      ELSE FoldLeft(LAMBDA out, k :
             out \o (IF k.k = "default" THEN Mark("ASSIGN", l) \o Show(k.kids[1], l)
                     ELSE Show(k, l)), <<>>, n.kids))

ShowType(n, l) ==
  CASE n.k = "type" -> <<Name(n.x)>> \o (IF n.kids = <<>> THEN <<>> ELSE Args(n.kids, l))
    [] n.k = "membertype" -> <<Name(n.x)>> \o Mark("DOT", l) \o Show(n.kids[1], l)
    [] n.k = "arraytype"  -> P("LBRACKET") \o Show(n.kids[1], l) \o P("RBRACKET")
    [] n.k = "dicttype"   -> P("LBRACKET") \o Show(n.kids[1], l) \o Mark("COLON", l)
                             \o Show(n.kids[2], l) \o P("RBRACKET")
    [] n.k = "boctype"    -> Mark("HASH", l) \o Args(n.kids, l)
    [] n.k = "param"      -> ShowParam(n, l)

ShowStatement(n, l) ==
  CASE n.k \in {"BREAK", "CONTINUE"} -> P(n.k)
    [] n.k = "RETURN"     -> P("RETURN") \o Joined(Each(n.kids, l), <<>>)
    [] n.k = "names"      -> List(n.kids, l)
    [] n.k \in {"short", "assign"} ->
         Show(n.kids[1], l) \o Mark(IF n.k = "short" THEN "COLON" ELSE "ASSIGN", l)
         \o List(Tail(n.kids), l)
    [] n.k = "typed" -> <<Name(n.x)>> \o Show(n.kids[1], l)
         \o (IF Len(n.kids) = 1 THEN <<>> ELSE Mark("ASSIGN", l) \o Show(n.kids[2], l))
    [] n.k \in {"bocdecl", "bocdecl="} -> <<Name(n.x)>> \o Show(n.kids[1], l)
         \o (IF n.k = "bocdecl=" THEN Mark("ASSIGN", l) ELSE <<>>)
         \o Joined(Each(Tail(n.kids), l), <<>>)
    [] n.k = "variant"    -> <<Name(n.x)>> \o Args(n.kids, l)
    [] n.k = "typeparam"  -> <<Name(n.x)>> \o Joined(Each(n.kids, l), <<>>)
    [] n.k = "annotation" -> P("TICK") \o Body(n.kids, l) \o P("TICK") \o Break(l)
    [] n.k = "annotated"  -> Joined(Each(n.kids, l), <<>>)

ShowExpr(n, l) ==
  CASE n.k = "string" -> <<Sym("QUOTE", "'")>> \o Joined(Each(n.kids, l), <<>>)
                         \o <<Sym("QUOTE", "'")>>
    [] n.k = "code"   -> IF n.x = "debug" THEN P("TICK") \o Show(n.kids[1], l) \o P("TICK")
                         ELSE P("DOLLAR") \o Show(n.kids[1], l) \o P("RBRACE")
    [] n.k = "neg"    -> <<Name("-")>> \o Show(n.kids[1], l)
    [] n.k = "bin"    -> Show(n.kids[1], l) \o <<Name(n.x)>> \o Show(n.kids[2], l)
    [] n.k = "cond"   -> Show(n.kids[1], l) \o <<Name("?")>> \o List(Tail(n.kids), l)
    [] n.k = "member" -> Show(n.kids[1], l) \o Mark("DOT", l) \o <<Name(n.x)>>
    [] n.k = "index"  -> Show(n.kids[1], l) \o P("LBRACKET") \o Show(n.kids[2], l) \o P("RBRACKET")
    [] n.k = "group"  -> Args(n.kids, l)
    [] n.k = "boc"    -> P("LBRACE") \o Break(l) \o Body(n.kids, l) \o Break(l) \o P("RBRACE")
    [] n.k \in {"array", "dict"} ->
         Mark("LBRACKET", l) \o List(n.kids, l)
         \o (IF l = "loose" /\ n.kids # <<>> THEN Mark("COMMA", l) ELSE <<>>) \o P("RBRACKET")
    [] n.k = "entry"      -> Joined(Each(n.kids, l), Mark("COLON", l))
    [] n.k \in {"emptyarray", "emptydict"} ->
         P("LBRACKET") \o Joined(Each(n.kids, l), P("COLON")) \o P("RBRACKET") \o Args(<<>>, l)
    [] n.k = "infix" -> Show(n.kids[1], l) \o P("MATCH") \o <<Name(n.x)>>
         \o (IF Len(n.kids) = 1 THEN <<>> ELSE Mark("FAT_ARROW", l) \o List(Tail(n.kids), l))
    [] n.k = "match"      -> ShowMatch(n, l)
    [] n.k = "arm"        -> ShowArm(n, l)
    [] n.k = "call"       -> ShowCall(n, l)
    [] n.k = "arg"        -> <<Name(n.x)>> \o Mark("COLON", l) \o Show(n.kids[1], l)
    [] OTHER              -> <<Sym(n.k, n.x)>>

Show(n, l) ==
  IF n.k \in {"type", "membertype", "arraytype", "dicttype", "boctype", "param"}
  THEN ShowType(n, l)
  ELSE IF n.k \in {"BREAK", "CONTINUE", "RETURN", "names", "short", "assign", "typed", "bocdecl",
                   "bocdecl=", "variant", "typeparam", "annotation", "annotated"}
  THEN ShowStatement(n, l) ELSE ShowExpr(n, l)

-----------------------------------------------------------------------------
(* Lexing and parsing.                                                      *)

NoProgram == [elems |-> <<>>, type |-> FALSE]

Init ==
  /\ \/ /\ program \in Programs
        /\ \E l \in Layouts : source = Body(program.elems, l)
     \/ program = NoProgram /\ source \in Words
  /\ pos = 1 /\ toks = <<>> /\ elems = <<>> /\ phase = "lex"

\* tokenize: the EOF ends it.
LexToken ==
  /\ phase = "lex"
  /\ LET n == NextToken(source, pos, IF toks = <<>> THEN "EOF" ELSE toks[Len(toks)].t)
     IN IF n.tok = EOF THEN /\ phase' = "parse" /\ pos' = SkipSeps(toks, 1) /\ UNCHANGED toks
        ELSE /\ toks' = Append(toks, n.tok) /\ pos' = n.pos /\ UNCHANGED phase
  /\ UNCHANGED <<program, source, elems>>

\* ParseFile, for a file of a type after EnableTypeBoc.
ParseElement ==
  /\ phase = "parse"
  /\ IF pos \notin DOMAIN toks THEN phase' = "done" /\ UNCHANGED <<pos, elems>>
     ELSE LET r == Item("element", toks, pos, program.type)
          IN IF r.ok THEN /\ elems' = Append(elems, r.n) /\ pos' = SkipSeps(toks, r.p)
                          /\ UNCHANGED phase
             ELSE phase' = "error" /\ UNCHANGED <<pos, elems>>
  /\ UNCHANGED <<program, source, toks>>

Next == LexToken \/ ParseElement
Spec == Init /\ [][Next]_vars

-----------------------------------------------------------------------------
TypeOK ==
  /\ phase \in {"lex", "parse", "done", "error"}
  /\ pos \in 1 .. Len(source) + Len(toks) + 1

\* What a program is printed as, in any layout, is read as that program:
\* newlines separate statements and nothing else, commas end up in the list
\* they belong to, braces are blocks, arms or bodies of types.
RoundTrip ==
  /\ TypeOK
  /\ program # NoProgram =>
       /\ phase # "error"
       /\ phase = "done" => elems = program.elems

RECURSIVE Leaves(_)
\* The names, literals and operators of a source, also inside of strings.
Leaves(symbols) ==
  FoldLeft(LAMBDA out, y :
             IF y.t \in Idents \cup {"INT_LIT", "NON_WORD", "TEXT", "BREAK", "CONTINUE", "RETURN"}
             THEN Append(out, y.x) ELSE out \o Leaves(y.in), <<>>, symbols)

\* Nothing that was written is lost: every name, literal and operator of a
\* file that is accepted is in its syntax tree, in the order of the source.
NothingLost ==
  phase = "done" => Leaves(toks) = Leaves(Tokenize(Body(elems, "lines")))

RECURSIVE ParseAll(_, _, _, _)
ParseAll(s, p, tb, acc) ==
  IF p \notin DOMAIN s THEN acc
  ELSE LET r == Item("element", s, p, tb)
       IN IF r.ok THEN ParseAll(s, SkipSeps(s, r.p), tb, Append(acc, r.n)) ELSE Append(acc, r.n)

RECURSIVE Parts(_), FirstOf(_)
Parts(n) == {n} \cup UNION {Parts(n.kids[i]) : i \in DOMAIN n.kids}

\* The word an expression begins with, if it begins with one.
FirstOf(n) ==
  IF n.k \in {"member", "call", "index", "bin", "cond", "infix", "entry"} THEN FirstOf(n.kids[1]) ELSE n.k

\* Syntax trees of sources that have two readings; all are accepted by the
\* parser, and none is meant by the grammar.
\*   a match without arms;
\*   a variable declared with the name of a variable for its type, which is
\*   what x y [Box] is read as, followed by an array;
\*   a bracket that begins with a type name: a newline or a comma in it decides
\*   whether it is a literal or the type of an empty array or dictionary;
\*   a match over a subject in the condition of an arm: a newline ahead of its
\*   arms hides the => of the outer one.
Ambiguous(n) ==
  LET types == {"TYPE_IDENT", "GENERIC_IDENT"} IN
     \/ n.k = "match" /\ \A i \in DOMAIN n.kids : n.kids[i].k # "arm"
     \/ n.k = "typed" /\ n.kids[1].k = "type" /\ n.kids[1].x \notin TypeNames \cup Generics
     \/ n.k = "dict" /\ FirstOf(n.kids[1]) \in types
     \/ /\ n.k = "call" /\ n.kids[1].k = "array" /\ Len(n.kids[1].kids) = 1
        /\ FirstOf(n.kids[1].kids[1]) \in types
     \/ n.k = "arm" /\ n.x = "if" /\ \E k \in Parts(n.kids[1]) : k.k = "match" /\ k.x = "of"

\* What is accepted has one reading: its syntax tree printed in another layout
\* is accepted as the same tree.
OneReading ==
  phase = "done" /\ (\A i \in DOMAIN elems : \A n \in Parts(elems[i]) : ~Ambiguous(n)) =>
    \A l \in Layouts :
      LET s == Tokenize(Body(elems, l)) IN ParseAll(s, SkipSeps(s, 1), program.type, <<>>) = elems

=============================================================================
