------------------------------- MODULE Lexer -------------------------------
(***************************************************************************)
(* The lexer (internal/lexer/lexer.go) on a source in which the characters *)
(* of a word, a number or a run of operator characters are already one     *)
(* symbol.  What is left is what depends on more than one symbol: the      *)
(* semicolon that takes the place of a newline, comments, strings with     *)
(* interpolated code, annotations.                                         *)
(***************************************************************************)
EXTENDS Integers, Sequences, SequencesExt

\* A symbol of the source or a token: its type, its text, and for a string or
\* an annotation the symbols inside.  NL, COMMENT, QUOTE, TICK, DOLLAR (${)
\* and TEXT are types of symbols only; EOF and SEMICOLON of tokens.  DOLLAR and
\* TEXT stand for what is between quotes: outside, the two characters of DOLLAR
\* are symbols of their own, a NON_WORD and an LBRACE.
Sym(t, x)  == [t |-> t, x |-> x, in |-> <<>>]
Punct(t)   == Sym(t, "")
NL         == Punct("NL")
EOF        == Punct("EOF")
Semicolon  == Punct("SEMICOLON")

Idents == {"IDENT", "TYPE_IDENT", "GENERIC_IDENT"}

\* shouldInsertSemicolon: the tokens after which a newline ends a statement.
Enders == Idents \cup {"INT_LIT", "STRING_LIT", "NON_WORD", "BREAK", "CONTINUE", "RETURN",
                       "RPAREN", "RBRACKET", "RBRACE"}

RECURSIVE CodeEnd(_, _, _)
\* The closing brace of ${ ... }; quotes have no meaning in between.
CodeEnd(src, p, depth) ==
  IF p > Len(src) THEN p
  ELSE IF src[p].t = "RBRACE" /\ depth = 1 THEN p
  ELSE CodeEnd(src, p + 1, depth + (CASE src[p].t \in {"LBRACE", "DOLLAR"} -> 1
                                      [] src[p].t = "RBRACE" -> -1 [] OTHER -> 0))

RECURSIVE StringEnd(_, _, _)
\* scanString: the quote that closes the string, not one inside ${ ... }.
StringEnd(src, p, quote) ==
  IF p > Len(src) \/ src[p] = quote THEN p
  ELSE StringEnd(src, IF src[p].t = "DOLLAR" THEN CodeEnd(src, p + 1, 1) + 1 ELSE p + 1, quote)

RECURSIVE AnnotationEnd(_, _)
AnnotationEnd(src, p) ==
  IF p > Len(src) \/ src[p].t = "TICK" THEN p ELSE AnnotationEnd(src, p + 1)

\* scanString and scanAnnotation: one token for what is between the delimiters.
Delimited(src, p, end, t) ==
  IF end > Len(src) THEN [tok |-> Punct("ILLEGAL"), pos |-> end]
  ELSE [tok |-> [t |-> t, x |-> src[p].x, in |-> SubSeq(src, p + 1, end - 1)], pos |-> end + 1]

RECURSIVE NextToken(_, _, _)
\* Next: the token at p, and the position after it.
NextToken(src, p, prev) ==
  IF p > Len(src)
  THEN [tok |-> IF prev \in Enders THEN Semicolon ELSE EOF, pos |-> p]
  ELSE CASE src[p].t = "NL" /\ prev \in Enders -> [tok |-> Semicolon, pos |-> p + 1]
         [] src[p].t \in {"NL", "COMMENT"} /\ ~(src[p].t = "NL" /\ prev \in Enders) ->
              NextToken(src, p + 1, prev)
         [] src[p].t = "QUOTE" -> Delimited(src, p, StringEnd(src, p + 1, src[p]), "STRING_LIT")
         [] src[p].t = "TICK"  -> Delimited(src, p, AnnotationEnd(src, p + 1), "ANNOTATION")
         [] OTHER -> [tok |-> src[p], pos |-> p + 1]

RECURSIVE TokensFrom(_, _, _)
TokensFrom(src, p, prev) ==
  LET n == NextToken(src, p, prev)
  IN IF n.tok = EOF THEN <<>> ELSE <<n.tok>> \o TokensFrom(src, n.pos, n.tok.t)

\* Tokenize, without the EOF at the end.
Tokenize(src) == TokensFrom(src, 1, "EOF")
=============================================================================
