------------------------- MODULE MCDefiniteAssign -------------------------
(***************************************************************************)
(* Bodies of up to Length elements over a parameter p and the variables b  *)
(* (a Bar: one field f) and w (a Wrap: a Bar in g, a scalar n).            *)
(***************************************************************************)
EXTENDS DefiniteAssign

CONSTANTS
  Length,
  NoDefault     \* whether a match may lack its default arm

Bar == "Bar"  Wrap == "Wrap"  Opt == "Opt"
F(name, type) == [name |-> name, type |-> type, default |-> FALSE]
MCFields == [t \in {Bar, Wrap, Opt} |->
               CASE t = Bar  -> <<F("f", Scalar)>>
                 [] t = Wrap -> <<F("g", Bar), F("n", Scalar)>>
                 [] t = Opt  -> <<[F("d", Scalar) EXCEPT !.default = TRUE], F("f", Scalar)>>]
MCParams == [x \in {"p"} |-> Bar]

OptFirst == <<Decl("b", New(Opt, <<Named("f", Lit)>>))>>
First == {<<Decl("b", New(Bar, <<>>))>>, <<Decl("b", New(Bar, <<Pos(Lit)>>))>>,
          OptFirst, <<Decl("b", Get(Bar))>>}
Second == {<<>>, <<Decl("w", New(Wrap, <<>>))>>, <<Decl("w", New(Wrap, <<Pos(Var("b"))>>))>>,
           <<Decl("w", New(Wrap, <<Pos(Var("p")), Pos(Lit)>>))>>,
           <<Decl("w", New(Wrap, <<Named("n", Lit)>>))>>,
           <<Decl("w", New(Wrap, <<Pos(New(Bar, <<>>))>>))>>}

SetB == Set("b", <<"f">>, Lit)
ReadB == Use(Read("b", <<"f">>))
PassB == Use(Pass(<<Pos(Var("b"))>>))
Cond(x, y) == Block("cond", <<Arm(Lit, x), Arm(NoCond, y)>>)
Match(x, y, z) == Block("match", <<Arm(Lit, x), Arm(Lit, y), Arm(NoCond, z)>>)

BElems ==
  {SetB, ReadB, PassB, Assign("b", Get(Bar)), Decl("c", Var("b")), Use(Read("c", <<"f">>))}
  \cup {Cond(x, y) : x, y \in {<<SetB>>, <<ReadB>>, <<>>}}
  \cup {Match(<<SetB>>, x, <<SetB, ReadB>>) :
          x \in {<<SetB>>, <<PassB>>, <<Cond(<<SetB>>, <<SetB>>)>>}}
  \cup {Block("infix", <<Arm(Lit, <<ReadB>>)>>)}
  \cup {Block("literal", <<Arm(Lit, x)>>) : x \in {<<SetB>>, <<SetB, ReadB>>}}
  \cup (IF NoDefault THEN {Block("match", <<Arm(Lit, <<SetB>>), Arm(Lit, <<SetB>>)>>)} ELSE {})

WElems ==
  {Set("w", <<"g">>, Var("b")), Set("w", <<"g">>, Var("p")),
   Set("w", <<"g">>, New(Bar, <<Pos(Lit)>>)),
   Set("w", <<"g", "f">>, Lit), Set("w", <<"n">>, Lit),
   Use(Read("w", <<"g", "f">>)), Use(Pass(<<Pos(Var("w"))>>)),
   Cond(<<Set("w", <<"g">>, Var("p"))>>, <<Set("w", <<"g", "f">>, Lit)>>)}

RECURSIVE BodiesOf(_, _)
BodiesOf(elems, n) ==
  IF n = 0 THEN {<<>>} ELSE {<<e>> \o rest : e \in elems, rest \in BodiesOf(elems, n - 1)}

\* A name is declared before its use, and keeps its type.
WellTyped(b) == \A i \in DOMAIN b :
  /\ b[i] = Use(Read("c", <<"f">>)) => \E j \in 1 .. i - 1 : b[j] = Decl("c", Var("b"))
  /\ b[i].s = "assign" => b[1] # OptFirst[1]

MCBodies ==
  {x \in {f \o t : f \in First, t \in BodiesOf(BElems, Length)} : WellTyped(x)}
  \cup {f \o s \o <<m>> \o t : f \in First \ {OptFirst},
          s \in Second \ {<<>>}, m \in {SetB, ReadB}, t \in BodiesOf(WElems, Length - 1)}
=============================================================================
