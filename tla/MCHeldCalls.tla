---------------------------- MODULE MCHeldCalls ----------------------------
(***************************************************************************)
(* Three methods: c is a leaf, b calls c or itself, a calls all three.     *)
(***************************************************************************)
EXTENDS HeldCalls

CONSTANTS
  a, b, c,
  Nodes,       \* the kinds of expressions over a call
  Slots        \* the slots of the elements of a

Simple(cs)  == {Call(m, <<>>) : m \in cs} \cup {Call(m, <<Call(b, <<>>)>>) : m \in cs}
Nested(cs)  == {Node(k, <<Call(m, <<>>)>>) : k \in Nodes, m \in cs}
Pairs(cs)   == {Node("binary", <<Call(m, <<>>), Call(k, <<>>)>>) : m \in cs, k \in cs}
Exprs(cs)   == Simple(cs) \cup Nested(cs) \cup Pairs(cs)

\* Uses of the variable of the first element.
Uses == {Node("binary", <<Ref(1), Lit>>), Node("binary", <<Ref(1), Call(b, <<>>)>>)}

ABodies ==
  {<<Element("stmt", e)>> :
     e \in Exprs({b, c}) \cup {Node("binary", <<Call(b, <<>>), Call(a, <<>>)>>)}}
  \cup {<<Element(s, e), Element("stmt", u)>> :
          s \in Slots, e \in Simple({b, c}) \cup Pairs({b, c}), u \in Uses}
\* Bodies that end in a call, alone and behind another.
Tails == {<<Element("stmt", Call(m, <<>>))>> : m \in {a, b, c}}
         \cup {<<Element(s, Call(k, <<>>)), Element("stmt", Call(m, <<>>))>> :
                 s \in Slots, k \in {b, c}, m \in {a, b}}
BBodies == {<<Element("stmt", e)>> : e \in {Lit, Call(c, <<>>), Call(b, <<>>)}
                                           \cup Nested({b})}
           \cup {<<Element("decl", Call(b, <<>>)), Element("stmt", Ref(1))>>}

MCMethods  == {a, b, c}
MCEntries  == <<a, c>>
CBody      == <<Element("stmt", Lit)>>

Method(result, body) == [result |-> result, body |-> body]
Programs3(as, bs, results) ==
  {[m \in {a, b, c} |-> IF m = a THEN Method(r[a], x)
                        ELSE IF m = b THEN Method(r[b], y)
                        ELSE Method(r[c], CBody)] :
     x \in as, y \in bs, r \in results}

\* All scalars, and the mixtures of results over the bodies that end in a call.
MCPrograms ==
  Programs3(ABodies \cup Tails, BBodies, [{a, b, c} -> Results])
=============================================================================
