-------------------------- MODULE LoweringInvariant --------------------------
(***************************************************************************)
(* What every lowering of a body looks like, whichever elements it has and *)
(* however many: the part of BocLowering that is proved by induction over  *)
(* the elements, and what has happened when a set of its statements has    *)
(* run.                                                                    *)
(***************************************************************************)
EXTENDS BocLowering

-----------------------------------------------------------------------------
(* Bodies.                                                                  *)

\* The bodies that Extend builds: variables are declared before they are used.
BodyInv ==
  /\ lowering \in Lowerings /\ result \in Results
  /\ body \in Seq(Element) /\ Len(body) <= MaxLen[lowering]
  /\ \A i \in DOMAIN body :
       /\ body[i].reads # 0 =>
            body[i].reads \in 1 .. i - 1 /\ body[body[i].reads].kind \in Binders
       /\ body[i].kind = "assign" =>
            /\ body[i].tgt \in 1 .. i - 1 /\ body[body[i].tgt].kind \in Binders
            /\ body[i].reads = 0
       /\ body[i].kind # "assign" => body[i].tgt = 0

\* The bodies for which ReadersSeeLastWrite is claimed (section 8 of the
\* README has the others): no literals that hide a variable, and in methods no
\* reassignment and no typed declarations.
ReadersKept ==
  /\ Forms = {"plain"}
  /\ "method" \in Lowerings => Kinds["method"] \cap {"typed", "assign"} = {}

\* Those for which CallsComplete is: in singletons the branches of conditionals
\* have Unit calls only.
BranchesAwaited ==
  "singleton" \in Lowerings => Kinds["singleton"] \cap {"ifval", "ifbind"} = {}

\* And ResultIsLastElement: a method keeps no struct result of a last call on
\* an instance, a singleton no value of a last conditional.
ResultsKept ==
  /\ "method" \in Lowerings /\ "struct" \in Results => "inst" \notin Kinds["method"]
  /\ "singleton" \in Lowerings => "ifval" \notin Kinds["singleton"]

-----------------------------------------------------------------------------
(* Statements.                                                              *)

Ops == {"group", "var", "spawn", "wait", "decl", "bare", "assign", "do", "if", "force",
        "start", "return", "returnvar"}
Simple == [op : Ops, el : Nat, var : Nat, grp : Nat, lazy : BOOLEAN, then : {<<>>}]
Statement ==
  [op : Ops, el : Nat, var : Nat, grp : Nat, lazy : BOOLEAN, then : Seq(Simple)]

\* The one statement of an element; the others declare, wait or return.
Work(st) == st.el # 0 /\ st.op # "returnvar"

Helper(st) ==
  /\ ~Work(st) /\ st.op \in {"group", "var", "wait", "return", "returnvar"}
  /\ st.op \in {"group", "wait"} => st.grp \in Indices \ {0}
  /\ st.op = "returnvar" => st.var \in DOMAIN body

\* A statement of element i does what the element says.
Translates(st) ==
  LET i == st.el IN
  /\ i \in DOMAIN body
  /\ \/ /\ st.op = "spawn" /\ body[i].kind \in CallKinds
        /\ st.lazy = IsScalar(i) /\ st.var \in {0, i} /\ st.grp \in Indices \ {0}
        /\ body[i].kind \in {"bind", "lazy"} => st.var = i
     \/ st = Decl(i) /\ body[i].kind \in DeclKinds
     \/ st = Bare(i) /\ body[i].kind = "typed" /\ lowering = "method"
     \/ st = Assign(i) /\ body[i].kind = "assign"
     \/ /\ body[i].kind \in BranchKinds
        /\ st = If(i, IF lowering = "method" THEN MethodGroup ELSE 0)
     \/ st = Expr(i) /\ body[i].kind = "do"
     \/ st = Return(i) /\ IsLast(i) /\ body[i].kind \notin Binders \cup {"assign"}

-----------------------------------------------------------------------------
(* Statements of the first n elements.                                      *)

IsWait(ir, w, g) == ir[w].op = "wait" /\ ir[w].grp = g

\* A Wait for the call at j between j and k.
Waited(ir, j, k) == \E w \in j + 1 .. k - 1 : IsWait(ir, w, ir[j].grp)

\* Every call has been waited for.
Closed(ir) ==
  \A j \in DOMAIN ir : ir[j].op = "spawn" => Waited(ir, j, Len(ir) + 1)

WellFormed(ir, n) ==
  /\ ir \in Seq(Statement)
  /\ \A k \in DOMAIN ir : Helper(ir[k]) \/ (Translates(ir[k]) /\ ir[k].el <= n)
  /\ \A i \in 1 .. n : \E k \in DOMAIN ir : Work(ir[k]) /\ ir[k].el = i

InOrder(ir) ==
  \A j, k \in DOMAIN ir :
    j < k /\ Work(ir[j]) /\ Work(ir[k]) => ir[j].el < ir[k].el

\* What is not a call comes after a Wait for all calls before it.
Barriers(ir) ==
  \A j, k \in DOMAIN ir :
    j < k /\ ir[j].op = "spawn" /\ Work(ir[k]) /\ ir[k].op # "spawn" => Waited(ir, j, k)

ReadsCall(i) == body[i].reads # 0 /\ body[body[i].reads].kind \in {"bind", "lazy"}

\* Independent adjacent calls have no Wait between them.
Together(ir) ==
  \A j, k \in DOMAIN ir :
    /\ ir[j].op = "spawn" /\ ir[k].op = "spawn" /\ ir[k].el = ir[j].el + 1
    /\ ~ReadsCall(ir[k].el)
    => \A w \in j .. k : ir[w].op # "wait"

Grouped(ir) ==
  \A k \in DOMAIN ir : ir[k].op \in {"spawn", "wait"} =>
    \E j \in 1 .. k - 1 : ir[j].op = "group" /\ ir[j].grp = ir[k].grp

\* A singleton awaits a group once, after all its calls, and a call that
\* mentions the result of another one after that one.
OneWait(ir) ==
  lowering = "singleton" =>
    /\ \A j, k \in DOMAIN ir :
         ir[k].op = "wait" /\ j < k => ~IsWait(ir, j, ir[k].grp)
    /\ \A j, w \in DOMAIN ir :
         ir[j].op = "spawn" /\ IsWait(ir, w, ir[j].grp) => j < w
    /\ \A j, k \in DOMAIN ir :
         /\ j < k /\ ir[j].op = "spawn" /\ ir[k].op = "spawn"
         /\ body[ir[k].el].form = "plain" /\ body[ir[k].el].reads = ir[j].el
         /\ ReadsCall(ir[k].el)
         => Waited(ir, j, k)

\* What makes a sequence of statements the lowering of the first n elements.
LoweredTo(ir, n) ==
  /\ WellFormed(ir, n) /\ InOrder(ir) /\ Barriers(ir)
  /\ Together(ir) /\ Grouped(ir) /\ OneWait(ir)

\* No Wait follows the call of the last element so far, as long as elements
\* are to come.
OpenEnd(ir, n) ==
  n < Len(body) => \A j \in DOMAIN ir : ir[j].op = "spawn" /\ ir[j].el = n =>
    \A w \in j .. Len(ir) : ir[w].op # "wait"

\* The value of the call of element i, which was waited for.
CarriesOver(ir, k, i) ==
  /\ k = Len(ir) /\ ir[k].var = i
  /\ \E j \in DOMAIN ir : ir[j].op = "spawn" /\ ir[j].el = i /\ ir[j].var = i

Declared(ir, g) == \E k \in DOMAIN ir : ir[k].op = "group" /\ ir[k].grp = g

OneGroup(ir) ==
  /\ \A k \in DOMAIN ir : ir[k].op = "spawn" => ir[k].grp = 1
  /\ HasBocCalls => Declared(ir, 1)

MethodInv(s, n) ==
  /\ s \in [ir : Seq(Statement), pending : BOOLEAN, waited : BOOLEAN]
  /\ LoweredTo(s.ir, n) /\ OpenEnd(s.ir, n) /\ OneGroup(s.ir)
  /\ s.pending => HasBocCalls
  /\ ~s.pending => Closed(s.ir)
  /\ n > 0 /\ n = Len(body) /\ result # "unit" /\ body[n].kind \in {"unit", "inst", "do", "ifval"}
     /\ (result = "struct" => body[n].kind # "inst")
     => /\ s.ir # <<>> /\ ~s.pending
        /\ s.ir[Len(s.ir)] = Return(n) \/ s.ir[Len(s.ir)].op = "returnvar"
  /\ \A k \in DOMAIN s.ir : s.ir[k].op = "returnvar" =>
       ~s.pending /\ n = Len(body) /\ CarriesOver(s.ir, k, n)

\* A call can join group g: it has not been awaited, and the calls that have
\* not are those of the batch.
Ready(ir, n, g, batch) ==
  /\ LoweredTo(ir, n)
  /\ \A k \in DOMAIN ir : ir[k].grp <= g /\ ~IsWait(ir, k, g)
  /\ \A k \in DOMAIN ir : ir[k].op = "spawn" =>
       (ir[k].el \in batch /\ ir[k].grp = g) \/ Waited(ir, k, Len(ir) + 1)
  /\ \A k \in DOMAIN ir : ir[k].op = "spawn" =>
       (ir[k].var = 0 <=> body[ir[k].el].kind \in {"unit", "inst"})
  /\ \A k \in DOMAIN ir : ir[k].op \notin {"return", "returnvar", "bare"}

\* The group of the next call.
NextGroup(s) == IF s.batch = {} THEN s.groups + 1 ELSE s.groups

Batching(s, n) ==
  /\ s \in [ir : Seq(Statement), batch : SUBSET (1 .. n), groups : 0 .. n]
  /\ Ready(s.ir, n, NextGroup(s), s.batch)
  /\ s.batch # {} => Declared(s.ir, s.groups)

SingletonInv(s, n) ==
  /\ Batching(s, n) /\ OpenEnd(s.ir, n)
  /\ n > 0 => (s.batch # {} <=> body[n].kind \in CallKinds)
  /\ n > 0 /\ body[n].kind = "do" => s.ir # <<>> /\ s.ir[Len(s.ir)] = Expr(n)

\* Statements that are alike for LoweredTo.
Alike(a, b) ==
  /\ a.el = b.el /\ a.grp = b.grp /\ (Work(a) <=> Work(b))
  /\ a.op = b.op \/ {a.op, b.op} \cap {"group", "spawn", "wait"} = {}

\* The whole body.
Ending(ir) ==
  \A k \in DOMAIN ir : ir[k].op = "returnvar" => CarriesOver(ir, k, ir[k].var)

Shape(ir) ==
  /\ LoweredTo(ir, Len(body)) /\ Closed(ir)
  /\ ir # <<>> /\ ir[Len(ir)].op \in {"return", "returnvar"}
  /\ Ending(ir)
  /\ ResultsKept /\ WellTyped /\ result # "unit" =>
       \/ ir[Len(ir)].op = "return" /\ ir[Len(ir)].el = Len(body)
       \/ ir[Len(ir)].op = "returnvar" /\ ir[Len(ir)].var = Len(body)

\* The inductive invariant of the specification: every body that is built has a
\* lowering of this shape.
LoweringInv == BodyInv /\ Shape(Lowered)

-----------------------------------------------------------------------------
(* What has happened when the statements at the places R have run.          *)

Machine ==
  [store : [DOMAIN body -> Nat], group : [Indices -> SUBSET Statement], started : Seq(Nat),
   done : SUBSET Nat, result : Nat, seen : [DOMAIN body -> Nat]]

\* The statement, or the one of the branch, that a statement runs, and whether
\* it stores a value at once.
Inner(st)  == IF st.op = "if" THEN st.then[1] ELSE st
Stores(st) == st.op \in {"decl", "bare", "assign"} \/ (st.op = "spawn" /\ st.lazy)

\* What a statement changes: RunStmt field by field.
Effect(m, st, n) ==
  /\ n \in Machine
  /\ \A i \in DOMAIN body :
       n.seen[i] = IF Work(st) /\ i = st.el /\ body[i].reads # 0 THEN m.store[body[i].reads]
                                                                 ELSE m.seen[i]
  /\ \A v \in DOMAIN body :
       n.store[v] = IF st.op = "wait" /\ \E c \in m.group[st.grp] : ~c.lazy /\ c.var = v
                    THEN v ELSE IF Stores(st) /\ v = st.var THEN st.el ELSE m.store[v]
  /\ \A g \in Indices :
       n.group[g] = IF Inner(st).op = "spawn" /\ g = Inner(st).grp
                    THEN m.group[g] \cup {Inner(st)} ELSE m.group[g]
  /\ m.done \subseteq n.done
  /\ st.op = "wait" => \A c \in m.group[st.grp] : c.el \in n.done
  /\ st.op = "return" \/ Inner(st).op = "force" => st.el \in n.done
  /\ \/ n.started = m.started
     \/ st.op \in {"spawn", "if"} /\ n.started = Append(m.started, st.el)
  /\ st.op = "return" => n.result = st.el
  /\ st.op = "returnvar" => n.result = m.store[st.var]
  /\ st.op \notin {"return", "returnvar"} => n.result = m.result

\* A group has the calls that were spawned into it; those of branches have no
\* variable.
GroupInv(m, ir, R) ==
  /\ \A g \in Indices : \A c \in m.group[g] : c.var # 0 =>
       \E j \in R : ir[j] = c /\ c.op = "spawn" /\ c.grp = g
  /\ \A j \in R : ir[j].op = "spawn" => ir[j] \in m.group[ir[j].grp]

DoneInv(m, ir, R) ==
  \A j \in R :
    /\ ir[j].op = "return" /\ Work(ir[j]) => ir[j].el \in m.done
    /\ Inner(ir[j]).op = "force" => ir[j].el \in m.done
    /\ ir[j].op = "spawn" /\ (\E w \in R : j < w /\ IsWait(ir, w, ir[j].grp))
       => ir[j].el \in m.done

StartedInv(m, ir, R) ==
  /\ \A a, b \in DOMAIN m.started : a < b => m.started[a] < m.started[b]
  /\ \A a \in DOMAIN m.started :
       \E j \in R : Work(ir[j]) /\ ir[j].op # "decl" /\ ir[j].el = m.started[a]

\* The statement at j has stored its value: a call without a lazy result only
\* when it was waited for.
Settled(ir, R, j) ==
  ir[j].op = "spawn" /\ ~ir[j].lazy => \E w \in R : j < w /\ IsWait(ir, w, ir[j].grp)

Reassigned(v) == \E a \in DOMAIN body : body[a].kind = "assign" /\ body[a].tgt = v

\* The reassignments of v among the places R.
Assigns(ir, R, v) == {a \in R : ir[a].op = "assign" /\ ir[a].var = v}

\* A variable has the value of the last reassignment, if there was one; a Wait
\* of a method may undo it.
StoreInv(m, ir, R) ==
  \A j \in R :
    LET v == ir[j].var IN
    /\ Work(ir[j]) /\ ir[j].el = v /\ v # 0 /\ Settled(ir, R, j)
    /\ Reassigned(v) => lowering = "singleton"
    => /\ m.store[v] = v \/ \E a \in Assigns(ir, R, v) : ir[a].el = m.store[v]
       /\ \A a \in Assigns(ir, R, v) : ir[a].el <= m.store[v]

\* Whose reads ReadersSeeLastWrite speaks of.
Reader(i) ==
  \/ body[i].kind \in {"do"} \cup BranchKinds
  \/ body[i].kind \in DeclKinds /\ \A a \in DOMAIN body : body[a].kind # "assign"
  \/ body[i].kind \in CallKinds /\ lowering = "singleton"

SeenInv(m, ir, R) ==
  ReadersKept => \A j \in R :
    Work(ir[j]) /\ body[ir[j].el].reads # 0 /\ Reader(ir[j].el)
    => m.seen[ir[j].el] = LastWrite(ir[j].el)

ResultInv(m, ir, R) ==
  LET end == ir[Len(ir)] IN Len(ir) \in R =>
    /\ end.op = "return" => m.result = end.el
    /\ end.op = "returnvar" /\ end.var = Len(body) => m.result = Len(body)

RunInv(m, ir, R) ==
  /\ m \in Machine /\ GroupInv(m, ir, R) /\ DoneInv(m, ir, R)
  /\ StartedInv(m, ir, R) /\ StoreInv(m, ir, R) /\ SeenInv(m, ir, R) /\ ResultInv(m, ir, R)

\* The order in which emitThunk has the statements run.
Turn(ir, k) == IF k \in HoistedAt(ir) THEN 1 ELSE IF k \in SplitAt(ir) THEN 2 ELSE 3
Past(ir, k) ==
  {j \in DOMAIN ir : Turn(ir, j) < Turn(ir, k) \/ (Turn(ir, j) = Turn(ir, k) /\ j < k)}
=============================================================================
