--------------------------- MODULE BocExecInvariant ---------------------------
(***************************************************************************)
(* The inductive invariant behind the safety of running bocs: what the     *)
(* program counters, stacks and queues of BocExec say about each other.    *)
(***************************************************************************)
EXTENDS BocExec

\* What a simple body or the code after a Wait calls, it forces afterwards:
\* the lowering leaves no other call outside a group (BocLowering checks that
\* for the calls in statement position).
CallsForced ==
  \A a \in Acts : \A k \in DOMAIN Ops(a) :
    IsCall(Ops(a)[k]) /\ (Shape[a] = "simple" \/ k > Len(Pre[a])) =>
      \E l \in DOMAIN Ops(a) : l > k /\ Ops(a)[l] = [op |-> "force", on |-> Ops(a)[k].on]

-----------------------------------------------------------------------------
\* Where a closure is awaited in the code of a force; the group and then the
\* code after the Wait follow.
Lead(a) == IF ScheduledAtCall(a) THEN 1 ELSE 2
PostAt(a, k) == Lead(a) + Len(group[a]) + k

\* The write at k of the closure of a is the second half of an increment of a
\* field whose cown the closure holds.
HeldWrite(a, k) ==
  /\ k >= 2 /\ Pre[a][k - 1] = [op |-> "read", on |-> Pre[a][k].on]
  /\ Pre[a][k].on \in Q!Needs(a)

\* The field of c has been written otherwise: by a closure that does not hold c,
\* or by a statement behind a Wait, which holds nothing.
LooseInPre(a, c) ==
  \E k \in DOMAIN Pre[a] : /\ Pre[a][k] = [op |-> "write", on |-> c]
                          /\ k < pc[a] /\ ~HeldWrite(a, k)
LooseInPost(a, c) ==
  \E k \in DOMAIN Post[a] : Post[a][k] = [op |-> "write", on |-> c] /\ PostAt(a, k) < at[a]
LooseWritten(c) == \E a \in Acts : LooseInPre(a, c) \/ LooseInPost(a, c)

\* What an operation leaves behind for good: a call has joined all queues, an
\* awaited closure has returned, a forced thunk is done.
Effect(o) ==
  CASE o.op = "call"  -> Shape[o.on] # "cold" => joined[o.on] = Len(CownsOf[o.on])
    [] o.op = "await" -> phase[o.on] = "completed"
    [] o.op = "force" -> Forced(o.on)
    [] OTHER          -> TRUE

\* All operations before the n-th one have left their effect.
DoneBefore(code, n) == \A k \in DOMAIN code : k < n => Effect(code[k])

DoneInv ==
  /\ \A g \in Goroutines : DoneBefore(Code(g), pc[g])
  /\ \A a \in Acts : DoneBefore(ForceCode(a), at[a])

\* A closure moves only while its behaviour runs, and returns at its end.
PhaseInv ==
  /\ \A a \in Acts :
       /\ phase[a] \in {"new", "waiting"} => pc[a] = 1
       /\ phase[a] = "completed" => pc[a] > Len(Pre[a])
  /\ \A g \in Goroutines : pc[g] >= 1

\* A goroutine that forces a thunk stands at a force in its own code, and the
\* thunks it forces have started.
StackInv ==
  /\ OneForcer
  /\ \A g \in Goroutines : stack[g] # <<>> =>
       pc[g] <= Len(Code(g)) /\ Code(g)[pc[g]].op = "force"
  /\ \A g \in Goroutines : \A i \in DOMAIN stack[g] : at[stack[g][i]] >= 1

\* Every call a closure with a group has made is in the group.
GroupInv ==
  \A a \in Acts : Shape[a] # "simple" =>
    \A k \in DOMAIN Pre[a] : IsCall(Pre[a][k]) /\ k < pc[a] =>
      \E j \in DOMAIN group[a] : group[a][j] = Pre[a][k].on

\* The queues a call has joined hold its behaviour until it completes.
JoinedInv ==
  \A a \in Acts :
    /\ joined[a] > 0 => phase[a] # "new"
    /\ phase[a] # "completed" =>
         \A i \in 1 .. joined[a] : Q!InQueue(a, CownsOf[a][i])

\* The two calls of CallOrder.
Ordered(a, k, l) ==
  /\ k < l /\ Ops(a)[k].op = "call" /\ Ops(a)[l].op = "call"
  /\ Shape[Ops(a)[k].on] # "cold" /\ Shape[Ops(a)[l].on] # "cold"

\* Until the first call has completed, the second one stands behind it in the
\* queue of every cown both need.
OrderInv ==
  \A a \in Acts : \A k, l \in DOMAIN Ops(a) : Ordered(a, k, l) =>
    LET first  == Ops(a)[k].on
        second == Ops(a)[l].on
    IN \A c \in Q!Needs(first) \cap Q!Needs(second) :
         \/ phase[first] = "completed"
         \/ phase[second] \in {"new", "waiting"} /\ Q!Before(first, second, c)

\* Whoever is about to finish an increment under the cown has read the current
\* value of the field, unless somebody wrote it without the cown.
Ends(a, c) ==
  /\ pc[a] \in DOMAIN Pre[a]
  /\ Pre[a][pc[a]] = [op |-> "write", on |-> c] /\ HeldWrite(a, pc[a])

RegInv == \A a \in Acts, c \in Cowns :
            Ends(a, c) /\ ~LooseWritten(c) => reg[a] = field[c]

ExecInv ==
  /\ TypeOK /\ Q!QueueInv
  /\ DoneInv /\ PhaseInv /\ StackInv /\ GroupInv /\ JoinedInv /\ OrderInv

\* Every increment of a field counts ("data races: impossible - exclusive cown
\* access") until a statement has written the field without its cown; whatever
\* the program does elsewhere, nothing but such a statement loses one.
HeldUpdatesCount == \A c \in Cowns : field[c] = writes[c] \/ LooseWritten(c)
=============================================================================
