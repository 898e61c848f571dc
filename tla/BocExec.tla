------------------------------ MODULE BocExec ------------------------------
(***************************************************************************)
(* Running compiled bocs: the code shapes of internal/codegen (emitThunk,  *)
(* emitScheduleMultiSplit) over thunks and groups (runtime/rt) and over    *)
(* the queues the cowns promise (BocQueue, which Cown implements).         *)
(*                                                                         *)
(* A call of a boc is an activation.  Its body is compiled to a closure    *)
(* that runs in its cowns (Pre) and, if the body has a Wait, to what the   *)
(* forcer does afterwards with no cown: wait for the calls the closure     *)
(* made, then run the rest (Post).  Three shapes:                          *)
(*   simple  Schedule/ScheduleMulti at the call; no Wait                   *)
(*   cold    one cown: nothing happens at the call, the forcer schedules   *)
(*           the closure                                                   *)
(*   eager   several cowns: ScheduleMulti at the call                      *)
(***************************************************************************)
EXTENDS Naturals, Sequences, SequencesExt, Functions

CONSTANTS
  Cowns,
  Acts,      \* the activations of a run
  Root,      \* the call of main
  Main,      \* the goroutine that forces it
  Shape,     \* Shape[a]
  CownsOf,   \* CownsOf[a]: the cowns its closure is scheduled on
  Pre, Post  \* Pre[a], Post[a]: sequences of operations

Op == [op : {"call", "successor", "force"}, on : Acts]
        \cup [op : {"read", "write"}, on : Cowns]

Goroutines == {Main} \cup Acts

Ops(a) == Pre[a] \o Post[a]

\* The cowns of a call are different objects (Cown also takes a cown listed
\* twice).  A successor is the synchronous body of a simple method of one of
\* the cowns an eager boc holds (emitImmediateBody).
ASSUME ExecAssumption ==
  /\ Root \in Acts /\ Main \notin Acts
  /\ Shape \in [Acts -> {"simple", "cold", "eager"}]
  /\ CownsOf \in [Acts -> Seq(Cowns) \ {<<>>}]
  /\ \A a \in Acts : IsInjective(CownsOf[a])
  /\ Pre \in [Acts -> Seq(Op)] /\ Post \in [Acts -> Seq(Op)]
  /\ \A a \in Acts :
       /\ Shape[a] = "simple" => Post[a] = <<>>
       /\ Shape[a] = "cold" => Len(CownsOf[a]) = 1
  /\ \A a \in Acts : \A k \in DOMAIN Ops(a) :
       Ops(a)[k].op = "successor" =>
         /\ Shape[a] = "eager" /\ k <= Len(Pre[a])
         /\ Shape[Ops(a)[k].on] = "simple"
         /\ Len(CownsOf[Ops(a)[k].on]) = 1
         /\ CownsOf[Ops(a)[k].on][1] \in Range(CownsOf[a])

IsCall(o) == o.op \in {"call", "successor"}

\* An activation is one executed call: no two calls make the same one, and
\* main's is made by the entry point alone.
ASSUME CallAssumption ==
  \A a, b \in Acts : \A k \in DOMAIN Ops(a), l \in DOMAIN Ops(b) :
    IsCall(Ops(a)[k]) =>
      /\ Ops(a)[k].on # Root
      /\ IsCall(Ops(b)[l]) /\ Ops(a)[k].on = Ops(b)[l].on => a = b /\ k = l

VARIABLES
  queue, phase,  \* BocQueue: the closures of the activations
  joined,        \* joined[a]: how many of its cowns the call of a has joined
  group,         \* group[a]: what the closure of a has added to its BocGroup
  pc,            \* pc[g]: the next operation of goroutine g's own code
  stack,         \* stack[g]: the activations g is forcing, the innermost last
  at,            \* at[a]: the next operation of a's tail; 0 before a force
  field,         \* field[c]: a counter kept in the object of cown c
  reg,           \* reg[g]: the value g read last
  writes         \* history: the increments of field[c]

Q == INSTANCE BocQueue WITH Behaviours <- Acts

vars == <<queue, phase, joined, group, pc, stack, at, field, reg, writes>>

-----------------------------------------------------------------------------

\* The functions BocGroup.Wait runs, in the order of Add.
Children(a) ==
  [k \in DOMAIN group[a] |-> [op |-> "force", on |-> group[a][k]]]

\* Mutant: a boc of several cowns schedules when it is forced, as a cold one.
ScheduledAtSimpleCall(a) == Shape[a] = "simple"

\* The closure is scheduled by the call itself.
ScheduledAtCall(a) == Shape[a] # "cold"

\* What Force on a's thunk runs: a cold boc schedules first; then the closure
\* is awaited, then its group, then the statements after the Wait.
ForceCode(a) ==
  (IF ScheduledAtCall(a) THEN <<>> ELSE <<[op |-> "join", on |-> a]>>)
    \o <<[op |-> "await", on |-> a]>> \o Children(a) \o Post[a]

\* A goroutine's own code: main calls and forces its boc, the goroutine of a
\* behaviour runs its closure.
Code(g) == IF g = Main THEN <<[op |-> "call", on |-> Root],
                             [op |-> "force", on |-> Root]>>
                       ELSE Pre[g]

Running(g) == g \in {Main} \cup {a \in Acts : phase[a] = "running"}

\* The operation g executes next, if any.
Here(g) == IF stack[g] = <<>> THEN Code(g) ELSE ForceCode(Last(stack[g]))
Pc(g)   == IF stack[g] = <<>> THEN pc[g] ELSE at[Last(stack[g])]
AtOp(g, kind) == /\ Running(g)
                 /\ Pc(g) <= Len(Here(g))
                 /\ Here(g)[Pc(g)].op = kind
On(g) == Here(g)[Pc(g)].on

Advance(g) ==
  IF stack[g] = <<>>
  THEN pc' = [pc EXCEPT ![g] = @ + 1] /\ UNCHANGED at
  ELSE at' = [at EXCEPT ![Last(stack[g])] = @ + 1] /\ UNCHANGED pc

Forced(a) == at[a] > Len(ForceCode(a))

\* Mutant: the second call of a body replaces the first.
AddLastOnly(g) ==
  IF stack[g] = <<>> /\ g # Main /\ Shape[g] # "simple"
  THEN group' = [group EXCEPT ![g] = <<On(g)>>]
  ELSE UNCHANGED group

\* _bg.Add: what a closure calls goes to its group.  A simple body has no
\* group, nor has the code after a Wait: they force what they call.
Add(g) ==
  IF stack[g] = <<>> /\ g # Main /\ Shape[g] # "simple"
  THEN group' = [group EXCEPT ![g] = Append(@, On(g))]
  ELSE UNCHANGED group

Init ==
  /\ Q!Init
  /\ joined = [a \in Acts |-> 0]
  /\ group = [a \in Acts |-> <<>>]
  /\ pc = [g \in Goroutines |-> 1]
  /\ stack = [g \in Goroutines |-> <<>>]
  /\ at = [a \in Acts |-> 0]
  /\ field = [c \in Cowns |-> 0]
  /\ reg = [g \in Goroutines |-> 0]
  /\ writes = [c \in Cowns |-> 0]

\* One turn of ScheduleMulti's loop; the call returns after the last.
Enqueue(a) ==
  /\ Q!Join(a, CownsOf[a][joined[a] + 1])
  /\ joined' = [joined EXCEPT ![a] = @ + 1]
LastTurn(a) == joined[a] + 1 = Len(CownsOf[a])

\* A call evaluates the method: simple and eager ones schedule their closure,
\* a cold one only makes a thunk.
Call(g) ==
  /\ AtOp(g, "call")
  /\ IF ScheduledAtCall(On(g)) THEN Enqueue(On(g)) ELSE UNCHANGED <<queue, phase, joined>>
  /\ IF ScheduledAtCall(On(g)) => LastTurn(On(g)) THEN Advance(g) /\ Add(g)
                                                  ELSE UNCHANGED <<pc, at, group>>
  /\ UNCHANGED <<stack, field, reg, writes>>

\* A cold thunk schedules its closure when it is forced.
Join(g) ==
  /\ AtOp(g, "join")
  /\ Enqueue(On(g))
  /\ IF LastTurn(On(g)) THEN Advance(g) ELSE UNCHANGED <<pc, at>>
  /\ UNCHANGED <<group, stack, field, reg, writes>>

\* A call on a cown the closure holds (emitImmediateBody, only in the eager
\* shape): ScheduleAsSuccessor.
CallHeld(g) ==
  /\ AtOp(g, "successor")
  /\ Q!JoinBehind(g, On(g), CownsOf[On(g)][1])
  /\ Advance(g) /\ Add(g)
  /\ UNCHANGED <<joined, stack, field, reg, writes>>

\* The closure has returned: Force on the thunk of Schedule*.
Await(g) ==
  /\ AtOp(g, "await")
  /\ phase[On(g)] = "completed"
  /\ Advance(g)
  /\ UNCHANGED <<queue, phase, joined, group, stack, field, reg, writes>>

\* Mutant: no sync.Once; whoever finds the thunk unfinished runs its function.
EnterThunkTwice(g) ==
  /\ AtOp(g, "force") /\ ~Forced(On(g))
  /\ stack' = [stack EXCEPT ![g] = Append(@, On(g))]
  /\ at' = [at EXCEPT ![On(g)] = 1]
  /\ UNCHANGED <<queue, phase, joined, group, pc, field, reg, writes>>

\* Thunk.Force: the first caller runs the function ...
EnterThunk(g) ==
  /\ AtOp(g, "force") /\ at[On(g)] = 0
  /\ stack' = [stack EXCEPT ![g] = Append(@, On(g))]
  /\ at' = [at EXCEPT ![On(g)] = 1]
  /\ UNCHANGED <<queue, phase, joined, group, pc, field, reg, writes>>

LeaveThunk(g) ==
  /\ stack[g] # <<>> /\ Forced(Last(stack[g]))
  /\ stack' = [stack EXCEPT ![g] = Front(@)]
  /\ UNCHANGED <<queue, phase, joined, group, pc, at, field, reg, writes>>

\* ... and the others go on when it has returned (sync.Once).
PassThunk(g) ==
  /\ AtOp(g, "force") /\ Forced(On(g))
  /\ \A h \in Goroutines : \A k \in DOMAIN stack[h] : stack[h][k] # On(g)
  /\ Advance(g)
  /\ UNCHANGED <<queue, phase, joined, group, stack, field, reg, writes>>

\* An increment of a field is a read and a write.
Read(g) ==
  /\ AtOp(g, "read")
  /\ reg' = [reg EXCEPT ![g] = field[On(g)]]
  /\ Advance(g)
  /\ UNCHANGED <<queue, phase, joined, group, stack, field, writes>>

Write(g) ==
  /\ AtOp(g, "write")
  /\ field' = [field EXCEPT ![On(g)] = reg[g] + 1]
  /\ writes' = [writes EXCEPT ![On(g)] = @ + 1]
  /\ Advance(g)
  /\ UNCHANGED <<queue, phase, joined, group, stack, reg>>

\* Mutant: a closure runs when it holds its first cown.
StartWithOne(a) ==
  /\ phase[a] = "waiting" /\ Q!IsFirst(a, CownsOf[a][1])
  /\ phase' = [phase EXCEPT ![a] = "running"]
  /\ UNCHANGED <<queue, joined, group, pc, stack, at, field, reg, writes>>

Start(a) ==
  /\ Q!Start(a)
  /\ UNCHANGED <<joined, group, pc, stack, at, field, reg, writes>>

\* Mutant: the group is awaited inside the closure, with the cowns held.
ReturnAfterWait(a) ==
  /\ pc[a] > Len(Pre[a])
  /\ \A k \in DOMAIN Children(a) : phase[Children(a)[k].on] = "completed"
  /\ Q!Complete(a)
  /\ UNCHANGED <<joined, group, pc, stack, at, field, reg, writes>>

Return(a) ==
  /\ pc[a] > Len(Pre[a])
  /\ Q!Complete(a)
  /\ UNCHANGED <<joined, group, pc, stack, at, field, reg, writes>>

Release(a, c) ==
  /\ Q!Release(a, c)
  /\ UNCHANGED <<joined, group, pc, stack, at, field, reg, writes>>

Step(g) ==
  \/ Call(g) \/ Join(g) \/ CallHeld(g) \/ Await(g)
  \/ EnterThunk(g) \/ LeaveThunk(g) \/ PassThunk(g)
  \/ Read(g) \/ Write(g)

Next ==
  \/ \E g \in Goroutines : Step(g)
  \/ \E a \in Acts : Start(a) \/ Return(a)
  \/ \E a \in Acts, c \in Cowns : Release(a, c)

\* The Go scheduler runs every goroutine that can go on.
Fairness ==
  /\ \A g \in Goroutines : WF_vars(Step(g))
  /\ \A a \in Acts : WF_vars(Start(a)) /\ WF_vars(Return(a))
  /\ \A a \in Acts, c \in Cowns : WF_vars(Release(a, c))

Spec == Init /\ [][Next]_vars /\ Fairness

-----------------------------------------------------------------------------
(* Properties.                                                             *)

TypeOK ==
  /\ queue \in [Cowns -> Seq(Acts)]
  /\ phase \in [Acts -> {"new", "waiting", "running", "completed"}]
  /\ joined \in [Acts -> Nat] /\ group \in [Acts -> Seq(Acts)] /\ pc \in [Goroutines -> Nat]
  /\ stack \in [Goroutines -> Seq(Acts)] /\ at \in [Acts -> Nat]
  /\ \A a \in Acts : joined[a] <= Len(CownsOf[a]) /\ at[a] <= Len(ForceCode(a)) + 1
  /\ \A g \in Goroutines : pc[g] <= Len(Code(g)) + 1
  /\ field \in [Cowns -> Nat] /\ reg \in [Goroutines -> Nat]
  /\ writes \in [Cowns -> Nat]

\* However many goroutines share a thunk, one of them runs its function: an
\* activation is on one stack, once (the sync.Once of Thunk).
OneForcer ==
  \A g, h \in Goroutines : \A i \in DOMAIN stack[g], j \in DOMAIN stack[h] :
    stack[g][i] = stack[h][j] => g = h /\ i = j

\* Structured concurrency ("a boc does not complete until all of its inner
\* bocs have completed"): when the force of a boc is over, its closure has
\* returned and the force of every boc it called is over too.  Goroutines that
\* share a thunk wait for the one that runs its function.
StructuredCompletion ==
  /\ TypeOK /\ OneForcer
  /\ \A a \in Acts : Forced(a) =>
       /\ phase[a] = "completed"
       /\ \A k \in DOMAIN Ops(a) : IsCall(Ops(a)[k]) => Forced(Ops(a)[k].on)

\* Two calls of one body that need a common cown run in the order of the
\* calls, if both are of a shape that schedules at the call
\* (emitScheduleMultiSplit: "preserving BOC spawn-order determinism").  What
\* jumps the queue as a successor is not compared.
CallOrder ==
  \A a \in Acts : \A k, l \in DOMAIN Ops(a) :
    LET first  == Ops(a)[k].on
        second == Ops(a)[l].on
    IN  /\ k < l /\ Ops(a)[k].op = "call" /\ Ops(a)[l].op = "call"
        /\ Shape[first] # "cold" /\ Shape[second] # "cold"
        /\ Q!Needs(first) \cap Q!Needs(second) # {}
        /\ phase[second] \in {"running", "completed"}
        => phase[first] = "completed"

\* What "data races: impossible - exclusive cown access" promises of every field.
\* Statements behind a Wait break it: HeldUpdatesCount is what the code keeps.
NoLostUpdate == \A c \in Cowns : field[c] = writes[c]

\* main's boc is forced to the end: nobody waits for ever ("deadlock:
\* impossible").
MainCompletes == <>(pc[Main] > Len(Code(Main)))
=============================================================================
