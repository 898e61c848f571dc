------------------------------- MODULE YzcProofs -------------------------------
(***************************************************************************)
(* Proofs about the executables of macros: what a build takes from target/ *)
(* is made of the present sources, whatever was edited, killed or built    *)
(* before, for every source tree.                                          *)
(***************************************************************************)
EXTENDS YzcInvariant, SequenceTheorems, TLAPS

-----------------------------------------------------------------------------
(* Sequences and maps.                                                     *)

IsStack(s) == s \in Seq(Range(s))

\* A sequence has places 1 .. Len(s), and is one of its elements.
LEMMA StackFacts ==
  /\ \A s : IsStack(s) => /\ DOMAIN s = 1 .. Len(s) /\ Len(s) \in Nat
                          /\ s # <<>> => Len(s) \in DOMAIN s /\ Len(s) >= 1
                          /\ s = <<>> => Len(s) = 0
  /\ \A S : \A s \in Seq(S) : IsStack(s)
  /\ IsStack(<<>>)
  <1>1. ASSUME NEW S, NEW s \in Seq(S)  PROVE IsStack(s)
    <2>1. s \in [1 .. Len(s) -> Range(s)] /\ Len(s) \in Nat
      BY DEF Range
    <2> QED  BY <2>1 DEF IsStack
  <1>2. ASSUME NEW s, IsStack(s)
        PROVE  /\ DOMAIN s = 1 .. Len(s) /\ Len(s) \in Nat
               /\ s # <<>> => Len(s) \in DOMAIN s /\ Len(s) >= 1
               /\ s = <<>> => Len(s) = 0
    BY <1>2 DEF IsStack
  <1>3. IsStack(<<>>)
    <2>1. <<>> \in Seq({})
      OBVIOUS
    <2> QED  BY <1>1, <2>1
  <1> QED  BY <1>1, <1>2, <1>3

\* The three ways the stack of packages changes: an element more,
LEMMA AppendFacts ==
  ASSUME NEW s, IsStack(s), NEW e
  PROVE  /\ IsStack(Append(s, e)) /\ Len(Append(s, e)) = Len(s) + 1
         /\ \A k \in 1 .. Len(s) : Append(s, e)[k] = s[k]
         /\ Append(s, e)[Len(s) + 1] = e
  <1> DEFINE S == Range(s) \cup {e}
  <1>1. s \in Seq(S) /\ e \in S
    BY DEF IsStack
  <1> HIDE DEF S
  <1>2. /\ Append(s, e) \in Seq(S) /\ Len(Append(s, e)) = Len(s) + 1
        /\ \A k \in 1 .. Len(s) : Append(s, e)[k] = s[k]
        /\ Append(s, e)[Len(s) + 1] = e
    BY <1>1
  <1> QED  BY <1>2, StackFacts

\* another last element,
LEMMA SetLastFacts ==
  ASSUME NEW s, IsStack(s), s # <<>>, NEW e
  PROVE  LET t == [s EXCEPT ![Len(s)] = e] IN
         /\ IsStack(t) /\ Len(t) = Len(s)
         /\ \A k \in 1 .. Len(s) : t[k] = IF k = Len(s) THEN e ELSE s[k]
  <1> DEFINE S == Range(s) \cup {e}
             t == [s EXCEPT ![Len(s)] = e]
  <1>1. s \in Seq(S) /\ e \in S
    BY DEF IsStack
  <1> HIDE DEF S
  <1>2. /\ t \in Seq(S) /\ Len(t) = Len(s)
        /\ \A k \in 1 .. Len(s) : t[k] = IF k = Len(s) THEN e ELSE s[k]
    BY <1>1
  <1> QED  BY <1>2, StackFacts

\* or one less.
LEMMA FrontFacts ==
  ASSUME NEW s, IsStack(s), s # <<>>
  PROVE  /\ IsStack(Front(s)) /\ Len(Front(s)) = Len(s) - 1
         /\ \A k \in 1 .. Len(s) - 1 : Front(s)[k] = s[k]
  <1> DEFINE S == Range(s)
  <1>1. Len(s) \in Nat /\ Len(s) >= 1 /\ \A i \in 1 .. Len(s) - 1 : s[i] \in S
    BY DEF IsStack, S
  <1>2. /\ SubSeq(s, 1, Len(s) - 1) \in Seq(S)
        /\ Len(SubSeq(s, 1, Len(s) - 1)) = IF 1 <= Len(s) - 1 THEN Len(s) - 1 - 1 + 1 ELSE 0
        /\ \A i \in 1 .. Len(s) - 1 - 1 + 1 : SubSeq(s, 1, Len(s) - 1)[i] = s[1 + i - 1]
    BY <1>1, SubSeqProperties
  <1>3. Front(s) \in Seq(S) /\ Len(Front(s)) = Len(s) - 1
    <2>1. \A n \in Nat : n >= 1 => (IF 1 <= n - 1 THEN n - 1 - 1 + 1 ELSE 0) = n - 1
      OBVIOUS
    <2>2. Len(SubSeq(s, 1, Len(s) - 1)) = Len(s) - 1
      BY <1>1, <1>2, <2>1
    <2>3. Front(s) = SubSeq(s, 1, Len(s) - 1)
      BY DEF Front
    <2> QED  BY <1>2, <2>2, <2>3
  <1>4. ASSUME NEW k \in 1 .. Len(s) - 1  PROVE Front(s)[k] = s[k]
    <2>1. k \in 1 .. Len(s) - 1 - 1 + 1 /\ 1 + k - 1 = k
      BY <1>1
    <2>2. SubSeq(s, 1, Len(s) - 1)[k] = s[1 + k - 1]
      BY <1>2, <2>1
    <2> QED  BY <2>1, <2>2 DEF Front
  <1> QED  BY <1>3, <1>4, StackFacts

-----------------------------------------------------------------------------
(* What a step does to what the executables depend on.                     *)

FrameFields == {"dir", "step", "hash", "parsed", "outs"}

SameSources == source' = source /\ past' = past
SameKills == count'.kills = count.kills
SameMacros == disk'.macro = disk.macro
SamePackages == mem'.files = mem.files /\ mem'.registry = mem.registry

\* A map of directories loses some of them.
Restricts(new, old) ==
  DOMAIN new \subseteq DOMAIN old /\ \A d \in DOMAIN new : new[d] = old[d]

\* The frames above the first stay, but for the outputs merged so far.
SameFrames(new, old) ==
  \A k \in DOMAIN new \ {1} :
    /\ k \in DOMAIN old
    /\ new[k].dir = old[k].dir /\ new[k].step = old[k].step
    /\ new[k].hash = old[k].hash /\ new[k].parsed = old[k].parsed

NotSaving == \A k \in DOMAIN mem.stack : mem.stack[k].step # "save"

MacrosOfSources == \A d \in DOMAIN mem.files : MacrosOf(d) = Defs(Read(mem.files[d]))

\* The build ends, or is killed: then a hash can get lost.
StopMove ==
  /\ phase' = "idle" /\ mem' = NoMemory /\ SameSources
  /\ count'.kills \in Nat
  /\ (SameKills /\ NotSaving) \/ count'.kills # 0
  /\ \/ SameMacros
     \/ /\ count'.kills # 0
        /\ \E key \in DOMAIN disk.macro :
             disk'.macro = Put(disk.macro, key, [hash |-> None, bin |-> disk.macro[key].bin])

BeginMove ==
  /\ phase = "idle" /\ SameKills /\ SameMacros
  /\ source' = source /\ past' = [past EXCEPT !.mid = FALSE]
  /\ \/ phase' = "scan" /\ mem' = [NoMemory EXCEPT !.byDir = ByDir(Present)]
     \/ phase' = "idle" /\ mem' = NoMemory

EditMove ==
  /\ SameKills /\ SameMacros /\ mem' = mem /\ phase' = phase
  /\ \E f \in DOMAIN source : \E c :
       /\ source' = [source EXCEPT ![f] = c]
       /\ past' = [past EXCEPT !.seen[f] = @ \cup {c}, !.back = @ \/ c \in past.seen[f],
                               !.mid = TRUE, !.raced = @ \/ phase # "idle"]

ScanMove ==
  /\ phase = "scan" /\ phase' = "inject" /\ SameSources /\ SameKills /\ SameMacros
  /\ mem'.state = mem.state /\ mem'.stack = mem.stack
  /\ Restricts(mem'.byDir, mem.byDir) /\ Restricts(mem'.files, mem.byDir)
  /\ \A m \in DOMAIN mem'.registry : mem'.registry[m] \in DOMAIN mem'.files
  /\ MacrosOfSources'

InPackages ==
  /\ phase' = "compile" /\ SameSources /\ SameKills /\ SamePackages
  /\ Restricts(mem'.byDir, mem.byDir)

\* A step of the app's packages, or an output merged into a macro package.
AppMove ==
  /\ InPackages /\ phase # "scan" /\ phase # "idle"
  /\ SameMacros /\ mem'.state = mem.state
  /\ IsStack(mem'.stack) /\ SameFrames(mem'.stack, mem.stack)
  /\ Len(mem'.stack) <= 1 \/ Len(mem'.stack) = Len(mem.stack)
  /\ \A k \in DOMAIN mem'.stack :
       IsRecord(mem'.stack[k], FrameFields) /\ (k = 1 => mem'.stack[k].step = "expand")
  /\ NotSaving

\* An executable is used again.
ReuseMove(d) ==
  /\ InPackages /\ phase = "compile" /\ SameMacros /\ NotSaving
  /\ d \in DOMAIN mem.files /\ d \notin DOMAIN mem.state /\ Reusable(d)
  /\ mem'.state = Put(mem.state, d, "built") /\ mem'.stack = mem.stack

\* A macro package is compiled.
PushMove(d) ==
  /\ InPackages /\ phase = "compile" /\ SameMacros
  /\ mem.stack # <<>> /\ Top.step = "expand"
  /\ d \in DOMAIN mem.files /\ d \notin DOMAIN mem.state
  /\ mem'.state = Put(mem.state, d, "building")
  /\ mem'.stack = Append(mem.stack, Frame(d, "read", Read(mem.files[d]), Empty))

\* It is parsed, and generated.
TopMove(frame) ==
  /\ InPackages /\ phase = "compile" /\ SameMacros /\ mem'.state = mem.state
  /\ Len(mem.stack) > 1 /\ NotSaving
  /\ IsRecord(frame, FrameFields) /\ FrameOK(frame)
  /\ frame.dir = Top.dir /\ frame.step \in {"expand", "link"}
  /\ mem'.stack = [mem.stack EXCEPT ![Len(mem.stack)] = frame]

\* The executable of a package in key's directory is replaced, then its hash.
RecordMove(key, hash, bin) ==
  /\ InPackages /\ phase = "compile" /\ Len(mem.stack) > 1
  /\ key = PkgKey(Top.dir)
  /\ disk'.macro = Put(disk.macro, key, [hash |-> hash, bin |-> bin])

LinkMove(hash, bin) ==
  /\ RecordMove(PkgKey(Top.dir), hash, bin) /\ Top.step = "link"
  /\ hash = Saved(Top.dir).hash
  /\ bin = [dir |-> Top.dir, names |-> MacrosOf(Top.dir), code |-> Code]
  /\ mem'.state = mem.state
  /\ mem'.stack = [mem.stack EXCEPT ![Len(mem.stack)] = [Top EXCEPT !.step = "save"]]

SaveMove(hash, bin) ==
  /\ RecordMove(PkgKey(Top.dir), hash, bin) /\ Top.step = "save"
  /\ hash = Top.hash /\ bin = Saved(Top.dir).bin
  /\ mem'.state = Put(mem.state, Top.dir, "built")
  /\ mem'.stack = Front(mem.stack)

QuietMove ==
  /\ SameSources /\ SameKills /\ SameMacros /\ mem' = mem /\ phase' = phase

Moves ==
  \/ StopMove \/ BeginMove \/ EditMove \/ ScanMove \/ AppMove \/ QuietMove
  \/ \E d : ReuseMove(d) \/ PushMove(d)
  \/ \E frame : TopMove(frame)
  \/ \E hash, bin : LinkMove(hash, bin) \/ SaveMove(hash, bin)

-----------------------------------------------------------------------------
(* The steps, one by one.                                                  *)

\* A new frame has the fields it is made of.
LEMMA FrameFacts ==
  \A d, step, hash, parsed :
    LET frame == Frame(d, step, hash, parsed) IN
    /\ IsRecord(frame, FrameFields)
    /\ frame.dir = d /\ frame.step = step /\ frame.hash = hash /\ frame.parsed = parsed
  BY DEF Frame, IsRecord, FrameFields

\* The top of the stack and its place.
LEMMA TopFacts ==
  ASSUME BuildInv, mem.stack # <<>>
  PROVE  /\ IsStack(mem.stack) /\ Len(mem.stack) \in Nat /\ Len(mem.stack) >= 1
         /\ DOMAIN mem.stack = 1 .. Len(mem.stack)
         /\ Len(mem.stack) \in DOMAIN mem.stack /\ Top = mem.stack[Len(mem.stack)]
         /\ IsRecord(Top, FrameFields)
         /\ Top.step # "expand" => Len(mem.stack) > 1
         /\ Top.step # "save" => NotSaving
         /\ Len(mem.stack) > 1 => /\ Top.dir \in DOMAIN mem.state /\ Top.dir \in DOMAIN mem.files
                                  /\ mem.state[Top.dir] = "building" /\ FrameOK(Top)
  <1>1. IsStack(mem.stack)
    BY DEF BuildInv, ShapeInv, RecordsOK, IsStack
  <1>2. /\ Len(mem.stack) \in Nat /\ Len(mem.stack) >= 1
        /\ DOMAIN mem.stack = 1 .. Len(mem.stack)
        /\ Len(mem.stack) \in DOMAIN mem.stack /\ Top = mem.stack[Len(mem.stack)]
    BY <1>1, StackFacts DEF Top, Last
  <1>3. IsRecord(Top, FrameFields)
    BY <1>2 DEF BuildInv, ShapeInv, RecordsOK, FrameFields
  <1>4. Top.step # "expand" => Len(mem.stack) > 1
    BY <1>2 DEF BuildInv, StackInv
  <1>5. Top.step # "save" => NotSaving
    <2> SUFFICES ASSUME Top.step # "save", NEW k \in DOMAIN mem.stack
                 PROVE  mem.stack[k].step # "save"
      BY DEF NotSaving
    <2>1. CASE k < Len(mem.stack)
      BY <2>1 DEF BuildInv, StackInv
    <2>2. CASE ~ (k < Len(mem.stack))
      <3>1. k = Len(mem.stack)
        BY <1>2, <2>2
      <3> QED  BY <1>2, <3>1
    <2> QED  BY <2>1, <2>2
  <1>6. Len(mem.stack) > 1 => /\ Top.dir \in DOMAIN mem.state /\ Top.dir \in DOMAIN mem.files
                              /\ mem.state[Top.dir] = "building" /\ FrameOK(Top)
    BY <1>2 DEF BuildInv, StackInv, FrameInv, MemoryInv
  <1> QED  BY <1>1, <1>2, <1>3, <1>4, <1>5, <1>6

\* Every step leaves the records as they are built.
LEMMA NextRecords ==
  ASSUME RecordsOK, [Next]_vars
  PROVE  RecordsOK'
  <1> USE DEF RecordsOK, IsRecord
  <1>1. CASE Begin
    BY <1>1 DEF Begin, Abort, NoMemory
  <1>3. CASE Scan \/ Inject \/ Open
    BY <1>3 DEF Scan, Inject, Open, Goto, Abort, NoMemory
  <1>4. CASE Refuse \/ Cycle
    BY <1>4 DEF Refuse, Cycle, Abort, NoMemory
  <1>5. CASE Ensure \/ ReadSources
    BY <1>5 DEF Ensure, ReadSources, SetTop, Goto, Abort, NoMemory
  <1>6. CASE Invoke
    BY <1>6 DEF Invoke, SetTop, Abort, NoMemory
  <1>7. CASE Generate \/ GenerateMacro
    BY <1>7 DEF Generate, GenerateMacro, SetTop, Goto, Abort, NoMemory
  <1>8. CASE LinkMacro \/ SaveHash
    BY <1>8 DEF LinkMacro, SaveHash, Record, SetTop, Abort, NoMemory
  <1>9. CASE Write \/ Link
    BY <1>9 DEF Write, Link, Abort, NoMemory
  <1>10. CASE Edit
    BY <1>10 DEF Edit
  <1>11. CASE KillBetweenSteps \/ KillInRunCache \/ KillInHash
    BY <1>11 DEF KillBetweenSteps, KillInRunCache, KillInHash, Kill, Record, NoMemory
  <1>12. CASE UNCHANGED vars
    BY <1>12 DEF vars
  <1> QED
    BY <1>1, <1>3, <1>4, <1>5, <1>6, <1>7, <1>8, <1>9, <1>10, <1>11, <1>12
    DEF Next, Step

\* A build that ends leaves the executables as they are.
LEMMA AbortMoves ==
  ASSUME BuildInv, RecordsOK', UNCHANGED <<source, count, past>>, phase' = "idle",
         mem' = NoMemory, SameMacros, mem.stack # <<>> => Top.step # "save"
  PROVE  StopMove
  <1>1. NotSaving
    <2>1. CASE mem.stack = <<>>
      BY <2>1, StackFacts DEF NotSaving
    <2>2. CASE mem.stack # <<>>
      BY <2>2, TopFacts
    <2> QED  BY <2>1, <2>2
  <1> QED  BY <1>1 DEF StopMove, SameSources, SameKills, SameMacros, BuildInv, ShapeInv, RecordsOK

\* The discovery of the macros.
LEMMA ScanMoves == BuildInv /\ RecordsOK' /\ Scan => StopMove \/ ScanMove
  <1> SUFFICES ASSUME BuildInv, RecordsOK', Scan  PROVE StopMove \/ ScanMove
    OBVIOUS
  <1> USE DEF Scan
  <1>1. CASE \E why : Abort(why)
    <2>1. mem.stack = <<>>
      BY DEF BuildInv, MemoryInv
    <2> QED  BY <1>1, <2>1, AbortMoves DEF Abort, SameMacros
  <1> DEFINE dirs == {d \in DOMAIN mem.byDir : Defines(d) # {}}
             names == UNION {Defines(d) : d \in dirs}
  <1>2. ASSUME Goto("inject",
                [mem EXCEPT
                  !.registry = [m \in names |->
                                  CHOOSE d \in dirs : m \in Defines(d)],
                  !.files = Restrict(mem.byDir, dirs),
                  !.byDir = Without(mem.byDir, dirs)]),
               ~ Duplicate
        PROVE  ScanMove
    <2>1. /\ phase = "scan" /\ phase' = "inject" /\ SameSources /\ SameKills /\ SameMacros
          /\ mem'.state = mem.state /\ mem'.stack = mem.stack
          /\ mem'.registry = [m \in names |-> CHOOSE d \in dirs : m \in Defines(d)]
          /\ mem'.files = Restrict(mem.byDir, dirs)
          /\ mem'.byDir = Without(mem.byDir, dirs)
      BY <1>2 DEF Goto, SameSources, SameKills, SameMacros, BuildInv, ShapeInv, RecordsOK, IsRecord
    <2>2. Restricts(mem'.byDir, mem.byDir) /\ Restricts(mem'.files, mem.byDir)
      BY <2>1 DEF Restricts, Without, Restrict
    <2>3. DOMAIN mem'.files = dirs /\ \A d \in dirs : mem'.files[d] = mem.byDir[d]
      BY <2>1 DEF Restrict
    <2>4. ASSUME NEW m \in names
          PROVE  mem'.registry[m] \in dirs /\ m \in Defines(mem'.registry[m])
      BY <2>1
    <2>5. ASSUME NEW m \in names, NEW d \in dirs, m \in Defines(d)
          PROVE  mem'.registry[m] = d
      <3> DEFINE e == mem'.registry[m]
      <3>1. PICK f \in mem.byDir[d] : m \in source[f].defs
        BY <2>5 DEF Defines
      <3>2. PICK g \in mem.byDir[e] : m \in source[g].defs
        BY <2>4 DEF Defines
      <3>3. f \in UNION Range(mem.byDir) /\ g \in UNION Range(mem.byDir)
        BY <2>4, <3>1, <3>2 DEF Range
      <3>4. f = g
        BY <1>2, <3>1, <3>2, <3>3 DEF Duplicate
      <3>5. f.dir = d /\ g.dir = e
        BY <2>4, <3>1, <3>2 DEF BuildInv, MemoryInv, ListsFiles, FilesIn
      <3> QED  BY <3>4, <3>5
    <2>6. \A d \in dirs : {m \in names : mem'.registry[m] = d} = Defines(d)
      BY <2>4, <2>5
    <2>7. \A d \in dirs : Defines(d) = Defs([f \in mem'.files[d] |-> source[f]])
      BY <2>3 DEF Defines, Defs
    <2>8. MacrosOfSources'
      <3> SUFFICES ASSUME NEW d \in dirs
                   PROVE  MacrosOf(d)' = Defs([f \in mem'.files[d] |-> source'[f]])
        BY <2>3 DEF MacrosOfSources, Read
      <3>1. MacrosOf(d)' = {m \in names : mem'.registry[m] = d}
        BY <2>1 DEF MacrosOf
      <3>2. MacrosOf(d)' = Defs([f \in mem'.files[d] |-> source[f]])
        BY <2>6, <2>7, <3>1
      <3>3. source' = source
        BY <2>1 DEF SameSources
      <3> QED  BY <3>2, <3>3
    <2> QED  BY <2>1, <2>2, <2>3, <2>4, <2>8 DEF ScanMove
  <1> QED  BY <1>1, <1>2

\* The user and the kills.
LEMMA OutsideMoves ==
  ASSUME BuildInv, RecordsOK',
         Begin \/ Edit \/ KillBetweenSteps \/ KillInRunCache \/ KillInHash \/ UNCHANGED vars
  PROVE  Moves
  <1> USE DEF BuildInv, ShapeInv, RecordsOK, IsRecord, SameSources, SameKills, SameMacros
  <1>1. CASE Begin
    <2>1. BeginMove
      BY <1>1 DEF Begin, Abort, BeginMove
    <2> QED  BY <2>1 DEF Moves
  <1>2. CASE Edit
    <2>1. EditMove
      BY <1>2 DEF Edit, EditMove
    <2> QED  BY <2>1 DEF Moves
  <1>3. ASSUME Kill, \/ SameMacros
                     \/ \E key \in DOMAIN disk.macro :
                          disk'.macro = Put(disk.macro, key,
                                            [hash |-> None, bin |-> disk.macro[key].bin])
        PROVE  Moves
    <2>1. count'.kills = count.kills + 1 /\ count.kills \in Nat
      BY <1>3 DEF Kill
    <2>2. count'.kills \in Nat /\ count'.kills # 0
      BY <2>1
    <2>3. StopMove
      BY <1>3, <2>2 DEF Kill, StopMove
    <2> QED  BY <2>3 DEF Moves
  <1>4. CASE KillBetweenSteps \/ KillInRunCache
    BY <1>3, <1>4 DEF KillBetweenSteps, KillInRunCache
  <1>5. CASE KillInHash
    <2>1. mem.stack # <<>> /\ Top.step = "save"
      BY <1>5 DEF KillInHash, Compiling
    <2>2. Len(mem.stack) > 1 /\ FrameOK(Top)
      BY <2>1, TopFacts
    <2>3. PkgKey(Top.dir) \in DOMAIN disk.macro
      BY <2>1, <2>2 DEF FrameOK
    <2>4. disk'.macro = Put(disk.macro, PkgKey(Top.dir),
                            [hash |-> None, bin |-> disk.macro[PkgKey(Top.dir)].bin])
      BY <1>5, <2>3 DEF KillInHash, Record, Saved
    <2> QED  BY <1>3, <1>5, <2>3, <2>4 DEF KillInHash
  <1>6. CASE UNCHANGED vars
    BY <1>6 DEF vars, Moves, QuietMove
  <1> QED  BY <1>1, <1>2, <1>4, <1>5, <1>6

\* The packages of the app.
LEMMA AppMoves ==
  ASSUME BuildInv, RecordsOK', Inject \/ Open \/ Generate \/ Write \/ Link
  PROVE  StopMove \/ AppMove
  <1> USE DEF SameSources, SameKills, SameMacros, SamePackages
  <1> DEFINE Kept == /\ InPackages /\ phase # "scan" /\ phase # "idle"
                     /\ SameMacros /\ mem'.state = mem.state
  <1>1. /\ mem.stack # <<>> => Top.step # "save" \/ Compiling("save")
        /\ mem.stack = <<>> => NotSaving
        /\ IsRecord(mem, {"byDir", "registry", "files", "state", "injected", "result",
                          "written", "stack"})
        /\ IsRecord(disk, {"gen", "app", "macro", "runs"})
    BY StackFacts DEF BuildInv, ShapeInv, RecordsOK, MemoryInv, Compiling, NotSaving
  <1>2. ASSUME UNCHANGED <<source, count, past>>, \E why : Abort(why),
               mem.stack # <<>> => Top.step # "save"
        PROVE  StopMove
    BY <1>2, AbortMoves DEF Abort
  <1>3. CASE Inject
    <2>1. mem.stack = <<>> /\ phase # "scan" /\ phase # "idle"
      BY <1>3 DEF Inject, BuildInv, MemoryInv
    <2>2. CASE \E why : Abort(why)
      BY <1>2, <1>3, <2>1, <2>2 DEF Inject
    <2>3. CASE ~ \E why : Abort(why)
      <3>1. PICK injected : /\ mem' = [mem EXCEPT !.injected = injected,
                                                  !.byDir = Without(mem.byDir, Merged)]
                            /\ phase' = "compile" /\ UNCHANGED <<disk, source, count, past>>
        BY <1>3, <2>3 DEF Inject, Goto
      <3>2. /\ mem'.byDir = Without(mem.byDir, Merged) /\ mem'.stack = <<>>
            /\ mem'.state = mem.state /\ mem'.files = mem.files
            /\ mem'.registry = mem.registry
        BY <1>1, <2>1, <3>1 DEF IsRecord
      <3>3. Restricts(mem'.byDir, mem.byDir)
        BY <3>2 DEF Restricts, Without, Restrict
      <3>4. /\ InPackages /\ SameMacros /\ mem'.state = mem.state /\ mem'.stack = <<>>
        BY <3>1, <3>2, <3>3 DEF InPackages
      <3> QED
        BY <1>1, <2>1, <3>4, StackFacts DEF AppMove, SameFrames, NotSaving
    <2> QED  BY <2>2, <2>3
  <1>4. CASE Open
    <2>1. mem.stack = <<>> /\ phase # "scan" /\ phase # "idle"
      BY <1>4 DEF Open
    <2>2. CASE \E why : Abort(why)
      BY <1>2, <1>4, <2>1, <2>2 DEF Open
    <2>3. CASE ~ \E why : Abort(why)
      <3>1. PICK frame : /\ mem' = [mem EXCEPT !.stack = <<frame>>]
                         /\ phase' = "compile" /\ UNCHANGED disk /\ frame.step = "expand"
                         /\ IsRecord(frame, FrameFields)
        <4>1. PICK d, parsed : /\ mem' = [mem EXCEPT !.stack = <<Frame(d, "expand", None, parsed)>>]
                               /\ phase' = "compile" /\ UNCHANGED disk
          BY <1>4, <2>3 DEF Open, Goto
        <4> WITNESS Frame(d, "expand", None, parsed)
        <4> QED  BY <4>1, FrameFacts
      <3>2. /\ InPackages /\ SameMacros /\ mem'.state = mem.state /\ mem'.stack = <<frame>>
        BY <1>1, <1>4, <3>1 DEF Open, Goto, InPackages, Restricts, IsRecord
      <3>3. IsStack(<<frame>>) /\ Len(<<frame>>) = 1 /\ DOMAIN <<frame>> = {1}
        <4>1. <<frame>> \in Seq({frame})
          OBVIOUS
        <4>2. IsStack(<<frame>>) /\ Len(<<frame>>) = 1
          BY <4>1, StackFacts
        <4>3. DOMAIN <<frame>> = 1 .. 1
          BY <4>2, StackFacts
        <4> QED  BY <4>2, <4>3
      <3> QED
        BY <1>1, <2>1, <3>1, <3>2, <3>3 DEF AppMove, SameFrames
    <2> QED  BY <2>2, <2>3
  <1>5. CASE Generate
    <2>1. mem.stack # <<>> /\ Top.step = "expand" /\ phase = "compile"
      BY <1>5 DEF Generate, Expanded, Compiling
    <2>2. NotSaving
      BY <2>1, TopFacts
    <2>3. CASE \E why : Abort(why)
      BY <1>2, <1>5, <2>1, <2>3 DEF Generate
    <2>4. CASE ~ \E why : Abort(why)
      <3>1. /\ InPackages /\ SameMacros /\ mem'.state = mem.state /\ mem'.stack = <<>>
        BY <1>1, <1>5, <2>4 DEF Generate, Goto, InPackages, Restricts, IsRecord
      <3> QED  BY <2>1, <2>2, <3>1, StackFacts DEF AppMove, SameFrames
    <2> QED  BY <2>3, <2>4
  <1>6. CASE Write
    <2>1. mem.stack = <<>> /\ phase = "compile"
      BY <1>6 DEF Write, Compiled
    <2>2. /\ InPackages /\ SameMacros /\ mem'.state = mem.state /\ mem'.stack = <<>>
      BY <1>1, <1>6, <2>1 DEF Write, InPackages, Restricts, IsRecord
    <2> QED  BY <1>1, <2>1, <2>2, StackFacts DEF AppMove, SameFrames, NotSaving
  <1>7. CASE Link
    <2>1. mem.stack = <<>> /\ SameMacros /\ phase' = "idle" /\ mem' = NoMemory
      BY <1>1, <1>7 DEF Link, Compiled, Abort, IsRecord
    <2> QED  BY <1>7, <2>1, AbortMoves DEF Link
  <1> QED  BY <1>3, <1>4, <1>5, <1>6, <1>7

\* The top frame is replaced by one of the same package.
LEMMA SetTopFacts ==
  ASSUME BuildInv, mem.stack # <<>>, NEW frame
  PROVE  LET new == SetTop(frame) IN
         /\ new.stack = [mem.stack EXCEPT ![Len(mem.stack)] = frame]
         /\ new.files = mem.files /\ new.registry = mem.registry /\ new.state = mem.state
         /\ new.byDir = mem.byDir
  BY TopFacts DEF SetTop, BuildInv, ShapeInv, RecordsOK, IsRecord

\* Parsing the sources of a macro package, and compiling them.
LEMMA CompileMoves ==
  ASSUME BuildInv, RecordsOK', ReadSources \/ GenerateMacro
  PROVE  StopMove \/ \E frame : TopMove(frame)
  <1> USE DEF SameSources, SameKills, SameMacros, SamePackages
  <1>1. /\ mem.stack # <<>> /\ phase = "compile" /\ Top.step \in {"read", "expand"}
        /\ Len(mem.stack) > 1 /\ NotSaving /\ FrameOK(Top) /\ IsRecord(Top, FrameFields)
        /\ Top.dir \in DOMAIN mem.files
    <2>1. /\ mem.stack # <<>> /\ phase = "compile" /\ Top.step \in {"read", "expand"}
          /\ Top.step = "read" \/ Len(mem.stack) > 1
      BY DEF ReadSources, GenerateMacro, Expanded, Compiling
    <2> QED  BY <2>1, TopFacts
  <1>2. CASE \E why : Abort(why)
    BY <1>1, <1>2, AbortMoves DEF Abort, ReadSources, GenerateMacro
  <1>3. ASSUME NEW frame, IsRecord(frame, FrameFields), FrameOK(frame),
               frame.dir = Top.dir, frame.step \in {"expand", "link"},
               Goto("compile", SetTop(frame)), UNCHANGED <<source, count, past>>
        PROVE  TopMove(frame)
    BY <1>1, <1>3, SetTopFacts DEF TopMove, Goto, InPackages, Restricts
  <1>4. CASE GenerateMacro /\ ~ \E why : Abort(why)
    <2> DEFINE frame == [Top EXCEPT !.step = "link"]
    <2>1. /\ IsRecord(frame, FrameFields) /\ frame.dir = Top.dir /\ frame.hash = Top.hash
          /\ frame.parsed = Top.parsed /\ frame.step = "link"
      BY <1>1 DEF IsRecord, FrameFields
    <2>2. Top.step = "expand"
      BY <1>4 DEF GenerateMacro, Expanded, Compiling
    <2>3. FrameOK(frame)
      BY <1>1, <2>1, <2>2 DEF FrameOK
    <2> QED  BY <1>3, <1>4, <2>1, <2>3 DEF GenerateMacro
  <1>5. CASE ReadSources /\ ~ \E why : Abort(why)
    <2> DEFINE files == mem.files[Top.dir]
               frame == Frame(Top.dir, "expand", Top.hash, Read(files))
    <2>1. /\ IsRecord(frame, FrameFields) /\ frame.dir = Top.dir /\ frame.hash = Top.hash
          /\ frame.parsed = Read(files) /\ frame.step = "expand"
      BY FrameFacts
    <2>2. Readable(files) /\ Goto("compile", SetTop(frame))
      BY <1>5 DEF ReadSources
    <2> HIDE DEF frame
    <2>3. Read(files) = [f \in files |-> Read(files)[f]]
      BY DEF Read
    <2>4. ASSUME ~ past.back, NEW f \in FilesIn(Top.dir)
          PROVE  /\ Follows(Top.hash, Read(files), f)
                 /\ Saved(Top.dir).hash # None => Follows(Saved(Top.dir).hash, Read(files), f)
      <3>1. CASE f \in files
        BY <3>1 DEF Follows, Has, Read
      <3>2. CASE f \notin files
        <4>1. Has(Read(files), f) = Absent
          BY <3>2 DEF Has, Read
        <4>2. DOMAIN Top.hash = files
          BY <1>1 DEF FrameOK
        <4>3. Has(Top.hash, f) = Absent
          BY <3>2, <4>2 DEF Has
        <4>4. Saved(Top.dir).hash # None =>
                (Has(Saved(Top.dir).hash, f) = source[f] => source[f] = Absent)
          BY <1>1, <2>4, <3>2 DEF BuildInv, UnknownInv, Candidates
        <4> QED  BY <4>1, <4>3, <4>4 DEF Follows
      <3> QED  BY <3>1, <3>2
    <2>5. FrameOK(frame)
      BY <1>1, <2>1, <2>2, <2>3, <2>4 DEF FrameOK, Readable, Read
    <2> QED  BY <1>3, <1>5, <2>1, <2>2, <2>5 DEF ReadSources
  <1> QED  BY <1>2, <1>4, <1>5

\* The expansion of a trigger.
LEMMA ExpandMoves ==
  ASSUME BuildInv, RecordsOK', Refuse \/ Cycle \/ Ensure \/ Invoke
  PROVE  Moves
  <1> USE DEF SameSources, SameKills, SameMacros, SamePackages
  <1>1. /\ mem.stack # <<>> /\ phase = "compile" /\ Top.step = "expand"
        /\ NotSaving /\ IsRecord(Top, FrameFields) /\ UNCHANGED <<source, count, past>>
    <2>1. /\ mem.stack # <<>> /\ phase = "compile" /\ Top.step = "expand"
          /\ UNCHANGED <<source, count, past>>
      BY DEF Refuse, Cycle, Ensure, Invoke, Triggered
    <2> QED  BY <2>1, TopFacts
  <1>2. ASSUME phase' = "idle", mem' = NoMemory, SameMacros  PROVE Moves
    BY <1>1, <1>2, AbortMoves DEF Moves
  <1>3. CASE \E why : Abort(why)
    BY <1>2, <1>3 DEF Abort
  <1>4. CASE Refuse \/ Cycle
    BY <1>2, <1>4 DEF Refuse, Cycle, Abort
  <1>5. CASE Ensure /\ ~ \E why : Abort(why)
    <2> DEFINE d == MacroDir
    <2>1. d \in DOMAIN mem.files /\ d \notin DOMAIN mem.state
      <3>1. Trigger \in DOMAIN mem.registry /\ InState(d) = "unbuilt"
        BY <1>5 DEF Ensure, Usable
      <3>2. d \in DOMAIN mem.files
        BY <3>1 DEF MacroDir, BuildInv, MemoryInv
      <3>3. d \notin DOMAIN mem.state
        BY <3>1 DEF InState, BuildInv, MemoryInv
      <3> QED  BY <3>2, <3>3
    <2>2. /\ phase' = "compile" /\ UNCHANGED disk
          /\ mem' = IF Reusable(d)
                    THEN [mem EXCEPT !.state = SetState(d, "built")]
                    ELSE [mem EXCEPT !.state = SetState(d, "building"),
                            !.stack = Append(@, Frame(d, "read", Read(mem.files[d]), Empty))]
      BY <1>5 DEF Ensure, Goto
    <2> HIDE DEF d
    <2>3. CASE Reusable(d)
      <3>1. ReuseMove(d)
        BY <1>1, <2>1, <2>2, <2>3
        DEF ReuseMove, InPackages, Restricts, SetState, BuildInv, ShapeInv, RecordsOK, IsRecord
      <3> QED  BY <3>1 DEF Moves
    <2>4. CASE ~ Reusable(d)
      <3>1. PushMove(d)
        BY <1>1, <2>1, <2>2, <2>4
        DEF PushMove, InPackages, Restricts, SetState, BuildInv, ShapeInv, RecordsOK, IsRecord
      <3> QED  BY <3>1 DEF Moves
    <2> QED  BY <2>3, <2>4
  <1>6. CASE Invoke /\ ~ \E why : Abort(why)
    <2>1. SameMacros
      BY <1>6 DEF Invoke, BuildInv, ShapeInv, RecordsOK, IsRecord
    <2>2. CASE phase' = "idle" /\ mem' = NoMemory
      BY <1>2, <2>1, <2>2
    <2>3. CASE ~ (phase' = "idle" /\ mem' = NoMemory)
      <3>1. PICK outs : mem' = SetTop([Top EXCEPT !.outs = outs]) /\ phase' = phase
        <4>1. PICK out : mem' = SetTop([Top EXCEPT !.outs[Subject] = Append(@, out)])
                         /\ phase' = phase
          BY <1>6, <2>3 DEF Invoke
        <4>2. [Top EXCEPT !.outs[Subject] = Append(@, out)]
              = [Top EXCEPT !.outs = [Top.outs EXCEPT ![Subject] = Append(@, out)]]
          OBVIOUS
        <4> QED  BY <4>1, <4>2
      <3> DEFINE frame == [Top EXCEPT !.outs = outs]
      <3>2. /\ IsRecord(frame, FrameFields) /\ frame.dir = Top.dir /\ frame.step = Top.step
            /\ frame.hash = Top.hash /\ frame.parsed = Top.parsed
        BY <1>1 DEF IsRecord, FrameFields
      <3> HIDE DEF frame
      <3>3. /\ mem'.stack = [mem.stack EXCEPT ![Len(mem.stack)] = frame]
            /\ mem'.files = mem.files /\ mem'.registry = mem.registry
            /\ mem'.state = mem.state /\ mem'.byDir = mem.byDir
        BY <1>1, <3>1, SetTopFacts DEF frame
      <3>4. /\ InPackages /\ SameMacros
        BY <1>1, <2>1, <3>1, <3>3 DEF InPackages, Restricts
      <3>5. /\ IsStack(mem'.stack) /\ Len(mem'.stack) = Len(mem.stack)
            /\ DOMAIN mem'.stack = DOMAIN mem.stack
            /\ \A k \in DOMAIN mem.stack :
                 mem'.stack[k] = IF k = Len(mem.stack) THEN frame ELSE mem.stack[k]
        BY <1>1, <3>3, TopFacts, StackFacts, SetLastFacts
      <3>6. SameFrames(mem'.stack, mem.stack)
        BY <1>1, <3>2, <3>5, TopFacts DEF SameFrames
      <3>7. \A k \in DOMAIN mem'.stack :
              IsRecord(mem'.stack[k], FrameFields) /\ (k = 1 => mem'.stack[k].step = "expand")
        BY <1>1, <3>2, <3>5 DEF BuildInv, ShapeInv, RecordsOK, StackInv, FrameFields
      <3>8. AppMove
        BY <1>1, <3>3, <3>4, <3>5, <3>6, <3>7 DEF AppMove
      <3> QED  BY <3>8 DEF Moves
    <2> QED  BY <2>2, <2>3
  <1> QED  BY <1>3, <1>4, <1>5, <1>6

\* The executable of a macro package and its hash.
LEMMA RecordMoves ==
  ASSUME BuildInv, RecordsOK', LinkMacro \/ SaveHash
  PROVE  Moves
  <1> USE DEF SameSources, SameKills, SameMacros, SamePackages
  <1>1. /\ mem.stack # <<>> /\ phase = "compile" /\ Len(mem.stack) > 1
        /\ UNCHANGED <<source, count, past>>
    <2>1. /\ mem.stack # <<>> /\ phase = "compile" /\ Top.step # "expand"
          /\ UNCHANGED <<source, count, past>>
      BY DEF LinkMacro, SaveHash, Compiling
    <2> QED  BY <2>1, TopFacts
  <1>2. CASE LinkMacro /\ \E why : Abort(why)
    <2>1. Top.step # "save"
      BY <1>2 DEF LinkMacro, Compiling
    <2> QED  BY <1>1, <1>2, <2>1, AbortMoves DEF Abort, Moves
  <1>3. CASE LinkMacro /\ ~ \E why : Abort(why)
    <2> DEFINE hash == Saved(Top.dir).hash
               bin == [dir |-> Top.dir, names |-> MacrosOf(Top.dir), code |-> Code]
    <2>1. /\ Top.step = "link" /\ Record(Top.dir, hash, bin) /\ phase' = phase
          /\ mem' = SetTop([Top EXCEPT !.step = "save"])
      BY <1>3 DEF LinkMacro, Compiling
    <2> HIDE DEF hash, bin
    <2>2. disk'.macro = Put(disk.macro, PkgKey(Top.dir), [hash |-> hash, bin |-> bin])
      BY <2>1 DEF Record, BuildInv, ShapeInv, RecordsOK, IsRecord
    <2>3. LinkMove(hash, bin)
      BY <1>1, <2>1, <2>2, SetTopFacts
      DEF LinkMove, RecordMove, InPackages, Restricts, hash, bin
    <2> QED  BY <2>3 DEF Moves
  <1>4. CASE SaveHash
    <2> DEFINE hash == Top.hash
               bin == Saved(Top.dir).bin
    <2>1. /\ Top.step = "save" /\ Record(Top.dir, hash, bin) /\ phase' = phase
          /\ mem' = [mem EXCEPT !.state = SetState(Top.dir, "built"), !.stack = Front(@)]
      BY <1>4 DEF SaveHash, Compiling
    <2> HIDE DEF hash, bin
    <2>2. disk'.macro = Put(disk.macro, PkgKey(Top.dir), [hash |-> hash, bin |-> bin])
      BY <2>1 DEF Record, BuildInv, ShapeInv, RecordsOK, IsRecord
    <2>3. /\ mem'.state = SetState(Top.dir, "built") /\ mem'.stack = Front(mem.stack)
          /\ mem'.files = mem.files /\ mem'.registry = mem.registry
          /\ mem'.byDir = mem.byDir
      BY <2>1 DEF BuildInv, ShapeInv, RecordsOK, IsRecord
    <2>4. SaveMove(hash, bin)
      BY <1>1, <2>1, <2>2, <2>3
      DEF SaveMove, RecordMove, InPackages, Restricts, SetState, hash, bin
    <2> QED  BY <2>4 DEF Moves
  <1> QED  BY <1>2, <1>3, <1>4

\* Every step is one of the moves.
LEMMA NextMoves ==
  ASSUME BuildInv, [Next]_vars
  PROVE  Moves /\ RecordsOK'
  <1>1. RecordsOK'
    BY NextRecords DEF BuildInv, ShapeInv
  <1>2. Moves
    BY <1>1, ScanMoves, OutsideMoves, AppMoves, CompileMoves, ExpandMoves, RecordMoves
    DEF Next, Step, Moves
  <1> QED  BY <1>1, <1>2

-----------------------------------------------------------------------------
(* What is kept under the key of a directory is of that directory.         *)

\* What is saved under a key, and what a key without an entry gives.
LEMMA SavedFacts ==
  \A d : /\ PkgKey(d) \in DOMAIN disk.macro => Saved(d) = disk.macro[PkgKey(d)]
         /\ PkgKey(d) \notin DOMAIN disk.macro => Saved(d).hash = None
  BY DEF Saved

\* With distinct keys an entry is of the directory that asks for it.
LEMMA KeyFacts ==
  ASSUME DistinctKeys, BuildInv
  PROVE  /\ \A d, e \in Dirs : PkgKey(d) = PkgKey(e) => d = e
         /\ \A d \in Dirs : PkgKey(d) \in DOMAIN disk.macro =>
              /\ EntryOK(PkgKey(d), Saved(d)) /\ Saved(d).bin.dir = d
  <1>1. ASSUME NEW d \in Dirs, NEW e \in Dirs, PkgKey(d) = PkgKey(e)  PROVE d = e
    <2>1. PICK tree \in Trees : DOMAIN tree = DOMAIN source
      BY DEF BuildInv, SeenInv
    <2>2. PICK f \in DOMAIN tree : f.dir = d
      BY <2>1 DEF Dirs
    <2>3. PICK g \in DOMAIN tree : g.dir = e
      BY <2>1 DEF Dirs
    <2> QED  BY <1>1, <2>2, <2>3 DEF DistinctKeys
  <1>2. ASSUME NEW d \in Dirs, PkgKey(d) \in DOMAIN disk.macro
        PROVE  EntryOK(PkgKey(d), Saved(d)) /\ Saved(d).bin.dir = d
    <2>1. EntryOK(PkgKey(d), Saved(d))
      BY <1>2, SavedFacts DEF BuildInv, EntryInv
    <2>2. Saved(d).bin.dir \in Dirs /\ PkgKey(d) = PkgKey(Saved(d).bin.dir)
      BY <2>1 DEF EntryOK
    <2> QED  BY <1>1, <2>1, <2>2
  <1> QED  BY <1>1, <1>2

\* A file outside a macro package, and the files in it.
LEMMA PackageFacts ==
  ASSUME BuildInv, NEW d \in DOMAIN mem.files
  PROVE  /\ d \in Dirs /\ mem.files[d] \subseteq FilesIn(d)
         /\ ~ past.mid => mem.files[d] = FilesIn(d) \cap Present
         /\ \A f \in FilesIn(d) \ mem.files[d] : Absent \in past.seen[f]
         /\ ~ past.raced /\ phase = "compile" => ~ past.mid
  BY DEF BuildInv, MemoryInv, ListsFiles

\* A frame stays as good as long as what is saved of its package stays.
LEMMA FrameKept ==
  ASSUME SameSources, mem'.files = mem.files, NEW old, NEW new, FrameOK(old),
         Saved(old.dir)' = Saved(old.dir),
         PkgKey(old.dir) \in DOMAIN disk.macro => PkgKey(old.dir) \in DOMAIN disk'.macro,
         new.dir = old.dir, new.step = old.step, new.hash = old.hash, new.parsed = old.parsed
  PROVE  FrameOK(new)'
  BY DEF FrameOK, SameSources, Follows, Has, FilesIn, Read

\* So does the frame of a package that was just linked under its old hash.
LEMMA FrameLinked ==
  ASSUME SameSources, mem'.files = mem.files, NEW old, NEW new, FrameOK(old),
         old.step # "read", Saved(old.dir)'.hash = Saved(old.dir).hash,
         Contents(Saved(old.dir)'.bin) = old.parsed, PkgKey(old.dir) \in DOMAIN disk'.macro,
         new.dir = old.dir, new.hash = old.hash, new.parsed = old.parsed
  PROVE  FrameOK(new)'
  BY DEF FrameOK, SameSources, Follows, FilesIn, Read

-----------------------------------------------------------------------------
(* The invariant, move by move.                                            *)

\* What was recorded stays right while nothing is recorded or edited.
LEMMA SameEntries ==
  ASSUME BuildInv, SameSources, SameKills, SameMacros, NotSaving
  PROVE  /\ SeenInv' /\ EntryInv' /\ ExactInv'
         /\ \A d : Saved(d)' = Saved(d)
         /\ SamePackages => NamesInv'
         /\ SamePackages /\ phase # "scan" /\ phase' # "scan" => UnknownInv'
  <1> USE DEF SameSources, SameKills, SameMacros, SamePackages
  <1>1. \A d : Saved(d)' = Saved(d)
    BY DEF Saved
  <1>2. SeenInv'
    BY DEF BuildInv, SeenInv
  <1>3. EntryInv'
    <2> SUFFICES ASSUME NEW key \in DOMAIN disk.macro  PROVE EntryOK(key, disk.macro[key])'
      BY DEF EntryInv
    <2>1. EntryOK(key, disk.macro[key])
      BY DEF BuildInv, EntryInv
    <2> QED
      BY <2>1 DEF EntryOK, Dirs, FilesIn, Follows, Has, Contents
  <1>4. ExactInv'
    BY DEF BuildInv, ExactInv, NotSaving, Contents
  <1>5. SamePackages => NamesInv'
    <2> SUFFICES ASSUME SamePackages, ~ past.raced  PROVE NamesInv'
      BY DEF NamesInv
    <2>1. ASSUME NEW d \in DOMAIN mem.files  PROVE (MacrosOf(d) = Defs(Read(mem.files[d])))'
      <3>1. MacrosOf(d) = Defs(Read(mem.files[d]))
        BY DEF BuildInv, NamesInv
      <3> QED  BY <3>1 DEF MacrosOf, Read
    <2>2. ASSUME NEW key \in DOMAIN disk.macro
          PROVE  (disk.macro[key].bin.names = Defs(Contents(disk.macro[key].bin)))'
      BY DEF BuildInv, NamesInv
    <2> QED  BY <2>1, <2>2 DEF NamesInv
  <1>6. SamePackages /\ phase # "scan" /\ phase' # "scan" => UnknownInv'
    BY <1>1 DEF BuildInv, UnknownInv, Candidates, FilesIn, Has
  <1> QED  BY <1>1, <1>2, <1>3, <1>4, <1>5, <1>6

\* The directories a build knows, in its steps after the discovery.
LEMMA SameDirectories ==
  ASSUME BuildInv, InPackages, phase # "idle",
         \A d \in DOMAIN mem'.state :
           d \in DOMAIN mem.files /\ mem'.state[d] \in {"building", "built"}
  PROVE  MemoryInv'
  <1> USE DEF InPackages, SameSources, SamePackages
  <1>1. ListsFiles(mem.byDir)' /\ ListsFiles(mem.files)'
    BY DEF BuildInv, MemoryInv, ListsFiles, Restricts, Dirs, FilesIn, Present
  <1> QED
    BY <1>1 DEF BuildInv, MemoryInv

\* A package that was built stays so.
LEMMA SameBuilt ==
  ASSUME BuildInv, SameSources, SameKills, SamePackages,
         \A d \in DOMAIN mem'.state : mem'.state[d] = "built" =>
           /\ d \in DOMAIN mem.state /\ mem.state[d] = "built" /\ Saved(d)' = Saved(d)
           /\ PkgKey(d) \in DOMAIN disk.macro => PkgKey(d) \in DOMAIN disk'.macro
  PROVE  BuiltInv'
  <1> USE DEF SameSources, SameKills, SamePackages
  <1>1. \A d \in DOMAIN mem'.state : mem'.state[d] = "built" => PkgKey(d) \in DOMAIN disk'.macro
    BY DEF BuildInv, BuiltInv
  <1>2. BinaryIsFresh'
    <2> SUFFICES ASSUME ~ past.back \/ (count.kills = 0 /\ ~ past.raced), ~ past.mid,
                        NEW d \in DOMAIN mem'.state, mem'.state[d] = "built"
                 PROVE  /\ Saved(d)'.bin.dir = d
                        /\ Contents(Saved(d)'.bin) = [f \in mem.files[d] |-> source[f]]
                        /\ ~ past.raced => Saved(d)'.bin.names = MacrosOf(d)
      BY DEF BinaryIsFresh, Read, MacrosOf
    <2>1. d \in DOMAIN mem.state /\ mem.state[d] = "built" /\ Saved(d)' = Saved(d)
      OBVIOUS
    <2>2. /\ Saved(d).bin.dir = d /\ Contents(Saved(d).bin) = Read(mem.files[d])
          /\ ~ past.raced => Saved(d).bin.names = MacrosOf(d)
      BY <2>1 DEF BuildInv, BuiltInv, BinaryIsFresh
    <2> QED  BY <2>1, <2>2 DEF Read
  <1> QED  BY <1>1, <1>2 DEF BuiltInv

\* The frames of macro packages that were there stay good.
LEMMA SameFramesOK ==
  ASSUME BuildInv, SameSources, SamePackages, SameMacros, NEW old, FrameOK(old), NEW new,
         new.dir = old.dir, new.step = old.step, new.hash = old.hash, new.parsed = old.parsed
  PROVE  FrameOK(new)'
  <1>1. Saved(old.dir)' = Saved(old.dir)
    BY DEF Saved, SameMacros
  <1> QED  BY <1>1, FrameKept DEF SamePackages, SameMacros

\* Steps of the app's packages and merged outputs touch no executable.
LEMMA AppKeeps == ASSUME BuildInv, RecordsOK', AppMove  PROVE BuildInv'
  <1> USE DEF AppMove
  <1>1. /\ SameSources /\ SameKills /\ SameMacros /\ SamePackages /\ NotSaving
        /\ phase # "scan" /\ phase # "idle" /\ phase' = "compile"
        /\ mem'.state = mem.state
    BY DEF InPackages
  <1>2. SeenInv' /\ EntryInv' /\ ExactInv' /\ UnknownInv' /\ NamesInv'
    BY <1>1, SameEntries
  <1>3. MemoryInv'
    BY <1>1, SameDirectories DEF BuildInv, MemoryInv
  <1>4. BuiltInv'
    BY <1>1, SameEntries, SameBuilt DEF SameMacros
  <1>5. ShapeInv'
    BY DEF ShapeInv, IsStack, FrameFields
  <1> DEFINE s == mem.stack
             t == mem'.stack
  <1>6. /\ DOMAIN s = 1 .. Len(s) /\ Len(s) \in Nat /\ DOMAIN t = 1 .. Len(t) /\ Len(t) \in Nat
    BY StackFacts DEF BuildInv, ShapeInv, IsStack
  <1>7. \A k \in DOMAIN t : k # 1 =>
          /\ k \in DOMAIN s /\ Len(t) = Len(s)
          /\ t[k].dir = s[k].dir /\ t[k].step = s[k].step
          /\ t[k].hash = s[k].hash /\ t[k].parsed = s[k].parsed
    BY <1>6 DEF SameFrames
  <1>8. StackInv'
    <2>1. \A k \in DOMAIN t : k = 1 \/ k < Len(t) => t[k].step = "expand"
      BY <1>7 DEF BuildInv, StackInv
    <2>2. \A k \in DOMAIN t : k # 1 =>
            /\ t[k].dir \in DOMAIN mem.state /\ mem.state[t[k].dir] = "building"
            /\ t[k].step \in {"read", "expand", "link", "save"}
      BY <1>7 DEF BuildInv, StackInv
    <2>3. \A j, k \in DOMAIN t : j # 1 /\ k # 1 /\ t[j].dir = t[k].dir => j = k
      BY <1>7 DEF BuildInv, StackInv
    <2> QED  BY <1>1, <2>1, <2>2, <2>3 DEF StackInv
  <1>9. FrameInv'
    <2> SUFFICES ASSUME NEW k \in DOMAIN t, k # 1  PROVE FrameOK(mem.stack[k])'
      BY DEF FrameInv
    <2>1. PICK old : old = s[k]
      OBVIOUS
    <2>2. FrameOK(old)
      BY <1>7, <2>1 DEF BuildInv, FrameInv
    <2>3. PICK new : new = t[k]
      OBVIOUS
    <2>4. FrameOK(new)'
      BY <1>1, <1>7, <2>1, <2>2, <2>3, SameFramesOK
    <2> QED  BY <2>3, <2>4
  <1> QED
    BY <1>2, <1>3, <1>4, <1>5, <1>8, <1>9 DEF BuildInv

\* An executable that is reused is made of the present sources.
LEMMA ReusedIsFresh ==
  ASSUME DistinctKeys, BuildInv, NotSaving, phase = "compile",
         NEW d \in DOMAIN mem.files, Reusable(d)
  PROVE  /\ PkgKey(d) \in DOMAIN disk.macro
         /\ (~ past.back \/ (count.kills = 0 /\ ~ past.raced)) /\ ~ past.mid =>
              /\ Saved(d).bin.dir = d /\ Contents(Saved(d).bin) = Read(mem.files[d])
              /\ ~ past.raced => Saved(d).bin.names = MacrosOf(d)
  <1> DEFINE files == mem.files[d]
             bin == Saved(d).bin
             key == PkgKey(d)
  <1>1. Saved(d).hash # None /\ Saved(d).hash = Read(files)
    BY DEF Reusable
  <1>2. key \in DOMAIN disk.macro /\ Saved(d) = disk.macro[key]
    BY <1>1, SavedFacts
  <1>3. EntryOK(key, Saved(d)) /\ bin.dir = d
    BY <1>2, KeyFacts, PackageFacts
  <1>4. ASSUME ~ past.back, ~ past.mid  PROVE Contents(bin) = Read(files)
    <2>1. files = FilesIn(d) \cap Present
      BY <1>4, PackageFacts
    <2>2. \A f \in FilesIn(d) : Follows(Saved(d).hash, Contents(bin), f)
      BY <1>1, <1>3, <1>4 DEF EntryOK
    <2>3. /\ DOMAIN Contents(bin) \subseteq FilesIn(d)
          /\ \A f \in DOMAIN Contents(bin) : Contents(bin)[f] # Absent
      BY <1>3 DEF EntryOK, Contents
    <2>4. ASSUME NEW f \in files
          PROVE  f \in DOMAIN Contents(bin) /\ Contents(bin)[f] = source[f]
      <3>1. Has(Saved(d).hash, f) = source[f] /\ source[f] # Absent
        BY <1>1, <2>1 DEF Has, Read, Present
      <3> QED  BY <2>1, <2>2, <3>1 DEF Follows, Has
    <2>5. ASSUME NEW f \in DOMAIN Contents(bin)  PROVE f \in files
      <3> SUFFICES ASSUME f \notin files  PROVE FALSE
        OBVIOUS
      <3>1. f \in FilesIn(d) /\ source[f] = Absent
        BY <2>1, <2>3 DEF Present, FilesIn
      <3>2. Has(Saved(d).hash, f) = Absent
        BY <1>1 DEF Has, Read
      <3> QED  BY <2>2, <2>3, <3>1, <3>2 DEF Follows, Has
    <2>6. DOMAIN Contents(bin) = files
      BY <2>4, <2>5
    <2>7. Contents(bin) = [f \in DOMAIN Contents(bin) |-> Contents(bin)[f]]
      BY DEF Contents
    <2> QED  BY <2>4, <2>6, <2>7 DEF Read
  <1>5. ASSUME count.kills = 0, ~ past.raced  PROVE Contents(bin) = Read(files)
    <2>1. Saved(d).hash = Contents(bin)
      BY <1>1, <1>2, <1>5 DEF BuildInv, ExactInv, NotSaving
    <2> QED  BY <1>1, <2>1
  <1>6. ASSUME ~ past.raced, Contents(bin) = Read(files)  PROVE bin.names = MacrosOf(d)
    BY <1>2, <1>6 DEF BuildInv, NamesInv
  <1> QED  BY <1>2, <1>3, <1>4, <1>5, <1>6

\* The package of an executable that is reused counts as built.
LEMMA ReuseKeeps ==
  ASSUME DistinctKeys, BuildInv, RecordsOK', NEW d, ReuseMove(d)  PROVE BuildInv'
  <1>1. /\ SameSources /\ SameKills /\ SameMacros /\ SamePackages /\ NotSaving
        /\ phase = "compile" /\ phase' = "compile" /\ InPackages
        /\ d \in DOMAIN mem.files /\ d \notin DOMAIN mem.state /\ Reusable(d)
        /\ mem'.state = Put(mem.state, d, "built") /\ mem'.stack = mem.stack
    BY DEF ReuseMove, InPackages
  <1>2. SeenInv' /\ EntryInv' /\ ExactInv' /\ UnknownInv' /\ NamesInv'
    BY <1>1, SameEntries
  <1>3. /\ DOMAIN mem'.state = DOMAIN mem.state \cup {d} /\ mem'.state[d] = "built"
        /\ \A e \in DOMAIN mem.state : e # d /\ mem'.state[e] = mem.state[e]
    BY <1>1 DEF Put
  <1>4. MemoryInv'
    BY <1>1, <1>3, SameDirectories DEF BuildInv, MemoryInv
  <1>5. ShapeInv'
    BY <1>1 DEF BuildInv, ShapeInv
  <1>6. StackInv'
    BY <1>1, <1>3 DEF BuildInv, StackInv
  <1>7. FrameInv'
    <2> SUFFICES ASSUME NEW k \in DOMAIN mem.stack, k # 1  PROVE FrameOK(mem.stack[k])'
      BY <1>1 DEF FrameInv
    <2>1. PICK old : old = mem.stack[k]
      OBVIOUS
    <2>2. FrameOK(old)
      BY <2>1 DEF BuildInv, FrameInv
    <2>3. FrameOK(old)'
      BY <1>1, <2>2, SameFramesOK
    <2> QED  BY <1>1, <2>1, <2>3
  <1>8. BuiltInv'
    <2>1. \A e : Saved(e)' = Saved(e)
      BY <1>1, SameEntries
    <2>2. \A e \in DOMAIN mem'.state : mem'.state[e] = "built" => PkgKey(e) \in DOMAIN disk'.macro
      BY <1>1, <1>3, ReusedIsFresh DEF SameMacros, BuildInv, BuiltInv
    <2>3. BinaryIsFresh'
      <3> SUFFICES ASSUME ~ past.back \/ (count.kills = 0 /\ ~ past.raced), ~ past.mid,
                          NEW e \in DOMAIN mem'.state, mem'.state[e] = "built"
                   PROVE  /\ Saved(e).bin.dir = e
                          /\ Contents(Saved(e).bin) = Read(mem.files[e])
                          /\ ~ past.raced => Saved(e).bin.names = MacrosOf(e)
        BY <1>1, <2>1 DEF BinaryIsFresh, Read, MacrosOf, SameSources, SameKills, SamePackages
      <3>1. CASE e = d
        BY <1>1, <3>1, ReusedIsFresh
      <3>2. CASE e # d
        BY <1>3, <3>2 DEF BuildInv, BuiltInv, BinaryIsFresh
      <3> QED  BY <3>1, <3>2
    <2> QED  BY <2>2, <2>3 DEF BuiltInv
  <1> QED
    BY <1>2, <1>4, <1>5, <1>6, <1>7, <1>8 DEF BuildInv

\* A macro package that is opened was hashed as it is.
LEMMA PushKeeps ==
  ASSUME BuildInv, RecordsOK', NEW d, PushMove(d)  PROVE BuildInv'
  <1> DEFINE s == mem.stack
             t == mem'.stack
             n == Len(mem.stack)
  <1>1. PICK frame : frame = Frame(d, "read", Read(mem.files[d]), Empty)
    OBVIOUS
  <1>2. /\ SameSources /\ SameKills /\ SameMacros /\ SamePackages /\ InPackages
        /\ phase = "compile" /\ phase' = "compile"
        /\ d \in DOMAIN mem.files /\ d \notin DOMAIN mem.state
        /\ mem'.state = Put(mem.state, d, "building") /\ t = Append(s, frame)
        /\ s # <<>> /\ Top.step = "expand"
    BY <1>1 DEF PushMove, InPackages
  <1>3. /\ n \in Nat /\ n >= 1 /\ DOMAIN s = 1 .. n /\ Top = s[n] /\ IsStack(s) /\ NotSaving
    BY <1>2, TopFacts
  <1>4. /\ IsStack(t) /\ Len(t) = n + 1 /\ t[n + 1] = frame /\ \A k \in 1 .. n : t[k] = s[k]
    BY <1>2, <1>3, AppendFacts
  <1>5. DOMAIN t = 1 .. n + 1
    BY <1>4, StackFacts
  <1>6. /\ DOMAIN mem'.state = DOMAIN mem.state \cup {d} /\ mem'.state[d] = "building"
        /\ \A e \in DOMAIN mem.state : e # d /\ mem'.state[e] = mem.state[e]
    BY <1>2 DEF Put
  <1>7. /\ frame.dir = d /\ frame.step = "read" /\ frame.hash = Read(mem.files[d])
        /\ IsRecord(frame, FrameFields)
    BY <1>1, FrameFacts
  <1>8. SeenInv' /\ EntryInv' /\ ExactInv' /\ UnknownInv' /\ NamesInv'
    BY <1>2, <1>3, SameEntries
  <1>9. MemoryInv'
    BY <1>2, <1>6, SameDirectories DEF BuildInv, MemoryInv
  <1>10. ShapeInv'
    <2>1. \A k \in DOMAIN t : IsRecord(t[k], FrameFields)
      BY <1>3, <1>4, <1>5, <1>7 DEF BuildInv, ShapeInv, FrameFields
    <2> QED  BY <1>4, <2>1 DEF ShapeInv, IsStack, FrameFields
  <1>11. StackInv'
    <2>1. \A k \in DOMAIN t : k = 1 \/ k < Len(t) => t[k].step = "expand"
      <3> SUFFICES ASSUME NEW k \in 1 .. n  PROVE s[k].step = "expand"
        BY <1>3, <1>4, <1>5
      <3>1. CASE k = n
        BY <1>2, <1>3, <3>1
      <3>2. CASE k < n
        BY <1>3, <3>2 DEF BuildInv, StackInv
      <3> QED  BY <1>3, <3>1, <3>2
    <2>2. \A k \in DOMAIN t : k # 1 =>
            /\ t[k].dir \in DOMAIN mem'.state /\ mem'.state[t[k].dir] = "building"
            /\ t[k].step \in {"read", "expand", "link", "save"}
      <3> SUFFICES ASSUME NEW k \in DOMAIN t, k # 1
                   PROVE  /\ t[k].dir \in DOMAIN mem'.state
                          /\ mem'.state[t[k].dir] = "building"
                          /\ t[k].step \in {"read", "expand", "link", "save"}
        OBVIOUS
      <3>1. CASE k = n + 1
        BY <1>4, <1>6, <1>7, <3>1
      <3>2. CASE k # n + 1
        <4>1. k \in DOMAIN s /\ t[k] = s[k]
          BY <1>3, <1>4, <1>5, <3>2
        <4> QED  BY <1>6, <4>1 DEF BuildInv, StackInv
      <3> QED  BY <3>1, <3>2
    <2>3. \A j, k \in DOMAIN t : j # 1 /\ k # 1 /\ t[j].dir = t[k].dir => j = k
      <3>1. \A k \in DOMAIN s : k # 1 => t[k].dir # d /\ t[k] = s[k]
        BY <1>2, <1>3, <1>4 DEF BuildInv, StackInv
      <3>2. \A k \in DOMAIN t : k \in DOMAIN s \/ k = n + 1
        BY <1>3, <1>5
      <3>3. t[n + 1].dir = d
        BY <1>4, <1>7
      <3> QED  BY <3>1, <3>2, <3>3 DEF BuildInv, StackInv
    <2> QED  BY <2>1, <2>2, <2>3 DEF StackInv
  <1>12. FrameInv'
    <2> SUFFICES ASSUME NEW k \in DOMAIN t, k # 1  PROVE FrameOK(mem.stack[k])'
      BY DEF FrameInv
    <2>1. PICK new : new = t[k]
      OBVIOUS
    <2>2. CASE k = n + 1
      <3>1. new = frame
        BY <1>4, <2>1, <2>2
      <3>2. \A f \in mem.files[d] : source[f] \in past.seen[f]
        BY <1>2, PackageFacts DEF BuildInv, SeenInv, FilesIn
      <3>3. FrameOK(frame)'
        BY <1>2, <1>7, <3>2
        DEF FrameOK, SameSources, SamePackages, Read
      <3> QED  BY <2>1, <3>1, <3>3
    <2>3. CASE k # n + 1
      <3>1. k \in DOMAIN s /\ new = s[k]
        BY <1>3, <1>4, <1>5, <2>1, <2>3
      <3>2. FrameOK(new)
        BY <2>1, <3>1 DEF BuildInv, FrameInv
      <3>3. FrameOK(new)'
        BY <1>2, <3>2, SameFramesOK
      <3> QED  BY <2>1, <3>3
    <2> QED  BY <2>2, <2>3
  <1>13. BuiltInv'
    <2>1. \A e : Saved(e)' = Saved(e)
      BY <1>2, <1>3, SameEntries
    <2> QED  BY <1>2, <1>6, <2>1, SameBuilt DEF SameMacros
  <1> QED
    BY <1>8, <1>9, <1>10, <1>11, <1>12, <1>13 DEF BuildInv

\* The stack below its top, and a new top for the same package.
LEMMA NewTopStack ==
  ASSUME BuildInv, mem'.state = mem.state, Len(mem.stack) > 1, NEW frame,
         IsRecord(frame, FrameFields), frame.dir = Top.dir,
         frame.step \in {"read", "expand", "link", "save"},
         mem'.stack = [mem.stack EXCEPT ![Len(mem.stack)] = frame]
  PROVE  /\ IsStack(mem'.stack) /\ StackInv'
         /\ Len(mem'.stack) = Len(mem.stack) /\ DOMAIN mem'.stack = DOMAIN mem.stack
         /\ \A k \in DOMAIN mem.stack :
              /\ mem'.stack[k] = IF k = Len(mem.stack) THEN frame ELSE mem.stack[k]
              /\ mem'.stack[k].dir = mem.stack[k].dir
              /\ IsRecord(mem'.stack[k], FrameFields)
  <1> DEFINE s == mem.stack
             t == mem'.stack
             n == Len(mem.stack)
  <1>1. s # <<>>
    BY StackFacts
  <1>2. /\ n \in Nat /\ n >= 1 /\ DOMAIN s = 1 .. n /\ Top = s[n] /\ IsStack(s)
    BY <1>1, TopFacts
  <1>3. /\ IsStack(t) /\ Len(t) = n
        /\ \A k \in 1 .. n : t[k] = IF k = n THEN frame ELSE s[k]
    BY <1>1, <1>2, SetLastFacts
  <1>4. DOMAIN t = 1 .. n
    BY <1>3, StackFacts
  <1>5. \A k \in DOMAIN s : t[k].dir = s[k].dir /\ IsRecord(t[k], FrameFields)
    BY <1>2, <1>3 DEF BuildInv, ShapeInv, FrameFields
  <1>6. StackInv'
    <2>1. \A k \in DOMAIN t : k = 1 \/ k < Len(t) => t[k].step = "expand"
      BY <1>2, <1>3, <1>4 DEF BuildInv, StackInv
    <2>2. \A k \in DOMAIN t : k # 1 =>
            /\ t[k].dir \in DOMAIN mem.state /\ mem.state[t[k].dir] = "building"
            /\ t[k].step \in {"read", "expand", "link", "save"}
      BY <1>2, <1>3, <1>4, <1>5 DEF BuildInv, StackInv
    <2>3. \A j, k \in DOMAIN t : j # 1 /\ k # 1 /\ t[j].dir = t[k].dir => j = k
      BY <1>2, <1>4, <1>5 DEF BuildInv, StackInv
    <2> QED  BY <2>1, <2>2, <2>3 DEF StackInv
  <1> QED  BY <1>2, <1>3, <1>4, <1>5, <1>6

\* A macro package that is parsed or generated keeps to what was hashed.
LEMMA TopKeeps ==
  ASSUME BuildInv, RecordsOK', NEW frame, TopMove(frame)  PROVE BuildInv'
  <1>1. /\ SameSources /\ SameKills /\ SameMacros /\ SamePackages /\ InPackages /\ NotSaving
        /\ phase = "compile" /\ phase' = "compile"
        /\ mem'.state = mem.state /\ Len(mem.stack) > 1
        /\ IsRecord(frame, FrameFields) /\ FrameOK(frame) /\ frame.dir = Top.dir
        /\ frame.step \in {"read", "expand", "link", "save"}
        /\ mem'.stack = [mem.stack EXCEPT ![Len(mem.stack)] = frame]
    BY DEF TopMove, InPackages
  <1>2. SeenInv' /\ EntryInv' /\ ExactInv' /\ UnknownInv' /\ NamesInv'
    BY <1>1, SameEntries
  <1>3. MemoryInv'
    BY <1>1, SameDirectories DEF BuildInv, MemoryInv
  <1>4. BuiltInv'
    BY <1>1, SameEntries, SameBuilt DEF SameMacros
  <1>5. /\ IsStack(mem'.stack) /\ StackInv'
        /\ Len(mem'.stack) = Len(mem.stack) /\ DOMAIN mem'.stack = DOMAIN mem.stack
        /\ \A k \in DOMAIN mem.stack :
              /\ mem'.stack[k] = IF k = Len(mem.stack) THEN frame ELSE mem.stack[k]
              /\ mem'.stack[k].dir = mem.stack[k].dir
              /\ IsRecord(mem'.stack[k], FrameFields)
    BY <1>1, NewTopStack
  <1>6. ShapeInv'
    BY <1>5 DEF ShapeInv, IsStack, FrameFields
  <1>7. FrameInv'
    <2> SUFFICES ASSUME NEW k \in DOMAIN mem.stack, k # 1  PROVE FrameOK(mem.stack[k])'
      BY <1>5 DEF FrameInv
    <2>1. PICK new : new = mem'.stack[k]
      OBVIOUS
    <2>2. FrameOK(new)
      BY <1>1, <1>5, <2>1 DEF BuildInv, FrameInv
    <2>3. FrameOK(new)'
      BY <1>1, <2>2, SameFramesOK
    <2> QED  BY <2>1, <2>3
  <1> QED
    BY <1>2, <1>3, <1>4, <1>5, <1>6, <1>7 DEF BuildInv

\* A build that ends or is killed forgets its packages; a kill may cost a hash.
LEMMA StopKeeps == ASSUME BuildInv, RecordsOK', StopMove  PROVE BuildInv'
  <1>1. /\ phase' = "idle" /\ SameSources /\ mem' = NoMemory
        /\ mem'.files = Empty /\ mem'.byDir = Empty /\ mem'.state = Empty
        /\ mem'.stack = <<>> /\ mem'.registry = Empty
    BY DEF StopMove, NoMemory
  <1>2. DOMAIN Empty = {}
    BY DEF Empty
  <1>3. \A k : k \notin DOMAIN mem'.stack
    BY <1>1, StackFacts
  <1>4. ShapeInv' /\ StackInv' /\ FrameInv'
    BY <1>1, <1>3, StackFacts DEF ShapeInv, StackInv, FrameInv, IsStack
  <1>5. SeenInv'
    BY <1>1 DEF BuildInv, SeenInv, SameSources
  <1>6. MemoryInv'
    BY <1>1, <1>2 DEF MemoryInv, ListsFiles
  <1>7. UnknownInv'
    BY <1>1, <1>2 DEF UnknownInv, Candidates
  <1>8. BuiltInv'
    BY <1>1, <1>2 DEF BuiltInv, BinaryIsFresh
  <1>9. ASSUME NEW key \in DOMAIN disk'.macro
        PROVE  /\ key \in DOMAIN disk.macro
               /\ disk'.macro[key] = disk.macro[key]
                  \/ disk'.macro[key] = [hash |-> None, bin |-> disk.macro[key].bin]
    BY DEF StopMove, SameMacros, Put
  <1>10. EntryInv'
    <2> SUFFICES ASSUME NEW key \in DOMAIN disk'.macro  PROVE EntryOK(key, disk.macro[key])'
      BY DEF EntryInv
    <2>1. PICK old : old = disk.macro[key]
      OBVIOUS
    <2>2. EntryOK(key, old)
      BY <1>9, <2>1 DEF BuildInv, EntryInv
    <2>3. ASSUME NEW new, new = old \/ new = [hash |-> None, bin |-> old.bin]
          PROVE  EntryOK(key, new)'
      BY <1>1, <2>2, <2>3
      DEF EntryOK, Dirs, FilesIn, Follows, Has, Contents, SameSources, IsRecord
    <2>4. PICK new : new = disk'.macro[key]
      OBVIOUS
    <2>5. EntryOK(key, new)'
      BY <1>9, <2>1, <2>3, <2>4
    <2> QED  BY <2>4, <2>5
  <1>11. ExactInv'
    <2>1. CASE SameKills /\ NotSaving /\ SameMacros
      BY <1>1, <2>1
      DEF BuildInv, ExactInv, NotSaving, SameKills, SameMacros, SameSources
    <2>2. CASE count'.kills # 0
      BY <2>2 DEF ExactInv
    <2> QED  BY <2>1, <2>2 DEF StopMove
  <1>12. NamesInv'
    <2>1. ASSUME NEW key \in DOMAIN disk'.macro
          PROVE  disk'.macro[key].bin = disk.macro[key].bin
      <3>1. PICK old : old = disk.macro[key]
        OBVIOUS
      <3>2. PICK new : new = disk'.macro[key]
        OBVIOUS
      <3>3. new = old \/ new = [hash |-> None, bin |-> old.bin]
        BY <1>9, <3>1, <3>2
      <3>4. new.bin = old.bin
        BY <3>3
      <3> QED  BY <3>1, <3>2, <3>4
    <2> QED  BY <1>1, <1>2, <1>9, <2>1 DEF BuildInv, NamesInv, SameSources
  <1> QED
    BY <1>4, <1>5, <1>6, <1>7, <1>8, <1>10, <1>11, <1>12 DEF BuildInv

\* Nothing the executables depend on changes.
LEMMA QuietKeeps == ASSUME BuildInv, RecordsOK', QuietMove  PROVE BuildInv'
  <1>1. /\ source' = source /\ past' = past /\ mem' = mem /\ phase' = phase
        /\ disk'.macro = disk.macro /\ count'.kills = count.kills
    BY DEF QuietMove, SameSources, SameKills, SameMacros
  <1>2. \A d : Saved(d)' = Saved(d)
    BY <1>1 DEF Saved
  <1>3. SeenInv' /\ MemoryInv' /\ StackInv' /\ ShapeInv'
    BY <1>1
    DEF BuildInv, SeenInv, MemoryInv, StackInv, ShapeInv, ListsFiles, Dirs, FilesIn, Present
  <1>4. FrameInv'
    <2> SUFFICES ASSUME NEW k \in DOMAIN mem.stack, k # 1  PROVE FrameOK(mem.stack[k])'
      BY <1>1 DEF FrameInv
    <2>1. PICK new : new = mem.stack[k]
      OBVIOUS
    <2>2. FrameOK(new)
      BY <2>1 DEF BuildInv, FrameInv
    <2>3. FrameOK(new)'
      BY <1>1, <2>2, SameFramesOK DEF SameSources, SamePackages, SameMacros
    <2> QED  BY <1>1, <2>1, <2>3
  <1>5. EntryInv'
    <2> SUFFICES ASSUME NEW key \in DOMAIN disk.macro  PROVE EntryOK(key, disk.macro[key])'
      BY <1>1 DEF EntryInv
    <2>1. EntryOK(key, disk.macro[key])
      BY DEF BuildInv, EntryInv
    <2> QED
      BY <1>1, <2>1 DEF EntryOK, Dirs, FilesIn, Follows
  <1>6. UnknownInv'
    BY <1>1, <1>2 DEF BuildInv, UnknownInv, Candidates, FilesIn
  <1>7. ExactInv'
    BY <1>1 DEF BuildInv, ExactInv
  <1>8. NamesInv'
    <2>1. ASSUME ~ past.raced, NEW d \in DOMAIN mem.files
          PROVE (MacrosOf(d) = Defs(Read(mem.files[d])))'
      <3>1. MacrosOf(d) = Defs(Read(mem.files[d]))
        BY <2>1 DEF BuildInv, NamesInv
      <3> QED  BY <1>1, <3>1 DEF MacrosOf, Read
    <2> QED  BY <1>1, <2>1 DEF BuildInv, NamesInv
  <1>9. BuiltInv'
    BY <1>1, SameBuilt, <1>2 DEF SameSources, SameKills, SamePackages
  <1> QED
    BY <1>3, <1>4, <1>5, <1>6, <1>7, <1>8, <1>9 DEF BuildInv

\* A build that begins lists the sources as they are.
LEMMA BeginKeeps == ASSUME BuildInv, RecordsOK', BeginMove  PROVE BuildInv'
  <1> DEFINE byDir == mem'.byDir
  <1>1. /\ source' = source /\ disk'.macro = disk.macro /\ count'.kills = count.kills
        /\ past'.seen = past.seen /\ past'.back = past.back /\ past'.raced = past.raced
        /\ past'.mid = FALSE
    BY DEF BeginMove, SameKills, SameMacros, BuildInv, ShapeInv, RecordsOK, IsRecord
  <1>2. /\ mem'.files = Empty /\ mem'.state = Empty
        /\ mem'.stack = <<>> /\ mem'.registry = Empty
        /\ \/ phase' = "scan" /\ byDir = ByDir(Present)
           \/ phase' = "idle" /\ byDir = Empty /\ mem' = NoMemory
    BY DEF BeginMove, NoMemory
  <1>3. DOMAIN Empty = {}
    BY DEF Empty
  <1>4. /\ \A k : k \notin DOMAIN mem'.stack
        /\ NotSaving
    BY <1>2, StackFacts DEF NotSaving, BeginMove, BuildInv, MemoryInv
  <1>5. ShapeInv' /\ StackInv' /\ FrameInv'
    BY <1>2, <1>4, StackFacts DEF ShapeInv, StackInv, FrameInv, IsStack
  <1>6. SeenInv'
    BY <1>1 DEF BuildInv, SeenInv
  <1>7. \A d \in DOMAIN byDir : d \in Dirs /\ byDir[d] = FilesIn(d) \cap Present
    <2>1. CASE byDir = Empty
      BY <1>3, <2>1
    <2>2. CASE byDir = ByDir(Present)
      BY <2>2 DEF ByDir, Present, FilesIn, Dirs
    <2> QED  BY <1>2, <2>1, <2>2
  <1>8. \A d : \A f \in FilesIn(d) \ Present : source[f] = Absent /\ Absent \in past.seen[f]
    BY DEF FilesIn, Present, BuildInv, SeenInv
  <1>9. MemoryInv'
    <2>1. ListsFiles(mem.files)'
      BY <1>2, <1>3 DEF ListsFiles
    <2>2. ListsFiles(mem.byDir)'
      BY <1>1, <1>7, <1>8 DEF ListsFiles, Dirs, FilesIn, Present
    <2> QED  BY <1>1, <1>2, <1>3, <2>1, <2>2 DEF MemoryInv
  <1>10. UnknownInv'
    <2>1. CASE phase' = "scan"
      BY <1>1, <1>7, <1>8, <2>1 DEF UnknownInv, Candidates, FilesIn
    <2>2. CASE phase' = "idle"
      BY <1>2, <1>3, <2>2 DEF UnknownInv, Candidates
    <2> QED  BY <1>2, <2>1, <2>2
  <1>11. BuiltInv'
    BY <1>2, <1>3 DEF BuiltInv, BinaryIsFresh
  <1>12. EntryInv'
    <2> SUFFICES ASSUME NEW key \in DOMAIN disk.macro  PROVE EntryOK(key, disk.macro[key])'
      BY <1>1 DEF EntryInv
    <2>1. EntryOK(key, disk.macro[key])
      BY DEF BuildInv, EntryInv
    <2> QED
      BY <1>1, <2>1 DEF EntryOK, Dirs, FilesIn, Follows
  <1>13. ExactInv'
    BY <1>1, <1>4 DEF BuildInv, ExactInv, NotSaving
  <1>14. NamesInv'
    BY <1>1, <1>2, <1>3 DEF BuildInv, NamesInv
  <1> QED
    BY <1>5, <1>6, <1>9, <1>10, <1>11, <1>12, <1>13, <1>14 DEF BuildInv

\* After the discovery the registry has the macros of the sources.
LEMMA ScanKeeps == ASSUME BuildInv, RecordsOK', ScanMove  PROVE BuildInv'
  <1>1. /\ phase = "scan" /\ phase' = "inject"
        /\ SameSources /\ SameKills /\ SameMacros
        /\ mem'.state = Empty /\ mem'.stack = <<>> /\ mem.stack = <<>>
        /\ Restricts(mem'.byDir, mem.byDir) /\ Restricts(mem'.files, mem.byDir)
        /\ \A m \in DOMAIN mem'.registry : mem'.registry[m] \in DOMAIN mem'.files
        /\ MacrosOfSources'
    BY DEF ScanMove, BuildInv, MemoryInv
  <1>2. DOMAIN Empty = {}
    BY DEF Empty
  <1>3. NotSaving /\ \A k : k \notin DOMAIN mem'.stack
    BY <1>1, StackFacts DEF NotSaving
  <1>4. SeenInv' /\ EntryInv' /\ ExactInv' /\ \A d : Saved(d)' = Saved(d)
    BY <1>1, <1>3, SameEntries
  <1>5. ShapeInv' /\ StackInv' /\ FrameInv'
    BY <1>1, <1>3, StackFacts DEF ShapeInv, StackInv, FrameInv, IsStack
  <1>6. MemoryInv'
    <2>1. ListsFiles(mem.byDir)' /\ ListsFiles(mem.files)'
      BY <1>1
      DEF BuildInv, MemoryInv, ListsFiles, Restricts, Dirs, FilesIn, Present, SameSources
    <2> QED  BY <1>1, <1>2, <2>1 DEF BuildInv, MemoryInv, SameSources
  <1>7. UnknownInv'
    BY <1>1, <1>4
    DEF BuildInv, UnknownInv, Candidates, FilesIn, Restricts, SameSources
  <1>8. NamesInv'
    BY <1>1 DEF BuildInv, NamesInv, MacrosOfSources, SameSources, SameMacros
  <1>9. BuiltInv'
    BY <1>1, <1>2 DEF BuiltInv, BinaryIsFresh
  <1> QED
    BY <1>4, <1>5, <1>6, <1>7, <1>8, <1>9 DEF BuildInv

\* An edit gives a file a content that, unless one comes back, nothing on disk
\* or in memory has.
LEMMA EditKeeps == ASSUME DistinctKeys, BuildInv, RecordsOK', EditMove  PROVE BuildInv'
  <1>1. PICK f, c :
          /\ f \in DOMAIN source /\ source' = [source EXCEPT ![f] = c]
          /\ past' = [past EXCEPT !.seen[f] = @ \cup {c}, !.back = @ \/ c \in past.seen[f],
                                  !.mid = TRUE, !.raced = @ \/ phase # "idle"]
    BY DEF EditMove
  <1>2. /\ mem' = mem /\ phase' = phase /\ disk'.macro = disk.macro
        /\ count'.kills = count.kills
    BY DEF EditMove, SameKills, SameMacros
  <1>3. /\ past'.seen = [past.seen EXCEPT ![f] = @ \cup {c}]
        /\ past'.back = (past.back \/ c \in past.seen[f]) /\ past'.mid = TRUE
        /\ past'.raced = (past.raced \/ phase # "idle")
    BY <1>1 DEF BuildInv, ShapeInv, RecordsOK, IsRecord
  <1>4. /\ DOMAIN past.seen = DOMAIN source /\ DOMAIN source' = DOMAIN source
        /\ DOMAIN past'.seen = DOMAIN source
        /\ \A g \in DOMAIN source : past.seen[g] \subseteq past'.seen[g]
        /\ source'[f] = c /\ c \in past'.seen[f]
        /\ \A g \in DOMAIN source \ {f} : source'[g] = source[g]
    BY <1>1, <1>3 DEF BuildInv, SeenInv
  <1>5. /\ Dirs' = Dirs /\ \A d : FilesIn(d)' = FilesIn(d) /\ FilesIn(d) \subseteq DOMAIN source
        /\ \A d : Saved(d)' = Saved(d)
    BY <1>2, <1>4 DEF Dirs, FilesIn, Saved
  <1>6. ASSUME ~ past'.back, NEW g \in DOMAIN source, NEW a, Has(a, g) \in past.seen[g],
               Has(a, g) = source'[g]
        PROVE  g # f /\ Has(a, g) = source[g] /\ source'[g] = source[g] /\ ~ past.back
    BY <1>3, <1>4, <1>6
  <1>7. SeenInv'
    BY <1>4 DEF BuildInv, SeenInv
  <1>8. MemoryInv'
    <2>1. ListsFiles(mem.byDir)' /\ ListsFiles(mem.files)'
      BY <1>2, <1>3, <1>4, <1>5 DEF BuildInv, MemoryInv, ListsFiles
    <2> QED  BY <1>2, <1>3, <2>1 DEF BuildInv, MemoryInv
  <1>9. ShapeInv' /\ StackInv'
    BY <1>2 DEF BuildInv, ShapeInv, StackInv
  <1>10. EntryInv'
    <2> SUFFICES ASSUME NEW key \in DOMAIN disk.macro  PROVE EntryOK(key, disk.macro[key])'
      BY <1>2 DEF EntryInv
    <2>1. PICK entry : entry = disk.macro[key]
      OBVIOUS
    <2>2. EntryOK(key, entry)
      BY <2>1 DEF BuildInv, EntryInv
    <2>3. ASSUME ~ past'.back, entry.hash # None, NEW g \in FilesIn(entry.bin.dir)
          PROVE  /\ Has(entry.hash, g) \in past'.seen[g]
                 /\ Has(entry.hash, g) = source'[g] => Has(Contents(entry.bin), g) = source'[g]
      <3>1. ~ past.back
        BY <1>3, <2>3
      <3>2. Has(entry.hash, g) \in past.seen[g] /\ Follows(entry.hash, Contents(entry.bin), g)
        BY <2>2, <2>3, <3>1 DEF EntryOK
      <3> QED  BY <1>4, <1>5, <1>6, <2>3, <3>2 DEF Follows
    <2>4. EntryOK(key, entry)'
      BY <1>5, <2>2, <2>3 DEF EntryOK, Follows
    <2> QED  BY <1>2, <2>1, <2>4
  <1>11. ASSUME ~ past'.back, NEW d \in Dirs, Saved(d).hash # None, NEW g \in FilesIn(d)
         PROVE  Has(Saved(d).hash, g) \in past.seen[g]
    <2>1. EntryOK(PkgKey(d), Saved(d)) /\ Saved(d).bin.dir = d
      BY <1>11, SavedFacts, KeyFacts
    <2> QED  BY <1>3, <1>11, <2>1 DEF EntryOK
  <1>12. UnknownInv'
    <2> SUFFICES ASSUME ~ past'.back, NEW d \in DOMAIN Candidates, Saved(d).hash # None,
                        NEW g \in FilesIn(d) \ Candidates[d],
                        Has(Saved(d).hash, g) = source'[g]
                 PROVE  source'[g] = Absent
      BY <1>2, <1>5 DEF UnknownInv, Candidates
    <2>1. d \in Dirs
      BY DEF BuildInv, MemoryInv, ListsFiles, Candidates
    <2>2. Has(Saved(d).hash, g) = source[g] /\ source'[g] = source[g] /\ ~ past.back
      BY <1>5, <1>6, <1>11, <2>1
    <2> QED  BY <2>2 DEF BuildInv, UnknownInv
  <1>13. FrameInv'
    <2> SUFFICES ASSUME NEW k \in DOMAIN mem.stack, k # 1  PROVE FrameOK(mem.stack[k])'
      BY <1>2 DEF FrameInv
    <2>1. PICK frame : frame = mem.stack[k]
      OBVIOUS
    <2>2. FrameOK(frame)
      BY <2>1 DEF BuildInv, FrameInv
    <2> DEFINE files == mem.files[frame.dir]
    <2>3. frame.dir \in DOMAIN mem.files
      BY <2>1 DEF BuildInv, StackInv, MemoryInv
    <2>4. /\ frame.dir \in Dirs /\ files \subseteq FilesIn(frame.dir)
          /\ \A g \in FilesIn(frame.dir) \ files : Absent \in past.seen[g]
      BY <2>3, PackageFacts
    <2>5. frame.hash = [g \in files |-> frame.hash[g]]
          /\ \A g \in files : frame.hash[g] \in past.seen[g]
      BY <2>2 DEF FrameOK
    <2>6. \A g \in files : frame.hash[g] \in past'.seen[g]
      BY <1>4, <1>5, <2>4, <2>5
    <2>7. \A g \in FilesIn(frame.dir) : Has(frame.hash, g) \in past.seen[g]
      BY <2>4, <2>5 DEF Has
    <2>8. ASSUME frame.step # "read", ~ past'.back, NEW g \in FilesIn(frame.dir)
          PROVE  /\ Has(frame.hash, g) = source'[g] => Has(frame.parsed, g) = source'[g]
                 /\ Saved(frame.dir).hash # None =>
                      (Has(Saved(frame.dir).hash, g) = source'[g]
                         => Has(frame.parsed, g) = source'[g])
      <3>1. ~ past.back
        BY <1>3, <2>8
      <3>2. /\ Follows(frame.hash, frame.parsed, g)
            /\ Saved(frame.dir).hash # None => Follows(Saved(frame.dir).hash, frame.parsed, g)
        BY <2>2, <2>8, <3>1 DEF FrameOK
      <3>3. Has(frame.hash, g) = source'[g] => Has(frame.parsed, g) = source'[g]
        BY <1>5, <1>6, <2>7, <2>8, <3>2 DEF Follows
      <3>4. ASSUME Saved(frame.dir).hash # None, Has(Saved(frame.dir).hash, g) = source'[g]
            PROVE  Has(frame.parsed, g) = source'[g]
        <4>1. Has(Saved(frame.dir).hash, g) \in past.seen[g]
          BY <1>11, <2>4, <2>8, <3>4
        <4>2. source'[g] = source[g]
          BY <1>5, <1>6, <2>8, <3>4, <4>1
        <4> QED  BY <3>2, <3>4, <4>2 DEF Follows
      <3> QED  BY <3>3, <3>4
    <2>9. FrameOK(frame)'
      BY <1>2, <1>3, <1>5, <2>2, <2>5, <2>6, <2>8 DEF FrameOK, Follows
    <2> QED  BY <1>2, <2>1, <2>9
  <1>14. ExactInv'
    BY <1>2, <1>3 DEF BuildInv, ExactInv
  <1>15. NamesInv'
    <2> SUFFICES ASSUME ~ past'.raced  PROVE NamesInv'
      BY DEF NamesInv
    <2>1. ~ past.raced /\ phase = "idle"
      BY <1>3
    <2>2. mem'.files = Empty
      BY <1>2, <2>1 DEF BuildInv, MemoryInv, NoMemory
    <2>3. DOMAIN mem'.files = {}
      BY <2>2 DEF Empty
    <2> QED  BY <1>2, <2>1, <2>3 DEF BuildInv, NamesInv
  <1>16. BuiltInv'
    BY <1>2, <1>3 DEF BuildInv, BuiltInv, BinaryIsFresh
  <1> QED
    BY <1>7, <1>8, <1>9, <1>10, <1>12, <1>13, <1>14, <1>15, <1>16 DEF BuildInv

\* Recording under the key of the top package leaves the others alone.
LEMMA RecordFacts ==
  ASSUME DistinctKeys, BuildInv, NEW hash, NEW bin, NEW d, d = Top.dir,
         RecordMove(PkgKey(d), hash, bin)
  PROVE  /\ SameSources /\ SameKills /\ SamePackages /\ InPackages
         /\ phase = "compile" /\ phase' = "compile"
         /\ Len(mem.stack) > 1 /\ d \in DOMAIN mem.files /\ FrameOK(Top)
         /\ DOMAIN disk'.macro = DOMAIN disk.macro \cup {PkgKey(d)}
         /\ disk'.macro[PkgKey(d)] = [hash |-> hash, bin |-> bin]
         /\ \A key \in DOMAIN disk.macro \ {PkgKey(d)} : disk'.macro[key] = disk.macro[key]
         /\ Saved(d)' = [hash |-> hash, bin |-> bin]
         /\ \A e \in DOMAIN mem.files : e # d => Saved(e)' = Saved(e)
         /\ \A k \in DOMAIN mem.stack :
              k # 1 /\ k # Len(mem.stack) => FrameOK(mem.stack[k])
                                             /\ mem.stack[k].dir \in DOMAIN mem.files
                                             /\ mem.stack[k].dir # d
  <1>1. /\ SameSources /\ SameKills /\ SamePackages /\ InPackages
        /\ phase = "compile" /\ phase' = "compile" /\ Len(mem.stack) > 1
    BY DEF RecordMove, InPackages
  <1>2. /\ mem.stack # <<>> /\ d \in DOMAIN mem.files /\ FrameOK(Top)
        /\ Top = mem.stack[Len(mem.stack)] /\ Len(mem.stack) \in DOMAIN mem.stack
        /\ Len(mem.stack) \in Nat
    BY <1>1, StackFacts, TopFacts
  <1>3. /\ DOMAIN disk'.macro = DOMAIN disk.macro \cup {PkgKey(d)}
        /\ disk'.macro[PkgKey(d)] = [hash |-> hash, bin |-> bin]
        /\ \A key \in DOMAIN disk.macro \ {PkgKey(d)} : disk'.macro[key] = disk.macro[key]
    BY DEF RecordMove, Put
  <1>4. ASSUME NEW e \in DOMAIN mem.files, e # d  PROVE Saved(e)' = Saved(e)
    <2>1. PkgKey(e) # PkgKey(d)
      BY <1>2, <1>4, KeyFacts, PackageFacts
    <2> QED  BY <1>3, <2>1 DEF Saved
  <1>5. Saved(d)' = [hash |-> hash, bin |-> bin]
    BY <1>3 DEF Saved
  <1>6. ASSUME NEW k \in DOMAIN mem.stack, k # 1, k # Len(mem.stack)
        PROVE  /\ FrameOK(mem.stack[k]) /\ mem.stack[k].dir \in DOMAIN mem.files
               /\ mem.stack[k].dir # d
    <2>1. Len(mem.stack) # 1
      BY <1>1, <1>2
    <2> QED  BY <1>2, <1>6, <2>1 DEF BuildInv, StackInv, FrameInv, MemoryInv
  <1> QED  BY <1>1, <1>2, <1>3, <1>4, <1>5, <1>6

\* The executable of the top package is replaced, under the hash that was there.
LEMMA LinkKeeps ==
  ASSUME DistinctKeys, BuildInv, RecordsOK', NEW hash, NEW bin, LinkMove(hash, bin)
  PROVE  BuildInv'
  <1> DEFINE n == Len(mem.stack)
  <1>1. PICK d, old, new, key :
          /\ d = Top.dir /\ old = Top /\ new = [Top EXCEPT !.step = "save"]
          /\ key = PkgKey(Top.dir)
    OBVIOUS
  <1>2. /\ RecordMove(PkgKey(d), hash, bin) /\ old.step = "link"
        /\ hash = Saved(d).hash /\ bin = [dir |-> d, names |-> MacrosOf(d), code |-> Code]
        /\ mem'.state = mem.state /\ mem'.stack = [mem.stack EXCEPT ![n] = new]
    BY <1>1 DEF LinkMove
  <1>3. /\ SameSources /\ SameKills /\ SamePackages /\ InPackages
        /\ phase = "compile" /\ phase' = "compile"
        /\ n > 1 /\ d \in DOMAIN mem.files /\ FrameOK(old)
        /\ DOMAIN disk'.macro = DOMAIN disk.macro \cup {key}
        /\ disk'.macro[key] = [hash |-> hash, bin |-> bin]
        /\ \A k \in DOMAIN disk.macro \ {key} : disk'.macro[k] = disk.macro[k]
        /\ Saved(d)' = [hash |-> hash, bin |-> bin]
        /\ \A e \in DOMAIN mem.files : e # d => Saved(e)' = Saved(e)
        /\ \A k \in DOMAIN mem.stack :
              k # 1 /\ k # n => FrameOK(mem.stack[k]) /\ mem.stack[k].dir \in DOMAIN mem.files
                                /\ mem.stack[k].dir # d
    BY <1>1, <1>2, RecordFacts
  <1>4. mem.stack # <<>> /\ NotSaving /\ IsRecord(old, FrameFields) /\ old = mem.stack[n]
        /\ n \in DOMAIN mem.stack /\ mem.state[d] = "building"
    <2>1. mem.stack # <<>>
      BY <1>3, StackFacts
    <2> QED  BY <1>1, <1>2, <1>3, <2>1, TopFacts
  <1>5. /\ IsRecord(new, FrameFields) /\ new.dir = d /\ new.step = "save"
        /\ new.hash = old.hash /\ new.parsed = old.parsed /\ old.dir = d
    BY <1>1, <1>4 DEF IsRecord, FrameFields
  <1>6. /\ IsStack(mem'.stack) /\ StackInv'
        /\ Len(mem'.stack) = n /\ DOMAIN mem'.stack = DOMAIN mem.stack
        /\ \A k \in DOMAIN mem.stack :
              /\ mem'.stack[k] = IF k = n THEN new ELSE mem.stack[k]
              /\ mem'.stack[k].dir = mem.stack[k].dir
              /\ IsRecord(mem'.stack[k], FrameFields)
    BY <1>1, <1>2, <1>3, <1>5, NewTopStack
  <1>7. ShapeInv'
    BY <1>6 DEF ShapeInv, IsStack, FrameFields
  <1>8. SeenInv' /\ MemoryInv'
    BY <1>2, <1>3, SameDirectories DEF BuildInv, MemoryInv, SeenInv, SameSources
  <1>9. /\ bin.dir = d /\ bin.names = MacrosOf(d) /\ bin.code = Code
        /\ IsRecord(bin, {"dir", "names", "code"})
        /\ Contents(bin) = old.parsed
        /\ DOMAIN bin.code = mem.files[d]
        /\ \A f \in DOMAIN bin.code : bin.code[f].content # Absent
    <2>1. /\ bin.dir = d /\ bin.names = MacrosOf(d) /\ bin.code = Code
          /\ IsRecord(bin, {"dir", "names", "code"})
      BY <1>2 DEF IsRecord
    <2>2. /\ old.parsed = [f \in mem.files[d] |-> old.parsed[f]]
          /\ \A f \in mem.files[d] : old.parsed[f] # Absent
      BY <1>2, <1>3, <1>5 DEF FrameOK
    <2>3. Code = [f \in DOMAIN old.parsed |->
                    [content |-> old.parsed[f], outs |-> old.outs[f]]]
      BY <1>1 DEF Code
    <2>4. /\ DOMAIN Code = mem.files[d]
          /\ \A f \in mem.files[d] : Code[f].content = old.parsed[f]
      BY <2>2, <2>3
    <2>5. Contents(bin) = [f \in mem.files[d] |-> old.parsed[f]]
      BY <2>1, <2>4 DEF Contents
    <2> QED  BY <2>1, <2>2, <2>4, <2>5
  <1>10. \A e : Saved(e)'.hash = Saved(e).hash
    <2> SUFFICES ASSUME NEW e  PROVE Saved(e)'.hash = Saved(e).hash
      OBVIOUS
    <2>1. CASE PkgKey(e) = key
      <3>1. Saved(e)' = [hash |-> hash, bin |-> bin] /\ Saved(e) = Saved(d)
        BY <1>1, <1>3, <2>1 DEF Saved
      <3> QED  BY <1>2, <3>1
    <2>2. CASE PkgKey(e) # key
      BY <1>3, <2>2 DEF Saved
    <2> QED  BY <2>1, <2>2
  <1>11. UnknownInv'
    BY <1>3, <1>10
    DEF BuildInv, UnknownInv, Candidates, FilesIn, SameSources, SamePackages
  <1>12. EntryInv'
    <2> SUFFICES ASSUME NEW k \in DOMAIN disk'.macro  PROVE EntryOK(k, disk.macro[k])'
      BY DEF EntryInv
    <2>1. PICK entry : entry = disk'.macro[k]
      OBVIOUS
    <2>2. CASE k # key
      <3>1. EntryOK(k, entry)
        BY <1>3, <2>1, <2>2 DEF BuildInv, EntryInv
      <3>2. EntryOK(k, entry)'
        BY <1>3, <3>1 DEF EntryOK, Dirs, FilesIn, Follows, SameSources
      <3> QED  BY <2>1, <3>2
    <2>3. CASE k = key
      <3>1. entry = [hash |-> hash, bin |-> bin]
        BY <1>3, <2>1, <2>3
      <3>2. /\ IsRecord(entry, {"hash", "bin"}) /\ entry.bin = bin /\ entry.hash = hash
        BY <3>1 DEF IsRecord
      <3>3. /\ d \in Dirs /\ DOMAIN bin.code \subseteq FilesIn(d)
        BY <1>3, <1>9, PackageFacts
      <3>4. ASSUME ~ past.back, hash # None, NEW f \in FilesIn(d)
            PROVE  Has(hash, f) \in past.seen[f] /\ Follows(hash, Contents(bin), f)
        <4>1. Has(hash, f) \in past.seen[f]
          BY <1>2, <3>3, <3>4, SavedFacts, KeyFacts DEF EntryOK
        <4>2. Follows(hash, Contents(bin), f)
          BY <1>2, <1>3, <1>5, <1>9, <3>4 DEF FrameOK
        <4> QED  BY <4>1, <4>2
      <3>5. EntryOK(k, entry)
        BY <1>1, <1>9, <2>3, <3>2, <3>3, <3>4 DEF EntryOK
      <3>6. EntryOK(k, entry)'
        BY <1>3, <3>5 DEF EntryOK, Dirs, FilesIn, Follows, SameSources
      <3> QED  BY <2>1, <3>6
    <2> QED  BY <2>2, <2>3
  <1>13. ExactInv'
    <2> SUFFICES ASSUME count.kills = 0, ~ past.raced, NEW k \in DOMAIN disk'.macro
                 PROVE  \/ disk'.macro[k].hash = None
                        \/ disk'.macro[k].hash = Contents(disk'.macro[k].bin)
                        \/ \E i \in DOMAIN mem'.stack :
                             mem'.stack[i].step = "save" /\ PkgKey(mem'.stack[i].dir) = k
      BY <1>3 DEF ExactInv, SameKills, SameSources
    <2>1. CASE k = key
      BY <1>1, <1>4, <1>5, <1>6, <2>1
    <2>2. CASE k # key
      BY <1>3, <1>4, <2>2 DEF BuildInv, ExactInv, NotSaving
    <2> QED  BY <2>1, <2>2
  <1>14. NamesInv'
    <2> SUFFICES ASSUME ~ past.raced  PROVE NamesInv'
      BY <1>3 DEF NamesInv, SameSources
    <2>1. \A e \in DOMAIN mem.files : MacrosOf(e) = Defs(Read(mem.files[e]))
      BY DEF BuildInv, NamesInv
    <2>2. \A e \in DOMAIN mem'.files : (MacrosOf(e) = Defs(Read(mem.files[e])))'
      BY <1>3, <2>1 DEF MacrosOf, Read, SameSources, SamePackages
    <2>3. old.parsed = Read(mem.files[d])
      BY <1>2, <1>3, <1>5, PackageFacts DEF FrameOK
    <2>4. bin.names = Defs(Contents(bin))
      BY <1>3, <1>9, <2>1, <2>3
    <2>5. ASSUME NEW k \in DOMAIN disk'.macro
          PROVE  disk'.macro[k].bin.names = Defs(Contents(disk'.macro[k].bin))
      <3>1. CASE k = key
        BY <1>3, <2>4, <3>1
      <3>2. CASE k # key
        BY <1>3, <3>2 DEF BuildInv, NamesInv
      <3> QED  BY <3>1, <3>2
    <2> QED  BY <2>2, <2>5 DEF NamesInv
  <1>15. FrameInv'
    <2> SUFFICES ASSUME NEW k \in DOMAIN mem.stack, k # 1  PROVE FrameOK(mem.stack[k])'
      BY <1>6 DEF FrameInv
    <2>1. PICK frame : frame = mem'.stack[k]
      OBVIOUS
    <2>2. CASE k # n
      <3>1. frame = mem.stack[k] /\ FrameOK(frame) /\ Saved(frame.dir)' = Saved(frame.dir)
        BY <1>3, <1>6, <2>1, <2>2
      <3>2. FrameOK(frame)'
        BY <1>3, <3>1, FrameKept DEF SamePackages
      <3> QED  BY <2>1, <3>2
    <2>3. CASE k = n
      <3>1. frame = new
        BY <1>6, <2>1, <2>3
      <3>2. /\ Saved(d)'.hash = Saved(d).hash /\ Contents(Saved(d)'.bin) = old.parsed
            /\ PkgKey(d) \in DOMAIN disk'.macro
        BY <1>1, <1>3, <1>9, <1>10
      <3>3. FrameOK(new)'
        BY <1>2, <1>3, <1>5, <3>2, FrameLinked DEF SamePackages
      <3> QED  BY <2>1, <3>1, <3>3
    <2> QED  BY <2>2, <2>3
  <1>16. BuiltInv'
    BY <1>2, <1>3, <1>4, SameBuilt DEF BuildInv, MemoryInv
  <1> QED
    BY <1>6, <1>7, <1>8, <1>11, <1>12, <1>13, <1>14, <1>15, <1>16 DEF BuildInv

\* The hash of the sources it was made of is recorded with an executable.
LEMMA SaveKeeps ==
  ASSUME DistinctKeys, BuildInv, RecordsOK', NEW hash, NEW bin, SaveMove(hash, bin)
  PROVE  BuildInv'
  <1> DEFINE s == mem.stack
             t == mem'.stack
             n == Len(mem.stack)
  <1>1. PICK d, top, key : d = Top.dir /\ top = Top /\ key = PkgKey(Top.dir)
    OBVIOUS
  <1>2. /\ RecordMove(PkgKey(d), hash, bin) /\ top.step = "save"
        /\ hash = top.hash /\ bin = Saved(d).bin
        /\ mem'.state = Put(mem.state, d, "built") /\ t = Front(s)
    BY <1>1 DEF SaveMove
  <1>3. /\ SameSources /\ SameKills /\ SamePackages /\ InPackages
        /\ phase = "compile" /\ phase' = "compile"
        /\ n > 1 /\ d \in DOMAIN mem.files /\ FrameOK(top)
        /\ DOMAIN disk'.macro = DOMAIN disk.macro \cup {key}
        /\ disk'.macro[key] = [hash |-> hash, bin |-> bin]
        /\ \A k \in DOMAIN disk.macro \ {key} : disk'.macro[k] = disk.macro[k]
        /\ Saved(d)' = [hash |-> hash, bin |-> bin]
        /\ \A e \in DOMAIN mem.files : e # d => Saved(e)' = Saved(e)
        /\ \A k \in DOMAIN s :
              k # 1 /\ k # n => FrameOK(s[k]) /\ s[k].dir \in DOMAIN mem.files
                                /\ s[k].dir # d
    BY <1>1, <1>2, RecordFacts
  <1>4. /\ s # <<>> /\ top = s[n] /\ n \in Nat /\ DOMAIN s = 1 .. n /\ IsStack(s)
        /\ d \in DOMAIN mem.state /\ top.dir = d
    <2>1. s # <<>>
      BY <1>3, StackFacts
    <2> QED  BY <1>1, <1>3, <2>1, TopFacts
  <1>5. IsStack(t) /\ Len(t) = n - 1 /\ \A k \in 1 .. n - 1 : t[k] = s[k]
    BY <1>2, <1>4, FrontFacts
  <1>6. /\ DOMAIN t = 1 .. n - 1
        /\ \A k \in DOMAIN t : k \in DOMAIN s /\ k # n /\ k < n /\ t[k] = s[k]
    <2>1. DOMAIN t = 1 .. n - 1
      BY <1>5, StackFacts
    <2>2. \A k \in 1 .. n - 1 : k \in 1 .. n /\ k # n /\ k < n
      BY <1>4
    <2> QED  BY <1>4, <1>5, <2>1, <2>2
  <1>7. /\ DOMAIN mem'.state = DOMAIN mem.state \cup {d} /\ mem'.state[d] = "built"
        /\ \A e \in DOMAIN mem.state : e # d => mem'.state[e] = mem.state[e]
    BY <1>2 DEF Put
  <1>8. key \in DOMAIN disk.macro /\ Contents(bin) = top.parsed /\ key = PkgKey(d)
    BY <1>1, <1>2, <1>3, <1>4 DEF FrameOK
  <1>9. EntryOK(key, Saved(d)) /\ bin.dir = d /\ d \in Dirs /\ Saved(d) = disk.macro[key]
    BY <1>2, <1>3, <1>8, SavedFacts, KeyFacts, PackageFacts
  <1>10. /\ top.hash = [f \in mem.files[d] |-> top.hash[f]]
         /\ \A f \in mem.files[d] : top.hash[f] \in past.seen[f]
         /\ ~ past.mid => top.hash = Read(mem.files[d]) /\ top.parsed = Read(mem.files[d])
         /\ ~ past.back => \A f \in FilesIn(d) : Follows(top.hash, top.parsed, f)
    BY <1>2, <1>3, <1>4 DEF FrameOK
  <1>11. ShapeInv'
    BY <1>5, <1>6 DEF BuildInv, ShapeInv, IsStack
  <1>12. SeenInv' /\ MemoryInv'
    <2>1. \A e \in DOMAIN mem'.state :
            e \in DOMAIN mem.files /\ mem'.state[e] \in {"building", "built"}
      BY <1>3, <1>7 DEF BuildInv, MemoryInv
    <2> QED  BY <1>3, <2>1, SameDirectories DEF BuildInv, SeenInv, SameSources
  <1>13. StackInv'
    <2>1. \A k \in DOMAIN t : k = 1 \/ k < Len(t) => t[k].step = "expand"
      BY <1>6 DEF BuildInv, StackInv
    <2>2. \A k \in DOMAIN t : k # 1 =>
            /\ t[k].dir \in DOMAIN mem'.state /\ mem'.state[t[k].dir] = "building"
            /\ t[k].step \in {"read", "expand", "link", "save"}
      BY <1>3, <1>6, <1>7 DEF BuildInv, StackInv
    <2>3. \A j, k \in DOMAIN t : j # 1 /\ k # 1 /\ t[j].dir = t[k].dir => j = k
      BY <1>6 DEF BuildInv, StackInv
    <2> QED  BY <2>1, <2>2, <2>3 DEF StackInv
  <1>14. FrameInv'
    <2> SUFFICES ASSUME NEW k \in DOMAIN t, k # 1  PROVE FrameOK(mem.stack[k])'
      BY DEF FrameInv
    <2>1. PICK frame : frame = t[k]
      OBVIOUS
    <2>2. FrameOK(frame) /\ Saved(frame.dir)' = Saved(frame.dir)
      BY <1>3, <1>6, <2>1
    <2>3. FrameOK(frame)'
      BY <1>3, <2>2, FrameKept DEF SamePackages
    <2> QED  BY <2>1, <2>3
  <1>15. \A f \in FilesIn(d) : Has(top.hash, f) \in past.seen[f]
    BY <1>3, <1>10, PackageFacts DEF Has
  <1>16. EntryInv'
    <2> SUFFICES ASSUME NEW k \in DOMAIN disk'.macro  PROVE EntryOK(k, disk.macro[k])'
      BY DEF EntryInv
    <2>1. PICK entry : entry = disk'.macro[k]
      OBVIOUS
    <2>2. EntryOK(k, entry)
      <3>1. CASE k # key
        BY <1>3, <2>1, <3>1 DEF BuildInv, EntryInv
      <3>2. CASE k = key
        <4>1. entry = [hash |-> hash, bin |-> bin]
          BY <1>3, <2>1, <3>2
        <4>2. /\ IsRecord(entry, {"hash", "bin"}) /\ entry.bin = bin /\ entry.hash = hash
          BY <4>1 DEF IsRecord
        <4> QED
          BY <1>2, <1>8, <1>9, <1>10, <1>15, <3>2, <4>2 DEF EntryOK
      <3> QED  BY <3>1, <3>2
    <2>3. EntryOK(k, entry)'
      BY <1>3, <2>2 DEF EntryOK, Dirs, FilesIn, Follows, SameSources
    <2> QED  BY <2>1, <2>3
  <1>17. UnknownInv'
    <2> SUFFICES ASSUME ~ past.back, NEW e \in DOMAIN mem.files, Saved(e)'.hash # None,
                        NEW f \in FilesIn(e) \ mem.files[e],
                        Has(Saved(e)'.hash, f) = source[f]
                 PROVE  source[f] = Absent
      BY <1>3 DEF UnknownInv, Candidates, FilesIn, SameSources, SamePackages
    <2>1. CASE e = d
      BY <1>2, <1>3, <1>10, <2>1 DEF Has
    <2>2. CASE e # d
      <3>1. Saved(e)' = Saved(e)
        BY <1>3, <2>2
      <3> QED  BY <1>3, <3>1 DEF BuildInv, UnknownInv, Candidates
    <2> QED  BY <2>1, <2>2
  <1>18. ExactInv'
    <2> SUFFICES ASSUME count.kills = 0, ~ past.raced, NEW k \in DOMAIN disk'.macro
                 PROVE  \/ disk'.macro[k].hash = None
                        \/ disk'.macro[k].hash = Contents(disk'.macro[k].bin)
      BY <1>3 DEF ExactInv, SameKills, SameSources
    <2>1. CASE k = key
      <3>1. top.hash = top.parsed
        BY <1>3, <1>10, PackageFacts
      <3> QED  BY <1>2, <1>3, <1>8, <2>1, <3>1
    <2>2. CASE k # key
      <3>1. \A i \in DOMAIN s : s[i].step = "save" => PkgKey(s[i].dir) = key
        <4> SUFFICES ASSUME NEW i \in DOMAIN s, s[i].step = "save"
                     PROVE  PkgKey(s[i].dir) = key
          OBVIOUS
        <4>1. ~ (i < n)
          BY DEF BuildInv, StackInv
        <4>2. i = n
          BY <1>4, <4>1
        <4> QED  BY <1>4, <1>8, <4>2
      <3> QED  BY <1>3, <2>2, <3>1 DEF BuildInv, ExactInv
    <2> QED  BY <2>1, <2>2
  <1>19. \A k \in DOMAIN disk'.macro : k \in DOMAIN disk.macro /\ disk'.macro[k].bin = disk.macro[k].bin
    <2> SUFFICES ASSUME NEW k \in DOMAIN disk'.macro
                 PROVE  k \in DOMAIN disk.macro /\ disk'.macro[k].bin = disk.macro[k].bin
      OBVIOUS
    <2>1. CASE k = key
      BY <1>2, <1>3, <1>8, <1>9, <2>1
    <2>2. CASE k # key
      BY <1>3, <2>2
    <2> QED  BY <2>1, <2>2
  <1>20. NamesInv'
    <2>1. ASSUME ~ past.raced, NEW e \in DOMAIN mem.files
          PROVE (MacrosOf(e) = Defs(Read(mem.files[e])))'
      <3>1. MacrosOf(e) = Defs(Read(mem.files[e]))
        BY <2>1 DEF BuildInv, NamesInv
      <3> QED  BY <1>3, <3>1 DEF MacrosOf, Read, SameSources, SamePackages
    <2> QED  BY <1>3, <1>19, <2>1 DEF BuildInv, NamesInv, SameSources, SamePackages
  <1>21. BuiltInv'
    <2>1. \A e \in DOMAIN mem'.state : mem'.state[e] = "built" => PkgKey(e) \in DOMAIN disk'.macro
      BY <1>3, <1>7, <1>8 DEF BuildInv, BuiltInv
    <2>2. BinaryIsFresh'
      <3> SUFFICES ASSUME ~ past.back \/ (count.kills = 0 /\ ~ past.raced), ~ past.mid,
                          NEW e \in DOMAIN mem'.state, mem'.state[e] = "built"
                   PROVE  /\ Saved(e)'.bin.dir = e
                          /\ Contents(Saved(e)'.bin) = Read(mem.files[e])
                          /\ ~ past.raced => Saved(e)'.bin.names = MacrosOf(e)
        BY <1>3 DEF BinaryIsFresh, Read, MacrosOf, SameSources, SameKills, SamePackages
      <3>1. CASE e = d
        <4>1. Saved(e)'.bin = bin /\ Contents(bin) = Read(mem.files[d])
          BY <1>3, <1>8, <1>10, <3>1
        <4>2. ~ past.raced => bin.names = Defs(Contents(bin))
          BY <1>2, <1>8, <1>9 DEF BuildInv, NamesInv
        <4>3. ~ past.raced => MacrosOf(d) = Defs(Read(mem.files[d]))
          BY <1>3 DEF BuildInv, NamesInv
        <4> QED  BY <1>9, <3>1, <4>1, <4>2, <4>3
      <3>2. CASE e # d
        <4>1. e \in DOMAIN mem.state /\ mem.state[e] = "built"
          BY <1>7, <3>2
        <4>2. Saved(e)' = Saved(e)
          BY <1>3, <3>2, <4>1 DEF BuildInv, MemoryInv
        <4> QED  BY <4>1, <4>2 DEF BuildInv, BuiltInv, BinaryIsFresh
      <3> QED  BY <3>1, <3>2
    <2> QED  BY <2>1, <2>2 DEF BuiltInv
  <1> QED
    BY <1>11, <1>12, <1>13, <1>14, <1>16, <1>17, <1>18, <1>20, <1>21 DEF BuildInv

-----------------------------------------------------------------------------
(* The theorems.                                                           *)

\* Nothing was built yet.
LEMMA InitBuildInv == Init => BuildInv
  <1> SUFFICES ASSUME Init  PROVE BuildInv
    OBVIOUS
  <1>1. /\ mem = NoMemory /\ phase = "idle" /\ disk = NewTarget
        /\ mem.files = Empty /\ mem.byDir = Empty /\ mem.state = Empty
        /\ mem.stack = <<>> /\ mem.registry = Empty /\ disk.macro = Empty
        /\ ~ past.raced /\ ~ past.back /\ ~ past.mid
    BY DEF Init, NoMemory, NewTarget
  <1>2. DOMAIN Empty = {}
    BY DEF Empty
  <1>3. RecordsOK
    BY DEF Init, NoMemory, NewTarget, RecordsOK, IsRecord
  <1>4. ShapeInv /\ StackInv /\ FrameInv
    BY <1>1, <1>3, StackFacts DEF ShapeInv, StackInv, FrameInv, IsStack
  <1>5. SeenInv
    BY DEF Init, SeenInv
  <1>6. MemoryInv
    BY <1>1, <1>2 DEF MemoryInv, ListsFiles
  <1>7. EntryInv /\ UnknownInv /\ ExactInv /\ NamesInv /\ BuiltInv
    BY <1>1, <1>2
    DEF EntryInv, UnknownInv, Candidates, ExactInv, NamesInv, BuiltInv, BinaryIsFresh
  <1> QED  BY <1>4, <1>5, <1>6, <1>7 DEF BuildInv

\* Every step of a build, every edit and every kill keeps it.
LEMMA NextBuildInv == ASSUME DistinctKeys  PROVE BuildInv /\ [Next]_vars => BuildInv'
  <1> SUFFICES ASSUME BuildInv, [Next]_vars  PROVE BuildInv'
    OBVIOUS
  <1>1. Moves /\ RecordsOK'
    BY NextMoves
  <1>2. CASE StopMove \/ BeginMove \/ QuietMove
    BY <1>1, <1>2, StopKeeps, BeginKeeps, QuietKeeps
  <1>3. CASE EditMove \/ ScanMove \/ AppMove
    BY <1>1, <1>3, EditKeeps, ScanKeeps, AppKeeps
  <1>4. CASE \E d : ReuseMove(d) \/ PushMove(d)
    BY <1>1, <1>4, ReuseKeeps, PushKeeps
  <1>5. CASE \E frame : TopMove(frame)
    BY <1>1, <1>5, TopKeeps
  <1>6. CASE \E hash, bin : LinkMove(hash, bin) \/ SaveMove(hash, bin)
    BY <1>1, <1>6, LinkKeeps, SaveKeeps
  <1> QED  BY <1>1, <1>2, <1>3, <1>4, <1>5, <1>6 DEF Moves

\* What target/ and a running build know of the macro packages stays related to
\* their present sources, across any edits, kills and builds.
THEOREM BuildInvHolds == ASSUME DistinctKeys  PROVE Spec => []BuildInv
  BY InitBuildInv, NextBuildInv, PTL DEF Spec

\* A macro package that counts as built has an executable of its own directory,
\* made of its present sources, that knows the macros they define: whichever
\* files were edited, removed or restored between and during builds, and
\* wherever builds were killed, as long as no file gets an old content back, or
\* no build was killed or raced with an edit.
THEOREM BinaryIsFreshHolds == ASSUME DistinctKeys  PROVE Spec => []BinaryIsFresh
  <1>1. BuildInv => BinaryIsFresh
    BY DEF BuildInv, BuiltInv
  <1> QED  BY <1>1, BuildInvHolds, PTL
=============================================================================
