-------------------------------- MODULE Yzc --------------------------------
(***************************************************************************)
(* The build driver: cmd/yzc/build.go and cmd/yzc/macro.go, and the tree   *)
(* of names an analyzer registers packages in.                             *)
(*                                                                         *)
(* A build walks the source roots, sets the directories that define macros *)
(* aside, merges foo/ into foo.yz, compiles the other directories deepest  *)
(* first and the root last, and writes and links the Go code under         *)
(* target/.  A package is compiled after its annotated declarations were   *)
(* expanded by the macros they name; the package of a macro is itself      *)
(* compiled to an executable the first time one of its macros is needed.   *)
(* target/ survives the build: executables are reused while the hash of    *)
(* their sources is the recorded one, and the output of a macro is reused  *)
(* for the same macro and the same subject.                                *)
(*                                                                         *)
(* Meanwhile the user edits files, and a build can be killed at any step.  *)
(***************************************************************************)
EXTENDS Naturals, Sequences, SequencesExt

CONSTANTS
  Trees,      \* the source trees to start from: functions from files to contents
  Edits,      \* Edits[f]: the contents the user gives file f
  MaxBuilds, MaxEdits, MaxKills,
  Absent, Torn, None

\* A file is [root, dir, name]; a directory is a sequence of names below the
\* source root, <<>> the root package.  Of a content matter: the macros it
\* defines, the macros that annotate its declaration, the package directories
\* it names, a version of the fields (of a macro, those it adds to a subject) and
\* of the rest, and what is wrong with it: "no", "parse", "sema", the "schema" of
\* its macro, the "config" of its triggers, a "main" that a macro package must
\* not have, or a macro whose "run" fails or whose "output" is not Yz.
Content(defs, uses, refs, fields, body, err) ==
  [defs |-> defs, uses |-> uses, refs |-> refs, fields |-> fields,
   body |-> body, err |-> err]

Root == <<>>
Empty == [x \in {} |-> None]

\* A map with an entry for x.
Put(F, x, v) == [y \in DOMAIN F \cup {x} |-> IF y = x THEN v ELSE F[y]]

\* macroPkgKey: the directory of target/macros/ that a package has.
PkgKey(d) ==
  IF d = Root THEN ""
  ELSE FoldLeft(LAMBDA key, name : key \o "_" \o name, d[1], Tail(d))

VARIABLES
  source,   \* source[f]
  disk,     \* target/: gen, app, macro (the executables), runs (the outputs)
  phase,    \* "idle", "scan", "inject", "compile"
  mem,      \* what the running build has in memory
  outcome,  \* of the last build
  count,    \* how many builds, edits and kills there were
  past      \* history: the contents each file had (seen), whether one came
            \* back, an edit since the last build began (mid), and one during
            \* any build (raced)
vars == <<source, disk, phase, mem, outcome, count, past>>

NoMemory ==
  [byDir |-> Empty,     \* byDir[d]: the files of d, for the app
   registry |-> Empty,  \* registry[m]: the directory that defines macro m
   files |-> Empty,     \* files[d]: the files of macro package d
   state |-> Empty,     \* state[d]: "building" or "built"; absent: unbuilt
   injected |-> Empty,  \* injected[f]: the files merged into root file f
   result |-> Empty,    \* result[d]: the Go package generated for d
   written |-> {},      \* the directories whose package is written
   stack |-> <<>>]      \* the packages being compiled, the innermost last

NewTarget == [gen |-> Empty, app |-> None, macro |-> Empty, runs |-> Empty]

Init ==
  /\ source \in Trees
  /\ disk = NewTarget /\ phase = "idle" /\ mem = NoMemory /\ outcome = "none"
  /\ count = [builds |-> 0, edits |-> 0, kills |-> 0]
  /\ past = [seen |-> [f \in DOMAIN source |-> {source[f]}],
             back |-> FALSE, mid |-> FALSE, raced |-> FALSE]

-----------------------------------------------------------------------------

Present == {f \in DOMAIN source : source[f] # Absent}
Conflict(files) ==
  \E f, g \in files : f # g /\ f.dir = g.dir /\ f.name = g.name
ByDir(files) ==
  [d \in {f.dir : f \in files} |-> {f \in files : f.dir = d}]
Readable(files) ==
  \A f \in files : source[f] # Absent /\ source[f].err # "parse"
BadSchema(files) == \E f \in files : source[f].err = "schema"
Without(F, S) == Restrict(F, DOMAIN F \ S)
Read(files) == [f \in files |-> source[f]]

Abort(why) ==
  outcome' = why /\ phase' = "idle" /\ mem' = NoMemory /\ UNCHANGED disk

Goto(p, m) == phase' = p /\ mem' = m /\ UNCHANGED <<disk, outcome>>

\* cmdBuild: walk the roots and group the files by directory.
Begin ==
  /\ phase = "idle" /\ count.builds < MaxBuilds
  /\ count' = [count EXCEPT !.builds = @ + 1]
  /\ past' = [past EXCEPT !.mid = FALSE]
  /\ IF Present = {} \/ Conflict(Present)
     THEN Abort("rejected")
     ELSE /\ phase' = "scan" /\ outcome' = "none" /\ UNCHANGED disk
          /\ mem' = [NoMemory EXCEPT !.byDir = ByDir(Present)]
  /\ UNCHANGED source

Defines(d) == UNION {source[f].defs : f \in mem.byDir[d]}

\* Two macros of one name are refused, in one package or in two.
Duplicate ==
  \E f, g \in UNION Range(mem.byDir) :
    f # g /\ source[f].defs \cap source[g].defs # {}

\* Macro discovery: a directory that defines a macro leaves the app.
Scan ==
  /\ phase = "scan"
  /\ \/ /\ ~ Readable(UNION Range(mem.byDir)) /\ Abort("rejected")
     \/ /\ Readable(UNION Range(mem.byDir))
        /\ LET dirs == {d \in DOMAIN mem.byDir : Defines(d) # {}}
               names == UNION {Defines(d) : d \in dirs}
           IN IF Root \in dirs \/ Duplicate \/ BadSchema(UNION Range(mem.byDir))
              THEN Abort("rejected")
              ELSE Goto("inject",
                [mem EXCEPT
                  !.registry = [m \in names |->
                                  CHOOSE d \in dirs : m \in Defines(d)],
                  !.files = Restrict(mem.byDir, dirs),
                  !.byDir = Without(mem.byDir, dirs)])
  /\ UNCHANGED <<source, count, past>>

HasDeeper(d) == \E e \in DOMAIN mem.byDir : IsStrictPrefix(d, e)

\* The directories merged into the root file of their name (Invariant 5).
Merged ==
  {d \in DOMAIN mem.byDir :
     /\ Len(d) = 1 /\ ~ HasDeeper(d) /\ Root \in DOMAIN mem.byDir
     /\ \E f \in mem.byDir[Root] : f.name = d[1]}

Inject ==
  /\ phase = "inject"
  /\ IF Readable(UNION {mem.byDir[d] : d \in Merged})
     THEN Goto("compile",
            [mem EXCEPT
              !.injected = [n \in {d[1] : d \in Merged} |->
                              Read(mem.byDir[<<n>>])],
              !.byDir = Without(mem.byDir, Merged)])
     ELSE Abort("rejected")
  /\ UNCHANGED <<source, count, past>>

-----------------------------------------------------------------------------
\* The tree of names of the root analyzer: what is found under a path of names,
\* a "package", a "namespace" with names below it, or a "boc".

\* insertNamespace and RegisterPackage: the levels above d become namespaces,
\* whatever the name stood for; the last level becomes the package, and what
\* was below it is gone.
Insert(tree, d) ==
  [p \in {q \in DOMAIN tree : ~ IsStrictPrefix(d, q)}
           \cup {SubSeq(d, 1, k) : k \in 1 .. Len(d)} |->
     IF p = d THEN "package"
     ELSE IF IsPrefix(p, d) THEN "namespace" ELSE tree[p]]

\* The packages are registered in the order they were compiled, the deepest
\* first; then the root's own files define their names over them.
Deepest(dirs) ==
  CHOOSE d \in dirs \ {Root} : \A e \in dirs : Len(e) <= Len(d)

RegisterAll(dirs) ==
  FoldLeft(Insert, Empty,
           SetToSortSeq(dirs \ {Root}, LAMBDA d, e : Len(d) > Len(e)))

FileScope(dirs, rootFiles) ==
  LET names == {<<f.name>> : f \in rootFiles}
      tree  == RegisterAll(dirs)
  IN [p \in {q \in DOMAIN tree : <<q[1]>> \notin names} \cup names |->
        IF p \in names THEN "boc" ELSE tree[p]]

\* resolveExprToPackage: a package, or a package directly in a namespace.
Resolve(tree, d) ==
  IF Len(d) <= 2 /\ d \in DOMAIN tree /\ tree[d] = "package" THEN d ELSE None

-----------------------------------------------------------------------------
\* Compiling a package.  A frame of the stack is a package being compiled:
\* its step ("read", "expand", "generate", "link" or "save"), what was parsed
\* of its files, and outs[f], the outputs merged into file f's declaration.

Frame(d, step, hash, parsed) ==
  [dir |-> d, step |-> step, hash |-> hash, parsed |-> parsed,
   outs |-> [f \in DOMAIN parsed |-> <<>>]]

Top == Last(mem.stack)
SetTop(frame) == [mem EXCEPT !.stack[Len(mem.stack)] = frame]

NextDir ==
  LET todo == DOMAIN mem.byDir \ DOMAIN mem.result
  IN IF todo = {Root} THEN Root ELSE Deepest(todo)

\* compilePackageDir up to the expansion.
Open ==
  /\ phase = "compile" /\ mem.stack = <<>>
  /\ DOMAIN mem.byDir # DOMAIN mem.result
  /\ LET d == NextDir
         files == mem.byDir[d]
     IN IF Readable(files)
        THEN Goto("compile",
               [mem EXCEPT !.stack = <<Frame(d, "expand", None, Read(files))>>])
        ELSE Abort("rejected")
  /\ UNCHANGED <<source, count, past>>

\* Mutant: annotations in macro packages are not expanded.
PendingInApp ==
  IF mem.registry = Empty \/ Len(mem.stack) > 1 THEN {}
  ELSE {f \in DOMAIN Top.parsed : Len(Top.outs[f]) < Len(Top.parsed[f].uses)}

\* A file of the top frame whose declaration has triggers left, and the first
\* of them.  Without any macro in the project annotations are not looked at.
Pending ==
  IF mem.registry = Empty THEN {}
  ELSE {f \in DOMAIN Top.parsed : Len(Top.outs[f]) < Len(Top.parsed[f].uses)}
Subject == CHOOSE f \in Pending : TRUE
Trigger == Top.parsed[Subject].uses[Len(Top.outs[Subject]) + 1]
Triggered ==
  /\ phase = "compile" /\ mem.stack # <<>>
  /\ Top.step = "expand" /\ Pending # {}

Usable ==
  Trigger \in {m \in DOMAIN mem.registry : mem.registry[m] # Top.dir}

\* expandSubject: an unknown macro, or one of the package itself.
Refuse ==
  /\ Triggered /\ ~ Usable
  /\ Abort("unusable")
  /\ UNCHANGED <<source, count, past>>

MacroDir == mem.registry[Trigger]
InState(d) == IF d \in DOMAIN mem.state THEN mem.state[d] ELSE "unbuilt"
SetState(d, s) == Put(mem.state, d, s)

\* ensureMacroPackageBuilt: a package that is being built is a cycle.
Cycle ==
  /\ Triggered /\ Usable /\ InState(MacroDir) = "building"
  /\ Abort("cycle")
  /\ UNCHANGED <<source, count, past>>

\* What target/macros/ has under the key of d.
Saved(d) == IF PkgKey(d) \in DOMAIN disk.macro THEN disk.macro[PkgKey(d)]
            ELSE [hash |-> None, bin |-> None]
Reusable(d) ==
  /\ Saved(d).hash # None /\ Saved(d).hash = Read(mem.files[d])
  /\ Saved(d).bin # None

\* Mutant: an executable is reused without a look at the hash.
EnsureAnyBinary ==
  /\ Triggered /\ Usable /\ InState(MacroDir) = "unbuilt"
  /\ LET d == MacroDir
         files == mem.files[d]
     IN Goto("compile",
          IF Saved(d).bin # None
          THEN [mem EXCEPT !.state = SetState(d, "built")]
          ELSE [mem EXCEPT !.state = SetState(d, "building"),
                           !.stack = Append(@, Frame(d, "read", Read(files), Empty))])
  /\ UNCHANGED <<source, count, past>>

\* Mutant: the state stays unbuilt while the package is being built.
EnsureUnmarked ==
  /\ Triggered /\ Usable /\ InState(MacroDir) = "unbuilt" /\ Len(mem.stack) < 6
  /\ LET d == MacroDir
         files == mem.files[d]
     IN Goto("compile",
          IF Reusable(d)
          THEN [mem EXCEPT !.state = SetState(d, "built")]
          ELSE [mem EXCEPT !.stack = Append(@, Frame(d, "read", Read(files), Empty))])
  /\ UNCHANGED <<source, count, past>>

\* bootstrapMacroPackage: the executable is reused if its sources have the
\* recorded hash; otherwise the package is compiled on top of the stack.
Ensure ==
  /\ Triggered /\ Usable /\ InState(MacroDir) = "unbuilt"
  /\ LET d == MacroDir
         files == mem.files[d]
     IN IF \E f \in files : source[f] = Absent
        THEN Abort("rejected")
        ELSE Goto("compile",
               IF Reusable(d)
               THEN [mem EXCEPT !.state = SetState(d, "built")]
               ELSE [mem EXCEPT !.state = SetState(d, "building"),
                       !.stack = Append(@, Frame(d, "read", Read(files), Empty))])
  /\ UNCHANGED <<source, count, past>>

Compiling(step) ==
  phase = "compile" /\ mem.stack # <<>> /\ Top.step = step

NoMain(files) == \A f \in files : source[f].err # "main"

\* The sources of a macro package are read again to be parsed.
ReadSources ==
  /\ Compiling("read")
  /\ LET files == mem.files[Top.dir]
     IN IF Readable(files) /\ NoMain(files)
        THEN Goto("compile", SetTop(Frame(Top.dir, "expand", Top.hash, Read(files))))
        ELSE Abort("rejected")
  /\ UNCHANGED <<source, count, past>>

\* The data fields an output adds to its subject; its methods do not matter.
Added(out) ==
  IF out = Torn THEN Torn
  ELSE [name |-> out.name, payload |-> out.payload,
        versions |-> [f \in DOMAIN out.bin.code |-> out.bin.code[f].content.fields]]

\* buildSubjectPayload: the name of the subject and its data fields, its own and
\* those merged so far.
PayloadOf(f, content, outs) ==
  [subject |-> f.name, fields |-> content.fields,
   added |-> [k \in DOMAIN outs |-> Added(outs[k])]]
Payload == PayloadOf(Subject, Top.parsed[Subject], Top.outs[Subject])

\* Mutant: the output is kept under the name of the macro alone.
RunKeyName == [key |-> PkgKey(MacroDir), name |-> Trigger, payload |-> "any"]

RunKey == [key |-> PkgKey(MacroDir), name |-> Trigger, payload |-> Payload]

\* What an executable prints: an unknown function of all that goes into it.
Output(bin) == [bin |-> bin, name |-> Trigger, payload |-> Payload]

Faulty(out, err) ==
  out # Torn /\ \E f \in DOMAIN out.bin.code : out.bin.code[f].content.err = err

\* invokeMacro, and the merge of the output into the subject.  The config may
\* not fit the schema of the macro, the executable may fail or not know the
\* macro, and what it prints may not be Yz; only the failure is not kept.
Invoke ==
  /\ Triggered /\ Usable /\ InState(MacroDir) = "built"
  /\ LET bin == Saved(MacroDir).bin
         cached == RunKey \in DOMAIN disk.runs
         out == IF cached THEN disk.runs[RunKey] ELSE Output(bin)
     IN IF \/ Top.parsed[Subject].err = "config"
           \/ ~ cached /\ (Trigger \notin bin.names \/ Faulty(out, "run"))
        THEN Abort("rejected")
        ELSE /\ disk' = [disk EXCEPT !.runs = Put(@, RunKey, out)]
             /\ IF Faulty(out, "output")
                THEN outcome' = "rejected" /\ phase' = "idle" /\ mem' = NoMemory
                ELSE /\ mem' = SetTop([Top EXCEPT !.outs[Subject] = Append(@, out)])
                     /\ UNCHANGED <<phase, outcome>>
  /\ UNCHANGED <<source, count, past>>

Expanded == Compiling("expand") /\ Pending = {}
Accepted == \A f \in DOMAIN Top.parsed : Top.parsed[f].err # "sema"
Code == [f \in DOMAIN Top.parsed |->
           [content |-> Top.parsed[f], outs |-> Top.outs[f]]]

\* The Go package of the root also has the merged files, and imports what its
\* references resolve to.
GoPackage(frame) ==
  LET refs == UNION {frame.parsed[f].refs : f \in DOMAIN frame.parsed}
      tree == IF frame.dir = Root
              THEN FileScope(DOMAIN mem.result, mem.byDir[Root]) ELSE Empty
  IN [code |-> Code,
      merged |-> IF frame.dir = Root THEN mem.injected ELSE Empty,
      imports |-> {Resolve(tree, d) : d \in refs}]

\* Analysis, lowering and code generation of a package of the app.
Generate ==
  /\ Expanded /\ Len(mem.stack) = 1
  /\ IF Accepted
     THEN Goto("compile",
            [mem EXCEPT !.result = Put(@, Top.dir, GoPackage(Top)), !.stack = <<>>])
     ELSE Abort("rejected")
  /\ UNCHANGED <<source, count, past>>

\* The same of a macro package: its Go code is then built and, last, the hash
\* recorded.
GenerateMacro ==
  /\ Expanded /\ Len(mem.stack) > 1
  /\ IF Accepted
     THEN Goto("compile", SetTop([Top EXCEPT !.step = "link"]))
     ELSE Abort("rejected")
  /\ UNCHANGED <<source, count, past>>

Record(d, hash, bin) ==
  disk' = [disk EXCEPT !.macro = Put(@, PkgKey(d), [hash |-> hash, bin |-> bin])]

MacrosOf(d) == {m \in DOMAIN mem.registry : mem.registry[m] = d}

\* genMacroMain and goBuild: the executable knows the macros that the scan
\* found in the package, and does not link if one of them is gone.
LinkMacro ==
  /\ Compiling("link")
  /\ IF MacrosOf(Top.dir) \subseteq UNION {Top.parsed[f].defs : f \in DOMAIN Top.parsed}
     THEN /\ Record(Top.dir, Saved(Top.dir).hash,
                    [dir |-> Top.dir, names |-> MacrosOf(Top.dir), code |-> Code])
          /\ mem' = SetTop([Top EXCEPT !.step = "save"])
          /\ UNCHANGED <<phase, outcome>>
     ELSE Abort("rejected")
  /\ UNCHANGED <<source, count, past>>

SaveHash ==
  /\ Compiling("save")
  /\ Record(Top.dir, Top.hash, Saved(Top.dir).bin)
  /\ mem' = [mem EXCEPT !.state = SetState(Top.dir, "built"), !.stack = Front(@)]
  /\ UNCHANGED <<source, phase, outcome, count, past>>

Compiled ==
  /\ phase = "compile" /\ mem.stack = <<>>
  /\ DOMAIN mem.byDir = DOMAIN mem.result

\* writeGeneratedGo: a file per package, in any order; nothing is deleted.
Write ==
  /\ Compiled
  /\ \E d \in DOMAIN mem.result \ mem.written :
       /\ disk' = [disk EXCEPT !.gen = Put(@, d, mem.result[d])]
       /\ mem' = [mem EXCEPT !.written = @ \cup {d}]
  /\ UNCHANGED <<source, phase, outcome, count, past>>

\* go build: needs a main package, every import, and imports of different
\* names (a package is named after the last part of its path).
Linkable(gen) ==
  /\ Root \in DOMAIN gen
  /\ None \notin gen[Root].imports
  /\ \A d, e \in gen[Root].imports : d # e => Last(d) # Last(e)

Image(gen) ==
  [main |-> gen[Root], packages |-> Restrict(gen, gen[Root].imports)]

Link ==
  /\ Compiled /\ mem.written = DOMAIN mem.result
  /\ IF Linkable(disk.gen)
     THEN /\ disk' = [disk EXCEPT !.app = Image(disk.gen)]
          /\ outcome' = "ok" /\ phase' = "idle" /\ mem' = NoMemory
     ELSE Abort("unlinkable")
  /\ UNCHANGED <<source, count, past>>

-----------------------------------------------------------------------------

\* The user saves a file, with a new content or an old one, or removes it.
Edit ==
  /\ count.edits < MaxEdits
  /\ \E f \in DOMAIN source \cap DOMAIN Edits : \E c \in Edits[f] \ {source[f]} :
       /\ source' = [source EXCEPT ![f] = c]
       /\ past' = [past EXCEPT !.seen[f] = @ \cup {c},
                               !.back = @ \/ c \in past.seen[f],
                               !.mid = TRUE,
                               !.raced = @ \/ phase # "idle"]
  /\ count' = [count EXCEPT !.edits = @ + 1]
  /\ UNCHANGED <<disk, phase, mem, outcome>>

\* The build is killed; a file it was writing is cut short.
Kill ==
  /\ phase # "idle" /\ count.kills < MaxKills
  /\ count' = [count EXCEPT !.kills = @ + 1]
  /\ outcome' = "killed" /\ phase' = "idle" /\ mem' = NoMemory
  /\ UNCHANGED <<source, past>>

KillBetweenSteps == Kill /\ UNCHANGED disk

KillInRunCache ==
  /\ Triggered /\ Usable /\ InState(MacroDir) = "built"
  /\ RunKey \notin DOMAIN disk.runs
  /\ disk' = [disk EXCEPT !.runs = Put(@, RunKey, Torn)]
  /\ Kill

\* A truncated hash is no hash, and the executable it stood for is kept.
KillInHash ==
  /\ Compiling("save")
  /\ Record(Top.dir, None, Saved(Top.dir).bin)
  /\ Kill

Step ==
  \/ Scan \/ Inject \/ Open \/ Refuse \/ Cycle \/ Ensure \/ ReadSources \/ Invoke
  \/ Generate \/ GenerateMacro \/ LinkMacro \/ SaveHash \/ Write \/ Link

Next == Begin \/ Step \/ Edit \/ KillBetweenSteps \/ KillInRunCache \/ KillInHash

Spec == Init /\ [][Next]_vars
FairSpec == Spec /\ WF_vars(Step)

-----------------------------------------------------------------------------
Contents(bin) == [f \in DOMAIN bin.code |-> bin.code[f].content]

\* A macro package that counts as built has an executable made of its present
\* sources: if no file went back to an earlier content, even when builds are
\* killed anywhere and files are edited under a build; and if files do go
\* back, as long as no build was killed or raced with an edit.
BinaryIsFresh ==
  (~ past.back \/ (count.kills = 0 /\ ~ past.raced)) /\ ~ past.mid =>
    \A d \in DOMAIN mem.state : mem.state[d] = "built" =>
      LET bin == Saved(d).bin
      IN /\ bin.dir = d /\ Contents(bin) = Read(mem.files[d])
         /\ ~ past.raced => bin.names = MacrosOf(d)

\* When everything is compiled, each source file is in one place: in the
\* package of its directory, merged into one root file, or in a macro package.
EveryFileOnce ==
  Compiled /\ ~ past.mid =>
    \A f \in Present :
      Cardinality({d \in DOMAIN mem.result : f \in DOMAIN mem.result[d].code})
      + Cardinality({n \in DOMAIN mem.injected : f \in DOMAIN mem.injected[n]})
      + Cardinality({d \in DOMAIN mem.files : f \in mem.files[d]}) = 1

\* A build ends, whatever the user edits meanwhile.  The compiler and the Go
\* tool are sequential code; a macro executable is assumed to return.
BuildEnds == (phase # "idle") ~> (phase = "idle")
=============================================================================
