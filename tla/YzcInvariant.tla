----------------------------- MODULE YzcInvariant -----------------------------
(***************************************************************************)
(* The inductive invariant behind the reuse of macro executables: what the *)
(* recorded hashes, the executables and the packages being compiled say    *)
(* about the present sources, across edits, kills and builds.              *)
(***************************************************************************)
EXTENDS Yzc

\* No two directories of a source tree have the same key.
DistinctKeys ==
  \A tree \in Trees : \A f, g \in DOMAIN tree : PkgKey(f.dir) = PkgKey(g.dir) => f.dir = g.dir

IsRecord(r, fields) == r = [x \in fields |-> r[x]]

RecordsOK ==
  /\ IsRecord(mem, {"byDir", "registry", "files", "state", "injected", "result",
                    "written", "stack"})
  /\ IsRecord(disk, {"gen", "app", "macro", "runs"})
  /\ IsRecord(count, {"builds", "edits", "kills"})
  /\ IsRecord(past, {"seen", "back", "mid", "raced"})
  /\ past.back \in BOOLEAN /\ past.mid \in BOOLEAN /\ past.raced \in BOOLEAN
  /\ count.kills \in Nat

ShapeInv ==
  /\ RecordsOK
  /\ mem.stack \in Seq(Range(mem.stack))
  /\ \A k \in DOMAIN mem.stack :
       IsRecord(mem.stack[k], {"dir", "step", "hash", "parsed", "outs"})

FilesIn(d) == {f \in DOMAIN source : f.dir = d}
Dirs == {f.dir : f \in DOMAIN source}
Has(contents, f) == IF f \in DOMAIN contents THEN contents[f] ELSE Absent

\* Every content a file has had was seen, and files keep their names.
SeenInv ==
  /\ \E tree \in Trees : DOMAIN tree = DOMAIN source
  /\ DOMAIN past.seen = DOMAIN source
  /\ \A f \in DOMAIN source : source[f] \in past.seen[f]

\* While the sources are as the build found them, it knows all files of its
\* directories; a file it does not know was absent once.
ListsFiles(map) ==
  \A d \in DOMAIN map :
    /\ d \in Dirs /\ map[d] \subseteq FilesIn(d)
    /\ ~ past.mid => map[d] = FilesIn(d) \cap Present
    /\ \A f \in FilesIn(d) \ map[d] : Absent \in past.seen[f]

MemoryInv ==
  /\ phase \in {"idle", "scan", "inject", "compile"}
  /\ phase = "idle" => mem = NoMemory
  /\ phase = "scan" => mem.files = Empty
  /\ phase # "compile" => mem.state = Empty /\ mem.stack = <<>>
  /\ phase # "idle" /\ ~ past.raced => ~ past.mid
  /\ ListsFiles(mem.byDir) /\ ListsFiles(mem.files)
  /\ \A m \in DOMAIN mem.registry : mem.registry[m] \in DOMAIN mem.files
  /\ \A d \in DOMAIN mem.state :
       d \in DOMAIN mem.files /\ mem.state[d] \in {"building", "built"}

\* The packages above the first are macro packages in state building, each
\* once; all but the last wait for an expansion.
StackInv ==
  /\ \A k \in DOMAIN mem.stack : k = 1 \/ k < Len(mem.stack) => mem.stack[k].step = "expand"
  /\ \A k \in DOMAIN mem.stack : k # 1 =>
       /\ mem.stack[k].dir \in DOMAIN mem.state
       /\ mem.state[mem.stack[k].dir] = "building"
       /\ mem.stack[k].step \in {"read", "expand", "link", "save"}
  /\ \A j, k \in DOMAIN mem.stack : j # 1 /\ k # 1 /\ mem.stack[j].dir = mem.stack[k].dir => j = k

\* As long as contents a are the present ones of a file, so are contents b.
Follows(a, b, f) == Has(a, f) = source[f] => Has(b, f) = source[f]

\* A package being compiled: what was hashed and what was parsed of its files.
\* While no file gets an old content back, contents that are present again
\* have been present all the time.
FrameOK(frame) ==
  LET files == mem.files[frame.dir] IN
  /\ frame.hash = [f \in files |-> frame.hash[f]]
  /\ \A f \in files : frame.hash[f] \in past.seen[f]
  /\ ~ past.mid => frame.hash = Read(files)
  /\ frame.step # "read" =>
       /\ frame.parsed = [f \in files |-> frame.parsed[f]]
       /\ \A f \in files : frame.parsed[f] # Absent
       /\ ~ past.mid => frame.parsed = Read(files)
       /\ ~ past.back => \A f \in FilesIn(frame.dir) :
            /\ Follows(frame.hash, frame.parsed, f)
            /\ Saved(frame.dir).hash # None => Follows(Saved(frame.dir).hash, frame.parsed, f)
  /\ frame.step = "save" =>
       /\ PkgKey(frame.dir) \in DOMAIN disk.macro
       /\ Contents(Saved(frame.dir).bin) = frame.parsed

FrameInv == \A k \in DOMAIN mem.stack : k # 1 => FrameOK(mem.stack[k])

\* What target/macros/ has under a key: an executable made of files of one
\* directory, and a hash that its sources follow.
EntryOK(key, entry) ==
  /\ IsRecord(entry, {"hash", "bin"}) /\ IsRecord(entry.bin, {"dir", "names", "code"})
  /\ entry.bin.dir \in Dirs /\ key = PkgKey(entry.bin.dir)
  /\ DOMAIN entry.bin.code \subseteq FilesIn(entry.bin.dir)
  /\ \A f \in DOMAIN entry.bin.code : entry.bin.code[f].content # Absent
  /\ ~ past.back /\ entry.hash # None => \A f \in FilesIn(entry.bin.dir) :
       /\ Has(entry.hash, f) \in past.seen[f]
       /\ Follows(entry.hash, Contents(entry.bin), f)

EntryInv == \A key \in DOMAIN disk.macro : EntryOK(key, disk.macro[key])

\* The directories that are macro packages, or may turn out to be.
Candidates == IF phase = "scan" THEN mem.byDir ELSE mem.files

\* A file that a running build does not know, and that appeared meanwhile, is
\* not as any recorded hash has it.
UnknownInv ==
  ~ past.back => \A d \in DOMAIN Candidates :
    Saved(d).hash # None => \A f \in FilesIn(d) \ Candidates[d] :
      Has(Saved(d).hash, f) = source[f] => source[f] = Absent

\* Without kills and races a hash is recorded with the executable made of the
\* same sources.
ExactInv ==
  count.kills = 0 /\ ~ past.raced => \A key \in DOMAIN disk.macro :
    LET entry == disk.macro[key] IN
    \/ entry.hash = None
    \/ entry.hash = Contents(entry.bin)
    \/ \E k \in DOMAIN mem.stack :
         mem.stack[k].step = "save" /\ PkgKey(mem.stack[k].dir) = key

Defs(contents) == UNION {contents[f].defs : f \in DOMAIN contents}

\* Without races the registry has the macros of the sources, and an executable
\* those of its own.
NamesInv ==
  ~ past.raced =>
    /\ \A d \in DOMAIN mem.files : MacrosOf(d) = Defs(Read(mem.files[d]))
    /\ \A key \in DOMAIN disk.macro :
         disk.macro[key].bin.names = Defs(Contents(disk.macro[key].bin))

\* What counts as built is there.
BuiltInv ==
  /\ \A d \in DOMAIN mem.state : mem.state[d] = "built" => PkgKey(d) \in DOMAIN disk.macro
  /\ BinaryIsFresh

BuildInv ==
  /\ ShapeInv /\ SeenInv /\ MemoryInv /\ StackInv /\ FrameInv /\ EntryInv
  /\ UnknownInv /\ ExactInv /\ NamesInv /\ BuiltInv
=============================================================================
