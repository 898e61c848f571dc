------------------------------ MODULE YzcClean ------------------------------
(***************************************************************************)
(* What a build of Yzc makes, compared with a build of the same sources in *)
(* an empty target/.                                                       *)
(***************************************************************************)
EXTENDS YzcInvariant

-----------------------------------------------------------------------------
(* What a build of this source tree makes of an empty target/. *)

Owner(m) == CHOOSE d \in {f.dir : f \in Present} :
              \E f \in Present : f.dir = d /\ m \in source[f].defs
Known == UNION {source[f].defs : f \in Present}

RECURSIVE CleanOuts(_, _)
CleanCode(d) ==
  [f \in {g \in Present : g.dir = d} |->
     [content |-> source[f],
      outs |-> CleanOuts(f, IF Known = {} THEN 0 ELSE Len(source[f].uses))]]
CleanBin(d) ==
  [dir |-> d, names |-> {n \in Known : Owner(n) = d}, code |-> CleanCode(d)]
CleanOuts(f, k) ==
  IF k = 0 THEN <<>>
  ELSE LET before == CleanOuts(f, k - 1)
           m == source[f].uses[k]
       IN Append(before,
            [bin |-> CleanBin(Owner(m)),
             name |-> m,
             payload |-> PayloadOf(f, source[f], before)])

InMacroPackage(f) ==
  \E g \in DOMAIN source : g.dir = f.dir /\ \E c \in past.seen[g] \ {Absent} : c.defs # {}

\* A build that succeeds links the application a build in an empty target/
\* would link, whatever was built, killed or left behind before: if no macro
\* package was edited since target/ was created (outputs are kept under the
\* macro's name and the subject only), no kept output is cut short, the
\* sources did not change during the build and the root has files.
AppAsClean ==
  /\ outcome = "ok" /\ ~ past.mid
  /\ \A f \in DOMAIN source : InMacroPackage(f) => past.seen[f] = {source[f]}
  /\ Torn \notin Range(disk.runs)
  /\ \E f \in Present : f.dir = Root
  => /\ disk.app.main.code = CleanCode(Root)
     /\ \A d \in DOMAIN disk.app.packages : disk.app.packages[d].code = CleanCode(d)

\* What a build links is what a clean build would link, and on the way there
\* no source file is compiled twice or dropped.
AppIsCleanBuild == BuildInv /\ EveryFileOnce /\ AppAsClean

Uses(d) == UNION {ToSet(source[f].uses) : f \in {g \in Present : g.dir = d}}
MacroDirs == {f.dir : f \in {g \in Present : source[g].defs # {}}}

\* The packages whose code the build needs, from the app's packages on.
RECURSIVE Needed(_)
Needed(dirs) ==
  LET more == dirs \cup {Owner(m) : m \in Known \cap UNION {Uses(d) : d \in dirs}}
  IN IF more = dirs THEN dirs ELSE Needed(more)
Cyclic(d) == d \in Needed({Owner(m) : m \in Known \cap Uses(d)})

\* A first build reports what is wrong with the triggers it reaches: it
\* succeeds only if the macros exist, are in other packages and need each
\* other in no cycle, and it reports a cycle only if there is one.
TriggersChecked ==
  LET app == {f.dir : f \in Present} \ MacroDirs
      needed == Needed(app)
  IN count.builds = 1 /\ ~ past.mid /\ Known # {} =>
       /\ outcome = "ok" =>
            \A d \in needed : Uses(d) \subseteq Known /\ ~ Cyclic(d)
       /\ outcome = "cycle" => \E d \in needed : Cyclic(d)

\* A reference to a directory with files that are not macros links: the name of
\* the directory, taken from the source root, leads to its package.
ReferencesResolve ==
  LET dirs == {f.dir : f \in Present}
      refs == UNION {source[f].refs : f \in {g \in Present : g.dir = Root}}
  IN outcome = "unlinkable" /\ ~ past.mid =>
       Root \notin dirs \/ ~ refs \subseteq dirs \ MacroDirs
=============================================================================
