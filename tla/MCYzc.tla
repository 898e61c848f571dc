------------------------------- MODULE MCYzc -------------------------------
(***************************************************************************)
(* Source trees for Yzc.                                                   *)
(***************************************************************************)
EXTENDS YzcClean

file(dir, name) == [root |-> "src", dir |-> dir, name |-> name]
lib(dir, name) == [root |-> "lib", dir |-> dir, name |-> name]

plain(uses, refs) == Content({}, uses, refs, 0, 0, "no")
macro(m, uses) == Content({m}, uses, {}, 0, 0, "no")
but(c, err) == [c EXCEPT !.err = err]

main == file(Root, "main")
Main == plain(<<"G", "H">>, {<<"net">>})
Gen == file(<<"gen">>, "G")
Derive == file(<<"derive">>, "H")
net == file(<<"net">>, "http")

\* The tree that is edited: main's declaration is expanded by G and then H, and
\* the package of G is itself expanded by H.
CacheTree ==
  (main :> Main) @@ (Gen :> macro("G", <<"H">>)) @@ (Derive :> macro("H", <<>>))
  @@ (net :> plain(<<"H">>, {}))

CacheEdits ==
  (main :> {Main, [Main EXCEPT !.fields = 1], [Main EXCEPT !.body = 1], but(Main, "sema"), Absent})
  @@ (Gen :> {macro("G", <<"H">>), [macro("G", <<"H">>) EXCEPT !.body = 1],
              but(macro("G", <<"H">>), "sema")})
  @@ (Derive :> {macro("H", <<>>), [macro("H", <<>>) EXCEPT !.body = 1],
                 [macro("H", <<>>) EXCEPT !.fields = 1], Absent})

foo == file(Root, "foo")
house == file(Root, "house")
inner == file(<<"house">>, "inner")
front == file(<<"house", "front">>, "Host")
Refs(dirs) == main :> plain(<<>>, dirs)

\* foo/ is merged into foo.yz; house/ has a directory below it and is not; the
\* files of one directory come from two source roots.
LayoutTree ==
  Refs({<<"net">>}) @@ (foo :> plain(<<>>, {})) @@ (house :> plain(<<>>, {}))
  @@ (file(<<"foo">>, "bar") :> plain(<<"G">>, {}))
  @@ (inner :> plain(<<>>, {})) @@ (front :> plain(<<"G">>, {}))
  @@ (net :> plain(<<>>, {})) @@ (lib(<<"net">>, "tcp") :> plain(<<>>, {}))
  @@ (Gen :> macro("G", <<>>))

\* Trees a build rejects, or in which it ignores an annotation.
OddTrees ==
  { (main :> plain(<<>>, {})) @@ (lib(Root, "main") :> plain(<<>>, {})),
    (main :> macro("G", <<>>)),
    Refs({}) @@ (Gen :> macro("G", <<>>)) @@ (Derive :> macro("G", <<>>)),
    (main :> plain(<<"X">>, {})),
    (main :> plain(<<"X">>, {})) @@ (Gen :> macro("G", <<>>)),
    (main :> plain(<<"G">>, {})) @@ (Gen :> macro("G", <<"G">>)),
    (main :> plain(<<"G">>, {})) @@ (Gen :> macro("G", <<"H">>))
      @@ (Derive :> macro("H", <<"G">>)),
    (main :> plain(<<>>, {})) @@ (Gen :> macro("G", <<"H">>))
      @@ (Derive :> macro("H", <<"G">>)),
    Refs({}) @@ (net :> but(plain(<<>>, {}), "parse")),
    Refs({<<"net">>}) @@ (Gen :> macro("G", <<>>)) }
  \cup {(main :> but(plain(<<"G">>, {}), "config")) @@ (Gen :> macro("G", <<>>))}
  \cup {(main :> plain(<<"G">>, {})) @@ (Gen :> but(macro("G", <<>>), err)) :
          err \in {"schema", "main", "run", "output"}}

\* Trees with packages at several depths, all referred to by main.
NameTrees ==
  { Refs({<<"net">>}) @@ (net :> plain(<<>>, {})),
    Refs({<<"house", "front">>}) @@ (front :> plain(<<>>, {})),
    Refs({<<"house">>, <<"house", "front">>}) @@ (inner :> plain(<<>>, {}))
      @@ (front :> plain(<<>>, {})) }

\* Two macro packages whose directories differ in / and _ only.
KeyTrees ==
  { (main :> plain(<<"H", "G">>, {})) @@ (net :> plain(<<"G">>, {}))
      @@ (file(<<"gen", "json">>, "G") :> macro("G", <<>>))
      @@ (file(<<"gen_json">>, "H") :> macro("H", <<>>)) }

BuildTrees == {CacheTree, LayoutTree} \cup OddTrees

\* The hypothesis of the theorems of YzcProofs holds on the trees of the run.
ASSUME MCProgramAssumption == Trees = BuildTrees => DistinctKeys
=============================================================================
