---------------------------- MODULE MCCachedBuild ----------------------------
(***************************************************************************)
(* Two builders with one cache: the first builds a binary, the second an   *)
(* object or a binary; a third builds a binary without the cache.  Their   *)
(* files are apart, or their outputs are bare names in different working   *)
(* directories, or one output is named as an intermediate file of another. *)
(***************************************************************************)
EXTENDS CachedBuild, TLC

CONSTANTS app, other, plain, s1, s2

Output(directory, file, bare) == [directory |-> directory, file |-> file, bare |-> bare]

Builds(first, second) == (app :> first) @@ (other :> second)

BothBinary == Builds("binary", "binary")
ThreeActions == Builds("binary", "object") @@ (plain :> "binary")

\* The source of the first is edited.
OneEdited == Builds({s1, s2}, {s1}) @@ (plain :> {s1})
TwoSources == Builds({s1}, {s2})

\* The first builds again after its sources or the library have changed.
Once == Builds(1, 1)
FirstTwice == Builds(2, 1) @@ (plain :> 1)

MCNameParts == {app, other, plain, ".ll", ".link.o"}

\* --output x/app and --output x/other.
Apart == Builds(Output("x", <<app>>, FALSE), Output("x", <<other>>, FALSE))

ThreeApart == Apart @@ (plain :> Output("x", <<plain>>, FALSE))

\* --output app in two working directories, x and y.
BareNames == Builds(Output("x", <<app>>, TRUE), Output("y", <<app>>, TRUE))

\* --output x/app and --output x/app.ll.
NestedNames == Builds(Output("x", <<app>>, FALSE), Output("x", <<app, ".ll">>, FALSE))

==============================================================================
