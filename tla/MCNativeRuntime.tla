---------------------------- MODULE MCNativeRuntime ----------------------------
(***************************************************************************)
(* Programs that use parts of the runtime, on a handful of objects.        *)
(***************************************************************************)
EXTENDS NativeRuntime, TLC

Form(clauses, finalizer) == [clauses |-> clauses, finalizer |-> finalizer]

CatchAll == {Form("all", FALSE)}

\* A clause that takes some exceptions does what a catch-all does, or else what
\* a try without clauses does.
SomeFinally == {Form("some", TRUE)}
FinallyOrSome == {Form("none", TRUE), Form("some", FALSE)}

\* Objects of a class are interchangeable.
Interchangeable ==
    Permutations(Plain) \cup Permutations(Exceptions) \cup Permutations(Arrays)

==============================================================================
