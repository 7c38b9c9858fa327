------------------------------ MODULE LinkResult ------------------------------
(***************************************************************************)
(* What the linker promises the phases after it: the result of a link is a *)
(* function of the program.  It keeps the least set of definitions that    *)
(* holds the entry points and what its members need, and it reports the    *)
(* faults of the program and of exactly those definitions, in whatever     *)
(* order it comes upon them.                                               *)
(***************************************************************************)
CONSTANTS
    Programs,
    Names(_),           \* the names that a program defines
    Roots(_),           \* those that it starts from
    Needs(_, _),        \* what a program's definition of a name refers to
    Faults(_),          \* the errors of a program as a whole
    FaultsOf(_, _)      \* the errors of its definition of a name

VARIABLES
    program,
    returned,           \* whether the link is over
    result              \* what it has returned

vars == <<program, returned, result>>

\* The names that every set with the roots has which no reference leaves.
Least(p) ==
    LET names  == Names(p)
        roots  == Roots(p)
        edges  == UNION {{n} \X Needs(p, n) : n \in names}
        closed == {S \in SUBSET names :
                      roots \subseteq S /\ \A e \in edges : e[1] \in S => e[2] \in S}
    IN  {n \in names : \A S \in closed : n \in S}

Outcome(p) ==
    LET kept   == Least(p)
        errors == Faults(p) \cup UNION {FaultsOf(p, n) : n \in kept}
    IN  [reachable |-> kept, diagnostics |-> errors, ok |-> errors = {}]

NoResult == [reachable |-> {}, diagnostics |-> {}, ok |-> FALSE]

Init == program \in Programs /\ returned = FALSE /\ result = NoResult

Return ==
    /\ ~ returned
    /\ returned' = TRUE
    /\ result' = Outcome(program)
    /\ UNCHANGED program

Spec == Init /\ [][Return]_vars

==============================================================================
