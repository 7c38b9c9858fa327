-------------------------------- MODULE Heap --------------------------------
(***************************************************************************)
(* Objects of a compiled program and what leads to them.  An object has    *)
(* at most one reference, the content of `field'; its storage belongs to   *)
(* the collector, to a zone, to the program arena, or is freed.            *)
(***************************************************************************)
EXTENDS Integers, FiniteSets

CONSTANTS Objects,  \* addresses; none is used twice
          None      \* the null reference

ASSUME NoneIsNoObject == None \notin Objects

Owners == {"unused", "gc", "zone", "program", "freed"}

References(S) == S \ {None}

\* What a program can get at: the least set that holds the roots and every
\* object that a member refers to.
Reachable(roots, field) ==
    {o \in Objects : \A S \in SUBSET Objects :
        /\ References(roots) \subseteq S
        /\ \A p \in S : field[p] # None => field[p] \in S
        => o \in S}

Collected(owner) == {o \in Objects : owner[o] = "gc"}

\* Fault: marking does not descend into objects.
MarkedRootsOnly(roots, owner, field) == roots \cap Collected(owner)

\* What the collector marks: the recursion stops at null and at every object
\* that is not its own, and the descriptor of an object of its own leads to
\* all its references.
Marked(roots, owner, field) ==
    {o \in Collected(owner) : \A S \in SUBSET Collected(owner) :
        /\ roots \cap Collected(owner) \subseteq S
        /\ \A p \in S : field[p] \in Collected(owner) => field[p] \in S
        => o \in S}

\* The headers that marking reads to learn whose an object is.
Inspected(roots, owner, field) ==
    References(roots \cup {field[o] : o \in Marked(roots, owner, field)})

\* Everything unmarked is released; the marks are reset.
Swept(roots, owner, field) ==
    [o \in Objects |->
        IF owner[o] = "gc" /\ o \notin Marked(roots, owner, field)
        THEN "freed" ELSE owner[o]]

=============================================================================
