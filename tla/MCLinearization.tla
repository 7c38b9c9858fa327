--------------------------- MODULE MCLinearization ---------------------------
(***************************************************************************)
(* checkedLinearizedParentNames run on every acyclic hierarchy of up to    *)
(* Size types with at most MaxParents direct parents each: `cache' is      *)
(* filled type by type, parents before children, as the recursion does.    *)
(***************************************************************************)
EXTENDS Linearization

CONSTANTS Size,         \* the number of types of a hierarchy
          MaxParents    \* the bound on the direct parents of a type

ASSUME SizeAssumption == Size \in Nat \ {0} /\ MaxParents \in Nat

VARIABLES parents,      \* the parent map, one type longer at every step
          cache,        \* type -> linearization, for the types done so far
          consistent    \* checked.consistent

vars == <<parents, cache, consistent>>

Types == 1..Size

\* Types are numbered so that parents have smaller numbers.  Types repeat in
\* no parent clause: the typechecker rejects a repeated parent.
ParentChoices(t) ==
    UNION {{s \in [1..n -> 1..(t - 1)] : IsInjective(s)} : n \in 0..MaxParents}

Init ==
    /\ parents = <<>>
    /\ cache = <<>>
    /\ consistent = TRUE

\* Fault: the type itself is left out of its linearization.
LinearizeWithoutSelf(t, directParents) ==
    LET merged == Merge(MergeInput(directParents, cache))
    IN  /\ parents' = Append(parents, directParents)
        /\ cache' = Append(cache, merged.result)
        /\ consistent' = (consistent /\ merged.consistent)

\* linearize(t) for the next type, with any direct parents among the types done.
Linearize(t, directParents) ==
    LET merged == Merge(MergeInput(directParents, cache))
    IN  /\ parents' = Append(parents, directParents)
        /\ cache' = Append(cache, <<t>> \o merged.result)
        /\ consistent' = (consistent /\ merged.consistent)

Next ==
    LET t == Len(parents) + 1
    IN  /\ t <= Size
        /\ \E directParents \in ParentChoices(t) : Linearize(t, directParents)

Spec == Init /\ [][Next]_vars

------------------------------------------------------------------------------
TypeOK ==
    /\ DOMAIN parents \subseteq Types /\ DOMAIN cache = DOMAIN parents
    /\ \A t \in DOMAIN cache : cache[t] \in Seq(Types) \ {<<>>} /\ Head(cache[t]) = t
    /\ consistent \in BOOLEAN

\* A consistent linearization lists the type and each of its ancestors once.
ListsEveryAncestorOnce ==
    consistent =>
        \A t \in DOMAIN cache :
            /\ IsInjective(cache[t])
            /\ ToSet(cache[t]) = {t} \cup Ancestors(parents, t)

\* Trait composition is right-biased: of two direct parents the later one comes
\* first, unless an earlier parent is below it; and the order a parent gives
\* its own ancestors is never reversed in a child.
OrderIsInherited ==
    consistent =>
        \A t \in DOMAIN cache :
            /\ Before(Reverse(parents[t])) \subseteq Before(cache[t])
            /\ \A i \in DOMAIN parents[t] :
                   Before(cache[parents[t][i]]) \subseteq Before(cache[t])

\* The pairs that every linearization of t must respect.
Demanded(t) ==
    Before(Reverse(parents[t]))
        \cup UNION {Before(cache[parents[t][i]]) : i \in DOMAIN parents[t]}

HasCycleIn(pairs) ==
    \E S \in (SUBSET Types) \ {{}} : \A x \in S : \E y \in S : <<y, x>> \in pairs

\* A hierarchy is refused exactly when some type cannot be ordered at all: the
\* greedy merge never paints itself into a corner.
RefusedOnlyIfUnorderable ==
    consistent <=> \A t \in DOMAIN cache : ~ HasCycleIn(Demanded(t))

\* Caching is not observable: the uncached recursion, which the models of the
\* linker and of the vtables use, computes the same, failed merges included.
CacheIsTransparent ==
    /\ cache = Linearizations(parents)
    /\ consistent <=> \A t \in DOMAIN cache : ConsistentAt(t, parents)

==============================================================================
