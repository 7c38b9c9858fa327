---------------------------- MODULE Linearization ----------------------------
(***************************************************************************)
(* The C3 linearization of class-like types (nir/src/Nir.cpp).  A type has *)
(* a sequence of direct parents; its linearization starts with the type    *)
(* and merges the linearizations of its parents, the last parent first.    *)
(* The linker, the NIR verifier, the optimizer's pruning pass and the      *)
(* vtable builder all resolve members along it.                            *)
(*                                                                         *)
(* Types are opaque.  A parent map is a function from types to sequences   *)
(* of types; a type outside its domain has no parents.                     *)
(***************************************************************************)
EXTENDS Naturals, SequencesExt

\* Fault: a head is accepted although another sequence has it further back.
IsMergeableAnyHead(head, seqs) == TRUE

\* The sequences that are not used up.
Unfinished(seqs) == {i \in DOMAIN seqs : seqs[i] # <<>>}

\* A candidate of the merge: the first head that is in the tail of no sequence.
IsMergeable(head, seqs) ==
    \A i \in Unfinished(seqs) : ~ Contains(Tail(seqs[i]), head)

DropHead(s, head) == IF s # <<>> /\ Head(s) = head THEN Tail(s) ELSE s

(***************************************************************************)
(* One turn of the merge loop.  A state is the result so far, the          *)
(* sequences left and whether the hierarchy is still consistent.  A merge  *)
(* that finds no candidate gives up with an empty result.                  *)
(***************************************************************************)
MergeTurn(st) ==
    LET ready == {i \in Unfinished(st.seqs) : IsMergeable(Head(st.seqs[i]), st.seqs)}
        next  == Head(st.seqs[CHOOSE i \in ready : \A j \in ready : i <= j])
    IN  IF Unfinished(st.seqs) = {} \/ ~ st.consistent THEN st
        ELSE IF ready = {} THEN [result |-> <<>>, seqs |-> <<>>, consistent |-> FALSE]
        ELSE [result     |-> IF Contains(st.result, next) THEN st.result
                             ELSE Append(st.result, next),
              seqs       |-> [i \in DOMAIN st.seqs |-> DropHead(st.seqs[i], next)],
              consistent |-> TRUE]

Members(seqs) == UNION {ToSet(seqs[i]) : i \in DOMAIN seqs}

MergeStart(seqs) == [result |-> <<>>, seqs |-> seqs, consistent |-> TRUE]

\* The states of the loop.  A candidate is left in no sequence, so that there is
\* a turn for each member at most.
MergeStates(seqs) ==
    LET state[n \in 0 .. Cardinality(Members(seqs))] ==
            IF n = 0 THEN MergeStart(seqs) ELSE MergeTurn(state[n - 1])
    IN  state

Merge(seqs) == MergeStates(seqs)[Cardinality(Members(seqs))]

ParentsIn(parentMap, type) ==
    IF type \in DOMAIN parentMap THEN parentMap[type] ELSE <<>>

\* Fault: only the last parent's linearization is merged with the parents.
MergeInputLastParentOnly(directParents, lin) ==
    IF directParents = <<>> THEN <<>>
    ELSE <<lin[Last(directParents)], Reverse(directParents)>>

\* Fault: the first parent has priority.
MergeInputLeftBiased(directParents, lin) ==
    IF directParents = <<>> THEN <<>>
    ELSE Append([i \in DOMAIN directParents |-> lin[directParents[i]]], directParents)

\* The sequences merged for direct parents whose linearizations are lin.
MergeInput(directParents, lin) ==
    LET priority == Reverse(directParents)
    IN  IF priority = <<>> THEN <<>>
        ELSE Append([i \in DOMAIN priority |-> lin[priority[i]]], priority)

Mentioned(parentMap) ==
    DOMAIN parentMap \cup UNION {ToSet(parentMap[t]) : t \in DOMAIN parentMap}

\* Fault: only the direct parents are merged, not what is above them.
LinearizationsOneLevel(parentMap) ==
    [t \in Mentioned(parentMap) |-> <<t>> \o Reverse(ParentsIn(parentMap, t))]

(***************************************************************************)
(* linearize(type) for every type of an acyclic parent map.  (The code     *)
(* caches the results, which an acyclic map does not show.  Cyclic maps    *)
(* are rejected by the NIR verifier before a later phase linearizes them.) *)
(***************************************************************************)
Linearizations(parentMap) ==
    LET linearize[t \in Mentioned(parentMap)] ==
            <<t>> \o Merge(MergeInput(ParentsIn(parentMap, t), linearize)).result
    IN  linearize

\* linearizedTypeNames.
LinearizedTypeNames(type, parentMap) ==
    IF type \in DOMAIN parentMap THEN Linearizations(parentMap)[type] ELSE <<type>>

-----------------------------------------------------------------------------
(* Reference notions, written without the algorithm. *)

\* The order of a sequence, as a set of pairs.
Before(s) ==
    {<<s[p[1]], s[p[2]]>> : p \in {q \in (DOMAIN s) \X (DOMAIN s) : q[1] < q[2]}}

\* The types reached from a set by following parents, link by link, and the
\* strict ancestors.
Climb(parentMap, start) ==
    LET up[k \in 0 .. Cardinality(Mentioned(parentMap))] ==
            IF k = 0 THEN start
            ELSE LET below == up[k - 1]
                 IN  below \cup UNION {ToSet(ParentsIn(parentMap, t)) : t \in below}
    IN  up

Upward(parentMap, start) == Climb(parentMap, start)[Cardinality(Mentioned(parentMap))]

Ancestors(parentMap, type) == Upward(parentMap, ToSet(ParentsIn(parentMap, type)))

\* No type is above itself.
IsAcyclic(parentMap) == \A t \in Mentioned(parentMap) : t \notin Ancestors(parentMap, t)

\* checkedLinearizedParentNames reports the failure of any merge it makes.
ConsistentAt(type, parentMap) ==
    LET lin == Linearizations(parentMap)
    IN  \A t \in {type} \cup Ancestors(parentMap, type) :
            Merge(MergeInput(ParentsIn(parentMap, t), lin)).consistent

==============================================================================
