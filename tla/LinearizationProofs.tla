-------------------------- MODULE LinearizationProofs --------------------------
(***************************************************************************)
(* Linearization for every size of hierarchy and every number of direct    *)
(* parents.  The invariant says that the cache holds, for every type done, *)
(* the type before the merge of what the cache has for its parents.  What  *)
(* it means for the order, the ancestors and the refusals follows from     *)
(* the lemmas about one linearization.                                     *)
(***************************************************************************)
EXTENDS MCLinearization, LinearizationLemmas

-----------------------------------------------------------------------------
(* The inductive invariant. *)

MergedAt(t) == Merge(MergeInput(parents[t], cache))

\* One entry for each parent clause, of types done before.
CacheShape ==
    /\ parents \in Seq(Seq(Nat)) /\ cache \in Seq(Seq(Nat))
    /\ Len(cache) = Len(parents) /\ Len(parents) <= Size
    /\ consistent \in BOOLEAN
    /\ \A t \in 1 .. Len(parents) :
          parents[t] \in Seq(1 .. t - 1) /\ IsInjective(parents[t])

CacheEntries ==
    \A t \in 1 .. Len(parents) :
        /\ cache[t] \in Seq(1 .. t) /\ cache[t] # <<>> /\ Head(cache[t]) = t
        /\ IsInjective(cache[t])
        /\ cache[t] = <<t>> \o MergedAt(t).result

AllConsistent == consistent <=> \A t \in 1 .. Len(parents) : MergedAt(t).consistent

CacheInv == CacheShape /\ CacheEntries /\ AllConsistent

\* What parent clauses and entries of a cache look like, and what one more entry is.
LEMMA SmallerSeq ==
    ASSUME NEW m \in Int, NEW n \in Int, m <= n, NEW s \in Seq(1 .. m)
    PROVE  s \in Seq(1 .. n) /\ s \in Seq(Nat)
<1>1. 1 .. m \subseteq 1 .. n /\ 1 .. m \subseteq Nat
  OBVIOUS
<1>2. \A p \in 1 .. Len(s) : s[p] \in 1 .. n /\ s[p] \in Nat
  BY <1>1
<1> QED BY <1>2

LEMMA ChoicesOf ==
    ASSUME SizeAssumption, NEW t \in Nat \ {0}, NEW ds \in ParentChoices(t)
    PROVE  ds \in Seq(1 .. t - 1) /\ IsInjective(ds)
<1>1. PICK n \in 0 .. MaxParents : ds \in [1 .. n -> 1 .. (t - 1)] /\ IsInjective(ds)
  BY DEF ParentChoices
<1>2. n \in Nat
  BY SizeAssumption DEF SizeAssumption
<1> QED BY <1>1, <1>2

\* The linearization of a type whose parents are done.
LEMMA EntryOf ==
    ASSUME NEW t \in Nat \ {0}, NEW ds \in Seq(1 .. t - 1), IsInjective(ds), NEW lin,
           \A d \in 1 .. t - 1 : lin[d] \in Seq(1 .. d) /\ IsInjective(lin[d])
    PROVE  LET merged == Merge(MergeInput(ds, lin))
               line == <<t>> \o merged.result
           IN  /\ merged.consistent \in BOOLEAN
               /\ line \in Seq(1 .. t) /\ line # <<>> /\ Head(line) = t /\ IsInjective(line)
               /\ merged.consistent =>
                     /\ ToSet(line) = {t} \cup ToSet(ds)
                                          \cup UNION {ToSet(lin[d]) : d \in ToSet(ds)}
                     /\ \A x, y : Ordered(ds, lin, x, y) => Precedes(line, x, y)
                     /\ \A S : S # {} => ~ \A x \in S : \E y \in S : Ordered(ds, lin, y, x)
               /\ ~ merged.consistent =>
                     \E S \in SUBSET (1 .. t - 1) :
                        S # {} /\ \A x \in S : \E y \in S : Ordered(ds, lin, y, x)
<1> DEFINE T == 1 .. t - 1
<1>1. IsFiniteSet(T) /\ t \notin T /\ {t} \cup T = 1 .. t
  <2>1. IsFiniteSet(T)
    BY FS_Interval
  <2> QED BY <2>1
<1>2. ToSet(ds) \subseteq T
  BY ToSetOf
<1>3. \A d \in ToSet(ds) : lin[d] \in Seq(T) /\ IsInjective(lin[d])
  <2> SUFFICES ASSUME NEW d \in ToSet(ds) PROVE lin[d] \in Seq(T) /\ IsInjective(lin[d])
    OBVIOUS
  <2>1. d \in 1 .. t - 1 /\ d \in Int /\ t - 1 \in Int /\ d <= t - 1
    BY <1>2
  <2>2. lin[d] \in Seq(1 .. d)
    BY <2>1
  <2>3. lin[d] \in Seq(T)
    BY <2>1, <2>2, SmallerSeq
  <2> QED BY <2>1, <2>3
<1>4. ds \in Seq(T) /\ IsInjective(ds)
  OBVIOUS
<1> HIDE DEF T
<1> DEFINE merged == Merge(MergeInput(ds, lin))
           line == <<t>> \o merged.result
<1>5. /\ merged.consistent \in BOOLEAN
      /\ line \in Seq({t} \cup T) /\ line # <<>> /\ Head(line) = t /\ IsInjective(line)
      /\ merged.consistent =>
            /\ ToSet(line) = {t} \cup ToSet(ds) \cup UNION {ToSet(lin[d]) : d \in ToSet(ds)}
            /\ \A x, y : Ordered(ds, lin, x, y) => Precedes(line, x, y)
            /\ \A S : S # {} => ~ \A x \in S : \E y \in S : Ordered(ds, lin, y, x)
      /\ ~ merged.consistent =>
            \E S \in SUBSET T : S # {} /\ \A x \in S : \E y \in S : Ordered(ds, lin, y, x)
  BY <1>1, <1>3, <1>4, LinearizedFrom
<1> HIDE DEF merged, line
<1>6. line \in Seq(1 .. t)
  BY <1>1, <1>5
<1> QED BY <1>5, <1>6, Zenon DEF merged, line, T

LEMMA InitCache == ASSUME SizeAssumption, Init PROVE CacheInv
BY DEF SizeAssumption, Init, CacheInv, CacheShape, CacheEntries, AllConsistent

\* A step appends one clause and one entry, and the merges made before are the same.
LEMMA StepKeepsCache ==
    ASSUME SizeAssumption, CacheInv, Next
    PROVE  CacheInv'
<1>0. PICK t \in Nat : t = Len(parents) + 1
  <2>1. parents \in Seq(Seq(Nat))
    BY DEF CacheInv, CacheShape
  <2> QED BY <2>1
<1>1. PICK ds \in ParentChoices(t) : t <= Size /\ Linearize(t, ds)
  BY <1>0 DEF Next
<1> DEFINE merged == Merge(MergeInput(ds, cache))
           line == <<t>> \o merged.result
<1>2. /\ parents' = Append(parents, ds) /\ cache' = Append(cache, line)
      /\ consistent' = (consistent /\ merged.consistent)
  BY <1>1 DEF Linearize
<1>3. /\ parents \in Seq(Seq(Nat)) /\ cache \in Seq(Seq(Nat)) /\ Len(parents) \in Nat
      /\ Len(cache) = Len(parents) /\ consistent \in BOOLEAN
      /\ \A u \in 1 .. Len(parents) :
            /\ parents[u] \in Seq(1 .. u - 1) /\ IsInjective(parents[u])
            /\ cache[u] \in Seq(1 .. u) /\ IsInjective(cache[u])
  <2>1. /\ parents \in Seq(Seq(Nat)) /\ cache \in Seq(Seq(Nat)) /\ Len(parents) \in Nat
        /\ Len(cache) = Len(parents) /\ consistent \in BOOLEAN
    BY DEF CacheInv, CacheShape
  <2>2. ASSUME NEW u \in 1 .. Len(parents)
        PROVE  /\ parents[u] \in Seq(1 .. u - 1) /\ IsInjective(parents[u])
               /\ cache[u] \in Seq(1 .. u) /\ IsInjective(cache[u])
    BY DEF CacheInv, CacheShape, CacheEntries
  <2> QED BY <2>1, <2>2
<1>4. ds \in Seq(1 .. t - 1) /\ IsInjective(ds) /\ t \in Nat \ {0} /\ t - 1 = Len(parents)
  <2>1. t \in Nat \ {0} /\ t - 1 = Len(parents)
    BY <1>0, <1>3
  <2> QED BY <1>1, <2>1, ChoicesOf
<1>5. /\ merged.consistent \in BOOLEAN
      /\ line \in Seq(1 .. t) /\ line # <<>> /\ Head(line) = t /\ IsInjective(line)
  <2>1. \A d \in 1 .. t - 1 : cache[d] \in Seq(1 .. d) /\ IsInjective(cache[d])
    BY <1>3, <1>4
  <2> QED BY <1>4, <2>1, EntryOf
<1>6. ds \in Seq(Nat) /\ line \in Seq(Nat)
  <2>1. t - 1 \in Int /\ t \in Int /\ t - 1 <= t
    BY <1>4
  <2> HIDE DEF line
  <2> QED BY <1>4, <1>5, <2>1, SmallerSeq
<1> HIDE DEF merged, line
<1>7. /\ parents' \in Seq(Seq(Nat)) /\ cache' \in Seq(Seq(Nat))
      /\ Len(parents') = t /\ Len(cache') = t
      /\ parents'[t] = ds /\ cache'[t] = line
      /\ \A u \in 1 .. t - 1 : parents'[u] = parents[u] /\ cache'[u] = cache[u]
  BY <1>0, <1>2, <1>3, <1>4, <1>6
<1>8. \A u \in 1 .. t : u \in 1 .. t - 1 \/ u = t
  BY <1>4
<1>9. CacheShape'
  <2>1. \A u \in 1 .. t : parents'[u] \in Seq(1 .. u - 1) /\ IsInjective(parents'[u])
    BY <1>3, <1>4, <1>7, <1>8
  <2> QED BY <1>1, <1>2, <1>3, <1>5, <1>7, <2>1 DEF CacheShape
<1>10. MergeInput(ds, cache') = MergeInput(ds, cache)
  <2>1. ToSet(ds) \subseteq 1 .. t - 1
    BY <1>4, ToSetOf
  <2>2. \A d \in ToSet(ds) : cache'[d] = cache[d]
    BY <1>7, <2>1
  <2> QED BY <1>4, <2>2, InputReadsParents
<1>11. ASSUME NEW u \in 1 .. t - 1
       PROVE  MergeInput(parents[u], cache') = MergeInput(parents[u], cache)
  <2>1. parents[u] \in Seq(1 .. u - 1) /\ u - 1 <= t - 1 /\ u \in Int /\ t \in Int
    BY <1>3, <1>4
  <2>2. ToSet(parents[u]) \subseteq 1 .. u - 1
    BY <2>1, ToSetOf
  <2>3. \A d \in ToSet(parents[u]) : cache'[d] = cache[d]
    BY <1>7, <2>1, <2>2
  <2> QED BY <2>1, <2>3, InputReadsParents
<1>12. MergedAt(t)' = merged
  BY <1>7, <1>10 DEF MergedAt, merged
<1>13. \A u \in 1 .. t - 1 : MergedAt(u)' = MergedAt(u)
  BY <1>7, <1>11 DEF MergedAt
<1>14. CacheEntries'
  <2>1. ASSUME NEW u \in 1 .. t - 1
        PROVE  /\ cache'[u] \in Seq(1 .. u) /\ cache'[u] # <<>> /\ Head(cache'[u]) = u
               /\ IsInjective(cache'[u])
               /\ cache'[u] = <<u>> \o MergedAt(u)'.result
    <3>1. u \in 1 .. Len(parents)
      BY <1>4
    <3>2. /\ cache[u] \in Seq(1 .. u) /\ cache[u] # <<>> /\ Head(cache[u]) = u
          /\ IsInjective(cache[u])
          /\ cache[u] = <<u>> \o MergedAt(u).result
      BY <3>1 DEF CacheInv, CacheEntries
    <3> QED BY <1>7, <1>13, <3>2
  <2>2. /\ cache'[t] \in Seq(1 .. t) /\ cache'[t] # <<>> /\ Head(cache'[t]) = t
        /\ IsInjective(cache'[t])
        /\ cache'[t] = <<t>> \o MergedAt(t)'.result
    BY <1>5, <1>7, <1>12 DEF line
  <2>3. \A u \in 1 .. t : /\ cache'[u] \in Seq(1 .. u) /\ cache'[u] # <<>> /\ Head(cache'[u]) = u
                          /\ IsInjective(cache'[u])
                          /\ cache'[u] = <<u>> \o MergedAt(u)'.result
    <3> SUFFICES ASSUME NEW u \in 1 .. t
                 PROVE  /\ cache'[u] \in Seq(1 .. u) /\ cache'[u] # <<>> /\ Head(cache'[u]) = u
                        /\ IsInjective(cache'[u])
                        /\ cache'[u] = <<u>> \o MergedAt(u)'.result
      OBVIOUS
    <3>1. CASE u \in 1 .. t - 1
      BY <2>1, <3>1
    <3>2. CASE u = t
      BY <2>2, <3>2
    <3> QED BY <1>8, <3>1, <3>2
  <2> QED BY <1>7, <2>3 DEF CacheEntries
<1>15. AllConsistent'
  <2>1. consistent <=> \A u \in 1 .. t - 1 : MergedAt(u).consistent
    BY <1>4 DEF CacheInv, AllConsistent
  <2>2. consistent' <=> \A u \in 1 .. t : MergedAt(u)'.consistent
    <3>1. t \in 1 .. t /\ \A u \in 1 .. t - 1 : u \in 1 .. t
      BY <1>4
    <3> QED BY <1>2, <1>3, <1>5, <1>8, <1>12, <1>13, <2>1, <3>1
  <2> QED BY <1>7, <2>2 DEF AllConsistent
<1> QED BY <1>9, <1>14, <1>15 DEF CacheInv

\* The cache is always what the recursion would have computed.
THEOREM CacheInvHolds == Spec => []CacheInv
<1>1. CacheInv /\ [Next]_vars => CacheInv'
  <2>1. ASSUME CacheInv, UNCHANGED vars PROVE CacheInv'
    BY <2>1 DEF vars, CacheInv, CacheShape, CacheEntries, AllConsistent, MergedAt
  <2> QED BY <2>1, SizeAssumption, StepKeepsCache
<1> QED BY <1>1, SizeAssumption, InitCache, PTL DEF Spec

-----------------------------------------------------------------------------
(* What the invariant says about the types done. *)

\* The invariant with the facts about one linearization, for every type done.
LEMMA CacheFacts ==
    ASSUME SizeAssumption, CacheInv
    PROVE  /\ Len(parents) \in Nat /\ DOMAIN parents = 1 .. Len(parents)
           /\ DOMAIN cache = 1 .. Len(parents) /\ Len(parents) <= Size
           /\ \A t \in 1 .. Len(parents) :
                 /\ parents[t] \in Seq(1 .. t - 1) /\ ToSet(parents[t]) \subseteq 1 .. t - 1
                 /\ cache[t] \in Seq(1 .. t) /\ cache[t] # <<>> /\ Head(cache[t]) = t
                 /\ IsInjective(cache[t])
<1>1. /\ Len(parents) \in Nat /\ DOMAIN parents = 1 .. Len(parents)
      /\ DOMAIN cache = 1 .. Len(parents) /\ Len(parents) <= Size
  BY DEF CacheInv, CacheShape
<1>2. ASSUME NEW t \in 1 .. Len(parents)
      PROVE  /\ parents[t] \in Seq(1 .. t - 1) /\ ToSet(parents[t]) \subseteq 1 .. t - 1
             /\ cache[t] \in Seq(1 .. t) /\ cache[t] # <<>> /\ Head(cache[t]) = t
             /\ IsInjective(cache[t])
  <2>1. parents[t] \in Seq(1 .. t - 1)
    BY DEF CacheInv, CacheShape
  <2>2. /\ cache[t] \in Seq(1 .. t) /\ cache[t] # <<>> /\ Head(cache[t]) = t
        /\ IsInjective(cache[t])
    BY DEF CacheInv, CacheEntries
  <2>3. ToSet(parents[t]) \subseteq 1 .. t - 1
    BY <2>1, ToSetOf
  <2> QED BY <2>1, <2>2, <2>3
<1> QED BY <1>1, <1>2

LEMMA MergesAreSound ==
    ASSUME SizeAssumption, CacheInv, NEW t \in 1 .. Len(parents)
    PROVE  /\ MergedAt(t).consistent \in BOOLEAN
           /\ MergedAt(t).consistent =>
                 /\ ToSet(cache[t]) = {t} \cup ToSet(parents[t])
                                          \cup UNION {ToSet(cache[d]) : d \in ToSet(parents[t])}
                 /\ \A x, y : Ordered(parents[t], cache, x, y) => Precedes(cache[t], x, y)
                 /\ \A S : S # {} =>
                       ~ \A x \in S : \E y \in S : Ordered(parents[t], cache, y, x)
           /\ ~ MergedAt(t).consistent =>
                 \E S \in SUBSET (1 .. t - 1) :
                    S # {} /\ \A x \in S : \E y \in S : Ordered(parents[t], cache, y, x)
<1>1. Len(parents) \in Nat /\ t \in Nat \ {0}
  BY CacheFacts
<1>2. parents[t] \in Seq(1 .. t - 1) /\ IsInjective(parents[t])
  BY DEF CacheInv, CacheShape
<1>3. \A d \in 1 .. t - 1 : cache[d] \in Seq(1 .. d) /\ IsInjective(cache[d])
  <2>1. \A d \in 1 .. t - 1 : d \in 1 .. Len(parents)
    BY <1>1
  <2> QED BY <2>1, CacheFacts
<1>4. cache[t] = <<t>> \o MergedAt(t).result
  BY DEF CacheInv, CacheEntries
<1> DEFINE ds == parents[t]
           merged == Merge(MergeInput(ds, cache))
           line == <<t>> \o merged.result
<1>5. merged = MergedAt(t) /\ line = cache[t]
  BY <1>4 DEF MergedAt
<1>6. /\ merged.consistent \in BOOLEAN
      /\ merged.consistent =>
            /\ ToSet(line) = {t} \cup ToSet(ds) \cup UNION {ToSet(cache[d]) : d \in ToSet(ds)}
            /\ \A x, y : Ordered(ds, cache, x, y) => Precedes(line, x, y)
            /\ \A S : S # {} => ~ \A x \in S : \E y \in S : Ordered(ds, cache, y, x)
      /\ ~ merged.consistent =>
            \E S \in SUBSET (1 .. t - 1) :
               S # {} /\ \A x \in S : \E y \in S : Ordered(ds, cache, y, x)
  <2>1. ds \in Seq(1 .. t - 1) /\ IsInjective(ds)
    BY <1>2
  <2> HIDE DEF ds
  <2> QED BY <1>1, <1>3, <2>1, EntryOf
<1> HIDE DEF merged, line
<1> QED BY <1>5, <1>6 DEF ds

LEMMA MentionedAreDone ==
    ASSUME SizeAssumption, CacheInv
    PROVE  Mentioned(parents) = 1 .. Len(parents) /\ IsFiniteSet(Mentioned(parents))
<1>1. /\ Len(parents) \in Nat /\ DOMAIN parents = 1 .. Len(parents)
      /\ \A t \in 1 .. Len(parents) : ToSet(parents[t]) \subseteq 1 .. t - 1
  BY CacheFacts
<1>2. \A t \in 1 .. Len(parents) : ToSet(parents[t]) \subseteq 1 .. Len(parents)
  <2> SUFFICES ASSUME NEW t \in 1 .. Len(parents)
               PROVE  ToSet(parents[t]) \subseteq 1 .. Len(parents)
    OBVIOUS
  <2>1. 1 .. t - 1 \subseteq 1 .. Len(parents)
    BY <1>1
  <2> QED BY <1>1, <2>1
<1>3. Mentioned(parents) = 1 .. Len(parents)
  BY <1>1, <1>2 DEF Mentioned
<1> QED BY <1>1, <1>3, FS_Interval

\* The type invariant.
LEMMA CacheIsTyped == ASSUME SizeAssumption, CacheInv PROVE TypeOK
<1>1. /\ Len(parents) \in Nat /\ DOMAIN parents = 1 .. Len(parents)
      /\ DOMAIN cache = 1 .. Len(parents) /\ Len(parents) <= Size
      /\ \A t \in 1 .. Len(parents) :
            cache[t] \in Seq(1 .. t) /\ cache[t] # <<>> /\ Head(cache[t]) = t
  BY CacheFacts
<1>2. Size \in Nat
  BY DEF SizeAssumption
<1>3. ASSUME NEW t \in 1 .. Len(parents) PROVE cache[t] \in Seq(Types)
  <2>1. t \in Int /\ Size \in Int /\ t <= Size
    BY <1>1, <1>2
  <2>2. cache[t] \in Seq(1 .. Size)
    BY <1>1, <2>1, SmallerSeq
  <2> QED BY <2>2 DEF Types
<1>4. DOMAIN parents \subseteq Types
  BY <1>1, <1>2 DEF Types
<1>5. consistent \in BOOLEAN
  BY DEF CacheInv, CacheShape
<1> QED BY <1>1, <1>3, <1>4, <1>5 DEF TypeOK

\* By induction along the parents, which have smaller numbers.
LEMMA EntriesListAncestors ==
    ASSUME SizeAssumption, CacheInv PROVE ListsEveryAncestorOnce
<1> SUFFICES ASSUME consistent PROVE
        \A t \in 1 .. Len(parents) : ToSet(cache[t]) = {t} \cup Ancestors(parents, t)
  BY CacheFacts DEF ListsEveryAncestorOnce
<1> DEFINE S == {t \in Nat : t \in 1 .. Len(parents) =>
                                ToSet(cache[t]) = {t} \cup Ancestors(parents, t)}
<1>1. ASSUME NEW t \in Nat, \A d \in Nat : d < t => d \in S PROVE t \in S
  <2> SUFFICES ASSUME t \in 1 .. Len(parents)
               PROVE  ToSet(cache[t]) = {t} \cup Ancestors(parents, t)
    OBVIOUS
  <2> DEFINE above == ToSet(parents[t])
  <2>1. above \subseteq 1 .. t - 1 /\ Len(parents) \in Nat /\ ParentsIn(parents, t) = parents[t]
    BY CacheFacts DEF ParentsIn
  <2>2. MergedAt(t).consistent
    BY DEF CacheInv, AllConsistent
  <2>3. ToSet(cache[t]) = {t} \cup above \cup UNION {ToSet(cache[d]) : d \in above}
    BY <2>2, MergesAreSound
  <2>4. Ancestors(parents, t) = above \cup UNION {Ancestors(parents, d) : d \in above}
    BY <2>1, MentionedAreDone, AncestorsUnfold
  <2>5. \A d \in above : ToSet(cache[d]) = {d} \cup Ancestors(parents, d)
    <3> SUFFICES ASSUME NEW d \in above
                 PROVE  ToSet(cache[d]) = {d} \cup Ancestors(parents, d)
      OBVIOUS
    <3>1. d \in Nat /\ d < t /\ d \in 1 .. Len(parents)
      BY <2>1
    <3> QED BY <1>1, <3>1
  <2> HIDE DEF above, S
  <2> QED BY <2>3, <2>4, <2>5
<1>2. Nat \subseteq S
  <2> HIDE DEF S
  <2> QED BY <1>1, EveryNumber
<1> QED BY <1>2, CacheFacts

LEMMA EntriesInheritOrder == ASSUME SizeAssumption, CacheInv PROVE OrderIsInherited
<1> SUFFICES ASSUME consistent, NEW t \in 1 .. Len(parents)
             PROVE  /\ Before(Reverse(parents[t])) \subseteq Before(cache[t])
                    /\ \A i \in DOMAIN parents[t] :
                           Before(cache[parents[t][i]]) \subseteq Before(cache[t])
  BY CacheFacts DEF OrderIsInherited
<1>1. MergedAt(t).consistent
  BY DEF CacheInv, AllConsistent
<1>2. \A x, y : Ordered(parents[t], cache, x, y) => Precedes(cache[t], x, y)
  BY <1>1, MergesAreSound
<1>3. Before(Reverse(parents[t])) \subseteq Before(cache[t])
  <2>1. \A x, y : Precedes(Reverse(parents[t]), x, y) => Precedes(cache[t], x, y)
    BY <1>2 DEF Ordered
  <2> QED BY <2>1, BeforeSubset
<1>4. ASSUME NEW i \in DOMAIN parents[t]
      PROVE  Before(cache[parents[t][i]]) \subseteq Before(cache[t])
  <2>1. parents[t][i] \in ToSet(parents[t])
    BY DEF ToSet
  <2>2. \A x, y : Precedes(cache[parents[t][i]], x, y) => Precedes(cache[t], x, y)
    BY <1>2, <2>1 DEF Ordered
  <2> QED BY <2>2, BeforeSubset
<1> QED BY <1>3, <1>4

\* The demanded pairs are those that are put in order.
LEMMA DemandedPairs ==
    ASSUME NEW t, NEW x, NEW y
    PROVE  <<x, y>> \in Demanded(t) <=> Ordered(parents[t], cache, x, y)
<1>1. \A s : <<x, y>> \in Before(s) <=> Precedes(s, x, y)
  <2> SUFFICES ASSUME NEW s PROVE <<x, y>> \in Before(s) <=> Precedes(s, x, y)
    OBVIOUS
  <2>1. <<x, y>> \in Before(s) <=> \E a, b : <<x, y>> = <<a, b>> /\ Precedes(s, a, b)
    BY BeforePairs
  <2> QED BY <2>1
<1>2. <<x, y>> \in Demanded(t) <=>
          \/ <<x, y>> \in Before(Reverse(parents[t]))
          \/ \E i \in DOMAIN parents[t] : <<x, y>> \in Before(cache[parents[t][i]])
  BY DEF Demanded
<1>3. (\E i \in DOMAIN parents[t] : Precedes(cache[parents[t][i]], x, y))
         <=> \E d \in ToSet(parents[t]) : Precedes(cache[d], x, y)
  BY DEF ToSet
<1> QED BY <1>1, <1>2, <1>3 DEF Ordered

LEMMA RefusalIsExact == ASSUME SizeAssumption, CacheInv PROVE RefusedOnlyIfUnorderable
<1>1. ASSUME NEW t \in 1 .. Len(parents)
      PROVE  MergedAt(t).consistent <=> ~ HasCycleIn(Demanded(t))
  <2>1. ASSUME MergedAt(t).consistent, HasCycleIn(Demanded(t)) PROVE FALSE
    <3>1. PICK S : S # {} /\ \A x \in S : \E y \in S : <<y, x>> \in Demanded(t)
      BY <2>1 DEF HasCycleIn
    <3>2. \A x \in S : \E y \in S : Ordered(parents[t], cache, y, x)
      BY <3>1, DemandedPairs
    <3> QED BY <2>1, <3>1, <3>2, MergesAreSound
  <2>2. ASSUME ~ MergedAt(t).consistent PROVE HasCycleIn(Demanded(t))
    <3>1. PICK S \in SUBSET (1 .. t - 1) :
              S # {} /\ \A x \in S : \E y \in S : Ordered(parents[t], cache, y, x)
      BY <2>2, MergesAreSound
    <3>2. \A x \in S : \E y \in S : <<y, x>> \in Demanded(t)
      BY <3>1, DemandedPairs
    <3>3. S \subseteq Types
      BY CacheFacts DEF Types, SizeAssumption
    <3> QED BY <3>1, <3>2, <3>3 DEF HasCycleIn
  <2>3. MergedAt(t).consistent \in BOOLEAN
    BY MergesAreSound
  <2> QED BY <2>1, <2>2, <2>3
<1>2. consistent <=> \A t \in 1 .. Len(parents) : MergedAt(t).consistent
  BY DEF CacheInv, AllConsistent
<1>3. DOMAIN cache = 1 .. Len(parents)
  BY CacheFacts
<1> QED BY <1>1, <1>2, <1>3 DEF RefusedOnlyIfUnorderable

\* The recursion has the cache as its solution, and no other: two solutions that
\* agree on the parents of a type agree on the type.
LEMMA RecursionIsTheCache ==
    ASSUME SizeAssumption, CacheInv PROVE cache = Linearizations(parents)
<1> DEFINE D == 1 .. Len(parents)
           L == Linearizations(parents)
<1>1. Mentioned(parents) = D
  BY MentionedAreDone
<1>2. \A t \in D : ParentsIn(parents, t) = parents[t]
  BY CacheFacts DEF ParentsIn
<1>3. cache = [t \in D |-> <<t>> \o Merge(MergeInput(ParentsIn(parents, t), cache)).result]
  <2>1. \A t \in D :
            cache[t] = <<t>> \o Merge(MergeInput(ParentsIn(parents, t), cache)).result
    BY <1>2 DEF CacheInv, CacheEntries, MergedAt
  <2>2. cache = [t \in D |-> cache[t]]
    BY CacheFacts DEF CacheInv, CacheShape
  <2> QED BY <2>1, <2>2
<1>4. L = CHOOSE g :
          g = [t \in D |-> <<t>> \o Merge(MergeInput(ParentsIn(parents, t), g)).result]
  BY <1>1 DEF Linearizations
<1> HIDE DEF L
<1>5. L = [t \in D |-> <<t>> \o Merge(MergeInput(ParentsIn(parents, t), L)).result]
  BY <1>3, <1>4
<1> DEFINE S == {t \in Nat : t \in D => L[t] = cache[t]}
<1>6. ASSUME NEW t \in Nat, \A d \in Nat : d < t => d \in S PROVE t \in S
  <2> SUFFICES ASSUME t \in D PROVE L[t] = cache[t]
    OBVIOUS
  <2>1. parents[t] \in Seq(1 .. t - 1) /\ ToSet(parents[t]) \subseteq 1 .. t - 1
        /\ Len(parents) \in Nat
    BY CacheFacts
  <2>2. \A d \in ToSet(parents[t]) : L[d] = cache[d]
    <3> SUFFICES ASSUME NEW d \in ToSet(parents[t]) PROVE L[d] = cache[d]
      OBVIOUS
    <3>1. d \in Nat /\ d < t /\ d \in D
      BY <2>1
    <3> QED BY <1>6, <3>1
  <2>3. MergeInput(parents[t], L) = MergeInput(parents[t], cache)
    BY <2>1, <2>2, InputReadsParents
  <2>4. L[t] = <<t>> \o Merge(MergeInput(parents[t], L)).result
    <3> HIDE DEF D
    <3>1. L[t] = <<t>> \o Merge(MergeInput(ParentsIn(parents, t), L)).result
      BY <1>5
    <3> QED BY <1>2, <3>1
  <2>5. cache[t] = <<t>> \o Merge(MergeInput(parents[t], cache)).result
    <3> HIDE DEF D
    <3>1. cache[t] = <<t>> \o Merge(MergeInput(ParentsIn(parents, t), cache)).result
      BY <1>3
    <3> QED BY <1>2, <3>1
  <2> QED BY <2>3, <2>4, <2>5
<1>7. Nat \subseteq S
  <2> HIDE DEF S
  <2> QED BY <1>6, EveryNumber
<1>8. D \subseteq Nat
  BY CacheFacts
<1>9. \A t \in D : L[t] = cache[t]
  BY <1>7, <1>8
<1>10. L = [t \in D |-> L[t]] /\ cache = [t \in D |-> cache[t]]
  <2> HIDE DEF D
  <2> QED BY <1>3, <1>5
<1> QED BY <1>9, <1>10 DEF L

LEMMA CachingIsTransparent == ASSUME SizeAssumption, CacheInv PROVE CacheIsTransparent
<1> DEFINE D == 1 .. Len(parents)
<1>1. cache = Linearizations(parents)
  BY RecursionIsTheCache
<1>2. DOMAIN cache = D /\ \A t \in D : ParentsIn(parents, t) = parents[t]
  BY CacheFacts DEF ParentsIn
<1>3. \A t \in D : Ancestors(parents, t) \subseteq D
  BY MentionedAreDone, ParentsAreAncestors
<1>4. \A t \in D :
          ConsistentAt(t, parents)
             <=> \A u \in {t} \cup Ancestors(parents, t) : MergedAt(u).consistent
  <2> SUFFICES ASSUME NEW t \in D
               PROVE  ConsistentAt(t, parents)
                        <=> \A u \in {t} \cup Ancestors(parents, t) : MergedAt(u).consistent
    OBVIOUS
  <2>1. \A u \in {t} \cup Ancestors(parents, t) :
            Merge(MergeInput(ParentsIn(parents, u), cache)) = MergedAt(u)
    BY <1>2, <1>3 DEF MergedAt
  <2> QED BY <1>1, <2>1 DEF ConsistentAt
<1>5. consistent <=> \A t \in D : MergedAt(t).consistent
  BY DEF CacheInv, AllConsistent
<1> HIDE DEF D
<1>6. consistent <=> \A t \in D : ConsistentAt(t, parents)
  BY <1>3, <1>4, <1>5
<1> QED BY <1>1, <1>2, <1>6 DEF CacheIsTransparent

-----------------------------------------------------------------------------
(* The theorems. *)

\* Every linearization is a sequence of types of the hierarchy that starts with
\* its type (linearizedTypeNames).
THEOREM TypeCorrect == Spec => []TypeOK
BY CacheInvHolds, CacheIsTyped, SizeAssumption, PTL

\* A consistent linearization has the type, each of its ancestors and nothing else,
\* and each once: no implementation is missed and none is met twice.
THEOREM EveryAncestorOnce == Spec => []ListsEveryAncestorOnce
BY CacheInvHolds, EntriesListAncestors, SizeAssumption, PTL

\* A later parent comes before an earlier one, and the order that a parent gives
\* its ancestors is kept by every child.
THEOREM OrderIsKept == Spec => []OrderIsInherited
BY CacheInvHolds, EntriesInheritOrder, SizeAssumption, PTL

\* checked.consistent is false exactly when the orders that some type must respect
\* go round in a circle: the greedy choice of heads refuses nothing else.
THEOREM OnlyUnorderableRefused == Spec => []RefusedOnlyIfUnorderable
BY CacheInvHolds, RefusalIsExact, SizeAssumption, PTL

\* Filling the cache parents first gives what the recursion without a cache gives.
THEOREM CacheShowsNothing == Spec => []CacheIsTransparent
BY CacheInvHolds, CachingIsTransparent, SizeAssumption, PTL

==============================================================================
