----------------------------- MODULE LinkerProofs -----------------------------
(***************************************************************************)
(* Proofs about the linker's reachability analysis, for every program.     *)
(***************************************************************************)
EXTENDS Linker, LinearizationLemmas

\* A definition only ever refers to names that are indexed: resolution returns
\* indexed names and every implied reference is looked up first.  (The branch of
\* the loop that reports an unresolved global is therefore never taken.)
LEMMA ReferencesAreGlobals ==
    ASSUME NEW g, NEW name
    PROVE  Needed(g, name) \subseteq DOMAIN g
<1> DEFINE d == g[name]
<1>1. ASSUME NEW ctx, NEW n PROVE Resolve(g, ctx, n) \subseteq DOMAIN g
  BY DEF Resolve
<1>2. ASSUME NEW type, NEW m PROVE ResolveMember(g, type, m) \subseteq DOMAIN g
  BY DEF ResolveMember
<1>3. ASSUME NEW ctx, NEW r, NEW m PROVE ResolveSelect(g, ctx, r, m) \subseteq DOMAIN g
  BY <1>2 DEF ResolveSelect
<1>4. ASSUME NEW names PROVE Defined(g, names) \subseteq DOMAIN g
  BY DEF Defined
<1>5. ASSUME NEW c PROVE ClassFields(g, c) \subseteq DOMAIN g
  BY DEF ClassFields
<1>6. ASSUME NEW c PROVE Initializer(g, c) \subseteq DOMAIN g
  BY <1>4 DEF Initializer
<1>7. ASSUME NEW ctx, NEW type PROVE ExceptionDescription(g, ctx, type) \subseteq DOMAIN g
  <2>1. UNION {ResolveMember(g, c, ToStringAtom) : c \in Resolve(g, ctx, type)}
            \subseteq DOMAIN g
    BY <1>2
  <2>2. QED BY <2>1 DEF ExceptionDescription
<1>8. ASSUME NEW members PROVE NullCheck(g, members) \subseteq DOMAIN g
  BY <1>4 DEF NullCheck
<1>9. ASSUME NEW ctx, NEW use PROVE AssignTarget(g, ctx, use) \subseteq DOMAIN g
  BY <1>1, <1>3 DEF AssignTarget
<1>10. ASSUME NEW targets PROVE Setters(g, targets) \subseteq DOMAIN g
  BY <1>4 DEF Setters
<1>11. ASSUME NEW ctx, NEW use PROVE UseReferences(g, ctx, use) \subseteq DOMAIN g
  BY <1>1, <1>3, <1>4, <1>5, <1>6, <1>7, <1>8, <1>9, <1>10 DEF UseReferences
<1>12. ClassReferences(g, d) \subseteq DOMAIN g
  BY <1>4, <1>5 DEF ClassReferences
<1>13. ModuleReferences(g, d) \subseteq DOMAIN g
  BY <1>5, <1>6 DEF ModuleReferences
<1>14. BodyReferences(g, d) \subseteq DOMAIN g
  BY <1>11, <1>13 DEF BodyReferences
<1>15. DirectReferences(g, d) \subseteq DOMAIN g
  BY <1>4, <1>12, <1>14 DEF DirectReferences
<1>16. ASSUME NEW n PROVE OverridesOf(g, n) \subseteq DOMAIN g
  BY DEF OverridesOf
<1>17. References(g, d) \subseteq DOMAIN g
  BY <1>15, <1>16 DEF References
<1>18. QED BY <1>17 DEF Needed

\* The index maps a name to a definition of that name.
LEMMA GlobalsAreDefinitions ==
    ASSUME NEW defs, NEW n \in DOMAIN GlobalsOf(defs)
    PROVE  \E i \in DOMAIN defs : GlobalsOf(defs)[n] = defs[i] /\ n = defs[i].name
<1>1. PICK k \in Indexed(defs) : defs[k].name = n
  BY DEF GlobalsOf
<1> DEFINE first == CHOOSE i \in Indexed(defs) : defs[i].name = n
<1>2. first \in Indexed(defs) /\ defs[first].name = n
  BY <1>1
<1>3. GlobalsOf(defs)[n] = defs[first]
  BY <1>1 DEF GlobalsOf
<1>4. QED BY <1>2, <1>3 DEF Indexed

\* The entry points are indexed names.
LEMMA EntryPointsAreGlobals ==
    ASSUME NEW g PROVE EntryPoints(g) \subseteq DOMAIN g
BY DEF EntryPoints

------------------------------------------------------------------------------
(* Marking: every reference of a marked name is marked or queued. *)

MarkInv ==
    /\ phase = "index" => reachable = {} /\ worklist = {} /\ roots = {}
    /\ phase = "done" => worklist = {}
    /\ roots \subseteq reachable \cup worklist
    /\ \A n \in reachable : Needed(globals, n) \subseteq reachable \cup worklist

LEMMA MarkInvHolds == Spec => []MarkInv
<1>1. Init => MarkInv
  BY DEF Init, MarkInv
<1>2. MarkInv /\ [Next]_vars => MarkInv'
  <2> SUFFICES ASSUME MarkInv, [Next]_vars PROVE MarkInv'
    OBVIOUS
  <2>1. CASE IndexAndDiscoverRoots
    BY <2>1 DEF IndexAndDiscoverRoots, MarkInv
  <2>2. ASSUME NEW current \in worklist, Visit(current) PROVE MarkInv'
    BY <2>2 DEF Visit, MarkInv
  <2>3. CASE Finish
    BY <2>3 DEF Finish, MarkInv
  <2>4. CASE UNCHANGED vars
    BY <2>4 DEF vars, MarkInv
  <2>5. QED BY <2>1, <2>2, <2>3, <2>4 DEF Next
<1>3. QED BY <1>1, <1>2, PTL DEF Spec

\* The linker's state has its type: whatever it marks or queues is indexed.
THEOREM TypeCorrect == Spec => []TypeOK
<1>1. Init => TypeOK
  <2> SUFFICES ASSUME Init PROVE TypeOK
    OBVIOUS
  <2>1. DOMAIN globals = {}
    BY DEF Init
  <2>2. QED BY <2>1 DEF Init, TypeOK, Phases
<1>2. TypeOK /\ MarkInv /\ [Next]_vars => TypeOK'
  <2> SUFFICES ASSUME TypeOK, MarkInv, [Next]_vars PROVE TypeOK'
    OBVIOUS
  <2>1. CASE IndexAndDiscoverRoots
    <3>1. globals' = GlobalsOf(program) /\ program' = program
      BY <2>1 DEF IndexAndDiscoverRoots
    <3>2. \A n \in DOMAIN globals' :
             \E i \in DOMAIN program' : globals'[n] = program'[i] /\ n = program'[i].name
      BY <3>1, GlobalsAreDefinitions
    <3>3. roots' = EntryPoints(globals')
      BY <2>1 DEF IndexAndDiscoverRoots
    <3>4. roots' \subseteq DOMAIN globals' /\ worklist' = roots'
      BY <2>1, <3>3, EntryPointsAreGlobals DEF IndexAndDiscoverRoots
    <3>5. reachable' = {}
      BY <2>1 DEF IndexAndDiscoverRoots, MarkInv
    <3>6. QED BY <2>1, <3>1, <3>2, <3>4, <3>5 DEF IndexAndDiscoverRoots, TypeOK, Phases
  <2>2. ASSUME NEW current \in worklist, Visit(current) PROVE TypeOK'
    BY <2>2, ReferencesAreGlobals DEF Visit, TypeOK
  <2>3. CASE Finish
    BY <2>3 DEF Finish, TypeOK, Phases
  <2>4. CASE UNCHANGED vars
    BY <2>4 DEF vars, TypeOK
  <2>5. QED BY <2>1, <2>2, <2>3, <2>4 DEF Next
<1>3. QED BY <1>1, <1>2, MarkInvHolds, PTL DEF Spec

\* A finished link is closed under references: no kept definition refers to a
\* dropped one, whatever the program and the order of marking.
THEOREM ReachableIsClosed == Spec => []ClosedWhenDone
<1>1. MarkInv => ClosedWhenDone
  BY DEF MarkInv, ClosedWhenDone, IsClosed
<1>2. QED BY <1>1, MarkInvHolds, PTL

\* The references as pairs, and the sets with the entry points that none leaves.
ReferenceEdges == UNION {{n} \X Needed(globals, n) : n \in DOMAIN globals}

IsClosedUnder(S, edges) == roots \subseteq S /\ \A e \in edges : e[1] \in S => e[2] \in S

\* What is marked lies in every closed set: with ReachableIsClosed, a finished
\* link keeps exactly the least closed set, so its result does not depend on
\* the order in which the hash maps deliver references.
THEOREM ReachableIsLeast == Spec => []NothingSpurious
<1>1. Init => NothingSpurious
  BY DEF Init, NothingSpurious
<1>2. MarkInv /\ TypeOK /\ NothingSpurious /\ [Next]_vars => NothingSpurious'
  <2> SUFFICES ASSUME MarkInv, TypeOK, NothingSpurious, [Next]_vars,
                      NEW S \in SUBSET DOMAIN globals', IsClosedUnder(S, ReferenceEdges)'
               PROVE  reachable' \cup worklist' \subseteq S
    BY DEF NothingSpurious, ReferenceEdges, IsClosedUnder
  <2>1. CASE IndexAndDiscoverRoots
    BY <2>1 DEF IndexAndDiscoverRoots, MarkInv, IsClosedUnder
  <2>2. CASE globals' = globals /\ roots' = roots
    <3>1. S \in SUBSET DOMAIN globals /\ IsClosedUnder(S, ReferenceEdges)
      BY <2>2 DEF ReferenceEdges, IsClosedUnder
    <3>2. reachable \cup worklist \subseteq S
      BY <3>1 DEF NothingSpurious, ReferenceEdges, IsClosedUnder
    <3>3. ASSUME NEW current \in worklist PROVE Needed(globals, current) \subseteq S
      <4> SUFFICES ASSUME NEW m \in Needed(globals, current) PROVE m \in S
        OBVIOUS
      <4>1. current \in DOMAIN globals
        BY DEF TypeOK
      <4>2. <<current, m>> \in ReferenceEdges
        BY <4>1 DEF ReferenceEdges
      <4>3. QED BY <3>1, <3>2, <4>2 DEF IsClosedUnder
    <3>4. ASSUME NEW current \in worklist, Visit(current)
          PROVE  reachable' \cup worklist' \subseteq S
      BY <3>2, <3>3, <3>4 DEF Visit
    <3>5. CASE IndexAndDiscoverRoots
      BY <2>1, <3>5
    <3>6. CASE Finish \/ UNCHANGED vars
      BY <3>2, <3>6 DEF Finish, vars
    <3>7. QED BY <3>4, <3>5, <3>6 DEF Next
  <2>3. QED BY <2>1, <2>2 DEF Next, Visit, Finish, vars
<1>3. QED BY <1>1, <1>2, MarkInvHolds, TypeCorrect, PTL DEF Spec

------------------------------------------------------------------------------
(* Success: what went wrong has left a diagnostic. *)

SuccessInv ==
    /\ ok => phase = "done" /\ diagnostics = {} /\ roots # {}
    /\ phase = "mark" => roots # {}
    /\ phase # "index" =>
          \A n \in DuplicateNames(program) : <<"duplicate global", n>> \in diagnostics
    /\ \A n \in reachable : Problems(globals, n) \subseteq diagnostics

LEMMA SuccessInvHolds == Spec => []SuccessInv
<1>1. Init => SuccessInv
  BY DEF Init, SuccessInv
<1>2. SuccessInv /\ MarkInv /\ [Next]_vars => SuccessInv'
  <2> SUFFICES ASSUME SuccessInv, MarkInv, [Next]_vars PROVE SuccessInv'
    OBVIOUS
  <2>1. CASE IndexAndDiscoverRoots
    BY <2>1 DEF IndexAndDiscoverRoots, SuccessInv, MarkInv
  <2>2. ASSUME NEW current \in worklist, Visit(current) PROVE SuccessInv'
    BY <2>2 DEF Visit, SuccessInv
  <2>3. CASE Finish
    BY <2>3 DEF Finish, SuccessInv
  <2>4. CASE UNCHANGED vars
    BY <2>4 DEF vars, SuccessInv
  <2>5. QED BY <2>1, <2>2, <2>3, <2>4 DEF Next
<1>3. QED BY <1>1, <1>2, MarkInvHolds, PTL DEF Spec

\* Without duplicates, equal names are at equal positions.
LEMMA NoDuplicates ==
    ASSUME NEW defs, NEW len \in Nat, DOMAIN defs = 1..len, DuplicateNames(defs) = {},
           NEW i \in DOMAIN defs, NEW j \in DOMAIN defs,
           defs[i].name = defs[j].name, defs[i].name # <<>>
    PROVE  i = j
<1>1. i \in Indexed(defs) /\ j \in Indexed(defs)
  BY DEF DuplicateNames
<1>2. i <= j /\ j <= i
  BY <1>1 DEF Indexed
<1>3. QED BY <1>2

\* A link that reports success found an entry point, no two definitions of one
\* name, and a global for every reference, of the kinds whose absence it reports,
\* in the code it kept.
THEOREM SuccessIsSound == Spec => []SuccessMeansResolved
<1>1. SuccessInv /\ TypeOK => SuccessMeansResolved
  <2> SUFFICES ASSUME SuccessInv, TypeOK, ok PROVE SuccessMeansResolved
    BY DEF SuccessMeansResolved
  <2>1. diagnostics = {} /\ roots # {} /\ DuplicateNames(program) = {}
    BY DEF SuccessInv
  <2>2. PICK len \in Nat : DOMAIN program = 1..len
    <3>1. program \in Seq(ToSet(program))
      BY ProgramsAssumption DEF TypeOK
    <3> QED BY <3>1
  <2>3. \A i, j \in DOMAIN program :
           program[i].name = program[j].name => i = j \/ program[i].name = <<>>
    BY <2>1, <2>2, NoDuplicates
  <2>4. ASSUME NEW n \in reachable PROVE Unresolved(globals, globals[n]) = {}
    <3>1. n \in DOMAIN globals /\ Problems(globals, n) = {}
      BY <2>1 DEF SuccessInv, TypeOK
    <3>2. QED BY <3>1 DEF Problems
  <2>5. QED BY <2>1, <2>3, <2>4 DEF SuccessMeansResolved
<1>2. QED BY <1>1, SuccessInvHolds, TypeCorrect, PTL

------------------------------------------------------------------------------
(* Virtual dispatch, for programs that the phases before the linker let pass. *)

\* Finitely many finite sets have finitely many members.
LEMMA FiniteUnion ==
    ASSUME NEW n \in Nat, NEW X, \A i \in 1 .. n : IsFiniteSet(X[i])
    PROVE  IsFiniteSet(UNION {X[i] : i \in 1 .. n})
<1> DEFINE U(k) == UNION {X[i] : i \in 1 .. k}
           S == {k \in Nat : k <= n => IsFiniteSet(U(k))}
<1>1. 0 \in S
  <2>1. U(0) = {}
    OBVIOUS
  <2> QED BY <2>1, FS_EmptySet
<1>2. ASSUME NEW k \in Nat, k \in S PROVE k + 1 \in S
  <2> SUFFICES ASSUME k + 1 <= n PROVE IsFiniteSet(U(k + 1))
    OBVIOUS
  <2>1. IsFiniteSet(U(k)) /\ IsFiniteSet(X[k + 1])
    BY <1>2
  <2>2. U(k + 1) = U(k) \cup X[k + 1]
    <3>1. \A i : i \in 1 .. k + 1 <=> i \in 1 .. k \/ i = k + 1
      OBVIOUS
    <3> QED BY <3>1
  <2> HIDE DEF U
  <2> QED BY <2>1, <2>2, FS_Union
<1>3. Nat \subseteq S
  <2> HIDE DEF S
  <2> QED BY <1>1, <1>2, NextNumber
<1> QED BY <1>3

LEMMA FiniteToSet ==
    ASSUME NEW T, NEW s \in Seq(T) PROVE IsFiniteSet(ToSet(s))
<1>1. Len(s) \in Nat /\ s \in [1 .. Len(s) -> ToSet(s)]
      /\ \A x \in ToSet(s) : \E i \in 1 .. Len(s) : s[i] = x
  BY DEF ToSet
<1>2. s \in Surjection(1 .. Len(s), ToSet(s))
  BY <1>1 DEF Surjection
<1>3. IsFiniteSet(1 .. Len(s))
  <2>1. 1 \in Int /\ Len(s) \in Int
    BY <1>1
  <2> QED BY <2>1, FS_Interval, Zenon
<1> QED BY <1>2, <1>3, FS_Surjection

\* A member's name takes apart as it was put together.
LEMMA MemberNames ==
    ASSUME NEW T, NEW owner \in Seq(T), owner # <<>>, NEW member
    PROVE  OwnerOf(Append(owner, member)) = owner /\ MemberOf(Append(owner, member)) = member
<1> DEFINE n == Append(owner, member)
           U == T \cup {member}
<1>1. owner \in Seq(U) /\ member \in U
  OBVIOUS
<1>2. /\ n \in Seq(U) /\ Len(n) = Len(owner) + 1 /\ Len(owner) \in Nat /\ Len(owner) > 0
      /\ n[Len(n)] = member /\ \A p \in 1 .. Len(owner) : n[p] = owner[p]
  BY <1>1
<1> HIDE DEF n
<1>long. Len(n) > 1 /\ Len(n) - 1 = Len(owner)
  BY <1>2
<1>3. MemberOf(n) = member
  <2>1. MemberOf(n) = n[Len(n)]
    BY <1>long, Zenon DEF MemberOf, Last
  <2> QED BY <1>2, <2>1
<1>4. OwnerOf(n) = SubSeq(n, 1, Len(owner))
  BY <1>long, Zenon DEF OwnerOf, Front
<1>5. SubSeq(n, 1, Len(owner)) = owner
  <2> DEFINE s == SubSeq(n, 1, Len(owner))
  <2>1. s \in Seq(U) /\ Len(s) = Len(owner) /\ \A p \in 1 .. Len(owner) : s[p] = n[p]
    BY <1>2
  <2> HIDE DEF s
  <2>2. s = owner
    BY <1>1, <1>2, <2>1
  <2> QED BY <2>2 DEF s
<1> QED BY <1>3, <1>4, <1>5 DEF n

\* What a well-formed program says about its index.
LEMMA IndexIsSound ==
    ASSUME NEW defs, defs \in Seq(ToSet(defs)), IsWellFormed(defs)
    PROVE  LET g == GlobalsOf(defs)
               parentMap == ParentMapOf(g)
           IN  /\ IsFiniteSet(Mentioned(parentMap))
               /\ ParentsAreSequences(parentMap)
               /\ \A n \in DOMAIN g :
                     g[n].name = n /\ n # <<>> /\ n \in Seq(ToSet(n))
               /\ \A c : c \in DOMAIN parentMap <=> c \in DOMAIN g /\ IsClassLike(g[c])
               /\ \A c \in DOMAIN parentMap :
                     /\ parentMap[c] = g[c].parents
                     /\ \A p \in ToSet(parentMap[c]) : p # <<>> /\ p \in Seq(ToSet(p))
<1> DEFINE g == GlobalsOf(defs)
           parentMap == ParentMapOf(g)
           X == [i \in 1 .. Len(defs) |-> {defs[i].name} \cup ToSet(defs[i].parents)]
<1>1. Len(defs) \in Nat /\ DOMAIN defs = 1 .. Len(defs)
  OBVIOUS
<1>2. \A i \in DOMAIN defs :
          /\ defs[i].name \in Seq(ToSet(defs[i].name))
          /\ defs[i].parents \in Seq(ToSet(defs[i].parents))
          /\ \A p \in ToSet(defs[i].parents) : p # <<>> /\ p \in Seq(ToSet(p))
  BY DEF IsWellFormed
<1>3. \A n \in DOMAIN g : \E i \in DOMAIN defs : g[n] = defs[i] /\ n = defs[i].name
  BY GlobalsAreDefinitions
<1>4. \A n \in DOMAIN g : n # <<>>
  BY DEF GlobalsOf, Indexed
<1>5. /\ \A c : c \in DOMAIN parentMap <=> c \in DOMAIN g /\ IsClassLike(g[c])
      /\ \A c \in DOMAIN parentMap : parentMap[c] = g[c].parents
  BY DEF ParentMapOf
<1> HIDE DEF g, parentMap
<1>6. ASSUME NEW c \in DOMAIN parentMap
      PROVE  \E i \in DOMAIN defs : c = defs[i].name /\ parentMap[c] = defs[i].parents
  BY <1>3, <1>5
<1>7. IsFiniteSet(Mentioned(parentMap))
  <2>1. ASSUME NEW i \in 1 .. Len(defs) PROVE IsFiniteSet(X[i])
    <3>1. IsFiniteSet(ToSet(defs[i].parents))
      BY <1>1, <1>2, FiniteToSet
    <3>2. X[i] = ToSet(defs[i].parents) \cup {defs[i].name}
      OBVIOUS
    <3> HIDE DEF X
    <3> QED BY <3>1, <3>2, FS_AddElement
  <2>2. ASSUME NEW c \in DOMAIN parentMap
        PROVE  \E i \in 1 .. Len(defs) : {c} \cup ToSet(parentMap[c]) = X[i]
    BY <1>1, <1>6
  <2> HIDE DEF X
  <2>3. IsFiniteSet(UNION {X[i] : i \in 1 .. Len(defs)})
    BY <1>1, <2>1, FiniteUnion
  <2>4. ASSUME NEW x \in Mentioned(parentMap)
        PROVE  x \in UNION {X[i] : i \in 1 .. Len(defs)}
    <3>1. PICK c \in DOMAIN parentMap : x \in {c} \cup ToSet(parentMap[c])
      BY DEF Mentioned
    <3> QED BY <2>2, <3>1
  <2>5. Mentioned(parentMap) \in SUBSET UNION {X[i] : i \in 1 .. Len(defs)}
    BY <2>4
  <2> QED BY <2>3, <2>5, FS_Subset
<1>8. ParentsAreSequences(parentMap)
  BY <1>2, <1>6 DEF ParentsAreSequences
<1>9. \A n \in DOMAIN g : g[n].name = n /\ n # <<>> /\ n \in Seq(ToSet(n))
  BY <1>2, <1>3, <1>4
<1>10. \A c \in DOMAIN parentMap :
           \A p \in ToSet(parentMap[c]) : p # <<>> /\ p \in Seq(ToSet(p))
  BY <1>2, <1>6
<1> QED BY <1>5, <1>7, <1>8, <1>9, <1>10 DEF g, parentMap

LEMMA SubtypesCompose ==
    ASSUME NEW g, IsFiniteSet(Mentioned(ParentMapOf(g))), NEW a, NEW b, NEW c,
           IsSubtypeOf(g, a, b), IsSubtypeOf(g, b, c)
    PROVE  IsSubtypeOf(g, a, c)
<1>1. b \in Ancestors(ParentMapOf(g), a)
          => Ancestors(ParentMapOf(g), b) \subseteq Ancestors(ParentMapOf(g), a)
  BY AncestorsAbove
<1> QED BY <1>1 DEF IsSubtypeOf

\* Whatever a kept class inherits is kept with it.
LEMMA InheritedIsKept ==
    ASSUME NEW g, IsFiniteSet(Mentioned(ParentMapOf(g))),
           ParentsIn(ParentMapOf(g), Object) = <<>>,
           NEW kept, \A x \in kept : Needed(g, x) \subseteq kept,
           NEW c \in kept, c \in DOMAIN ParentMapOf(g),
           NEW n \in DOMAIN g, IsFunction(g[n]),
           OwnerOf(n) \in Ancestors(ParentMapOf(g), c), OwnerOf(n) # Object
    PROVE  n \in kept
<1> DEFINE parentMap == ParentMapOf(g)
           Functions(x) == {f \in DOMAIN g : OwnerOf(f) = x /\ IsFunction(g[f])}
           C == {x \in Mentioned(parentMap) :
                    x # Object => (x \in DOMAIN g => x \in kept) /\ Functions(x) \subseteq kept}
<1>1. \A x : /\ x \in DOMAIN parentMap <=> x \in DOMAIN g /\ IsClassLike(g[x])
             /\ x \in DOMAIN parentMap => parentMap[x] = g[x].parents
  BY DEF ParentMapOf
<1>2. ASSUME NEW x \in kept, x \in DOMAIN parentMap
      PROVE  ToSet(parentMap[x]) \subseteq C
  <2> SUFFICES ASSUME NEW p \in ToSet(parentMap[x]), p # Object
               PROVE  (p \in DOMAIN g => p \in kept) /\ Functions(p) \subseteq kept
    BY <1>2 DEF Mentioned
  <2>1. x \in DOMAIN g /\ IsClassLike(g[x]) /\ p \in ToSet(g[x].parents)
    BY <1>1, <1>2
  <2>2. ClassReferences(g, g[x]) \subseteq Needed(g, x)
    BY <2>1 DEF Needed, References, DirectReferences
  <2>3. ClassReferences(g, g[x]) \subseteq kept
    BY <2>2
  <2>4. p \in DOMAIN g => p \in ClassReferences(g, g[x])
    BY <2>1 DEF ClassReferences, Defined
  <2>5. Functions(p) \subseteq ClassReferences(g, g[x])
    BY <2>1 DEF ClassReferences
  <2> HIDE DEF Functions
  <2> QED BY <2>3, <2>4, <2>5
<1>3. \A x : ParentsIn(parentMap, x) = IF x \in DOMAIN parentMap THEN parentMap[x] ELSE <<>>
  BY DEF ParentsIn
<1>4. ToSet(ParentsIn(parentMap, c)) \subseteq C
  <2> HIDE DEF C, parentMap
  <2> QED BY <1>2, <1>3 DEF parentMap
<1>5. Closed(parentMap, C)
  <2>1. ASSUME NEW x \in C PROVE ToSet(ParentsIn(parentMap, x)) \subseteq C
    <3>1. ASSUME ParentsIn(parentMap, x) = <<>> PROVE ToSet(ParentsIn(parentMap, x)) = {}
      BY <3>1 DEF ToSet
    <3>2. CASE x = Object \/ x \notin DOMAIN parentMap
      <4>1. ParentsIn(parentMap, x) = <<>>
        BY <1>3, <3>2
      <4> QED BY <3>1, <4>1
    <3>3. CASE x # Object /\ x \in DOMAIN parentMap
      <4>1. x \in kept
        BY <1>1, <3>3
      <4> HIDE DEF C
      <4> QED BY <1>2, <1>3, <3>3, <4>1
    <3> QED BY <3>2, <3>3
  <2> HIDE DEF C
  <2> QED BY <2>1 DEF Closed
<1>6. OwnerOf(n) \in C
  <2> HIDE DEF C
  <2> QED BY <1>4, <1>5, ParentsAreAncestors
<1>7. Functions(OwnerOf(n)) \subseteq kept
  BY <1>6
<1> QED BY <1>7

\* The override of a kept method that a kept class has itself is kept.
LEMMA OverrideIsKept ==
    ASSUME NEW g, IsFiniteSet(Mentioned(ParentMapOf(g))),
           RuntimeMain \in DOMAIN g => ~ IsVirtual(g, g[RuntimeMain]),
           NEW kept, kept \subseteq DOMAIN g, EntryPoints(g) \subseteq kept,
           \A x \in kept : Needed(g, x) \subseteq kept,
           \A x \in kept : x \in EntryPoints(g) \/ \E y \in kept : x \in Needed(g, y),
           \A x \in DOMAIN g : g[x].name = x /\ x # <<>>,
           NEW m \in kept, IsVirtual(g, g[m]),
           NEW n \in DOMAIN g, IsVirtual(g, g[n]), MemberOf(n) = MemberOf(m),
           IsSubtypeOf(g, OwnerOf(n), OwnerOf(m)), SignaturesMatch(g, g[m], g[n])
    PROVE  n \in kept
<1>1. CASE m \in EntryPoints(g)
  <2>1. RuntimeMain \notin DOMAIN g
    BY <1>1 DEF EntryPoints
  <2>2. IsMainCandidate(g[m]) /\ EntryPoints(g) = {x \in DOMAIN g : IsMainCandidate(g[x])}
    BY <1>1, <2>1 DEF EntryPoints
  <2>3. g[m].name = m /\ g[n].name = n
    OBVIOUS
  <2>4. m # <<MainAtom>>
    <3> SUFFICES ASSUME m = <<MainAtom>> PROVE FALSE
      OBVIOUS
    <3>1. Len(m) = 1
      OBVIOUS
    <3>2. OwnerOf(m) = <<>>
      BY <3>1 DEF OwnerOf
    <3>3. OwnerOf(m) \in DOMAIN g
      BY <2>3 DEF IsVirtual
    <3> QED BY <3>2, <3>3
  <2>5. MemberOf(n) = MainAtom /\ IsFunction(g[n])
    BY <2>2, <2>3, <2>4 DEF IsMainCandidate, IsVirtual
  <2>6. IsMainCandidate(g[n])
    BY <2>3, <2>5 DEF IsMainCandidate
  <2> QED BY <2>2, <2>6
<1>2. ASSUME NEW d \in kept, m \in Needed(g, d) PROVE n \in kept
  <2> DEFINE direct == DirectReferences(g, g[d])
  <2>1. Needed(g, d) = direct \cup UNION {OverridesOf(g, x) : x \in direct}
        /\ Needed(g, d) \subseteq kept
    BY DEF Needed, References
  <2> HIDE DEF direct
  <2>2. CASE m \in direct
    <3>1. n = m \/ n \in OverridesOf(g, m)
      BY DEF OverridesOf
    <3> QED BY <2>1, <2>2, <3>1
  <2>3. ASSUME NEW x \in direct, m \in OverridesOf(g, x) PROVE n \in kept
    <3>1. /\ IsVirtual(g, g[x]) /\ MemberOf(m) = MemberOf(x)
          /\ IsSubtypeOf(g, OwnerOf(m), OwnerOf(x)) /\ SignaturesMatch(g, g[x], g[m])
      BY <2>3 DEF OverridesOf
    <3>2. IsSubtypeOf(g, OwnerOf(n), OwnerOf(x))
      BY <3>1, SubtypesCompose
    <3>3. SignaturesMatch(g, g[x], g[n])
      <4>1. IsSubtypeOf(g, g[n].returns, g[m].returns) /\ IsSubtypeOf(g, g[m].returns, g[x].returns)
            /\ g[n].params = g[m].params /\ g[m].params = g[x].params
        BY <3>1 DEF SignaturesMatch
      <4>2. IsSubtypeOf(g, g[n].returns, g[x].returns)
        BY <4>1, SubtypesCompose
      <4> QED BY <4>1, <4>2 DEF SignaturesMatch
    <3>4. n = x \/ n \in OverridesOf(g, x)
      BY <3>1, <3>2, <3>3 DEF OverridesOf
    <3> QED BY <2>1, <2>3, <3>4
  <2> QED BY <1>2, <2>1, <2>2, <2>3
<1> QED BY <1>1, <1>2

\* What is marked has a reason.
KeptInv ==
    /\ phase # "index" => globals = GlobalsOf(program) /\ roots = EntryPoints(globals)
    /\ \A x \in reachable \cup worklist :
          x \in roots \/ \E y \in reachable : x \in Needed(globals, y)

LEMMA KeptInvHolds == Spec => []KeptInv
<1>1. Init => KeptInv
  BY DEF Init, KeptInv
<1>2. KeptInv /\ MarkInv /\ [Next]_vars => KeptInv'
  <2> SUFFICES ASSUME KeptInv, MarkInv, [Next]_vars PROVE KeptInv'
    OBVIOUS
  <2>1. CASE IndexAndDiscoverRoots
    BY <2>1 DEF IndexAndDiscoverRoots, KeptInv, MarkInv
  <2>2. ASSUME NEW current \in worklist, Visit(current) PROVE KeptInv'
    BY <2>2 DEF Visit, KeptInv
  <2>3. CASE Finish
    BY <2>3 DEF Finish, KeptInv
  <2>4. CASE UNCHANGED vars
    BY <2>4 DEF vars, KeptInv
  <2>5. QED BY <2>1, <2>2, <2>3, <2>4 DEF Next
<1>3. QED BY <1>1, <1>2, MarkInvHolds, PTL DEF Spec

LEMMA TargetsAreKept ==
    ASSUME \A p \in Programs : IsWellFormed(p), TypeOK, MarkInv, KeptInv
    PROVE  DispatchTargetsKept
<1> SUFFICES ASSUME phase = "done",
                    NEW m \in reachable, IsVirtual(globals, globals[m]),
                    NEW c \in reachable, globals[c].kind = "class",
                    IsSubtypeOf(globals, c, OwnerOf(m)),
                    NEW target \in Implementations(c, MemberOf(m)),
                    SignaturesMatch(globals, globals[m], globals[target])
             PROVE  target \in reachable
  BY DEF DispatchTargetsKept
<1> DEFINE g == globals
           parentMap == ParentMapOf(g)
           member == MemberOf(m)
           line == LinearizedTypeNames(c, parentMap)
<1>1. /\ program \in Programs /\ IsWellFormed(program) /\ g = GlobalsOf(program)
      /\ program \in Seq(ToSet(program))
  BY ProgramsAssumption DEF TypeOK, KeptInv
<1>2. /\ IsFiniteSet(Mentioned(parentMap))
      /\ ParentsAreSequences(parentMap)
      /\ \A n \in DOMAIN g : g[n].name = n /\ n # <<>> /\ n \in Seq(ToSet(n))
      /\ \A x : x \in DOMAIN parentMap <=> x \in DOMAIN g /\ IsClassLike(g[x])
      /\ \A x \in DOMAIN parentMap : \A p \in ToSet(parentMap[x]) : p # <<>> /\ p \in Seq(ToSet(p))
  BY <1>1, IndexIsSound
<1>3. /\ IsAcyclic(parentMap) /\ ParentsIn(parentMap, Object) = <<>>
      /\ \A n \in DOMAIN g : OwnerOf(n) = Object => g[n].kind # "def"
      /\ RuntimeMain \in DOMAIN g => ~ IsVirtual(g, g[RuntimeMain])
      /\ \A a, n \in DOMAIN g :
            IsVirtual(g, g[a]) /\ MemberOf(n) = MemberOf(a) /\ g[n].kind = "def"
                /\ OwnerOf(n) \in DOMAIN g /\ IsDispatchType(g[OwnerOf(n)])
                   => IsVirtual(g, g[n])
  BY <1>1 DEF IsWellFormed
<1>4. /\ reachable \subseteq DOMAIN g /\ EntryPoints(g) \subseteq reachable
      /\ \A x \in reachable : Needed(g, x) \subseteq reachable
      /\ \A x \in reachable : x \in EntryPoints(g) \/ \E y \in reachable : x \in Needed(g, y)
  BY DEF TypeOK, MarkInv, KeptInv
<1>5. c \in DOMAIN g /\ c \in DOMAIN parentMap /\ c \in Mentioned(parentMap)
      /\ IsDispatchType(g[c])
  BY <1>2, <1>4 DEF IsClassLike, IsDispatchType, Mentioned
<1>6. PICK p \in DOMAIN line :
          target = Append(line[p], member) /\ target \in DOMAIN g /\ g[target].kind = "def"
  BY DEF Implementations
<1> HIDE DEF g, parentMap, member, line
<1>7. line[p] \in {c} \cup Ancestors(parentMap, c)
  <2>1. line = Linearizations(parentMap)[c]
    BY <1>5 DEF LinearizedTypeNames, line
  <2>2. line \in Seq({c} \cup Ancestors(parentMap, c))
    BY <1>2, <1>3, <1>5, <2>1, LinearizationMembers
  <2> QED BY <2>2
<1>8. line[p] # <<>> /\ line[p] \in Seq(ToSet(line[p]))
  <2> DEFINE Named == {x \in Mentioned(parentMap) : x # <<>> /\ x \in Seq(ToSet(x))}
  <2>1. \A x \in DOMAIN parentMap : ToSet(parentMap[x]) \subseteq Named
    BY <1>2 DEF Mentioned
  <2>2. \A x : ToSet(ParentsIn(parentMap, x)) \subseteq Named
    <3> SUFFICES ASSUME NEW x PROVE ToSet(ParentsIn(parentMap, x)) \subseteq Named
      OBVIOUS
    <3>1. CASE x \in DOMAIN parentMap
      BY <2>1, <3>1 DEF ParentsIn
    <3>2. CASE x \notin DOMAIN parentMap
      <4>1. ParentsIn(parentMap, x) = <<>>
        BY <3>2 DEF ParentsIn
      <4>2. ToSet(<<>>) = {}
        BY DEF ToSet
      <4> QED BY <4>1, <4>2
    <3> QED BY <3>1, <3>2
  <2>3. Ancestors(parentMap, c) \subseteq Named
    <3> HIDE DEF Named
    <3>1. Closed(parentMap, Named)
      BY <2>2 DEF Closed
    <3> QED BY <1>2, <2>2, <3>1, ParentsAreAncestors
  <2>4. c # <<>> /\ c \in Seq(ToSet(c))
    BY <1>2, <1>5
  <2> QED BY <1>7, <2>3, <2>4
<1>9. OwnerOf(target) = line[p] /\ MemberOf(target) = member
  BY <1>6, <1>8, MemberNames
<1>10. CASE line[p] = c
  <2>1. m \in DOMAIN g /\ IsVirtual(g, g[m])
    BY <1>4 DEF g
  <2>2. IsVirtual(g, g[target])
    BY <1>3, <1>5, <1>6, <1>9, <1>10, <2>1 DEF member
  <2>3. IsSubtypeOf(g, OwnerOf(target), OwnerOf(m)) /\ SignaturesMatch(g, g[m], g[target])
    BY <1>9, <1>10 DEF g
  <2>4. MemberOf(target) = MemberOf(m)
    BY <1>9 DEF member
  <2> QED BY <1>2, <1>3, <1>4, <1>6, <2>1, <2>2, <2>3, <2>4, OverrideIsKept DEF parentMap
<1>11. CASE line[p] \in Ancestors(parentMap, c)
  <2>1. OwnerOf(target) # Object /\ IsFunction(g[target])
    BY <1>3, <1>6 DEF IsFunction
  <2> QED BY <1>2, <1>3, <1>4, <1>5, <1>6, <1>9, <1>11, <2>1, InheritedIsKept DEF parentMap
<1> QED BY <1>7, <1>10, <1>11

\* No virtual call reaches pruned code: in a program that the phases before the
\* linker let pass, what a call through a kept method lands in, on an instance of
\* a kept class, is kept.
THEOREM DispatchIsKept ==
    ASSUME \A p \in Programs : IsWellFormed(p)
    PROVE  Spec => []DispatchTargetsKept
BY TargetsAreKept, TypeCorrect, MarkInvHolds, KeptInvHolds, PTL

------------------------------------------------------------------------------
(* The promise: the result is a function of the program. *)

\* What is reported is what the program as a whole and the names marked so far
\* have wrong.
DiagnosticsInv ==
    /\ phase = "index" => diagnostics = {} /\ reachable = {} /\ ~ ok
    /\ phase = "mark" => ~ ok /\ roots # {}
    /\ phase # "index" =>
          diagnostics = FaultsOf(program) \cup UNION {ProblemsOf(program, n) : n \in reachable}
    /\ phase = "done" => (ok <=> diagnostics = {})

LEMMA DiagnosticsInvHolds == Spec => []DiagnosticsInv
<1>1. Init => DiagnosticsInv
  BY DEF Init, DiagnosticsInv
<1>2. DiagnosticsInv /\ KeptInv /\ MarkInv /\ TypeOK /\ [Next]_vars => DiagnosticsInv'
  <2> SUFFICES ASSUME DiagnosticsInv, KeptInv, MarkInv, TypeOK, [Next]_vars
               PROVE  DiagnosticsInv'
    OBVIOUS
  <2>1. CASE IndexAndDiscoverRoots
    <3>1. /\ phase = "index" /\ phase' \in {"mark", "done"} /\ reachable' = {} /\ ok' = ok /\ ~ ok
          /\ program' = program /\ globals' = GlobalsOf(program)
          /\ roots' = RootsOf(program) /\ (roots' = {} <=> phase' = "done")
      BY <2>1 DEF IndexAndDiscoverRoots, DiagnosticsInv, RootsOf
    <3>2. diagnostics' = FaultsOf(program)
      BY <2>1, <3>1 DEF IndexAndDiscoverRoots, FaultsOf
    <3>3. UNION {ProblemsOf(program, n) : n \in reachable'} = {}
      BY <3>1
    <3>4. phase' = "done" => diagnostics' # {}
      <4>1. RootsOf(program) = {} => <<"no entry point", <<>> >> \in FaultsOf(program)
        BY DEF FaultsOf
      <4> QED BY <3>1, <3>2, <4>1
    <3>5. diagnostics'
             = FaultsOf(program)' \cup UNION {ProblemsOf(program, n) : n \in reachable}'
      BY <3>1, <3>2, <3>3
    <3> QED BY <3>1, <3>4, <3>5 DEF DiagnosticsInv
  <2>2. ASSUME NEW current \in worklist, Visit(current) PROVE DiagnosticsInv'
    <3>1. /\ phase = "mark" /\ phase' = "mark" /\ program' = program /\ ok' = ok /\ roots' = roots
          /\ reachable' = reachable \cup {current}
          /\ diagnostics' = diagnostics \cup Problems(globals, current)
      BY <2>2 DEF Visit
    <3>2. Problems(globals, current) = ProblemsOf(program, current)
      BY <3>1 DEF KeptInv, ProblemsOf
    <3>3. UNION {ProblemsOf(program, n) : n \in reachable'}
              = (UNION {ProblemsOf(program, n) : n \in reachable})
                   \cup ProblemsOf(program, current)
      BY <3>1
    <3> QED BY <3>1, <3>2, <3>3 DEF DiagnosticsInv
  <2>3. CASE Finish
    <3>1. /\ phase = "mark" /\ phase' = "done" /\ program' = program /\ reachable' = reachable
          /\ diagnostics' = diagnostics
                \cup {<<"root was not reachable", n>> : n \in roots \ reachable}
          /\ ok' = (diagnostics' = {}) /\ roots \ reachable = {}
      BY <2>3 DEF Finish, MarkInv
    <3>2. diagnostics' = diagnostics
      BY <3>1
    <3>3. diagnostics'
             = FaultsOf(program)' \cup UNION {ProblemsOf(program, n) : n \in reachable}'
      BY <3>1, <3>2 DEF DiagnosticsInv
    <3> QED BY <3>1, <3>3 DEF DiagnosticsInv
  <2>4. CASE UNCHANGED vars
    BY <2>4 DEF vars, DiagnosticsInv
  <2>5. QED BY <2>1, <2>2, <2>3, <2>4 DEF Next
<1>3. QED BY <1>1, <1>2, MarkInvHolds, KeptInvHolds, TypeCorrect, PTL DEF Spec

\* A set that holds the roots, that no reference leaves and that lies in every
\* such set is the least one.
LEMMA LeastIsKept ==
    ASSUME KeptInv, MarkInv, TypeOK, NothingSpurious, phase # "index", worklist = {}
    PROVE  reachable = Promise!Least(program)
<1> DEFINE edges == UNION {{n} \X NeedsOf(program, n) : n \in NamesOf(program)}
           IsClosedSet(S) == /\ RootsOf(program) \subseteq S
                             /\ \A e \in edges : e[1] \in S => e[2] \in S
<1>1. /\ globals = GlobalsOf(program) /\ roots = RootsOf(program)
      /\ NamesOf(program) = DOMAIN globals /\ reachable \subseteq DOMAIN globals
      /\ \A n : NeedsOf(program, n) = Needed(globals, n)
  BY DEF KeptInv, TypeOK, RootsOf, NamesOf, NeedsOf
<1>2. edges = UNION {{n} \X Needed(globals, n) : n \in DOMAIN globals}
  BY <1>1
<1>3. Promise!Least(program)
         = {n \in NamesOf(program) : \A S \in {X \in SUBSET NamesOf(program) : IsClosedSet(X)} : n \in S}
  BY DEF Promise!Least
<1>4. ASSUME NEW n \in reachable, NEW S \in SUBSET NamesOf(program), IsClosedSet(S) PROVE n \in S
  BY <1>1, <1>2, <1>4 DEF NothingSpurious
<1>5. IsClosedSet(reachable)
  <2>1. RootsOf(program) \subseteq reachable
    BY <1>1 DEF MarkInv
  <2>2. ASSUME NEW e \in edges, e[1] \in reachable PROVE e[2] \in reachable
    <3>1. PICK n \in DOMAIN globals : e \in {n} \X Needed(globals, n)
      BY <1>2
    <3>2. e[1] = n /\ e[2] \in Needed(globals, n)
      BY <3>1
    <3> QED BY <2>2, <3>2 DEF MarkInv
  <2> QED BY <2>1, <2>2
<1>6. reachable \in SUBSET NamesOf(program)
  BY <1>1
<1> HIDE DEF edges, IsClosedSet
<1> QED BY <1>3, <1>4, <1>5, <1>6

\* What a link returns is the outcome of its program.
ReturnInv == phase = "done" => Returned = Promise!Outcome(program)

LEMMA ReturnInvHolds == Spec => []ReturnInv
<1>1. KeptInv /\ MarkInv /\ TypeOK /\ NothingSpurious /\ DiagnosticsInv => ReturnInv
  <2> SUFFICES ASSUME KeptInv, MarkInv, TypeOK, NothingSpurious, DiagnosticsInv, phase = "done"
               PROVE  Returned = Promise!Outcome(program)
    BY DEF ReturnInv
  <2>1. reachable = Promise!Least(program)
    BY LeastIsKept DEF MarkInv
  <2>2. diagnostics = FaultsOf(program) \cup UNION {ProblemsOf(program, n) : n \in reachable}
        /\ ok = (diagnostics = {})
    BY DEF DiagnosticsInv, TypeOK
  <2> QED BY <2>1, <2>2 DEF Returned, Promise!Outcome
<1> QED BY <1>1, KeptInvHolds, MarkInvHolds, TypeCorrect, ReachableIsLeast,
           DiagnosticsInvHolds, PTL

\* The safety of ResultIsDetermined, which has no fairness: a link returns the
\* least closed set and all its errors, whatever the program and the order of
\* marking.
THEOREM ResultIsAFunction == Spec => ResultIsDetermined
<1>1. Init => Promise!Init
  BY DEF Init, Promise!Init, Promise!NoResult, Returned
<1>2. ReturnInv' /\ [Next]_vars => [Promise!Return]_(Promise!vars)
  <2> SUFFICES ASSUME ReturnInv', [Next]_vars PROVE [Promise!Return]_(Promise!vars)
    OBVIOUS
  <2>1. program' = program
    BY DEF Next, IndexAndDiscoverRoots, Visit, Finish, vars
  <2>2. CASE phase' = "done" /\ phase # "done"
    BY <2>1, <2>2 DEF ReturnInv, Promise!Return
  <2>3. CASE phase' # "done" /\ phase # "done"
    BY <2>1, <2>3 DEF Returned, Promise!vars
  <2>4. CASE phase = "done"
    <3>1. UNCHANGED <<phase, reachable, diagnostics, ok>>
      BY <2>4 DEF Next, IndexAndDiscoverRoots, Visit, Finish, vars
    <3> QED BY <2>1, <2>4, <3>1 DEF Returned, Promise!vars
  <2> QED BY <2>2, <2>3, <2>4
<1> QED BY <1>1, <1>2, ReturnInvHolds, PTL DEF Spec, ResultIsDetermined, Promise!Spec

==============================================================================
