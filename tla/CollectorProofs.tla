---------------------------- MODULE CollectorProofs ----------------------------
(***************************************************************************)
(* Proofs about the storage of a compiled program, for any number of       *)
(* objects, any threshold and any depth: the collector and the zones give  *)
(* back nothing that the program can still get at, and the heap of the     *)
(* collector is bounded.                                                   *)
(***************************************************************************)
EXTENDS NativeRuntimeProofs, WellFoundedInduction

------------------------------------------------------------------------------
(* Least and greatest members of sets of positions. *)

Less == OpToRel(<, Nat)

LEMMA LessHolds == \A m, n \in Nat : m < n => <<m, n>> \in Less
BY DEF Less, OpToRel

LEMMA LessIsWellFounded == IsWellFoundedOn(Less, Nat)
BY NatLessThanWellFounded, Zenon DEF Less

LEMMA LeastNumber ==
    ASSUME NEW T \in SUBSET Nat, T # {}
    PROVE  \E n \in T : \A m \in T : n <= m
<1>1. \E n \in T : \A m \in T : ~ (<<m, n>> \in Less)
  BY LessIsWellFounded, WFMin
<1>2. PICK n \in T : \A m \in T : ~ (<<m, n>> \in Less)
  BY <1>1
<1>3. ASSUME NEW m \in T PROVE n <= m
  <2>1. ~ (m < n)
    BY <1>2, LessHolds
  <2> QED BY <2>1
<1> QED BY <1>3

LEMMA GreatestNumber ==
    ASSUME NEW T \in SUBSET Nat, T # {}, NEW bound \in Nat, \A m \in T : m <= bound
    PROVE  \E n \in T : \A m \in T : m <= n
<1> DEFINE Bounds == {b \in Nat : \A m \in T : m <= b}
<1>1. PICK least \in Bounds : \A b \in Bounds : least <= b
  <2>1. Bounds \in SUBSET Nat /\ bound \in Bounds
    OBVIOUS
  <2> HIDE DEF Bounds
  <2>2. \E n \in Bounds : \A m \in Bounds : n <= m
    BY <2>1, LeastNumber
  <2> QED BY <2>2
<1>2. least \in T
  <2> SUFFICES ASSUME least \notin T PROVE FALSE
    OBVIOUS
  <2>1. \A m \in T : m <= least - 1
    OBVIOUS
  <2>2. least - 1 \in Nat
    <3>1. PICK t \in T : t <= least - 1
      BY <2>1
    <3> QED BY <3>1
  <2>3. least - 1 \in Bounds
    BY <2>1, <2>2
  <2> QED BY <1>1, <2>3
<1>3. \A m \in T : m <= least
  OBVIOUS
<1> QED BY <1>2, <1>3

------------------------------------------------------------------------------
\* Programs that do not throw null and keep no reference to a collected object
\* in the program arena.  The code allows both (hazards of the runtime;
\* native_arenas shows the second).
CarefulPrograms == Uses \cap {"throw null", "arena holds gc"} = {}

-----------------------------------------------------------------------------
(* The inductive invariant. *)

InUse(own) == {o \in Objects : own[o] \in {"gc", "zone", "program"}}

\* What x may refer to lives as long as x does.
MayOutlive(own, zof, x, y) ==
    /\ y \in InUse(own)
    /\ own[x] = "gc" => own[y] \in {"gc", "program"}
    /\ own[x] = "program" => own[y] = "program"
    /\ own[x] = "zone" => \/ own[y] = "program"
                          \/ own[y] = "zone" /\ zof[y] <= zof[x]

FieldsFit(own, zof, f) ==
    \A x \in Objects : /\ x \in InUse(own) /\ f[x] # None => MayOutlive(own, zof, x, f[x])
                       /\ own[x] = "unused" => f[x] = None

\* Objects of zones are in zones that are open; exceptions are collected.
ObjectsPlaced(own, zof, z) ==
    \A x \in Objects : /\ own[x] = "zone" => 1 <= zof[x] /\ zof[x] <= z
                       /\ x \in Exceptions => own[x] \in {"unused", "gc", "freed"}

GlobalsFit(own, thrown, mod) ==
    /\ thrown # None => own[thrown] = "gc"
    /\ mod # None => own[mod] \in {"gc", "program"}

HeapFits(own, zof, f, z, thrown, mod) ==
    FieldsFit(own, zof, f) /\ ObjectsPlaced(own, zof, z) /\ GlobalsFit(own, thrown, mod)

\* An item with n zones around it and a frame with the slots R: its values are
\* in use, in slots, and in no zone inside it; what is pending is collected.
Values(item) == item.vars \cup Kept(item)
ItemFits(item, n, R, own, zof) ==
    /\ Values(item) \subseteq R \cap InUse(own)
    /\ \A o \in Values(item) : own[o] = "zone" => zof[o] <= n
    /\ item.kind = "try" /\ item.pending # None => own[item.pending] = "gc"

IsFrameOf(k, c, i) == k \in Calls(c, i) /\ \A m \in Calls(c, i) : m <= k

ItemsFit(c, own, zof) ==
    \A i \in 1 .. Len(c) : \A k \in Calls(c, i) :
        IsFrameOf(k, c, i) =>
            ItemFits(c[i], Cardinality(Zones(c, i)), c[k].roots, own, zof)

\* Without zones, slots that are out of use hold nothing freed either.
SlotsFit(c, own) ==
    "zone" \notin Uses => \A i \in 1 .. Len(c) :
        /\ c[i].kind # "zone"
        /\ c[i].kind = "call" => c[i].roots \subseteq InUse(own)

StorageFits(own, zof, f, z, thrown, mod, c) ==
    /\ HeapFits(own, zof, f, z, thrown, mod)
    /\ ItemsFit(c, own, zof)
    /\ SlotsFit(c, own)

Storage ==
    /\ Running => StorageFits(owner, zoneOf, field, zone, exception, module, control)
    /\ "zone" \notin Uses => misread = {}

StorageInv == NestingInv /\ Storage

HeapIsFinite == IsFiniteSet(Collected(owner))
-----------------------------------------------------------------------------
(* Linked frames. *)

LEMMA LinkedFrames ==
    ASSUME NEW top, NEW i
    PROVE  /\ i \in Linked(top) => i \in Calls(control, Depth)
           /\ top # 0 /\ top \in Calls(control, Depth) => top \in Linked(top)
           /\ i \in Linked(top) /\ control[i].previous # 0
                 /\ control[i].previous \in Calls(control, Depth)
                 => control[i].previous \in Linked(top)
BY DEF Linked

\* Every call of the program has its frame linked: the frames below one that is
\* linked are linked, since a frame was pushed on top of the one before.
LEMMA EveryCallIsLinked ==
    ASSUME Good(control, shadow, zone, handler)
    PROVE  Linked(shadow) = Calls(control, Depth)
<1> DEFINE C == Calls(control, Depth)
           Missing == C \ Linked(shadow)
<1>1. /\ Depth \in Nat /\ Nested(control, Depth)
      /\ IsInnermost(shadow, C) /\ shadow \in C /\ C \in SUBSET Nat
      /\ \A i \in C : i <= Depth
  <2>1. Depth \in Nat /\ shadow \in 1 .. Depth /\ control[shadow].kind = "call"
    BY FrameOfGood DEF Depth
  <2> QED BY <2>1 DEF Good, Matches, Calls, Depth
<1>2. \A i \in C : control[i].kind = "call" /\ i \in 1 .. Depth
  BY DEF Calls
<1>3. \A i \in Linked(shadow) : i \in C
  BY LinkedFrames
<1>4. shadow # 0 /\ shadow \in Linked(shadow)
  BY <1>1, <1>2, LinkedFrames
<1>5. ASSUME Missing # {} PROVE FALSE
  <2>1. Missing \in SUBSET Nat /\ \A i \in Missing : i <= Depth
    BY <1>1
  <2>2. PICK last \in Missing : \A i \in Missing : i <= last
    <3> HIDE DEF Missing
    <3> QED BY <1>1, <1>5, <2>1, GreatestNumber
  <2> DEFINE Later == {i \in C : i > last}
  <2>3. last \in C /\ last \notin Linked(shadow) /\ last \in Nat /\ last # 0
    BY <1>1, <1>2
  <2>4. shadow \in Later
    <3>1. last # shadow
      BY <1>4, <2>3
    <3>2. last <= shadow
      BY <1>1, <2>3 DEF IsInnermost
    <3> QED BY <1>1, <2>3, <3>1, <3>2
  <2>5. PICK next \in Later : \A i \in Later : next <= i
    <3>1. Later \in SUBSET Nat /\ Later # {}
      BY <1>1, <2>4
    <3> HIDE DEF Later
    <3> QED BY <3>1, LeastNumber
  <2>6. next \in C /\ next > last /\ next \in Nat
    BY <1>1
  <2>7. next \in Linked(shadow)
    <3>1. next \notin Missing
      BY <2>2, <2>3, <2>6
    <3> QED BY <2>6, <3>1
  <2>8. IsInnermost(control[next].previous, Calls(control, next - 1))
    BY <1>1, <1>2, <2>6, SavedMatches
  <2>9. last \in Calls(control, next - 1)
    BY <1>2, <2>3, <2>6 DEF Calls
  <2>10. \A i \in Calls(control, next - 1) : i \in Nat /\ i <= last
    <3> SUFFICES ASSUME NEW i \in Calls(control, next - 1) PROVE i \in Nat /\ i <= last
      OBVIOUS
    <3>1. i \in 1 .. next - 1 /\ control[i].kind = "call" /\ next \in 1 .. Depth
      BY <1>2, <2>6 DEF Calls
    <3>2. i \in C /\ i \in Nat /\ i < next
      BY <1>1, <3>1 DEF Calls
    <3>3. i \notin Later
      BY <2>5, <2>6, <3>2
    <3> QED BY <2>3, <3>2, <3>3
  <2>11. control[next].previous = last
    <3> DEFINE p == control[next].previous
               P == Calls(control, next - 1)
    <3>1. p \in {0} \cup P /\ \A m \in P : m <= p
      BY <2>8 DEF IsInnermost
    <3>2. last \in P /\ \A i \in P : i \in Nat /\ i <= last
      BY <2>9, <2>10
    <3> HIDE DEF p, P
    <3>3. p = last
      BY <2>3, <3>1, <3>2
    <3> QED BY <3>3 DEF p
  <2> QED BY <2>3, <2>7, <2>11, LinkedFrames
<1> HIDE DEF C
<1> QED BY <1>3, <1>5 DEF C

-----------------------------------------------------------------------------
(* The heap. *)

LEMMA OwnersInUse ==
    ASSUME NEW own, NEW o
    PROVE  o \in InUse(own) <=> o \in Objects /\ own[o] \in {"gc", "zone", "program"}
BY DEF InUse

\* The collector marks the roots that it owns, and what they lead to.
LEMMA MarkedObjects ==
    ASSUME NEW roots, NEW own, NEW f, NEW o
    PROVE  /\ o \in Marked(roots, own, f) => o \in Objects /\ own[o] = "gc"
           /\ o \in roots /\ o \in Objects /\ own[o] = "gc" => o \in Marked(roots, own, f)
           /\ o \in Marked(roots, own, f) /\ f[o] \in Objects /\ own[f[o]] = "gc"
                 => f[o] \in Marked(roots, own, f)
BY DEF Marked, Collected

\* More roots, more marks.
LEMMA MarkedMonotone ==
    ASSUME NEW roots, NEW more, roots \subseteq more, NEW own, NEW f
    PROVE  Marked(roots, own, f) \subseteq Marked(more, own, f)
BY DEF Marked

LEMMA SweptOwners ==
    ASSUME NEW own, NEW roots, NEW f, NEW o \in Objects
    PROVE  /\ own[o] # "gc" => Swept(roots, own, f)[o] = own[o]
           /\ o \in Marked(roots, own, f) => Swept(roots, own, f)[o] = own[o]
           /\ own[o] = "gc" /\ o \notin Marked(roots, own, f) =>
                 Swept(roots, own, f)[o] = "freed"
BY DEF Swept

LEMMA ZonelessOwners ==
    ASSUME NEW own, NEW levels, NEW o \in Objects
    PROVE  /\ own[o] # "zone" \/ zoneOf[o] \notin levels => WithoutZones(own, levels)[o] = own[o]
           /\ own[o] = "zone" /\ zoneOf[o] \in levels => WithoutZones(own, levels)[o] = "freed"
BY DEF WithoutZones

\* A collection keeps what belongs together when all that the globals name is
\* marked: an object that stays holds nothing that goes.
LEMMA SweepKeepsHeap ==
    ASSUME NEW own, NEW zof, NEW f \in [Objects -> Objects \cup {None}], NEW z,
           NEW thrown \in Objects \cup {None}, NEW mod \in Objects \cup {None},
           HeapFits(own, zof, f, z, thrown, mod),
           NEW roots, References({thrown, mod}) \subseteq roots
    PROVE  HeapFits(Swept(roots, own, f), zof, f, z, thrown, mod)
<1> DEFINE left == Swept(roots, own, f)
<1>1. ASSUME NEW o \in Objects
      PROVE  \/ left[o] = own[o] /\ (own[o] = "gc" => o \in Marked(roots, own, f))
             \/ left[o] = "freed" /\ own[o] = "gc"
  BY SweptOwners
<1> HIDE DEF left
<1>2. ASSUME NEW x \in InUse(left), f[x] # None PROVE MayOutlive(left, zof, x, f[x])
  <2>1. x \in Objects /\ left[x] = own[x] /\ x \in InUse(own)
    BY <1>1, <1>2, OwnersInUse
  <2>2. MayOutlive(own, zof, x, f[x])
    BY <1>2, <2>1 DEF HeapFits, FieldsFit
  <2>3. f[x] \in Objects /\ f[x] \in InUse(own)
    BY <2>2, OwnersInUse DEF MayOutlive
  <2>4. left[f[x]] = own[f[x]]
    <3>1. CASE own[f[x]] # "gc"
      BY <1>1, <2>3, <3>1
    <3>2. CASE own[f[x]] = "gc"
      <4>1. own[x] = "gc"
        BY <2>1, <2>2, <3>2, OwnersInUse DEF MayOutlive
      <4>2. x \in Marked(roots, own, f)
        BY <1>1, <2>1, <4>1
      <4>3. f[x] \in Marked(roots, own, f)
        BY <2>3, <3>2, <4>2, MarkedObjects
      <4> QED BY <2>3, <4>3, SweptOwners DEF left
    <3> QED BY <3>1, <3>2
  <2> QED BY <2>1, <2>2, <2>3, <2>4, OwnersInUse DEF MayOutlive
<1>3. FieldsFit(left, zof, f)
  BY <1>1, <1>2 DEF FieldsFit, HeapFits
<1>4. ObjectsPlaced(left, zof, z)
  BY <1>1 DEF ObjectsPlaced, HeapFits
<1>5. GlobalsFit(left, thrown, mod)
  <2>1. ASSUME NEW o \in {thrown, mod}, o # None PROVE left[o] = own[o]
    <3>1. o \in Objects /\ o \in roots
      BY <2>1 DEF References
    <3> QED BY <1>1, <3>1, MarkedObjects, SweptOwners DEF left
  <2> QED BY <2>1 DEF GlobalsFit, HeapFits
<1> QED BY <1>3, <1>4, <1>5 DEF HeapFits, left

\* An object comes into use.  Nothing holds it yet.
LEMMA NewKeepsHeap ==
    ASSUME NEW own \in [Objects -> Owners], NEW zof, NEW f, NEW z, NEW thrown, NEW mod,
           HeapFits(own, zof, f, z, thrown, mod),
           NEW o \in Objects, own[o] = "unused", NEW kind \in {"gc", "zone", "program"},
           NEW own2, own2 = [own EXCEPT ![o] = kind], NEW zof2,
           \A x \in Objects : x # o => zof2[x] = zof[x],
           kind = "zone" => 1 <= zof2[o] /\ zof2[o] <= z,
           o \in Exceptions => kind = "gc",
           thrown \in Objects \cup {None}, mod \in Objects \cup {None}
    PROVE  HeapFits(own2, zof2, f, z, thrown, mod)
<1>1. own2[o] = kind /\ \A x \in Objects : x # o => own2[x] = own[x]
  OBVIOUS
<1>2. f[o] = None
  BY DEF HeapFits, FieldsFit
<1>3. ASSUME NEW x \in InUse(own2), f[x] # None PROVE MayOutlive(own2, zof2, x, f[x])
  <2>1. x \in Objects /\ x # o /\ x \in InUse(own)
    BY <1>1, <1>2, <1>3, OwnersInUse
  <2>2. MayOutlive(own, zof, x, f[x]) /\ f[x] \in Objects /\ f[x] # o
    BY <1>3, <2>1, OwnersInUse DEF HeapFits, FieldsFit, MayOutlive
  <2> QED BY <1>1, <2>1, <2>2, OwnersInUse DEF MayOutlive
<1>4. FieldsFit(own2, zof2, f)
  BY <1>1, <1>2, <1>3 DEF FieldsFit, HeapFits
<1>5. ObjectsPlaced(own2, zof2, z)
  BY <1>1 DEF ObjectsPlaced, HeapFits
<1>6. GlobalsFit(own2, thrown, mod)
  BY <1>1 DEF GlobalsFit, HeapFits
<1> QED BY <1>4, <1>5, <1>6 DEF HeapFits

\* Inner zones end.  Nothing outside holds an object of theirs.
LEMMA ZoneEndKeepsHeap ==
    ASSUME NEW own, NEW f, NEW z \in Nat, NEW thrown, NEW mod,
           HeapFits(own, zoneOf, f, z, thrown, mod), zoneOf \in [Objects -> Nat],
           NEW t \in Nat, t <= z,
           thrown \in Objects \cup {None}, mod \in Objects \cup {None}
    PROVE  HeapFits(WithoutZones(own, t + 1 .. z), zoneOf, f, t, thrown, mod)
<1> DEFINE left == WithoutZones(own, t + 1 .. z)
<1>1. ASSUME NEW o \in Objects
      PROVE  \/ left[o] = own[o] /\ (own[o] = "zone" => 1 <= zoneOf[o] /\ zoneOf[o] <= t)
             \/ left[o] = "freed" /\ own[o] = "zone" /\ zoneOf[o] > t
  <2>1. own[o] = "zone" => 1 <= zoneOf[o] /\ zoneOf[o] <= z
    BY DEF HeapFits, ObjectsPlaced
  <2>2. zoneOf[o] \in Nat /\ (zoneOf[o] \in t + 1 .. z <=> zoneOf[o] > t /\ zoneOf[o] <= z)
    OBVIOUS
  <2> QED BY <2>1, <2>2, ZonelessOwners
<1> HIDE DEF left
<1>2. ASSUME NEW x \in InUse(left), f[x] # None PROVE MayOutlive(left, zoneOf, x, f[x])
  <2>1. x \in Objects /\ left[x] = own[x] /\ x \in InUse(own)
    BY <1>1, <1>2, OwnersInUse
  <2>2. MayOutlive(own, zoneOf, x, f[x])
    BY <1>2, <2>1 DEF HeapFits, FieldsFit
  <2>3. f[x] \in Objects /\ f[x] \in InUse(own)
    BY <2>2, OwnersInUse DEF MayOutlive
  <2>4. left[f[x]] = own[f[x]]
    <3>1. CASE own[f[x]] # "zone"
      BY <1>1, <2>3, <3>1
    <3>2. CASE own[f[x]] = "zone"
      <4>1. own[x] = "zone" /\ zoneOf[f[x]] <= zoneOf[x]
        BY <2>1, <2>2, <3>2, OwnersInUse DEF MayOutlive
      <4>2. zoneOf[x] <= t /\ zoneOf[x] \in Nat /\ zoneOf[f[x]] \in Nat
        BY <1>1, <2>1, <2>3, <4>1
      <4> QED BY <1>1, <2>3, <3>2, <4>1, <4>2
    <3> QED BY <3>1, <3>2
  <2> QED BY <2>1, <2>2, <2>3, <2>4, OwnersInUse DEF MayOutlive
<1>3. FieldsFit(left, zoneOf, f)
  BY <1>1, <1>2 DEF FieldsFit, HeapFits
<1>4. ObjectsPlaced(left, zoneOf, t)
  BY <1>1 DEF ObjectsPlaced, HeapFits
<1>5. GlobalsFit(left, thrown, mod)
  BY <1>1 DEF GlobalsFit, HeapFits
<1> QED BY <1>3, <1>4, <1>5 DEF HeapFits, left

-----------------------------------------------------------------------------
(* Items of a stack. *)

\* Calls and zones are where the kinds say.
LEMMA KindPositions ==
    ASSUME NEW c, NEW d, NEW n \in Nat, \A i \in 1 .. n : c[i].kind = d[i].kind,
           NEW m \in 0 .. n
    PROVE  Calls(c, m) = Calls(d, m) /\ Zones(c, m) = Zones(d, m)
<1>1. \A i \in 1 .. m : c[i].kind = d[i].kind
  OBVIOUS
<1> QED BY <1>1 DEF Calls, Zones

\* The items of one stack fit when those of another of these kinds do, and each
\* is at most what it was there.
LEMMA ItemsFitAlike ==
    ASSUME NEW c, NEW d, NEW own, NEW zof, NEW own2, NEW zof2,
           Len(d) \in Nat, \A i \in 1 .. Len(d) : c[i].kind = d[i].kind,
           \A i \in 1 .. Len(d) : \A k \in Calls(c, i) :
               IsFrameOf(k, c, i) =>
                   ItemFits(d[i], Cardinality(Zones(c, i)), d[k].roots, own2, zof2)
    PROVE  ItemsFit(d, own2, zof2)
<1> SUFFICES ASSUME NEW i \in 1 .. Len(d), NEW k \in Calls(d, i), IsFrameOf(k, d, i)
             PROVE  ItemFits(d[i], Cardinality(Zones(d, i)), d[k].roots, own2, zof2)
  BY DEF ItemsFit
<1>1. Calls(c, i) = Calls(d, i) /\ Zones(c, i) = Zones(d, i)
  <2>1. i \in 0 .. Len(d)
    OBVIOUS
  <2> QED BY <2>1, KindPositions
<1> QED BY <1>1 DEF IsFrameOf

\* An item with fewer values and more slots, in storage that keeps the values.
LEMMA ItemFitsLess ==
    ASSUME NEW r, NEW n, NEW R, NEW own, NEW zof, ItemFits(r, n, R, own, zof),
           NEW q, Values(q) \subseteq Values(r), NEW R2,
           R \cap Values(q) \subseteq R2,
           NEW own2, NEW zof2,
           \A o \in Values(q) : own2[o] = own[o] /\ zof2[o] = zof[o],
           q.kind = "try" /\ q.pending # None => q.pending \in Values(q)
                                                 /\ own[q.pending] = "gc"
    PROVE  ItemFits(q, n, R2, own2, zof2)
<1>1. \A o \in Values(q) : o \in R2 /\ o \in InUse(own2)
  BY OwnersInUse DEF ItemFits
<1>2. \A o \in Values(q) : own2[o] = "zone" => zof2[o] <= n
  BY DEF ItemFits
<1>3. q.kind = "try" /\ q.pending # None => own2[q.pending] = "gc"
  OBVIOUS
<1> QED BY <1>1, <1>2, <1>3 DEF ItemFits

LEMMA ItemValues ==
    ASSUME NEW r \in Items
    PROVE  /\ Values(r) \subseteq Objects
           /\ r.vars \subseteq Values(r)
           /\ r.kind # "try" => Values(r) = r.vars
           /\ r.kind = "try" => /\ Values(r) = r.vars \cup References(r.result \cup {r.pending})
                                /\ r.pending # None => r.pending \in Values(r)
<1>1. r.vars \in SUBSET Objects
      /\ (r.kind = "try" => r.result \in SUBSET Objects /\ r.pending \in Objects \cup {None})
  BY ItemFields
<1> QED BY <1>1 DEF Values, Kept, References

\* The same item, in storage that keeps its values.
LEMMA ItemFitsStill ==
    ASSUME NEW r \in Items, NEW n, NEW R, NEW own, NEW zof, ItemFits(r, n, R, own, zof),
           NEW R2, R \cap Values(r) \subseteq R2, NEW own2, NEW zof2,
           \A o \in Values(r) : own2[o] = own[o] /\ zof2[o] = zof[o]
    PROVE  ItemFits(r, n, R2, own2, zof2)
<1>1. r.kind = "try" /\ r.pending # None => r.pending \in Values(r) /\ own[r.pending] = "gc"
  BY ItemValues DEF ItemFits
<1> QED BY <1>1, ItemFitsLess

\* Every item has a frame.
LEMMA FrameExists ==
    ASSUME NEW c, NEW n \in Nat, Nested(c, n), NEW i \in 1 .. n
    PROVE  \E k \in Calls(c, i) : IsFrameOf(k, c, i)
<1>1. Calls(c, i) \in SUBSET Nat /\ 1 \in Calls(c, i) /\ \A k \in Calls(c, i) : k <= i
  BY DEF Calls, Nested
<1>2. i \in Nat /\ Calls(c, i) # {}
  BY <1>1
<1>3. \E k \in Calls(c, i) : \A m \in Calls(c, i) : m <= k
  BY <1>1, <1>2, GreatestNumber
<1> QED BY <1>3 DEF IsFrameOf

\* From the innermost call on, it is the frame; before, it is not.
LEMMA FrameOfItems ==
    ASSUME NEW c, NEW s, NEW z, NEW h, Good(c, s, z, h),
           NEW i \in 1 .. Len(c), NEW k \in Calls(c, i), IsFrameOf(k, c, i)
    PROVE  /\ k \in 1 .. Len(c) /\ c[k].kind = "call" /\ k <= i
           /\ i >= s => k = s
           /\ i < s => k # s
<1>1. /\ Len(c) \in Nat /\ s \in 1 .. Len(c) /\ c[s].kind = "call"
      /\ \A m \in Calls(c, Len(c)) : m <= s
  BY FrameOfGood DEF Good, Matches, IsInnermost
<1>2. k \in 1 .. Len(c) /\ c[k].kind = "call" /\ k <= i /\ k <= s
  BY <1>1 DEF Calls
<1>3. i >= s => s \in Calls(c, i)
  BY <1>1 DEF Calls
<1> QED BY <1>1, <1>2, <1>3 DEF IsFrameOf

-----------------------------------------------------------------------------
(* What the operations of the program do to items. *)

StackFits(c, own, zof) == ItemsFit(c, own, zof) /\ SlotsFit(c, own)

LEMMA StackTypes ==
    ASSUME NEW c, NEW s, NEW z, NEW h, Good(c, s, z, h)
    PROVE  /\ c \in Seq(Items) /\ Len(c) \in Nat \ {0} /\ Nested(c, Len(c))
           /\ s \in 1 .. Len(c) /\ c[s].kind = "call" /\ Frame(c) = s
           /\ \A i \in 1 .. Len(c) : c[i] \in Items
           /\ Cardinality(Zones(c, Len(c))) = z
<1>1. c \in Seq(Items) /\ Nested(c, Len(c)) /\ Cardinality(Zones(c, Len(c))) = z
  BY DEF Good, Matches
<1>2. \A i \in 1 .. Len(c) : c[i] \in Items
  BY <1>1
<1> QED BY <1>1, <1>2, FrameOfGood

\* The values of an item are in use; those since the last call have its slots.
LEMMA ValuesFit ==
    ASSUME NEW c, NEW s, NEW z, NEW h, Good(c, s, z, h), NEW own, NEW zof,
           ItemsFit(c, own, zof), NEW i \in 1 .. Len(c)
    PROVE  /\ Values(c[i]) \subseteq InUse(own)
           /\ \A o \in Values(c[i]) : own[o] = "zone" => zof[o] <= Cardinality(Zones(c, i))
           /\ c[i].kind = "try" /\ c[i].pending # None => own[c[i].pending] = "gc"
           /\ i >= s => Values(c[i]) \subseteq c[s].roots
<1>1. Len(c) \in Nat /\ Nested(c, Len(c))
  BY StackTypes
<1>2. PICK k \in Calls(c, i) : IsFrameOf(k, c, i)
  BY <1>1, FrameExists
<1>3. ItemFits(c[i], Cardinality(Zones(c, i)), c[k].roots, own, zof)
  BY <1>2 DEF ItemsFit
<1>4. i >= s => k = s
  BY <1>2, FrameOfItems
<1> QED BY <1>3, <1>4 DEF ItemFits

\* Storage changes and leaves the values of the stack alone.
LEMMA StackStays ==
    ASSUME NEW c, NEW s, NEW z, NEW h, Good(c, s, z, h), NEW own, NEW zof,
           StackFits(c, own, zof), NEW own2, NEW zof2,
           \A i \in 1 .. Len(c) : \A o \in Values(c[i]) : own2[o] = own[o] /\ zof2[o] = zof[o],
           "zone" \notin Uses => \A i \in 1 .. Len(c) :
               c[i].kind = "call" => c[i].roots \subseteq InUse(own2)
    PROVE  StackFits(c, own2, zof2)
<1>1. Len(c) \in Nat /\ \A i \in 1 .. Len(c) : c[i] \in Items
  BY StackTypes
<1>2. ASSUME NEW i \in 1 .. Len(c), NEW k \in Calls(c, i), IsFrameOf(k, c, i)
      PROVE  ItemFits(c[i], Cardinality(Zones(c, i)), c[k].roots, own2, zof2)
  <2>1. ItemFits(c[i], Cardinality(Zones(c, i)), c[k].roots, own, zof)
    BY <1>2 DEF StackFits, ItemsFit
  <2>2. c[i] \in Items
    BY <1>1
  <2> QED BY <2>1, <2>2, ItemFitsStill
<1>3. ItemsFit(c, own2, zof2)
  BY <1>2 DEF ItemsFit
<1>4. SlotsFit(c, own2)
  BY DEF StackFits, SlotsFit
<1> QED BY <1>3, <1>4 DEF StackFits

\* The first items fit on their own.
LEMMA StackPrefix ==
    ASSUME NEW c, NEW s, NEW z, NEW h, Good(c, s, z, h), NEW own, NEW zof,
           StackFits(c, own, zof), NEW d, Len(d) \in Nat, Len(d) <= Len(c),
           \A i \in 1 .. Len(d) : d[i] = c[i]
    PROVE  StackFits(d, own, zof)
<1>1. ASSUME NEW i \in 1 .. Len(d), NEW k \in Calls(c, i), IsFrameOf(k, c, i)
      PROVE  ItemFits(d[i], Cardinality(Zones(c, i)), d[k].roots, own, zof)
  <2>1. i \in 1 .. Len(c) /\ k \in 1 .. Len(d) /\ k \in Calls(c, i)
    BY StackTypes DEF Calls
  <2>2. ItemFits(c[i], Cardinality(Zones(c, i)), c[k].roots, own, zof)
    BY <1>1, <2>1 DEF StackFits, ItemsFit
  <2> QED BY <2>1, <2>2
<1>2. ItemsFit(d, own, zof)
  BY <1>1, ItemsFitAlike
<1>3. SlotsFit(d, own)
  BY StackTypes DEF StackFits, SlotsFit
<1> QED BY <1>2, <1>3 DEF StackFits

\* Items keep their kinds; the last may take values that its frame has in slots,
\* the frame may gain slots, and lose those of no value.
LEMMA StackChanges ==
    ASSUME NEW c, NEW s, NEW z, NEW h, Good(c, s, z, h), NEW own, NEW zof,
           StackFits(c, own, zof), NEW d \in Seq(Items), Len(d) = Len(c),
           \A i \in 1 .. Len(c) : d[i].kind = c[i].kind,
           \A i \in 1 .. Len(c) - 1 :
               /\ Values(d[i]) = Values(c[i])
               /\ c[i].kind = "try" => d[i].pending = c[i].pending,
           Values(d[Len(c)]) \subseteq InUse(own),
           \A o \in Values(d[Len(c)]) : own[o] = "zone" => zof[o] <= z,
           d[Len(c)].kind = "try" /\ d[Len(c)].pending # None =>
               own[d[Len(c)].pending] = "gc",
           \A i \in 1 .. Len(c) : i # s /\ c[i].kind = "call" => d[i].roots = c[i].roots,
           \A i \in s .. Len(c) : Values(d[i]) \subseteq d[s].roots,
           "zone" \notin Uses => d[s].roots \subseteq InUse(own)
    PROVE  StackFits(d, own, zof)
<1> DEFINE n == Len(c)
<1>1. /\ n \in Nat \ {0} /\ s \in 1 .. n /\ Cardinality(Zones(c, n)) = z
      /\ \A i \in 1 .. n : c[i] \in Items
  BY StackTypes
<1>2. ASSUME NEW i \in 1 .. n, NEW k \in Calls(c, i), IsFrameOf(k, c, i)
      PROVE  ItemFits(d[i], Cardinality(Zones(c, i)), d[k].roots, own, zof)
  <2>1. /\ k \in 1 .. n /\ c[k].kind = "call"
        /\ i >= s => k = s
        /\ i < s => k # s
    BY <1>2, FrameOfItems
  <2>2. /\ Values(c[i]) \subseteq InUse(own)
        /\ \A o \in Values(c[i]) : own[o] = "zone" => zof[o] <= Cardinality(Zones(c, i))
        /\ c[i].kind = "try" /\ c[i].pending # None => own[c[i].pending] = "gc"
    BY ValuesFit DEF StackFits
  <2>3. Values(d[i]) \subseteq d[k].roots
    <3>1. CASE i >= s
      BY <1>1, <2>1, <3>1
    <3>2. CASE i < s
      <4>1. Values(c[i]) \subseteq c[k].roots
        BY <1>2 DEF StackFits, ItemsFit, ItemFits
      <4>2. d[k].roots = c[k].roots /\ Values(d[i]) = Values(c[i])
        BY <1>1, <2>1, <3>2
      <4> QED BY <4>1, <4>2
    <3> QED BY <1>1, <3>1, <3>2
  <2>4. CASE i = n
    BY <1>1, <2>3, <2>4 DEF ItemFits
  <2>5. CASE i # n
    <3>1. /\ Values(d[i]) = Values(c[i]) /\ d[i].kind = c[i].kind
          /\ c[i].kind = "try" => d[i].pending = c[i].pending
      BY <1>1, <2>5
    <3> QED BY <2>2, <2>3, <3>1 DEF ItemFits
  <2> QED BY <2>4, <2>5
<1>3. ItemsFit(d, own, zof)
  BY <1>1, <1>2, ItemsFitAlike
<1>4. SlotsFit(d, own)
  <2> SUFFICES ASSUME "zone" \notin Uses, NEW i \in 1 .. n
               PROVE  /\ d[i].kind # "zone"
                      /\ d[i].kind = "call" => d[i].roots \subseteq InUse(own)
    BY DEF SlotsFit
  <2>1. c[i].kind # "zone" /\ (c[i].kind = "call" => c[i].roots \subseteq InUse(own))
    BY DEF StackFits, SlotsFit
  <2> QED BY <2>1
<1> QED BY <1>3, <1>4 DEF StackFits

\* What changes in an item when values are bound.
LEMMA BoundItems ==
    ASSUME NEW c, NEW s, NEW z, NEW h, Good(c, s, z, h), NEW V \in SUBSET Objects,
           NEW d, d = Bind(c, V), NEW n, n = Len(c)
    PROVE  /\ d \in Seq(Items) /\ Len(d) = n
           /\ \A i \in 1 .. n :
                 /\ d[i].kind = c[i].kind
                 /\ c[i].kind = "try" => d[i].pending = c[i].pending
                 /\ i # n => Values(d[i]) = Values(c[i])
                 /\ i # s /\ c[i].kind = "call" => d[i].roots = c[i].roots
           /\ Values(d[n]) = Values(c[n]) \cup V
           /\ d[s].roots = c[s].roots \cup V
<1> DEFINE r == [c[n] EXCEPT !.vars = c[n].vars \cup V]
           e == [c EXCEPT ![n] = r]
           q == [e[s] EXCEPT !.roots = e[s].roots \cup V]
<1>1. /\ c \in Seq(Items) /\ n \in Nat \ {0} /\ n \in 1 .. n
      /\ s \in 1 .. n /\ c[s].kind = "call" /\ Frame(c) = s
      /\ \A i \in 1 .. n : c[i] \in Items
  BY StackTypes
<1>2. d \in Seq(Items) /\ Len(d) = n
  BY GoodBind DEF Good
<1>3. /\ r \in Items /\ r.kind = c[n].kind /\ r.vars = c[n].vars \cup V
      /\ r.kind = "call" => r.roots = c[n].roots
      /\ r.kind = "try" => r.result = c[n].result /\ r.pending = c[n].pending
  <2>1. c[n] \in Items /\ c[n].vars \in SUBSET Objects
    BY <1>1, ItemFields
  <2>2. r \in Items
    BY <2>1, WithVars
  <2> QED BY <2>1, <2>2 DEF Items, TryItems
<1>4. Values(r) = Values(c[n]) \cup V
  BY <1>1, <1>3, ItemValues
<1>5. /\ e \in Seq(Items) /\ Len(e) = n /\ e[n] = r
      /\ \A i \in 1 .. n : i # n => e[i] = c[i]
  <2> HIDE DEF r
  <2> QED BY <1>1, <1>3
<1>6. d = [e EXCEPT ![s] = q]
  BY <1>1 DEF Bind
<1>7. e[s] \in Items /\ e[s].kind = "call" /\ e[s].roots = c[s].roots
  <2> HIDE DEF r, e
  <2>1. CASE s = n
    BY <1>1, <1>3, <1>5, <2>1
  <2>2. CASE s # n
    BY <1>1, <1>5, <2>2
  <2> QED BY <2>1, <2>2
<1>8. q \in Items /\ q.kind = "call" /\ q.vars = e[s].vars /\ q.roots = c[s].roots \cup V
  <2> HIDE DEF e
  <2>1. e[s].roots \cup V \in SUBSET Objects
    BY <1>7, ItemFields
  <2>2. q \in Items
    BY <1>7, <2>1, WithRoots
  <2> QED BY <1>7, <2>2 DEF Items, TryItems
<1>9. Values(q) = Values(e[s])
  BY <1>7, <1>8, ItemValues
<1>10. d[s] = q /\ \A i \in 1 .. n : i # s => d[i] = e[i]
  <2> HIDE DEF q, e
  <2> QED BY <1>1, <1>5, <1>6
<1> HIDE DEF q, e, r
<1>11. ASSUME NEW i \in 1 .. n
       PROVE  /\ d[i].kind = c[i].kind
              /\ c[i].kind = "try" => d[i].pending = c[i].pending
              /\ i # n => Values(d[i]) = Values(c[i])
              /\ i # s /\ c[i].kind = "call" => d[i].roots = c[i].roots
  <2>1. CASE i = s
    BY <1>1, <1>5, <1>8, <1>9, <1>10, <2>1
  <2>2. CASE i # s
    BY <1>3, <1>5, <1>10, <2>2
  <2> QED BY <2>1, <2>2
<1>12. Values(d[n]) = Values(c[n]) \cup V
  BY <1>1, <1>4, <1>5, <1>9, <1>10
<1> QED BY <1>2, <1>8, <1>10, <1>11, <1>12

\* Values in use may be bound.
LEMMA StackBind ==
    ASSUME NEW c, NEW s, NEW z, NEW h, Good(c, s, z, h), NEW own, NEW zof,
           StackFits(c, own, zof), NEW V \in SUBSET InUse(own),
           \A o \in V : own[o] = "zone" => zof[o] <= z
    PROVE  StackFits(Bind(c, V), own, zof)
<1> DEFINE d == Bind(c, V)
           n == Len(c)
<1>1. n \in Nat \ {0} /\ s \in 1 .. n /\ Cardinality(Zones(c, n)) = z /\ c[s].kind = "call"
  BY StackTypes
<1>2. V \in SUBSET Objects
  BY OwnersInUse
<1>3. /\ d \in Seq(Items) /\ Len(d) = n
      /\ \A i \in 1 .. n :
            /\ d[i].kind = c[i].kind
            /\ c[i].kind = "try" => d[i].pending = c[i].pending
            /\ i # n => Values(d[i]) = Values(c[i])
            /\ i # s /\ c[i].kind = "call" => d[i].roots = c[i].roots
      /\ Values(d[n]) = Values(c[n]) \cup V
      /\ d[s].roots = c[s].roots \cup V
  BY <1>2, BoundItems
<1> HIDE DEF d
<1>4. /\ Values(c[n]) \subseteq InUse(own)
      /\ \A o \in Values(c[n]) : own[o] = "zone" => zof[o] <= z
      /\ c[n].kind = "try" /\ c[n].pending # None => own[c[n].pending] = "gc"
  BY <1>1, ValuesFit DEF StackFits
<1>5. \A i \in s .. n : Values(c[i]) \subseteq c[s].roots
  BY <1>1, ValuesFit DEF StackFits
<1>6. \A i \in s .. n : Values(d[i]) \subseteq d[s].roots
  BY <1>1, <1>3, <1>5
<1>7. "zone" \notin Uses => d[s].roots \subseteq InUse(own)
  BY <1>1, <1>3 DEF StackFits, SlotsFit
<1>8. /\ Values(d[n]) \subseteq InUse(own)
      /\ \A o \in Values(d[n]) : own[o] = "zone" => zof[o] <= z
      /\ d[n].kind = "try" /\ d[n].pending # None => own[d[n].pending] = "gc"
  BY <1>1, <1>3, <1>4
<1>9. \A i \in 1 .. n - 1 : /\ Values(d[i]) = Values(c[i])
                            /\ c[i].kind = "try" => d[i].pending = c[i].pending
  BY <1>1, <1>3
<1>10. StackFits(d, own, zof)
  BY <1>1, <1>3, <1>6, <1>7, <1>8, <1>9, StackChanges
<1> QED BY <1>10 DEF d

\* Slots of values that are out of scope may be overwritten.
LEMMA StackReleased ==
    ASSUME NEW c, NEW s, NEW z, NEW h, Good(c, s, z, h), NEW own, NEW zof,
           StackFits(c, own, zof), NEW V, NEW d \in Released(c, V)
    PROVE  StackFits(d, own, zof)
<1> DEFINE n == Len(c)
           held == UNION {c[i].vars \cup Kept(c[i]) : i \in Frame(c) .. Len(c)}
           q == [c[s] EXCEPT !.roots = c[s].roots \ (V \ held)]
<1>1. /\ c \in Seq(Items) /\ n \in Nat \ {0} /\ Frame(c) = s
      /\ s \in 1 .. n /\ Cardinality(Zones(c, n)) = z /\ c[s].kind = "call"
      /\ \A i \in 1 .. n : c[i] \in Items
  BY StackTypes
<1>2. CASE d = c
  BY <1>2
<1>3. CASE d = [c EXCEPT ![s] = q]
  <2>1. q \in Items /\ q.kind = "call" /\ q.vars = c[s].vars
        /\ q.roots = c[s].roots \ (V \ held)
    <3> HIDE DEF held
    <3>1. c[s] \in Items /\ c[s].roots \ (V \ held) \in SUBSET Objects
      BY <1>1, ItemFields
    <3>2. q \in Items
      BY <1>1, <3>1, WithRoots
    <3> QED BY <1>1, <3>1, <3>2 DEF Items, TryItems
  <2>2. Values(q) = Values(c[s])
    BY <1>1, <2>1, ItemValues
  <2>3. /\ d \in Seq(Items) /\ Len(d) = n /\ d[s] = q
        /\ \A i \in 1 .. n : i # s => d[i] = c[i]
    <3> HIDE DEF q
    <3> QED BY <1>1, <1>3, <2>1
  <2>4. \A i \in s .. n : Values(c[i]) \subseteq held /\ Values(c[i]) \subseteq c[s].roots
    <3>1. \A i \in s .. n : Values(c[i]) \subseteq held
      BY <1>1 DEF Values
    <3>2. \A i \in s .. n : Values(c[i]) \subseteq c[s].roots
      BY <1>1, ValuesFit DEF StackFits
    <3> QED BY <3>1, <3>2
  <2> HIDE DEF q, held
  <2>5. /\ \A i \in 1 .. n : d[i].kind = c[i].kind
        /\ \A i \in 1 .. n : /\ Values(d[i]) = Values(c[i])
                             /\ c[i].kind = "try" => d[i].pending = c[i].pending
        /\ \A i \in 1 .. n : i # s /\ c[i].kind = "call" => d[i].roots = c[i].roots
    BY <1>1, <2>1, <2>2, <2>3
  <2>6. \A i \in s .. n : Values(d[i]) \subseteq d[s].roots
    BY <1>1, <2>1, <2>3, <2>4, <2>5
  <2>7. "zone" \notin Uses => d[s].roots \subseteq InUse(own)
    BY <1>1, <2>1, <2>3 DEF StackFits, SlotsFit
  <2>8. /\ Values(c[n]) \subseteq InUse(own)
        /\ \A o \in Values(c[n]) : own[o] = "zone" => zof[o] <= z
        /\ c[n].kind = "try" /\ c[n].pending # None => own[c[n].pending] = "gc"
    BY <1>1, ValuesFit DEF StackFits
  <2>9. /\ Values(d[n]) \subseteq InUse(own)
        /\ \A o \in Values(d[n]) : own[o] = "zone" => zof[o] <= z
        /\ d[n].kind = "try" /\ d[n].pending # None => own[d[n].pending] = "gc"
    BY <1>1, <2>5, <2>8
  <2>10. \A i \in 1 .. n - 1 : /\ Values(d[i]) = Values(c[i])
                               /\ c[i].kind = "try" => d[i].pending = c[i].pending
    BY <1>1, <2>5
  <2> QED BY <1>1, <2>3, <2>5, <2>6, <2>7, <2>9, <2>10, StackChanges
<1>4. d \in {c, [c EXCEPT ![s] = q]}
  BY <1>1 DEF Released
<1> QED BY <1>2, <1>3, <1>4

\* A scope begins, with values in use that are its own.
LEMMA StackPush ==
    ASSUME NEW c, NEW s, NEW z, NEW h, Good(c, s, z, h), NEW own, NEW zof,
           StackFits(c, own, zof), NEW r \in Items,
           Values(r) \subseteq InUse(own),
           \A o \in Values(r) : own[o] = "zone" => zof[o] <= z,
           r.kind = "try" => r.pending = None,
           r.kind # "call" => Values(r) = {},
           r.kind = "call" => r.roots = Values(r),
           r.kind = "zone" => "zone" \in Uses
    PROVE  StackFits(Append(c, r), own, zof)
<1> DEFINE n == Len(c)
           m == n + 1
           d == Append(c, r)
<1>1. /\ c \in Seq(Items) /\ n \in Nat \ {0} /\ Nested(c, n)
      /\ s \in 1 .. n /\ Cardinality(Zones(c, n)) = z /\ c[s].kind = "call"
      /\ \A i \in 1 .. n : c[i] \in Items
  BY StackTypes
<1>2. Len(d) = m /\ d[m] = r /\ \A i \in 1 .. n : d[i] = c[i]
  BY <1>1
<1>3. 1 .. m = (1 .. n) \cup {m} /\ m \notin 1 .. n /\ m \in Nat
  BY <1>1
<1> HIDE DEF d, m
<1>4. \A i \in 1 .. n : Calls(d, i) = Calls(c, i) /\ Zones(d, i) = Zones(c, i)
  <2>1. ASSUME NEW i \in 1 .. n PROVE Calls(d, i) = Calls(c, i) /\ Zones(d, i) = Zones(c, i)
    <3>1. \A j \in 1 .. i : d[j] = c[j]
      BY <1>1, <1>2
    <3> QED BY <3>1 DEF Calls, Zones
  <2> QED BY <2>1
<1>5. ASSUME NEW i \in 1 .. n, NEW k \in Calls(d, i), IsFrameOf(k, d, i)
      PROVE  ItemFits(d[i], Cardinality(Zones(d, i)), d[k].roots, own, zof)
  <2>1. k \in Calls(c, i) /\ IsFrameOf(k, c, i) /\ k \in 1 .. n
    BY <1>1, <1>4, <1>5 DEF IsFrameOf, Calls
  <2>2. ItemFits(c[i], Cardinality(Zones(c, i)), c[k].roots, own, zof)
    BY <2>1 DEF StackFits, ItemsFit
  <2> QED BY <1>2, <1>4, <2>1, <2>2
<1>6. ASSUME NEW k \in Calls(d, m), IsFrameOf(k, d, m)
      PROVE  ItemFits(d[m], Cardinality(Zones(d, m)), d[k].roots, own, zof)
  <2>1. CASE r.kind = "call"
    <3>1. Zones(d, m) = Zones(c, n)
      <4>1. Zones(d, m) = Zones(d, n)
        BY <1>2, <1>3, <2>1 DEF Zones
      <4>2. n \in 1 .. n
        BY <1>1
      <4> QED BY <1>4, <4>1, <4>2
    <3>2. m \in Calls(d, m) /\ k \in 1 .. m
      BY <1>2, <1>3, <2>1 DEF Calls
    <3>3. k = m
      BY <1>3, <1>6, <3>2 DEF IsFrameOf
    <3> QED BY <1>1, <1>2, <2>1, <3>1, <3>3 DEF ItemFits
  <2>2. CASE r.kind # "call"
    BY <1>2, <2>2 DEF ItemFits
  <2> QED BY <2>1, <2>2
<1>7. ItemsFit(d, own, zof)
  BY <1>2, <1>3, <1>5, <1>6 DEF ItemsFit
<1>8. SlotsFit(d, own)
  <2> SUFFICES ASSUME "zone" \notin Uses, NEW i \in 1 .. m
               PROVE  /\ d[i].kind # "zone"
                      /\ d[i].kind = "call" => d[i].roots \subseteq InUse(own)
    BY <1>2 DEF SlotsFit
  <2>1. CASE i = m
    BY <1>2, <2>1
  <2>2. CASE i # m
    <3>1. i \in 1 .. n
      BY <1>3, <2>2
    <3> QED BY <1>2, <3>1 DEF StackFits, SlotsFit
  <2> QED BY <2>1, <2>2
<1> QED BY <1>7, <1>8 DEF StackFits, d

\* The last scope ends.
LEMMA StackPop ==
    ASSUME NEW c, NEW s, NEW z, NEW h, Good(c, s, z, h), Len(c) > 1, NEW own, NEW zof,
           StackFits(c, own, zof)
    PROVE  StackFits(Below(c), own, zof)
<1> DEFINE d == Below(c)
<1>1. c \in Seq(Items) /\ Len(c) \in Nat \ {0}
  BY StackTypes
<1>2. /\ Len(d) \in Nat /\ Len(d) <= Len(c)
      /\ \A i \in 1 .. Len(d) : d[i] = c[i]
  BY <1>1 DEF Below
<1> HIDE DEF d
<1>3. StackFits(d, own, zof)
  BY <1>2, StackPrefix
<1> QED BY <1>3 DEF d

\* A try at the end of a stack goes on to another phase: what it has then was in
\* scope, is in slots of the frame or was its own.
LEMMA StackPhase ==
    ASSUME NEW c, NEW s, NEW z, NEW h, Good(c, s, z, h), NEW own, NEW zof,
           StackFits(c, own, zof), c[Len(c)].kind = "try", NEW q \in Items, q.kind = "try",
           Values(q) \subseteq InUse(own) \cap c[s].roots,
           \A o \in Values(q) : own[o] = "zone" => zof[o] <= z,
           q.pending # None => own[q.pending] = "gc"
    PROVE  StackFits([c EXCEPT ![Len(c)] = q], own, zof)
<1> DEFINE n == Len(c)
           d == [c EXCEPT ![n] = q]
<1>1. /\ c \in Seq(Items) /\ n \in Nat \ {0} /\ n \in 1 .. n
      /\ s \in 1 .. n /\ Cardinality(Zones(c, n)) = z /\ c[s].kind = "call"
      /\ \A i \in 1 .. n : c[i] \in Items
  BY StackTypes
<1>2. /\ d \in Seq(Items) /\ Len(d) = n /\ d[n] = q
      /\ \A i \in 1 .. n : i # n => d[i] = c[i]
  BY <1>1
<1> HIDE DEF d
<1>3. s # n /\ d[s] = c[s]
  BY <1>1, <1>2
<1>4. /\ \A i \in 1 .. n : d[i].kind = c[i].kind
      /\ \A i \in 1 .. n - 1 : /\ Values(d[i]) = Values(c[i])
                               /\ c[i].kind = "try" => d[i].pending = c[i].pending
      /\ \A i \in 1 .. n : i # s /\ c[i].kind = "call" => d[i].roots = c[i].roots
  BY <1>1, <1>2
<1>5. \A i \in s .. n : Values(c[i]) \subseteq c[s].roots
  BY <1>1, ValuesFit DEF StackFits
<1>6. \A i \in s .. n : Values(d[i]) \subseteq d[s].roots
  BY <1>1, <1>2, <1>3, <1>5
<1>7. "zone" \notin Uses => d[s].roots \subseteq InUse(own)
  BY <1>1, <1>3 DEF StackFits, SlotsFit
<1>8. StackFits(d, own, zof)
  BY <1>1, <1>2, <1>4, <1>6, <1>7, StackChanges
<1> QED BY <1>8 DEF d

\* A try that is on the stack raises; what is above it is abandoned.
LEMMA StackCut ==
    ASSUME NEW c, NEW s, NEW z, NEW h, Good(c, s, z, h), h > 0, NEW own, NEW zof,
           StackFits(c, own, zof)
    PROVE  StackFits(Unwound(c, h), own, zof)
<1> DEFINE d == Unwound(c, h)
           e == SubSeq(c, 1, h)
           r == [c[h] EXCEPT !.phase = "raised", !.vars = {}]
<1>1. /\ c \in Seq(Items) /\ Len(c) \in Nat
      /\ \A i \in 1 .. Len(c) : c[i] \in Items
  BY StackTypes
<1>2. h \in 2 .. Len(c) /\ h \in 1 .. Len(c) /\ c[h] \in Items /\ c[h].kind = "try"
  BY HandlerSaved
<1>3. /\ r \in Items /\ r.kind = "try" /\ r.vars = {}
      /\ r.result = c[h].result /\ r.pending = c[h].pending
  BY <1>2 DEF Items, TryItems, Phases
<1>4. Values(r) \subseteq Values(c[h]) /\ (r.pending # None => r.pending \in Values(r))
  BY <1>2, <1>3, ItemValues
<1>5. e \in Seq(Items) /\ Len(e) = h /\ \A i \in 1 .. h : e[i] = c[i]
  BY <1>1, <1>2
<1>6. d = [e EXCEPT ![h] = r]
  <2>1. d = [e EXCEPT ![h] = [e[h] EXCEPT !.phase = "raised", !.vars = {}]]
    BY DEF Unwound
  <2>2. e[h] = c[h]
    BY <1>2, <1>5
  <2> HIDE DEF d, e
  <2> QED BY <2>1, <2>2
<1>7. d \in Seq(Items) /\ Len(d) = h /\ d[h] = r /\ \A i \in 1 .. h : i # h => d[i] = c[i]
  <2> HIDE DEF d, e, r
  <2> QED BY <1>2, <1>3, <1>5, <1>6
<1> HIDE DEF d, e, r
<1>8. ASSUME NEW i \in 1 .. h, NEW k \in Calls(c, i), IsFrameOf(k, c, i)
      PROVE  ItemFits(d[i], Cardinality(Zones(c, i)), d[k].roots, own, zof)
  <2>1. i \in 1 .. Len(c) /\ k \in 1 .. h /\ c[k].kind = "call"
    BY <1>2 DEF Calls
  <2>2. ItemFits(c[i], Cardinality(Zones(c, i)), c[k].roots, own, zof)
    BY <1>8, <2>1 DEF StackFits, ItemsFit
  <2>3. k # h /\ d[k] = c[k]
    BY <1>2, <1>7, <2>1
  <2>4. CASE i = h
    BY <1>2, <1>3, <1>4, <1>7, <2>2, <2>3, <2>4 DEF ItemFits
  <2>5. CASE i # h
    BY <1>7, <2>2, <2>3, <2>5
  <2> QED BY <2>4, <2>5
<1>9. \A i \in 1 .. h : d[i].kind = c[i].kind
  BY <1>2, <1>3, <1>7
<1>10. ItemsFit(d, own, zof)
  <2>1. Len(d) = h /\ h \in Nat
    BY <1>2, <1>7
  <2>2. /\ \A i \in 1 .. Len(d) : c[i].kind = d[i].kind
        /\ \A i \in 1 .. Len(d) : \A k \in Calls(c, i) :
               IsFrameOf(k, c, i) =>
                   ItemFits(d[i], Cardinality(Zones(c, i)), d[k].roots, own, zof)
    BY <1>8, <1>9, <2>1
  <2> QED BY <2>1, <2>2, ItemsFitAlike
<1>11. SlotsFit(d, own)
  <2> SUFFICES ASSUME "zone" \notin Uses, NEW i \in 1 .. h
               PROVE  /\ d[i].kind # "zone"
                      /\ d[i].kind = "call" => d[i].roots \subseteq InUse(own)
    BY <1>7 DEF SlotsFit
  <2>1. i \in 1 .. Len(c)
    BY <1>1, <1>2
  <2>2. c[i].kind # "zone" /\ (c[i].kind = "call" => c[i].roots \subseteq InUse(own))
    BY <2>1 DEF StackFits, SlotsFit
  <2>3. CASE i = h
    BY <1>3, <1>7, <2>3
  <2>4. CASE i # h
    BY <1>7, <2>2, <2>4
  <2> QED BY <2>3, <2>4
<1> QED BY <1>10, <1>11 DEF StackFits, d

-----------------------------------------------------------------------------
(* Storage while the program runs. *)

\* Values of a stack are in zones that are open.
LEMMA ValueLevels ==
    ASSUME NEW c, NEW s, NEW z, NEW h, Good(c, s, z, h), NEW own, NEW zof \in [Objects -> Nat],
           ItemsFit(c, own, zof), NEW i \in 1 .. Len(c), NEW o \in Values(c[i]),
           own[o] = "zone"
    PROVE  zof[o] <= z
<1>1. Len(c) \in Nat /\ i \in Nat /\ Cardinality(Zones(c, Len(c))) = z
  BY StackTypes
<1>2. Zones(c, i) \subseteq Zones(c, Len(c))
  BY <1>1 DEF Zones
<1>3. Cardinality(Zones(c, i)) <= z /\ Cardinality(Zones(c, i)) \in Nat /\ z \in Nat
  BY <1>1, <1>2, ZonesFinite, FS_Subset
<1>4. zof[o] <= Cardinality(Zones(c, i)) /\ o \in InUse(own)
  BY ValuesFit
<1>5. zof[o] \in Nat
  BY <1>4, OwnersInUse
<1> QED BY <1>3, <1>4, <1>5

LEMMA RunningStorage ==
    ASSUME StorageInv, Running
    PROVE  /\ NestingInv /\ Others /\ Good(control, shadow, zone, handler)
           /\ HeapFits(owner, zoneOf, field, zone, exception, module)
           /\ StackFits(control, owner, zoneOf)
           /\ Visible \subseteq InUse(owner)
           /\ Visible \subseteq control[shadow].roots
           /\ \A o \in Objects : owner[o] = "zone" => 1 <= zoneOf[o] /\ zoneOf[o] <= zone
<1>1. NestingInv /\ Others /\ Good(control, shadow, zone, handler)
  BY RunningState DEF StorageInv
<1>2. HeapFits(owner, zoneOf, field, zone, exception, module)
      /\ StackFits(control, owner, zoneOf)
  BY DEF StorageInv, Storage, StorageFits, StackFits
<1>3. ASSUME NEW i \in Frame(control) .. Depth
      PROVE  control[i].vars \subseteq InUse(owner) \cap control[shadow].roots
  <2>1. i \in 1 .. Len(control) /\ i >= shadow
    BY <1>1, <1>3, StackTypes DEF Depth
  <2>2. Values(control[i]) \subseteq InUse(owner) \cap control[shadow].roots
    BY <1>1, <1>2, <2>1, ValuesFit DEF StackFits
  <2> QED BY <2>2 DEF Values
<1>4. \A o \in Objects : owner[o] = "zone" => 1 <= zoneOf[o] /\ zoneOf[o] <= zone
  BY <1>2 DEF HeapFits, ObjectsPlaced
<1> QED BY <1>1, <1>2, <1>3, <1>4 DEF Visible

\* The slots of the frames that a collection sees hold nothing that is freed
\* when no zone is ever used.
SlotsInUse(own, top) == \A i \in Linked(top) : control[i].roots \subseteq InUse(own)

LEMMA FramesAreInUse ==
    ASSUME Good(control, shadow, zone, handler), NEW own, SlotsFit(control, own),
           "zone" \notin Uses, NEW top
    PROVE  SlotsInUse(own, top)
<1>1. \A i \in Linked(top) : i \in 1 .. Len(control) /\ control[i].kind = "call"
  BY LinkedFrames DEF Calls, Depth
<1> QED BY <1>1 DEF SlotsInUse, SlotsFit

LEMMA RootsOfCollection ==
    ASSUME NEW top, NEW thrown, NEW o
    PROVE  o \in GcRoots(top, thrown) <=>
               /\ o # None
               /\ \/ \E i \in Linked(top) : o \in control[i].roots
                  \/ o = thrown \/ o = module
<1> DEFINE slots == UNION {control[i].roots : i \in Linked(top)}
<1>1. o \in slots <=> \E i \in Linked(top) : o \in control[i].roots
  OBVIOUS
<1>2. GcRoots(top, thrown) = (slots \cup {thrown, module}) \ {None}
  BY DEF GcRoots, References
<1> HIDE DEF slots
<1> QED BY <1>1, <1>2

LEMMA NothingMisread ==
    ASSUME Others, NEW own, NEW top, SlotsInUse(own, top),
           NEW thrown \in Objects \cup {None}, NEW z, HeapFits(own, zoneOf, field, z, thrown, module)
    PROVE  MisreadBy(own, top, thrown) = {}
<1> DEFINE roots == GcRoots(top, thrown)
<1>1. \A o \in roots : o \in InUse(own)
  <2> SUFFICES ASSUME NEW o \in roots PROVE o \in InUse(own)
    OBVIOUS
  <2>1. CASE \E i \in Linked(top) : o \in control[i].roots
    BY <2>1 DEF SlotsInUse
  <2>2. CASE o \in {thrown, module} /\ o # None
    BY <2>2, OwnersInUse DEF HeapFits, GlobalsFit, Others
  <2> QED BY <2>1, <2>2, RootsOfCollection
<1>2. \A o \in Marked(roots, own, field) : field[o] # None => field[o] \in InUse(own)
  <2> HIDE DEF roots
  <2> SUFFICES ASSUME NEW o \in Marked(roots, own, field), field[o] # None
               PROVE  field[o] \in InUse(own)
    OBVIOUS
  <2>1. o \in InUse(own) /\ o \in Objects
    BY MarkedObjects, OwnersInUse
  <2> QED BY <2>1 DEF HeapFits, FieldsFit, MayOutlive
<1>3. \A o \in InUse(own) : o \notin FreedIn(own)
  BY DEF InUse, FreedIn
<1> HIDE DEF roots
<1>4. Inspected(roots, own, field) \cap FreedIn(own) = {}
  BY <1>1, <1>2, <1>3 DEF Inspected, References
<1> QED BY <1>4 DEF MisreadBy, roots

\* A collection of a running program: it sees every frame, so it keeps every
\* value of the program.
LEMMA CollectionIsSafe ==
    ASSUME StorageInv, Running,
           NEW STATE left, left = AfterCollection(owner, shadow, exception)
    PROVE  /\ left \in [Objects -> Owners]
           /\ \A o \in Objects : left[o] = "unused" <=> owner[o] = "unused"
           /\ HeapFits(left, zoneOf, field, zone, exception, module)
           /\ StackFits(control, left, zoneOf)
           /\ "zone" \notin Uses => MisreadBy(owner, shadow, exception) = {}
<1> DEFINE roots == GcRoots(shadow, exception)
<1>1. /\ Others /\ Good(control, shadow, zone, handler)
      /\ HeapFits(owner, zoneOf, field, zone, exception, module)
      /\ StackFits(control, owner, zoneOf)
  BY RunningStorage
<1>2. left = Swept(roots, owner, field) /\ left \in [Objects -> Owners]
  BY <1>1, StorageTypes DEF AfterCollection, Others
<1>3. References({exception, module}) \subseteq roots
  BY RootsOfCollection DEF References
<1>4. \A k \in Calls(control, Depth) : \A o \in control[k].roots : o # None => o \in roots
  BY <1>1, EveryCallIsLinked, RootsOfCollection
<1> HIDE DEF roots
<1>5. HeapFits(left, zoneOf, field, zone, exception, module)
  BY <1>1, <1>2, <1>3, SweepKeepsHeap DEF Others
<1>6. ASSUME NEW o \in Objects, o \in roots \/ owner[o] # "gc" PROVE left[o] = owner[o]
  BY <1>2, <1>6, MarkedObjects, SweptOwners
<1>7. ASSUME NEW i \in 1 .. Len(control), NEW o \in Values(control[i])
      PROVE  left[o] = owner[o]
  <2>1. Nested(control, Len(control)) /\ Len(control) \in Nat
    BY <1>1, StackTypes
  <2>2. PICK k \in Calls(control, i) : IsFrameOf(k, control, i)
    BY <2>1, FrameExists
  <2>3. o \in control[k].roots /\ o \in InUse(owner)
    BY <1>1, <2>2 DEF StackFits, ItemsFit, ItemFits
  <2>4. k \in Calls(control, Depth)
    BY <2>1, <2>2 DEF Calls, Depth
  <2>5. o \in Objects /\ o # None
    BY <2>3, OwnersInUse, NoneIsNoObject
  <2> QED BY <1>4, <1>6, <2>3, <2>4, <2>5
<1>8. ASSUME "zone" \notin Uses, NEW i \in 1 .. Len(control), control[i].kind = "call"
      PROVE  control[i].roots \subseteq InUse(left)
  <2>1. i \in Calls(control, Depth)
    BY <1>8 DEF Calls, Depth
  <2>2. control[i].roots \subseteq InUse(owner)
    BY <1>1, <1>8 DEF StackFits, SlotsFit
  <2>3. ASSUME NEW o \in control[i].roots PROVE o \in InUse(left)
    <3>1. o \in InUse(owner) /\ o \in Objects /\ o # None
      BY <2>2, OwnersInUse, NoneIsNoObject
    <3>2. left[o] = owner[o]
      BY <1>4, <1>6, <2>1, <3>1
    <3> QED BY <3>1, <3>2, OwnersInUse
  <2> QED BY <2>3
<1>9. StackFits(control, left, zoneOf)
  BY <1>1, <1>7, <1>8, StackStays
<1>10. "zone" \notin Uses => MisreadBy(owner, shadow, exception) = {}
  BY <1>1, FramesAreInUse, NothingMisread DEF StackFits, Others
<1>11. \A o \in Objects : left[o] = "unused" <=> owner[o] = "unused"
  BY <1>2 DEF Swept
<1> QED BY <1>2, <1>5, <1>9, <1>10, <1>11

\* The poll and the allocation after it.
LEMMA AllocationIsSafe ==
    ASSUME StorageInv, Running, NEW o \in Objects, owner[o] = "unused",
           NEW STATE own, own = Allocated(o, shadow)
    PROVE  /\ own \in [Objects -> Owners] /\ own[o] = "gc"
           /\ HeapFits(own, zoneOf, field, zone, exception, module)
           /\ StackFits(control, own, zoneOf)
           /\ "zone" \notin Uses => MisreadByPoll(shadow) = {}
<1> DEFINE left == AfterPoll(shadow)
<1>1. /\ left \in [Objects -> Owners] /\ left[o] = "unused"
      /\ HeapFits(left, zoneOf, field, zone, exception, module)
      /\ StackFits(control, left, zoneOf)
      /\ "zone" \notin Uses => MisreadByPoll(shadow) = {}
  <2>1. CASE PollIsDue
    BY <2>1, CollectionIsSafe DEF AfterPoll, MisreadByPoll
  <2>2. CASE ~ PollIsDue
    BY <2>2, RunningStorage DEF AfterPoll, MisreadByPoll, Others
  <2> QED BY <2>1, <2>2
<1>2. own = [left EXCEPT ![o] = "gc"]
  BY DEF Allocated
<1> HIDE DEF left
<1>3. own \in [Objects -> Owners] /\ own[o] = "gc"
      /\ \A x \in Objects : x # o => own[x] = left[x]
  BY <1>1, <1>2 DEF Owners
<1>4. Others /\ Good(control, shadow, zone, handler)
  BY RunningStorage
<1>5. HeapFits(own, zoneOf, field, zone, exception, module)
  BY <1>1, <1>2, <1>4, NewKeepsHeap DEF Others
<1>6. StackFits(control, own, zoneOf)
  <2>1. \A x \in InUse(left) : x # o /\ own[x] = left[x] /\ x \in InUse(own)
    BY <1>1, <1>3, OwnersInUse
  <2>2. \A i \in 1 .. Len(control) : Values(control[i]) \subseteq InUse(left)
    BY <1>1, <1>4, ValuesFit DEF StackFits
  <2>3. "zone" \notin Uses => \A i \in 1 .. Len(control) :
             control[i].kind = "call" => control[i].roots \subseteq InUse(own)
    BY <1>1, <2>1 DEF StackFits, SlotsFit
  <2> QED BY <1>1, <1>4, <2>1, <2>2, <2>3, StackStays
<1> QED BY <1>1, <1>3, <1>5, <1>6

\* No zone is open in programs without zones.
LEMMA NoZoneOpen ==
    ASSUME NEW c, NEW s, NEW z, NEW h, Good(c, s, z, h), NEW own, SlotsFit(c, own),
           "zone" \notin Uses
    PROVE  z = 0
<1>1. Zones(c, Len(c)) = {}
  BY DEF Zones, SlotsFit
<1> QED BY <1>1, StackTypes, FS_EmptySet

\* Inner zones end after their scopes: the values of the rest are outside.
LEMMA ZoneEndKeepsStack ==
    ASSUME zoneOf \in [Objects -> Nat],
           NEW d, NEW s, NEW t, NEW h, Good(d, s, t, h), NEW own,
           StackFits(d, own, zoneOf), NEW z \in Nat, t <= z, "zone" \notin Uses => z = 0
    PROVE  StackFits(d, WithoutZones(own, t + 1 .. z), zoneOf)
<1> DEFINE left == WithoutZones(own, t + 1 .. z)
<1>1. t \in Nat
  BY GoodTypes
<1>2. ASSUME NEW i \in 1 .. Len(d), NEW o \in Values(d[i]) PROVE left[o] = own[o]
  <2>1. o \in Objects /\ zoneOf[o] \in Nat
    BY ValuesFit, OwnersInUse DEF StackFits
  <2>2. own[o] = "zone" => zoneOf[o] <= t
    BY ValueLevels DEF StackFits
  <2> QED BY <1>1, <2>1, <2>2, ZonelessOwners
<1>3. "zone" \notin Uses => \A o \in InUse(own) : o \in InUse(left)
  <2>1. ASSUME "zone" \notin Uses, NEW o \in Objects PROVE left[o] = own[o]
    <3>1. zoneOf[o] \notin t + 1 .. z
      BY <1>1, <2>1
    <3> QED BY <3>1, ZonelessOwners
  <2> QED BY <2>1, OwnersInUse
<1> HIDE DEF left
<1>4. "zone" \notin Uses => \A i \in 1 .. Len(d) :
           d[i].kind = "call" => d[i].roots \subseteq InUse(left)
  BY <1>3 DEF StackFits, SlotsFit
<1>5. StackFits(d, left, zoneOf)
  BY <1>2, <1>4, StackStays
<1> QED BY <1>5 DEF left

\* The last collection, when no zone is ever used, reads nothing that is freed.
LEMMA ShutdownIsSafe ==
    ASSUME StorageInv, Running, NEW STATE own, NEW STATE top, NEW STATE thrown, NEW STATE seen,
           thrown \in Objects \cup {None},
           HeapFits(own, zoneOf, field, zone, thrown, module),
           StackFits(control, own, zoneOf),
           "zone" \notin Uses => seen = {},
           Shutdown(own, top, thrown, seen)
    PROVE  Storage'
<1> DEFINE zoneless == WithoutZones(own, 1 .. zone)
<1>1. Others /\ Good(control, shadow, zone, handler) /\ zone \in Nat
  BY RunningStorage, GoodTypes
<1>2. status' = "stopped" /\ misread' = seen \cup MisreadBy(zoneless, top, thrown)
  BY DEF Shutdown
<1>3. ASSUME "zone" \notin Uses PROVE MisreadBy(zoneless, top, thrown) = {}
  <2>1. zone = 0
    BY <1>1, <1>3, NoZoneOpen DEF StackFits
  <2>2. \A t \in Nat : t <= zone =>
            HeapFits(WithoutZones(own, t + 1 .. zone), zoneOf, field, t, thrown, module)
    BY <1>1, ZoneEndKeepsHeap DEF Others
  <2>3. PICK none \in Nat : none = 0 /\ none <= zone /\ none + 1 .. zone = 1 .. zone
    BY <1>1
  <2>4. ASSUME NEW o \in Objects PROVE zoneless[o] = own[o]
    BY <2>1, ZonelessOwners
  <2>5. \A o \in InUse(own) : o \in InUse(zoneless)
    <3> HIDE DEF zoneless
    <3> QED BY <2>4, OwnersInUse
  <2>6. SlotsInUse(own, top)
    BY <1>1, <1>3, FramesAreInUse DEF StackFits
  <2> HIDE DEF zoneless
  <2>7. SlotsInUse(zoneless, top)
    BY <2>5, <2>6 DEF SlotsInUse
  <2>8. HeapFits(zoneless, zoneOf, field, none, thrown, module)
    BY <2>2, <2>3 DEF zoneless
  <2> QED BY <1>1, <2>7, <2>8, NothingMisread
<1> HIDE DEF zoneless
<1> QED BY <1>2, <1>3 DEF Storage, Running

\* An exception is thrown, in storage in which it and what the program holds
\* are kept.
LEMMA RaiseIsSafe ==
    ASSUME StorageInv, Running, NEW STATE thrown, NEW STATE own, NEW STATE top, NEW STATE seen,
           thrown \in Objects,
           HeapFits(own, zoneOf, field, zone, thrown, module),
           HeapFits(own, zoneOf, field', zone, thrown, module),
           StackFits(control, own, zoneOf),
           "zone" \notin Uses => seen = {},
           Raise(thrown, own, top, seen)
    PROVE  Storage'
<1>1. Others /\ Good(control, shadow, zone, handler) /\ zone \in Nat /\ handler \in Nat
  BY RunningStorage, GoodTypes
<1>2. CASE handler > 0
  <2> DEFINE t == control[handler].zone
             d == Unwound(control, handler)
  <2>1. t \in Nat /\ t <= zone
    BY <1>1, <1>2, HandlerSaved
  <2>2. /\ control' = d /\ zone' = t
        /\ owner' = WithoutZones(own, t + 1 .. zone) /\ exception' = thrown
        /\ misread' = seen /\ zoneOf' = zoneOf /\ module' = module
    BY <1>2, <2>1 DEF Raise
  <2>3. Good(d, control[handler].shadow, t, control[handler].handler)
    BY <1>1, <1>2, GoodCut
  <2>4. StackFits(d, own, zoneOf)
    BY <1>1, <1>2, StackCut
  <2>5. "zone" \notin Uses => zone = 0
    BY <1>1, NoZoneOpen DEF StackFits
  <2> HIDE DEF d, t
  <2>6. StackFits(d, owner', zoneOf)
    BY <1>1, <2>1, <2>2, <2>3, <2>4, <2>5, ZoneEndKeepsStack DEF Others
  <2>7. HeapFits(owner', zoneOf, field', t, thrown, module)
    BY <1>1, <2>1, <2>2, ZoneEndKeepsHeap DEF Others
  <2>8. StorageFits(owner', zoneOf', field', zone', exception', module', control')
    BY <2>2, <2>6, <2>7 DEF StorageFits, StackFits
  <2> QED BY <2>2, <2>8 DEF Storage
<1>3. CASE ~ handler > 0
  <2>1. Shutdown(own, top, thrown, seen)
    BY <1>3 DEF Raise
  <2> QED BY <2>1, ShutdownIsSafe
<1> QED BY <1>2, <1>3

-----------------------------------------------------------------------------
(* The steps. *)

\* Memory stays as it is.
LEMMA MemoryStays ==
    ASSUME StorageInv, Running, UNCHANGED <<memory, zone, exception, misread>>,
           StackFits(control', owner, zoneOf)
    PROVE  Storage'
<1>1. HeapFits(owner, zoneOf, field, zone, exception, module)
  BY RunningStorage
<1>2. "zone" \notin Uses => misread = {}
  BY DEF StorageInv, Storage
<1>3. StorageFits(owner', zoneOf', field', zone', exception', module', control')
  BY <1>1 DEF StorageFits, StackFits, memory
<1> QED BY <1>2, <1>3 DEF Storage

\* What is bound, taken or handed on is a reference that the program has.
LEMMA VisibleFits ==
    ASSUME StorageInv, Running, NEW V, V \in Results \/ V \in SUBSET Visible
    PROVE  /\ V \in SUBSET InUse(owner) /\ V \in SUBSET Objects
           /\ V \subseteq control[shadow].roots
           /\ \A o \in V : owner[o] = "zone" => zoneOf[o] <= zone
<1>1. V \subseteq Visible
  BY DEF Results
<1>2. V \subseteq InUse(owner) /\ V \subseteq control[shadow].roots
  BY <1>1, RunningStorage
<1>3. \A o \in V : o \in Objects
  BY <1>2, OwnersInUse
<1> QED BY <1>2, <1>3, RunningStorage

LEMMA BindIsSafe ==
    ASSUME StorageInv, Running, NEW V \in SUBSET InUse(owner), control' = Bind(control, V),
           UNCHANGED <<memory, zone, exception, misread>>
    PROVE  Storage'
<1>1. /\ Others /\ Good(control, shadow, zone, handler)
      /\ StackFits(control, owner, zoneOf)
      /\ \A o \in Objects : owner[o] = "zone" => 1 <= zoneOf[o] /\ zoneOf[o] <= zone
  BY RunningStorage
<1>2. \A o \in V : owner[o] = "zone" => zoneOf[o] <= zone
  BY <1>1, OwnersInUse
<1>3. StackFits(control', owner, zoneOf)
  BY <1>1, <1>2, StackBind
<1> QED BY <1>3, MemoryStays

LEMMA CallIsSafe ==
    ASSUME StorageInv, NEW args \in Results, Call(args)
    PROVE  Storage'
<1> DEFINE r == CallItem(args, shadow)
<1>1. /\ Executing /\ control' = Append(control, r)
      /\ UNCHANGED <<status, memory, zone, handler, exception, threshold, misread>>
  BY DEF Call
<1>2. /\ Running /\ Good(control, shadow, zone, handler)
      /\ StackFits(control, owner, zoneOf) /\ shadow \in Nat
  BY <1>1, ExecutingTop, RunningStorage, GoodTypes
<1>3. /\ args \in SUBSET InUse(owner) /\ args \in SUBSET Objects
      /\ \A o \in args : owner[o] = "zone" => zoneOf[o] <= zone
  BY <1>2, VisibleFits
<1>4. r \in Items /\ r.kind = "call" /\ r.vars = args /\ r.roots = args
  BY <1>2, <1>3 DEF CallItem, Items
<1> HIDE DEF r
<1>5. Values(r) = args
  BY <1>4, ItemValues
<1>6. StackFits(Append(control, r), owner, zoneOf)
  BY <1>2, <1>3, <1>4, <1>5, StackPush
<1> QED BY <1>1, <1>2, <1>6, MemoryStays

\* A scope is left for the one around it, which may be handed a value.
LEMMA PopIsSafe ==
    ASSUME StorageInv, Running, Depth > 1, Top.kind # "zone",
           NEW V \in SUBSET InUse(owner)
    PROVE  /\ \E s, h : Good(Bind(Below(control), V), s, zone, h)
           /\ StackFits(Bind(Below(control), V), owner, zoneOf)
<1> DEFINE below == Below(control)
<1>1. /\ Others /\ Good(control, shadow, zone, handler)
      /\ StackFits(control, owner, zoneOf) /\ Top \in Items /\ Depth \in Nat
      /\ \A o \in Objects : owner[o] = "zone" => 1 <= zoneOf[o] /\ zoneOf[o] <= zone
  BY RunningStorage, RunningState
<1>2. \E s, h : Good(below, s, zone, h)
  <2>1. Top.kind \in {"call", "zone", "try"}
    BY <1>1, ItemFields
  <2> QED BY <1>1, <2>1, GoodPop DEF Top, Depth
<1>3. StackFits(below, owner, zoneOf)
  BY <1>1, StackPop DEF Depth
<1> HIDE DEF below
<1>4. \A o \in V : o \in Objects /\ (owner[o] = "zone" => zoneOf[o] <= zone)
  BY <1>1, OwnersInUse
<1>5. PICK s, h : Good(below, s, zone, h)
  BY <1>2
<1>6. Good(Bind(below, V), s, zone, h)
  BY <1>4, <1>5, GoodBind
<1>7. StackFits(Bind(below, V), owner, zoneOf)
  BY <1>3, <1>4, <1>5, StackBind
<1> QED BY <1>6, <1>7 DEF below

LEMMA ReturnIsSafe ==
    ASSUME StorageInv, NEW result \in Results, Return(result)
    PROVE  Storage'
<1>1. /\ Executing /\ Top.kind = "call" /\ Depth > 1
      /\ control' = Bind(Below(control), result)
      /\ UNCHANGED <<status, memory, zone, handler, exception, threshold, misread>>
  BY DEF Return
<1>2. Running /\ Top.kind # "zone"
  BY <1>1, ExecutingTop
<1>3. result \in SUBSET InUse(owner)
  BY <1>2, VisibleFits
<1>4. StackFits(control', owner, zoneOf)
  BY <1>1, <1>2, <1>3, PopIsSafe
<1> QED BY <1>1, <1>2, <1>4, MemoryStays

LEMMA MainReturnIsSafe ==
    ASSUME StorageInv, MainReturn
    PROVE  Storage'
<1>1. Executing /\ Shutdown(owner, Top.previous, exception, misread)
  BY DEF MainReturn
<1>2. Running /\ Others /\ HeapFits(owner, zoneOf, field, zone, exception, module)
      /\ StackFits(control, owner, zoneOf)
  BY <1>1, ExecutingTop, RunningStorage
<1>3. "zone" \notin Uses => misread = {}
  BY DEF StorageInv, Storage
<1> QED BY <1>1, <1>2, <1>3, ShutdownIsSafe DEF Others

LEMMA NewOnHeapIsSafe ==
    ASSUME StorageInv, Running, NEW o \in Objects, owner[o] = "unused", NewOnHeap(o)
    PROVE  Storage'
<1>1. /\ owner' = Allocated(o, shadow) /\ misread' = misread \cup MisreadByPoll(shadow)
      /\ control' = Bind(control, {o})
      /\ zoneOf' = zoneOf /\ field' = field /\ module' = module /\ zone' = zone
      /\ exception' = exception
  BY DEF NewOnHeap, stacks
<1>2. /\ owner' \in [Objects -> Owners] /\ owner'[o] = "gc"
      /\ HeapFits(owner', zoneOf, field, zone, exception, module)
      /\ StackFits(control, owner', zoneOf)
      /\ "zone" \notin Uses => MisreadByPoll(shadow) = {}
  BY <1>1, AllocationIsSafe
<1>3. Good(control, shadow, zone, handler)
  BY RunningStorage
<1>4. {o} \in SUBSET InUse(owner') /\ \A x \in {o} : owner'[x] = "zone" => zoneOf[x] <= zone
  BY <1>2, OwnersInUse
<1>5. StackFits(control', owner', zoneOf)
  BY <1>1, <1>2, <1>3, <1>4, StackBind
<1>6. StorageFits(owner', zoneOf', field', zone', exception', module', control')
  BY <1>1, <1>2, <1>5 DEF StorageFits, StackFits
<1> QED BY <1>1, <1>2, <1>6 DEF Storage, StorageInv

LEMMA NewInArenaIsSafe ==
    ASSUME StorageInv, Running, NEW o \in Objects, owner[o] = "unused", o \notin Exceptions,
           NEW arena \in {"zone", "program"}, NEW STATE level, level \in Nat,
           arena = "zone" => 1 <= level /\ level <= zone,
           NewInArena(o, arena, level)
    PROVE  Storage'
<1>1. /\ owner' = [owner EXCEPT ![o] = arena] /\ zoneOf' = [zoneOf EXCEPT ![o] = level]
      /\ control' = Bind(control, {o})
      /\ field' = field /\ module' = module /\ zone' = zone
      /\ exception' = exception /\ misread' = misread
  BY DEF NewInArena, stacks
<1>2. /\ Others /\ Good(control, shadow, zone, handler)
      /\ HeapFits(owner, zoneOf, field, zone, exception, module)
      /\ StackFits(control, owner, zoneOf)
  BY RunningStorage
<1>3. /\ owner'[o] = arena /\ zoneOf'[o] = level
      /\ \A x \in Objects : x # o => owner'[x] = owner[x] /\ zoneOf'[x] = zoneOf[x]
  BY <1>1, <1>2 DEF Others
<1>4. HeapFits(owner', zoneOf', field, zone, exception, module)
  BY <1>1, <1>2, <1>3, NewKeepsHeap DEF Others
<1>5. StackFits(control, owner', zoneOf')
  <2>1. \A x \in InUse(owner) : x # o /\ owner'[x] = owner[x] /\ zoneOf'[x] = zoneOf[x]
                                /\ x \in InUse(owner')
    BY <1>2, <1>3, OwnersInUse
  <2>2. \A i \in 1 .. Len(control) : Values(control[i]) \subseteq InUse(owner)
    BY <1>2, ValuesFit DEF StackFits
  <2>3. "zone" \notin Uses => \A i \in 1 .. Len(control) :
             control[i].kind = "call" => control[i].roots \subseteq InUse(owner')
    BY <1>2, <2>1 DEF StackFits, SlotsFit
  <2> QED BY <1>2, <2>1, <2>2, <2>3, StackStays
<1>6. {o} \in SUBSET InUse(owner') /\ \A x \in {o} : owner'[x] = "zone" => zoneOf'[x] <= zone
  BY <1>3, OwnersInUse
<1>7. StackFits(control', owner', zoneOf')
  BY <1>1, <1>2, <1>5, <1>6, StackBind
<1>8. StorageFits(owner', zoneOf', field', zone', exception', module', control')
  BY <1>1, <1>4, <1>7 DEF StorageFits, StackFits
<1> QED BY <1>1, <1>8 DEF Storage, StorageInv

LEMMA NewIsSafe ==
    ASSUME StorageInv, NEW o \in Objects, New(o)
    PROVE  Storage'
<1>1. Executing /\ owner[o] = "unused"
  BY DEF New
<1>2. Running /\ zone \in Nat
  BY <1>1, ExecutingTop, RunningStorage, GoodTypes
<1>3. o \in Plain \/ o \in Arrays => o \notin Exceptions
  BY ObjectsByClass
<1>4. CASE o \in Plain /\ zone > 0 /\ NewInArena(o, "zone", zone)
  BY <1>1, <1>2, <1>3, <1>4, NewInArenaIsSafe
<1>5. CASE NewOnHeap(o)
  BY <1>1, <1>2, <1>5, NewOnHeapIsSafe
<1>6. CASE o \in Arrays /\ NewInArena(o, "program", 0)
  BY <1>1, <1>2, <1>3, <1>6, NewInArenaIsSafe
<1> QED BY <1>4, <1>5, <1>6 DEF New

LEMMA StoreIsSafe ==
    ASSUME StorageInv, CarefulPrograms, NEW x \in Visible, NEW y \in Visible \cup {None},
           Store(x, y)
    PROVE  Storage'
<1>1. /\ Executing /\ MayHold(x, y) /\ field' = [field EXCEPT ![x] = y]
      /\ UNCHANGED <<owner, zoneOf, module, control, stacks, exception, misread>>
  BY DEF Store
<1>2. /\ Running /\ Others
      /\ HeapFits(owner, zoneOf, field, zone, exception, module)
      /\ StackFits(control, owner, zoneOf)
      /\ x \in InUse(owner) /\ (y # None => y \in InUse(owner))
  BY <1>1, ExecutingTop, RunningStorage
<1>3. y # None => MayOutlive(owner, zoneOf, x, y)
  <2> SUFFICES ASSUME y # None PROVE MayOutlive(owner, zoneOf, x, y)
    OBVIOUS
  <2>1. "arena holds gc" \notin Uses
    BY DEF CarefulPrograms
  <2>2. x \in Objects /\ y \in Objects /\ zoneOf[x] \in Nat /\ zoneOf[y] \in Nat
    BY <1>2, OwnersInUse DEF Others
  <2>3. CASE owner[y] = "zone"
    BY <1>1, <1>2, <2>2, <2>3 DEF MayHold, MayOutlive
  <2>4. CASE owner[y] = "gc"
    BY <1>1, <1>2, <2>1, <2>4 DEF MayHold, MayOutlive
  <2>5. CASE owner[y] = "program"
    BY <1>2, <2>5, OwnersInUse DEF MayOutlive
  <2> QED BY <1>2, <2>3, <2>4, <2>5, OwnersInUse
<1>4. FieldsFit(owner, zoneOf, field')
  <2>1. x \in Objects /\ owner[x] # "unused"
    BY <1>2, OwnersInUse
  <2>2. field'[x] = y /\ \A o \in Objects : o # x => field'[o] = field[o]
    BY <1>1, <1>2, <2>1 DEF Others
  <2>3. FieldsFit(owner, zoneOf, field)
    BY <1>2 DEF HeapFits
  <2>4. ASSUME NEW o \in Objects
        PROVE  /\ o \in InUse(owner) /\ field'[o] # None => MayOutlive(owner, zoneOf, o, field'[o])
               /\ owner[o] = "unused" => field'[o] = None
    <3>1. CASE o = x
      BY <1>3, <2>1, <2>2, <3>1
    <3>2. CASE o # x
      BY <2>2, <2>3, <3>2 DEF FieldsFit
    <3> QED BY <3>1, <3>2
  <2> QED BY <2>4 DEF FieldsFit
<1>5. StorageFits(owner', zoneOf', field', zone', exception', module', control')
  BY <1>1, <1>2, <1>4 DEF StorageFits, StackFits, HeapFits, stacks
<1> QED BY <1>1, <1>5 DEF Storage, StorageInv

LEMMA LoadIsSafe ==
    ASSUME StorageInv, NEW x \in Visible, Load(x)
    PROVE  Storage'
<1>1. /\ Executing /\ field[x] # None /\ control' = Bind(control, {field[x]})
      /\ UNCHANGED <<memory, stacks, exception, misread>>
  BY DEF Load
<1>2. Running /\ x \in InUse(owner) /\ HeapFits(owner, zoneOf, field, zone, exception, module)
  BY <1>1, ExecutingTop, RunningStorage
<1>3. {field[x]} \in SUBSET InUse(owner)
  BY <1>1, <1>2, OwnersInUse DEF HeapFits, FieldsFit, MayOutlive
<1> QED BY <1>1, <1>2, <1>3, BindIsSafe DEF stacks

LEMMA StoreModuleIsSafe ==
    ASSUME StorageInv, NEW y \in Visible \cup {None}, StoreModule(y)
    PROVE  Storage'
<1>1. /\ Executing /\ (y # None => owner[y] # "zone") /\ module' = y
      /\ UNCHANGED <<owner, zoneOf, field, control, stacks, exception, misread>>
  BY DEF StoreModule
<1>2. /\ Running /\ HeapFits(owner, zoneOf, field, zone, exception, module)
      /\ StackFits(control, owner, zoneOf) /\ (y # None => y \in InUse(owner))
  BY <1>1, ExecutingTop, RunningStorage
<1>3. GlobalsFit(owner, exception, y)
  BY <1>1, <1>2, OwnersInUse DEF HeapFits, GlobalsFit
<1>4. StorageFits(owner', zoneOf', field', zone', exception', module', control')
  BY <1>1, <1>2, <1>3 DEF StorageFits, StackFits, HeapFits, stacks
<1> QED BY <1>1, <1>4 DEF Storage, StorageInv

LEMMA LoadModuleIsSafe ==
    ASSUME StorageInv, LoadModule
    PROVE  Storage'
<1>1. /\ Executing /\ module # None /\ control' = Bind(control, {module})
      /\ UNCHANGED <<memory, stacks, exception, misread>>
  BY DEF LoadModule
<1>2. /\ Running /\ Others /\ HeapFits(owner, zoneOf, field, zone, exception, module)
  BY <1>1, ExecutingTop, RunningStorage
<1>3. {module} \in SUBSET InUse(owner)
  BY <1>1, <1>2, OwnersInUse DEF HeapFits, GlobalsFit, Others
<1> QED BY <1>1, <1>2, <1>3, BindIsSafe DEF stacks

LEMMA GcCollectIsSafe ==
    ASSUME StorageInv, GcCollect
    PROVE  Storage'
<1>1. /\ Executing /\ owner' = AfterCollection(owner, shadow, exception)
      /\ misread' = misread \cup MisreadBy(owner, shadow, exception)
      /\ UNCHANGED <<zoneOf, field, module, control, stacks, exception>>
  BY DEF GcCollect
<1>2. /\ HeapFits(owner', zoneOf, field, zone, exception, module)
      /\ StackFits(control, owner', zoneOf)
      /\ "zone" \notin Uses => MisreadBy(owner, shadow, exception) = {}
  BY <1>1, ExecutingTop, CollectionIsSafe
<1>3. StorageFits(owner', zoneOf', field', zone', exception', module', control')
  BY <1>1, <1>2 DEF StorageFits, StackFits, stacks
<1> QED BY <1>1, <1>2, <1>3 DEF Storage, StorageInv

LEMMA SetThresholdIsSafe ==
    ASSUME StorageInv, NEW n, SetThreshold(n)
    PROVE  Storage'
<1>1. Executing /\ UNCHANGED <<memory, control, stacks, exception, misread>>
  BY DEF SetThreshold
<1>2. Running /\ StackFits(control, owner, zoneOf)
  BY <1>1, ExecutingTop, RunningStorage
<1> QED BY <1>1, <1>2, MemoryStays DEF stacks

LEMMA ForgetIsSafe ==
    ASSUME StorageInv, NEW o \in Top.vars, Forget(o)
    PROVE  Storage'
<1> DEFINE r == [Top EXCEPT !.vars = Top.vars \ {o}]
           c == [control EXCEPT ![Depth] = r]
<1>1. /\ Executing /\ control' \in Released(c, {o})
      /\ UNCHANGED <<memory, stacks, exception, misread>>
  BY DEF Forget, Top
<1>2. /\ Running /\ Good(control, shadow, zone, handler)
      /\ StackFits(control, owner, zoneOf) /\ Depth \in Nat \ {0} /\ Top \in Items
      /\ Top = control[Depth] /\ Depth = Len(control)
  BY <1>1, ExecutingTop, RunningStorage, RunningState DEF Top, Depth
<1>3. /\ r \in Items /\ SameItem(Top, r) /\ (Abandoned(r) <=> Abandoned(Top))
      /\ r.vars \subseteq Top.vars
      /\ Top.kind = "call" => r.roots = Top.roots
      /\ Top.kind = "try" => r.result = Top.result /\ r.pending = Top.pending
  <2>1. Top.vars \in SUBSET Objects
    BY <1>2, ItemFields
  <2>2. r \in Items /\ SameItem(Top, r) /\ (Abandoned(r) <=> Abandoned(Top))
    BY <1>2, <2>1, WithVars
  <2> QED BY <1>2, <2>2 DEF Items, TryItems
<1>4. r.kind = Top.kind
  BY <1>3 DEF SameItem
<1>5. Values(r) \subseteq Values(Top)
  <2> HIDE DEF r
  <2>1. /\ r.kind # "try" => Values(r) = r.vars /\ Values(Top) = Top.vars
        /\ r.kind = "try" =>
              /\ Values(r) = r.vars \cup References(r.result \cup {r.pending})
              /\ Values(Top) = Top.vars \cup References(r.result \cup {r.pending})
    BY <1>2, <1>3, <1>4, ItemValues
  <2> QED BY <1>3, <2>1
<1>6. Good(c, shadow, zone, handler) /\ Len(c) = Depth
  <2> HIDE DEF r
  <2> QED BY <1>2, <1>3, GoodReplace DEF Top, Depth
<1>7. /\ c[Depth] = r /\ \A i \in 1 .. Depth : i # Depth => c[i] = control[i]
  <2> HIDE DEF r
  <2> QED BY <1>2 DEF Good
<1> HIDE DEF r, c
<1>8. StackFits(c, owner, zoneOf)
  <2> DEFINE n == Len(control)
  <2>1. /\ n \in Nat \ {0} /\ n = Depth /\ shadow \in 1 .. n /\ control[shadow].kind = "call"
        /\ c \in Seq(Items) /\ Len(c) = n
    BY <1>2, <1>6, StackTypes DEF Good
  <2>2. /\ Values(Top) \subseteq InUse(owner)
        /\ \A x \in Values(Top) : owner[x] = "zone" => zoneOf[x] <= zone
        /\ Top.kind = "try" /\ Top.pending # None => owner[Top.pending] = "gc"
    BY <1>2, <2>1, ValuesFit, StackTypes DEF StackFits
  <2>3. \A i \in shadow .. n : Values(control[i]) \subseteq control[shadow].roots
    BY <1>2, <2>1, ValuesFit DEF StackFits
  <2>4. c[shadow].roots = control[shadow].roots
    BY <1>2, <1>3, <1>7, <2>1
  <2>5. \A i \in 1 .. n : /\ c[i].kind = control[i].kind
                          /\ control[i].kind = "call" => c[i].roots = control[i].roots
                          /\ Values(c[i]) \subseteq Values(control[i])
    BY <1>2, <1>3, <1>4, <1>5, <1>7, <2>1
  <2>6. \A i \in shadow .. n : Values(c[i]) \subseteq c[shadow].roots
    BY <2>1, <2>3, <2>4, <2>5
  <2>7. "zone" \notin Uses => c[shadow].roots \subseteq InUse(owner)
    BY <1>2, <2>1, <2>4 DEF StackFits, SlotsFit
  <2>8. /\ Values(c[n]) \subseteq InUse(owner)
        /\ \A x \in Values(c[n]) : owner[x] = "zone" => zoneOf[x] <= zone
        /\ c[n].kind = "try" /\ c[n].pending # None => owner[c[n].pending] = "gc"
    BY <1>2, <1>3, <1>4, <1>5, <1>7, <2>1, <2>2
  <2>9. \A i \in 1 .. n - 1 :
            /\ Values(c[i]) = Values(control[i])
            /\ control[i].kind = "try" => c[i].pending = control[i].pending
    BY <1>7, <2>1
  <2> QED BY <1>2, <2>1, <2>5, <2>6, <2>7, <2>8, <2>9, StackChanges
<1>9. StackFits(control', owner, zoneOf)
  BY <1>1, <1>6, <1>8, StackReleased
<1> QED BY <1>1, <1>2, <1>9, MemoryStays DEF stacks

LEMMA EnterZoneIsSafe ==
    ASSUME StorageInv, EnterZone
    PROVE  Storage'
<1> DEFINE r == [kind |-> "zone", vars |-> {}, previous |-> zone]
<1>1. /\ "zone" \in Uses /\ Executing /\ control' = Append(control, r) /\ zone' = zone + 1
      /\ UNCHANGED <<memory, exception, misread>>
  BY DEF EnterZone
<1>2. /\ Running /\ Others /\ Good(control, shadow, zone, handler) /\ zone \in Nat
      /\ HeapFits(owner, zoneOf, field, zone, exception, module)
      /\ StackFits(control, owner, zoneOf)
  BY <1>1, ExecutingTop, RunningStorage, GoodTypes
<1>3. r \in Items /\ r.kind = "zone" /\ r.vars = {}
  BY <1>2 DEF Items
<1> HIDE DEF r
<1>4. Values(r) = {}
  BY <1>3, ItemValues
<1>5. StackFits(control', owner, zoneOf)
  BY <1>1, <1>2, <1>3, <1>4, StackPush
<1>6. HeapFits(owner, zoneOf, field, zone', exception, module)
  BY <1>1, <1>2 DEF HeapFits, ObjectsPlaced, Others
<1>7. StorageFits(owner', zoneOf', field', zone', exception', module', control')
  BY <1>1, <1>5, <1>6 DEF StorageFits, StackFits, memory
<1> QED BY <1>1, <1>7 DEF Storage, StorageInv

LEMMA LeaveZoneIsSafe ==
    ASSUME StorageInv, LeaveZone
    PROVE  Storage'
<1> DEFINE t == Top.previous
<1>1. /\ Executing /\ Top.kind = "zone" /\ zone' = t /\ control' = Below(control)
      /\ owner' = WithoutZones(owner, {zone})
      /\ UNCHANGED <<zoneOf, field, module, exception, misread>>
  BY DEF LeaveZone
<1>2. /\ Running /\ Others /\ Good(control, shadow, zone, handler) /\ zone \in Nat
      /\ HeapFits(owner, zoneOf, field, zone, exception, module)
      /\ StackFits(control, owner, zoneOf)
      /\ Depth \in Nat \ {0} /\ control[1].kind = "call" /\ Depth = Len(control)
      /\ Top = control[Depth]
  BY <1>1, ExecutingTop, RunningStorage, RunningState, GoodTypes DEF Top, Depth
<1>3. Depth > 1
  BY <1>1, <1>2
<1>4. Good(Below(control), shadow, t, handler) /\ t \in Nat
  <2>1. Good(Below(control), shadow, t, handler)
    BY <1>1, <1>2, <1>3, GoodPop
  <2> QED BY <2>1, GoodTypes
<1>5. zone = t + 1
  <2> DEFINE n == Depth - 1
  <2>1. n \in Nat /\ Depth = n + 1 /\ Nested(control, Depth)
    BY <1>2 DEF Good
  <2>2. t = Cardinality(Zones(control, Depth - 1))
    BY <1>1, <1>2, <1>3, <2>1 DEF Nested, Saved
  <2>3. Cardinality(Zones(control, Depth)) = Cardinality(Zones(control, n)) + 1
    BY <1>1, <1>2, <2>1, OneMore
  <2>4. Cardinality(Zones(control, Depth)) = zone
    BY <1>2, StackTypes
  <2> QED BY <2>2, <2>3, <2>4
<1> HIDE DEF t
<1>6. t <= zone
  BY <1>4, <1>5
<1>7. owner' = WithoutZones(owner, t + 1 .. zone)
  <2>1. t + 1 .. zone = {zone}
    BY <1>2, <1>4, <1>5
  <2> QED BY <1>1, <2>1
<1>8. StackFits(Below(control), owner, zoneOf)
  BY <1>2, <1>3, StackPop
<1>9. "zone" \notin Uses => zone = 0
  BY <1>2, NoZoneOpen DEF StackFits
<1>10. StackFits(control', owner', zoneOf)
  BY <1>1, <1>2, <1>4, <1>6, <1>7, <1>8, <1>9, ZoneEndKeepsStack DEF Others
<1>11. HeapFits(owner', zoneOf, field, t, exception, module)
  BY <1>2, <1>4, <1>6, <1>7, ZoneEndKeepsHeap DEF Others
<1>12. StorageFits(owner', zoneOf', field', zone', exception', module', control')
  BY <1>1, <1>10, <1>11 DEF StorageFits, StackFits
<1> QED BY <1>1, <1>12 DEF Storage, StorageInv

LEMMA ThrowIsSafe ==
    ASSUME StorageInv, NEW x \in Visible, Throw(x)
    PROVE  Storage'
<1>1. Executing /\ x \in Exceptions /\ Raise(x, owner, Popped, misread) /\ field' = field
  BY DEF Throw
<1>2. /\ Running /\ HeapFits(owner, zoneOf, field, zone, exception, module)
      /\ StackFits(control, owner, zoneOf) /\ x \in InUse(owner) /\ x \in Objects
  BY <1>1, ExecutingTop, RunningStorage, OwnersInUse
<1>3. owner[x] = "gc"
  BY <1>1, <1>2, OwnersInUse DEF HeapFits, ObjectsPlaced
<1>4. HeapFits(owner, zoneOf, field, zone, x, module)
  BY <1>2, <1>3 DEF HeapFits, GlobalsFit
<1>5. "zone" \notin Uses => misread = {}
  BY DEF StorageInv, Storage
<1> QED BY <1>1, <1>2, <1>4, <1>5, RaiseIsSafe

LEMMA FailIsSafe ==
    ASSUME StorageInv, NEW o \in Exceptions, Fail(o)
    PROVE  Storage'
<1> DEFINE own == Allocated(o, shadow)
<1>1. /\ Executing /\ owner[o] = "unused" /\ field' = [field EXCEPT ![o] = o]
      /\ Raise(o, own, shadow, misread \cup MisreadByPoll(shadow))
  BY DEF Fail, RaiseFailure
<1>2. Running /\ Others /\ o \in Objects
  BY <1>1, ExecutingTop, RunningStorage, ObjectsByClass
<1>3. /\ own \in [Objects -> Owners] /\ own[o] = "gc"
      /\ HeapFits(own, zoneOf, field, zone, exception, module)
      /\ StackFits(control, own, zoneOf)
      /\ "zone" \notin Uses => MisreadByPoll(shadow) = {}
  BY <1>1, <1>2, AllocationIsSafe
<1> HIDE DEF own
<1>4. HeapFits(own, zoneOf, field, zone, o, module)
  BY <1>3 DEF HeapFits, GlobalsFit
<1>5. HeapFits(own, zoneOf, field', zone, o, module)
  <2>1. field'[o] = o /\ \A x \in Objects : x # o => field'[x] = field[x]
    BY <1>1, <1>2 DEF Others
  <2>2. MayOutlive(own, zoneOf, o, o)
    BY <1>2, <1>3, OwnersInUse DEF MayOutlive
  <2>3. FieldsFit(own, zoneOf, field)
    BY <1>4 DEF HeapFits
  <2>4. FieldsFit(own, zoneOf, field')
    BY <1>3, <2>1, <2>2, <2>3 DEF FieldsFit
  <2> QED BY <1>4, <2>4 DEF HeapFits
<1>6. "zone" \notin Uses => misread \cup MisreadByPoll(shadow) = {}
  BY <1>3 DEF StorageInv, Storage
<1> QED BY <1>1, <1>2, <1>3, <1>4, <1>5, <1>6, RaiseIsSafe

LEMMA EnterTryIsSafe ==
    ASSUME StorageInv, NEW form \in Tries, EnterTry(form)
    PROVE  Storage'
<1> DEFINE r == [kind |-> "try", vars |-> {}, phase |-> "body",
                 clauses |-> form.clauses, finalizer |-> form.finalizer,
                 result |-> {}, pending |-> None,
                 handler |-> handler, shadow |-> shadow, zone |-> zone]
<1>1. /\ Executing /\ control' = Append(control, r)
      /\ UNCHANGED <<memory, zone, exception, misread>>
  BY DEF EnterTry, OpenTry
<1>2. /\ Running /\ Good(control, shadow, zone, handler)
      /\ StackFits(control, owner, zoneOf)
      /\ shadow \in Nat /\ zone \in Nat /\ handler \in Nat
  BY <1>1, ExecutingTop, RunningStorage, GoodTypes
<1>3. form.clauses \in Clauses /\ form.finalizer \in BOOLEAN
  BY TriesAreTries DEF TryForms
<1>4. r \in Items
  BY <1>2, <1>3 DEF Items, TryItems, Phases
<1>5. r.kind = "try" /\ r.vars = {} /\ r.result = {} /\ r.pending = None
  OBVIOUS
<1> HIDE DEF r
<1>6. Values(r) = {}
  BY <1>4, <1>5, ItemValues DEF References
<1>7. StackFits(control', owner, zoneOf)
  BY <1>1, <1>2, <1>4, <1>5, <1>6, StackPush
<1> QED BY <1>1, <1>2, <1>7, MemoryStays

\* The end of a try.
LEMMA AfterTryIsSafe ==
    ASSUME StorageInv, Running, Top.kind = "try", NEW V \in SUBSET InUse(owner),
           control' \in AfterTry(V), UNCHANGED <<memory, zone, exception, misread>>
    PROVE  Storage'
<1> DEFINE bound == Bind(Below(control), V)
<1>1. Depth > 1
  BY RunningStorage, RunningState DEF Top
<1>2. PICK s, h : Good(bound, s, zone, h)
  BY <1>1, PopIsSafe
<1>3. StackFits(bound, owner, zoneOf)
  BY <1>1, PopIsSafe
<1>4. control' \in Released(bound, {Top.pending})
  BY DEF AfterTry
<1> HIDE DEF bound
<1>5. StackFits(control', owner, zoneOf)
  BY <1>2, <1>3, <1>4, StackReleased
<1> QED BY <1>5, MemoryStays

\* The finalizer comes next.
LEMMA BeforeFinalizerIsSafe ==
    ASSUME StorageInv, Running, Top.kind = "try", NEW V \in Results,
           control' = BeforeFinalizer(V), UNCHANGED <<memory, zone, exception, misread>>
    PROVE  Storage'
<1> DEFINE q == [Top EXCEPT !.phase = "finally", !.vars = {}, !.result = V]
<1>1. /\ Good(control, shadow, zone, handler) /\ Others
      /\ StackFits(control, owner, zoneOf)
      /\ Depth \in Nat \ {0} /\ Top \in Items /\ Depth = Len(control)
      /\ Top = control[Depth] /\ shadow \in 1 .. Depth
  BY RunningStorage, RunningState DEF Top, Depth
<1>2. /\ V \in SUBSET InUse(owner) /\ V \in SUBSET Objects
      /\ V \subseteq control[shadow].roots
      /\ \A o \in V : owner[o] = "zone" => zoneOf[o] <= zone
  BY VisibleFits
<1>3. /\ q \in Items /\ q.kind = "try" /\ q.vars = {} /\ q.result = V
      /\ q.pending = Top.pending
  BY <1>1, <1>2 DEF Items, TryItems, Phases
<1>4. control' = [control EXCEPT ![Depth] = q]
  BY DEF BeforeFinalizer, Top
<1> HIDE DEF q
<1>5. /\ Values(Top) \subseteq InUse(owner) \cap control[shadow].roots
      /\ \A o \in Values(Top) : owner[o] = "zone" => zoneOf[o] <= zone
      /\ Top.pending # None => owner[Top.pending] = "gc"
  <2>1. Cardinality(Zones(control, Depth)) = zone
    BY <1>1, StackTypes
  <2>2. Depth \in 1 .. Len(control) /\ Depth >= shadow
    BY <1>1
  <2> QED BY <1>1, <2>1, <2>2, ValuesFit DEF StackFits
<1>6. Values(q) \subseteq V \cup Values(Top)
  <2>1. Values(q) = V \cup References({Top.pending})
    <3>1. Values(q) = {} \cup References(V \cup {Top.pending})
      BY <1>3, ItemValues
    <3>2. None \notin V
      BY <1>2, NoneIsNoObject
    <3> QED BY <3>1, <3>2 DEF References
  <2>2. Top.pending # None => Top.pending \in Values(Top)
    BY <1>1, ItemValues
  <2> QED BY <2>1, <2>2 DEF References
<1>7. StackFits([control EXCEPT ![Len(control)] = q], owner, zoneOf)
  <2>1. /\ Values(q) \subseteq InUse(owner) \cap control[shadow].roots
        /\ \A o \in Values(q) : owner[o] = "zone" => zoneOf[o] <= zone
        /\ q.pending # None => owner[q.pending] = "gc"
    BY <1>2, <1>3, <1>5, <1>6
  <2> QED BY <1>1, <1>3, <2>1, StackPhase
<1> QED BY <1>1, <1>4, <1>7, MemoryStays

LEMMA ProceedIsSafe ==
    ASSUME StorageInv, NEW result \in Results, LeaveBody(result) \/ LeaveCatch(result)
    PROVE  Storage'
<1>1. /\ Executing /\ Top.kind = "try" /\ Proceed(result)
      /\ UNCHANGED <<memory, zone, exception, misread>>
  BY DEF LeaveBody, LeaveCatch, Ends, stacks
<1>2. Running
  BY <1>1, ExecutingTop
<1>3. result \in SUBSET InUse(owner)
  BY <1>2, VisibleFits
<1>4. CASE Top.finalizer
  BY <1>1, <1>2, <1>4, BeforeFinalizerIsSafe DEF Proceed
<1>5. CASE ~ Top.finalizer
  BY <1>1, <1>2, <1>3, <1>5, AfterTryIsSafe DEF Proceed
<1> QED BY <1>4, <1>5

LEMMA LeaveFinallyIsSafe ==
    ASSUME StorageInv, LeaveFinally
    PROVE  Storage'
<1>1. /\ Executing /\ Top.kind = "try" /\ control' \in AfterTry(Top.result)
      /\ UNCHANGED <<memory, zone, exception, misread>>
  BY DEF LeaveFinally, Ends, stacks
<1>2. /\ Running /\ Good(control, shadow, zone, handler)
      /\ StackFits(control, owner, zoneOf)
      /\ Depth \in Nat \ {0} /\ Top \in Items /\ Depth = Len(control)
      /\ Top = control[Depth]
  BY <1>1, ExecutingTop, RunningStorage, RunningState DEF Top, Depth
<1>3. Top.result \in SUBSET InUse(owner)
  <2>1. Depth \in 1 .. Len(control)
    BY <1>2
  <2>2. Values(Top) \subseteq InUse(owner)
    BY <1>2, <2>1, ValuesFit DEF StackFits
  <2>3. Top.result \in SUBSET Objects
    BY <1>1, <1>2, ItemFields
  <2>4. Values(Top) = Top.vars \cup References(Top.result \cup {Top.pending})
    BY <1>1, <1>2, ItemValues
  <2> QED BY <2>2, <2>3, <2>4, NoneIsNoObject DEF References
<1> QED BY <1>1, <1>2, <1>3, AfterTryIsSafe

LEMMA DispatchIsSafe ==
    ASSUME StorageInv, NEW phase \in {"catch", "unmatched"}, Dispatch(phase)
    PROVE  Storage'
<1> DEFINE bound == IF phase = "catch" THEN {exception} ELSE {}
           q == [Top EXCEPT !.phase = phase, !.vars = bound, !.pending = exception]
           n == Len(control)
           R == control[shadow].roots \cup {exception}
           r == [control[shadow] EXCEPT !.roots = R]
<1>1. Running /\ Top.kind = "try" /\ Top.phase = "raised" /\ exception' = None
      /\ UNCHANGED <<memory, stacks, misread>>
  BY DEF Dispatch, Running
<1>2. /\ Others /\ Good(control, shadow, zone, handler)
      /\ HeapFits(owner, zoneOf, field, zone, exception, module)
      /\ StackFits(control, owner, zoneOf)
      /\ n \in Nat \ {0} /\ Top \in Items /\ Depth = n /\ Top = control[n]
      /\ Frame(control) = shadow /\ shadow \in 1 .. n /\ n \in 1 .. n
      /\ control[shadow].kind = "call" /\ control[shadow] \in Items
      /\ control \in Seq(Items) /\ Cardinality(Zones(control, n)) = zone
  BY <1>1, RunningStorage, RunningState, StackTypes DEF Top, Depth
<1>3. exception \in Objects /\ owner[exception] = "gc"
  <2>1. exception \in Objects
    BY <1>1 DEF StorageInv, NestingInv, Nesting, Calm, Abandoned, Top, Depth
  <2> QED BY <1>2, <2>1, NoneIsNoObject DEF HeapFits, GlobalsFit
<1>4. /\ q \in Items /\ q.kind = "try" /\ q.vars = bound /\ q.pending = exception
      /\ q.result = Top.result
  <2>1. q \in Items /\ q.kind = "try"
    <3>1. bound \in SUBSET Objects /\ Top \in Items /\ Top.kind = "try"
      BY <1>1, <1>2, <1>3
    <3> HIDE DEF bound
    <3> QED BY <1>3, <3>1 DEF Items, TryItems, Phases
  <2>2. Top \in TryItems(Phases, Objects \cup {None})
    BY <1>1, <1>2 DEF Items, TryItems, Phases
  <2> HIDE DEF bound
  <2>3. q.vars = bound /\ q.pending = exception /\ q.result = Top.result
    BY <2>2 DEF TryItems
  <2> QED BY <2>1, <2>3
<1>5. r \in Items /\ r.kind = "call" /\ r.vars = control[shadow].vars /\ r.roots = R
  <2>1. R \in SUBSET Objects
    BY <1>2, <1>3, ItemFields
  <2> HIDE DEF R
  <2>2. r \in Items
    BY <1>2, <2>1, WithRoots
  <2> QED BY <1>2, <2>1, <2>2 DEF Items, TryItems
<1>6. shadow # n
  BY <1>1, <1>2
<1>7. control' = [[control EXCEPT ![n] = q] EXCEPT ![shadow] = r]
  <2>1. control' = [[control EXCEPT ![Depth] = q]
                        EXCEPT ![shadow].roots = @ \cup {exception}]
    BY <1>2 DEF Dispatch, Top
  <2>2. [control EXCEPT ![n] = q][shadow] = control[shadow]
    <3> HIDE DEF q
    <3> QED BY <1>2, <1>6
  <2>3. shadow \in DOMAIN [control EXCEPT ![n] = q]
    <3> HIDE DEF q
    <3> QED BY <1>2
  <2> HIDE DEF q
  <2> QED BY <1>2, <2>1, <2>2, <2>3
<1> HIDE DEF q, r
<1>8. /\ control' \in Seq(Items) /\ Len(control') = n
      /\ control'[n] = q /\ control'[shadow] = r
      /\ \A i \in 1 .. n : i # n /\ i # shadow => control'[i] = control[i]
  BY <1>2, <1>4, <1>5, <1>6, <1>7
<1>9. /\ Values(Top) \subseteq InUse(owner) \cap control[shadow].roots
      /\ \A o \in Values(Top) : owner[o] = "zone" => zoneOf[o] <= zone
  BY <1>2, ValuesFit DEF StackFits
<1>10. Values(q) \subseteq Values(Top) \cup {exception}
  <2>1. Values(q) = bound \cup References(Top.result \cup {exception})
    BY <1>4, ItemValues
  <2>2. References(Top.result) \subseteq Values(Top)
    <3>1. Values(Top) = Top.vars \cup References(Top.result \cup {Top.pending})
      BY <1>1, <1>2, ItemValues
    <3> QED BY <3>1 DEF References
  <2> QED BY <2>1, <2>2 DEF References
<1>11. Values(r) = Values(control[shadow])
  BY <1>2, <1>5, ItemValues
<1> HIDE DEF n
<1>12. StackFits(control', owner, zoneOf)
  <2>1. /\ \A i \in 1 .. n : control'[i].kind = control[i].kind
        /\ \A i \in 1 .. n - 1 :
              /\ Values(control'[i]) = Values(control[i])
              /\ control[i].kind = "try" => control'[i].pending = control[i].pending
        /\ \A i \in 1 .. n : i # shadow /\ control[i].kind = "call" =>
              control'[i].roots = control[i].roots
    BY <1>1, <1>2, <1>4, <1>5, <1>6, <1>8, <1>11
  <2>2. /\ Values(control'[n]) \subseteq InUse(owner)
        /\ \A o \in Values(control'[n]) : owner[o] = "zone" => zoneOf[o] <= zone
        /\ control'[n].kind = "try" /\ control'[n].pending # None =>
              owner[control'[n].pending] = "gc"
    <3>1. exception \in InUse(owner)
      BY <1>3, OwnersInUse
    <3> QED BY <1>3, <1>4, <1>8, <1>9, <1>10, <3>1
  <2>3. \A i \in shadow .. n : Values(control[i]) \subseteq control[shadow].roots
    BY <1>2, ValuesFit DEF StackFits, n
  <2>4. \A i \in shadow .. n : Values(control'[i]) \subseteq control'[shadow].roots
    BY <1>2, <1>5, <1>6, <1>8, <1>9, <1>10, <1>11, <2>1, <2>3
  <2>5. "zone" \notin Uses => control'[shadow].roots \subseteq InUse(owner)
    <3>1. exception \in InUse(owner)
      BY <1>3, OwnersInUse
    <3>2. "zone" \notin Uses => control[shadow].roots \subseteq InUse(owner)
      BY <1>2 DEF StackFits, SlotsFit, n
    <3> QED BY <1>5, <1>8, <3>1, <3>2
  <2>6. n = Len(control)
    BY DEF n
  <2> QED BY <1>2, <1>8, <2>1, <2>2, <2>4, <2>5, <2>6, StackChanges
<1>13. HeapFits(owner, zoneOf, field, zone, None, module)
  BY <1>2 DEF HeapFits, GlobalsFit
<1>14. StorageFits(owner', zoneOf', field', zone', exception', module', control')
  BY <1>1, <1>12, <1>13 DEF StorageFits, StackFits, memory, stacks
<1> QED BY <1>1, <1>14 DEF Storage, StorageInv

LEMMA RethrowIsSafe ==
    ASSUME StorageInv, Rethrow
    PROVE  Storage'
<1>1. /\ Running /\ Top.kind = "try" /\ Top.phase = "unmatched"
      /\ Raise(Top.pending, owner, Popped, misread) /\ field' = field
  BY DEF Rethrow, Running
<1>2. /\ Good(control, shadow, zone, handler)
      /\ HeapFits(owner, zoneOf, field, zone, exception, module)
      /\ StackFits(control, owner, zoneOf)
      /\ Depth \in Nat \ {0} /\ Top \in Items /\ Depth = Len(control)
      /\ Top = control[Depth]
  BY <1>1, RunningStorage, RunningState DEF Top, Depth
<1>3. Top.pending \in Objects /\ owner[Top.pending] = "gc"
  <2>1. Top.pending \in Objects
    BY <1>1, <1>2, ItemFields
  <2>2. Depth \in 1 .. Len(control)
    BY <1>2
  <2> QED BY <1>1, <1>2, <2>1, <2>2, ValuesFit, NoneIsNoObject DEF StackFits
<1>4. HeapFits(owner, zoneOf, field, zone, Top.pending, module)
  BY <1>2, <1>3 DEF HeapFits, GlobalsFit
<1>5. "zone" \notin Uses => misread = {}
  BY DEF StorageInv, Storage
<1> QED BY <1>1, <1>2, <1>3, <1>4, <1>5, RaiseIsSafe

LEMMA EveryStepIsSafe ==
    ASSUME StorageInv, CarefulPrograms, [Next]_vars
    PROVE  StorageInv'
<1>1. NestingInv'
  BY EveryStepIsSound DEF StorageInv, StepIsSound
<1>2. CASE UNCHANGED vars
  <2>1. Storage'
    BY <1>2 DEF vars, memory, stacks, StorageInv, Storage, Running
  <2> QED BY <1>1, <2>1 DEF StorageInv
<1>3. CASE Next
  <2>1. Running /\ Step
    BY <1>3 DEF Next, Running
  <2>2. ASSUME NEW o \in Exceptions, ThrowNull(o) PROVE FALSE
    BY <2>2 DEF ThrowNull, CarefulPrograms
  <2>3. Storage'
    BY <2>1, <2>2, CallIsSafe, ReturnIsSafe, ProceedIsSafe, MainReturnIsSafe, NewIsSafe,
       StoreIsSafe, LoadIsSafe, ThrowIsSafe, StoreModuleIsSafe, LoadModuleIsSafe,
       ForgetIsSafe, GcCollectIsSafe, SetThresholdIsSafe, EnterZoneIsSafe, LeaveZoneIsSafe,
       FailIsSafe, EnterTryIsSafe, LeaveFinallyIsSafe, DispatchIsSafe, RethrowIsSafe
       DEF Step
  <2> QED BY <1>1, <2>3 DEF StorageInv
<1> QED BY <1>2, <1>3

LEMMA InitIsSafe == Init => StorageInv
<1> SUFFICES ASSUME Init PROVE StorageInv
  OBVIOUS
<1> DEFINE r == CallItem({}, 0)
<1>1. NestingInv /\ Len(control) = 1 /\ control[1] = r
  BY InitIsSound DEF Init
<1>2. r \in Items /\ r.kind = "call" /\ r.vars = {} /\ r.roots = {}
  BY DEF CallItem, Items
<1> HIDE DEF r
<1>3. Values(r) = {}
  BY <1>2, ItemValues
<1>4. HeapFits(owner, zoneOf, field, zone, exception, module)
  BY DEF Init, HeapFits, FieldsFit, ObjectsPlaced, GlobalsFit, InUse
<1>5. ItemsFit(control, owner, zoneOf)
  BY <1>1, <1>2, <1>3 DEF ItemsFit, ItemFits
<1>6. SlotsFit(control, owner)
  BY <1>1, <1>2 DEF SlotsFit
<1>7. misread = {}
  BY DEF Init
<1> QED BY <1>1, <1>4, <1>5, <1>6, <1>7 DEF StorageInv, Storage, StorageFits

-----------------------------------------------------------------------------
(* Theorems. *)

\* The inductive invariant: what an object holds lives as long as the object,
\* and every value of the program is in a slot of its frame, in storage that is
\* in use and in no zone that ends before its scope.
THEOREM StorageIsKept == ASSUME CarefulPrograms PROVE Spec => []StorageInv
<1>1. StorageInv /\ [Next]_vars => StorageInv'
  BY EveryStepIsSafe
<1> QED BY InitIsSafe, <1>1, PTL DEF Spec

\* Neither the collector nor the end of a zone gives back an object that a
\* careful program can still get at, however deep it calls, throws and nests
\* zones: frames, slots, zones and the longjmp of __scalanative_throw agree.
THEOREM LiveObjectsStay == ASSUME CarefulPrograms PROVE Spec => []NothingLiveFreed
<1>1. StorageInv => NothingLiveFreed
  <2> SUFFICES ASSUME StorageInv, Running
               PROVE  Reachable(LiveRoots, field) \cap FreedIn(owner) = {}
    BY DEF NothingLiveFreed
  <2>1. /\ Others /\ Good(control, shadow, zone, handler)
        /\ HeapFits(owner, zoneOf, field, zone, exception, module)
        /\ StackFits(control, owner, zoneOf)
        /\ DOMAIN control = 1 .. Len(control)
    BY RunningStorage, StackTypes
  <2>2. References(LiveRoots) \subseteq InUse(owner)
    <3> DEFINE bound == UNION {control[i].vars \cup Kept(control[i]) : i \in DOMAIN control}
    <3>1. \A i \in DOMAIN control : Values(control[i]) \subseteq InUse(owner)
      BY <2>1, ValuesFit DEF StackFits
    <3>2. bound \subseteq InUse(owner)
      BY <3>1 DEF Values
    <3>3. References({exception, module}) \subseteq InUse(owner)
      BY <2>1, OwnersInUse DEF References, HeapFits, GlobalsFit, Others
    <3>4. LiveRoots = bound \cup {exception, module}
      BY DEF LiveRoots
    <3> HIDE DEF bound
    <3> QED BY <3>2, <3>3, <3>4 DEF References
  <2>3. \A p \in InUse(owner) : field[p] # None => field[p] \in InUse(owner)
    BY <2>1, OwnersInUse DEF HeapFits, FieldsFit, MayOutlive
  <2>4. InUse(owner) \in SUBSET Objects
    BY DEF InUse
  <2>5. Reachable(LiveRoots, field) \subseteq InUse(owner)
    BY <2>2, <2>3, <2>4 DEF Reachable
  <2> QED BY <2>5 DEF InUse, FreedIn
<1> QED BY <1>1, StorageIsKept, PTL

\* The collector of a careful program that uses no zones never reads the header
\* of an object that is gone, not even in a slot that is out of use and not in
\* the last collection: __scalanative_gc_mark_shadow_roots, frames and slots.
THEOREM CollectorReadsLive ==
    ASSUME CarefulPrograms, "zone" \notin Uses PROVE Spec => []CollectorReadsLiveMemory
<1>1. StorageInv => CollectorReadsLiveMemory
  BY DEF StorageInv, Storage, CollectorReadsLiveMemory
<1> QED BY <1>1, StorageIsKept, PTL

-----------------------------------------------------------------------------
(* The size of the heap. *)

\* The collector's objects in `own' are finitely many, and when some of them are
\* new they are within the threshold or a poll has kept what the roots lead to.
Bounded(own) ==
    /\ IsFiniteSet(Collected(own))
    /\ Collected(own) \ Collected(owner) # {}
        => \/ Cardinality(Collected(own)) <= threshold
           \/ Collected(own) \cap Collected(owner)
                 \subseteq Marked(GcRoots(shadow, exception), owner, field)

LEMMA FewerAreBounded ==
    ASSUME NEW own, Bounded(own), threshold \in Nat,
           NEW less, Collected(less) \subseteq Collected(own)
    PROVE  Bounded(less)
<1>1. /\ IsFiniteSet(Collected(less))
      /\ Cardinality(Collected(less)) \in Nat /\ Cardinality(Collected(own)) \in Nat
      /\ Cardinality(Collected(less)) <= Cardinality(Collected(own))
  BY FS_Subset, FS_CardinalityType DEF Bounded
<1>2. CASE Collected(own) \ Collected(owner) = {}
  <2>1. Collected(less) \ Collected(owner) = {}
    BY <1>2
  <2> QED BY <1>1, <2>1 DEF Bounded
<1>3. CASE Cardinality(Collected(own)) <= threshold
  <2>1. Cardinality(Collected(less)) <= threshold
    BY <1>1, <1>3
  <2> QED BY <1>1, <2>1 DEF Bounded
<1>4. CASE Collected(own) \cap Collected(owner)
               \subseteq Marked(GcRoots(shadow, exception), owner, field)
  <2>1. Collected(less) \cap Collected(owner)
            \subseteq Marked(GcRoots(shadow, exception), owner, field)
    BY <1>4
  <2> QED BY <1>1, <2>1 DEF Bounded
<1> QED BY <1>2, <1>3, <1>4 DEF Bounded

\* Collections and the ends of zones and of the program add nothing.
LEMMA ReleaseAddsNothing ==
    ASSUME NEW own, NEW roots, NEW levels
    PROVE  /\ Collected(Swept(roots, own, field)) \subseteq Collected(own)
           /\ Collected(WithoutZones(own, levels)) \subseteq Collected(own)
           /\ Collected(WithoutArena(own)) \subseteq Collected(own)
<1>1. ASSUME NEW o \in Objects, Swept(roots, own, field)[o] = "gc" PROVE own[o] = "gc"
  BY <1>1 DEF Swept
<1>2. ASSUME NEW o \in Objects, WithoutZones(own, levels)[o] = "gc" PROVE own[o] = "gc"
  BY <1>2 DEF WithoutZones
<1>3. ASSUME NEW o \in Objects, WithoutArena(own)[o] = "gc" PROVE own[o] = "gc"
  BY <1>3 DEF WithoutArena
<1> QED BY <1>1, <1>2, <1>3 DEF Collected

\* Fewer frames, fewer roots: every frame is linked while the program runs.
LEMMA ShadowHasAllRoots ==
    ASSUME NestingInv, Running, NEW top, NEW thrown
    PROVE  GcRoots(top, thrown) \subseteq GcRoots(shadow, thrown)
<1>1. Linked(shadow) = Calls(control, Depth)
  BY RunningState, EveryCallIsLinked
<1>2. Linked(top) \subseteq Linked(shadow)
  BY <1>1, LinkedFrames
<1> QED BY <1>2 DEF GcRoots, References

\* The poll before an allocation, by a frame that is still linked or just popped.
LEMMA AllocationIsBounded ==
    ASSUME NestingInv, HeapIsFinite, Running, NEW top, NEW o \in Objects,
           owner[o] = "unused"
    PROVE  Bounded(Allocated(o, top))
<1> DEFINE polled == AfterPoll(top)
           own == Allocated(o, top)
<1>1. threshold \in Nat /\ owner \in [Objects -> Owners]
  BY RunningState DEF Others
<1>2. polled \in [Objects -> Owners] /\ own = [polled EXCEPT ![o] = "gc"]
  <2>1. polled \in [Objects -> Owners]
    BY <1>1, StorageTypes DEF AfterPoll, AfterCollection
  <2> QED BY <2>1 DEF Allocated
<1>3. Collected(polled) \subseteq Collected(owner) /\ o \notin Collected(owner)
  <2>1. Collected(AfterCollection(owner, top, exception)) \subseteq Collected(owner)
    BY ReleaseAddsNothing DEF AfterCollection
  <2> QED BY <2>1 DEF AfterPoll, Collected
<1>4. Collected(own) = Collected(polled) \cup {o}
  <2> HIDE DEF polled
  <2>1. own[o] = "gc" /\ \A x \in Objects : x # o => own[x] = polled[x]
    BY <1>2
  <2> HIDE DEF own
  <2> QED BY <2>1 DEF Collected
<1> HIDE DEF own
<1>5. IsFiniteSet(Collected(polled)) /\ IsFiniteSet(Collected(own))
  <2>1. IsFiniteSet(Collected(polled))
    BY <1>3, FS_Subset DEF HeapIsFinite
  <2> QED BY <1>4, <2>1, FS_AddElement
<1>6. CASE PollIsDue
  <2>1. polled = Swept(GcRoots(top, exception), owner, field)
    BY <1>6 DEF AfterPoll, AfterCollection
  <2>2. Collected(polled) \subseteq Marked(GcRoots(top, exception), owner, field)
    BY <2>1 DEF Collected, Swept
  <2>3. Marked(GcRoots(top, exception), owner, field)
            \subseteq Marked(GcRoots(shadow, exception), owner, field)
    BY ShadowHasAllRoots, MarkedMonotone
  <2>4. Collected(own) \cap Collected(owner)
            \subseteq Marked(GcRoots(shadow, exception), owner, field)
    BY <1>3, <1>4, <2>2, <2>3
  <2> QED BY <1>5, <2>4 DEF Bounded, own
<1>7. CASE ~ PollIsDue
  <2>1. polled = owner
    BY <1>7 DEF AfterPoll
  <2>2. Cardinality(Collected(owner)) \in Nat /\ Cardinality(Collected(owner)) < threshold
    BY <1>1, <1>7, FS_CardinalityType DEF PollIsDue, HeapIsFinite
  <2>3. Cardinality(Collected(own)) = Cardinality(Collected(owner)) + 1
    BY <1>3, <1>4, <2>1, FS_AddElement DEF HeapIsFinite
  <2>4. Cardinality(Collected(own)) <= threshold
    BY <1>1, <2>2, <2>3
  <2> QED BY <1>5, <2>4 DEF Bounded, own
<1> QED BY <1>6, <1>7

LEMMA NothingNewIsBounded ==
    ASSUME HeapIsFinite PROVE Bounded(owner)
BY DEF HeapIsFinite, Bounded

LEMMA ShutdownAddsNothing ==
    ASSUME NEW own, NEW top, NEW thrown, NEW seen, Shutdown(own, top, thrown, seen)
    PROVE  Collected(owner') \subseteq Collected(own)
<1>1. PICK zoneless, left : /\ zoneless = WithoutZones(own, 1 .. zone)
                           /\ left = Swept(GcRoots(top, thrown), zoneless, field)
                           /\ owner' = WithoutArena(left)
  BY DEF Shutdown, AfterCollection
<1>2. Collected(zoneless) \subseteq Collected(own)
  BY <1>1, ReleaseAddsNothing
<1>3. Collected(left) \subseteq Collected(zoneless)
  BY <1>1, ReleaseAddsNothing
<1>4. Collected(WithoutArena(left)) \subseteq Collected(left)
  BY ReleaseAddsNothing
<1> QED BY <1>1, <1>2, <1>3, <1>4

\* A throw ends zones, or the program.
LEMMA RaiseAddsNothing ==
    ASSUME NEW thrown, NEW own, NEW top, NEW seen, Raise(thrown, own, top, seen)
    PROVE  Collected(owner') \subseteq Collected(own)
<1>1. CASE handler > 0
  <2>1. PICK levels : owner' = WithoutZones(own, levels)
    BY <1>1 DEF Raise
  <2> QED BY <2>1, ReleaseAddsNothing
<1>2. CASE ~ (handler > 0)
  <2>1. Shutdown(own, top, thrown, seen)
    BY <1>2 DEF Raise
  <2> QED BY <2>1, ShutdownAddsNothing
<1> QED BY <1>1, <1>2

LEMMA EveryStepIsBounded ==
    ASSUME NestingInv, HeapIsFinite, [Next]_vars
    PROVE  Bounded(owner')
<1>1. CASE owner' = owner
  BY <1>1, NothingNewIsBounded
<1>2. CASE Next
  <2>1. Running /\ Step
    BY <1>2 DEF Next, Running
  <2>2. threshold \in Nat /\ owner \in [Objects -> Owners]
    BY <2>1, RunningState DEF Others
  <2>3. ASSUME Collected(owner') \subseteq Collected(owner) PROVE Bounded(owner')
    BY <2>2, <2>3, NothingNewIsBounded, FewerAreBounded
  <2>4. ASSUME NEW o \in Objects, New(o) PROVE Bounded(owner')
    <3>1. CASE NewOnHeap(o)
      BY <2>1, <2>4, <3>1, AllocationIsBounded DEF New, NewOnHeap
    <3>2. ASSUME NEW arena \in {"zone", "program"}, NEW level, NewInArena(o, arena, level)
          PROVE  Bounded(owner')
      <4>1. owner' = [owner EXCEPT ![o] = arena]
        BY <3>2 DEF NewInArena
      <4>2. Collected(owner') \subseteq Collected(owner)
        BY <2>2, <4>1 DEF Collected
      <4> QED BY <2>3, <4>2
    <3> QED BY <2>4, <3>1, <3>2 DEF New
  <2>5. ASSUME NEW o \in Exceptions, Fail(o) \/ ThrowNull(o) PROVE Bounded(owner')
    <3>1. ASSUME NEW STATE top, RaiseFailure(o, top) PROVE Bounded(owner')
      <4>1. owner[o] = "unused" /\ o \in Objects
        BY <3>1, ObjectsByClass DEF RaiseFailure
      <4>2. Collected(owner') \subseteq Collected(Allocated(o, top))
        BY <3>1, RaiseAddsNothing DEF RaiseFailure
      <4> QED BY <2>1, <2>2, <4>1, <4>2, AllocationIsBounded, FewerAreBounded
    <3> QED BY <2>5, <3>1 DEF Fail, ThrowNull
  <2>6. ASSUME (\E x \in Visible : Throw(x)) \/ Rethrow PROVE Bounded(owner')
    <3>1. Collected(owner') \subseteq Collected(owner)
      BY <2>6, RaiseAddsNothing DEF Throw, Rethrow
    <3> QED BY <2>3, <3>1
  <2>7. ASSUME MainReturn \/ GcCollect \/ LeaveZone PROVE Bounded(owner')
    <3>1. CASE MainReturn
      BY <2>3, <3>1, ShutdownAddsNothing DEF MainReturn
    <3>2. CASE GcCollect
      <4>1. PICK roots : owner' = Swept(roots, owner, field)
        BY <3>2 DEF GcCollect, AfterCollection
      <4> QED BY <2>3, <4>1, ReleaseAddsNothing
    <3>3. CASE LeaveZone
      <4>1. PICK levels : owner' = WithoutZones(owner, levels)
        BY <3>3 DEF LeaveZone
      <4> QED BY <2>3, <4>1, ReleaseAddsNothing
    <3> QED BY <2>7, <3>1, <3>2, <3>3
  <2>8. ASSUME \/ \E args \in Results : Call(args) \/ Return(args)
               \/ \E result \in Results : LeaveBody(result) \/ LeaveCatch(result)
               \/ \E x \in Visible, y \in Visible \cup {None} : Store(x, y)
               \/ \E x \in Visible : Load(x)
               \/ \E y \in Visible \cup {None} : StoreModule(y)
               \/ LoadModule \/ EnterZone \/ LeaveFinally
               \/ \E o \in Top.vars : Forget(o)
               \/ \E n \in Thresholds : SetThreshold(n)
               \/ \E form \in Tries : EnterTry(form)
               \/ Dispatch("catch") \/ Dispatch("unmatched")
        PROVE  owner' = owner
    BY <2>8 DEF Call, Return, LeaveBody, LeaveCatch, Store, Load, StoreModule, LoadModule,
                EnterZone, LeaveFinally, Forget, SetThreshold, EnterTry, OpenTry, Dispatch,
                memory
  <2> QED BY <1>1, <2>1, <2>4, <2>5, <2>6, <2>7, <2>8 DEF Step
<1> QED BY <1>1, <1>2 DEF vars, memory

\* The heap of the collector grows past the threshold only with what the roots
\* lead to, whatever the program does and even when the frame is popped before
\* the allocation: __scalanative_gc_object_alloc polls first.
THEOREM HeapStaysBounded == Spec => HeapBounded
<1>1. Init => HeapIsFinite
  <2>1. Init => Collected(owner) = {}
    BY DEF Init, Collected
  <2> QED BY <2>1, FS_EmptySet DEF HeapIsFinite
<1>2. NestingInv /\ HeapIsFinite /\ [Next]_vars => HeapIsFinite'
  BY EveryStepIsBounded DEF Bounded, HeapIsFinite
<1>3. NestingInv /\ HeapIsFinite /\ [Next]_vars
      => [ (Running' /\ Collected(owner') \ Collected(owner) # {})
           => \/ Cardinality(Collected(owner')) <= threshold
              \/ Collected(owner') \cap Collected(owner)
                    \subseteq Marked(GcRoots(shadow, exception), owner, field) ]_vars
  BY EveryStepIsBounded DEF Bounded
<1> QED BY <1>1, <1>2, <1>3, NestingAlways, PTL DEF HeapBounded, Spec

===============================================================================
