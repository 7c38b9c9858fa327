-------------------------- MODULE NativeRuntimeProofs --------------------------
(***************************************************************************)
(* Proofs about the native runtime, for any number of objects, any forms   *)
(* of try and any depth: the globals that the runtime saves and restores   *)
(* agree with the nesting of the program, and no exception from the body   *)
(* of a try gets past its finalizer.                                       *)
(***************************************************************************)
EXTENDS NativeRuntime, FiniteSetTheorems, TLAPS

-----------------------------------------------------------------------------
(* Positions. *)

\* n is the last of the positions, or 0 when there is none.
IsInnermost(n, positions) ==
    n \in {0} \cup positions /\ \A m \in positions : m <= n

\* The maximum that Innermost chooses is determined.
LEMMA InnermostIsUnique ==
    ASSUME NEW positions \in SUBSET Nat, NEW n, IsInnermost(n, positions)
    PROVE  Innermost(positions) = n
<1> DEFINE S == {0} \cup positions
<1>1. n \in S /\ \A m \in S : n >= m
  BY DEF IsInnermost
<1>2. \A x \in S : (\A m \in S : x >= m) => x = n
  BY <1>1
<1>3. Max(S) = n
  <2> HIDE DEF S
  <2> QED BY <1>1, <1>2 DEF Max
<1> QED BY <1>3 DEF Innermost

\* Two sequences of items are nested alike up to n when their items there
\* differ in values only.
SameItem(a, b) ==
    /\ a.kind = b.kind
    /\ a.kind \in {"call", "zone"} => a.previous = b.previous
    /\ a.kind = "try" => /\ a.handler = b.handler
                         /\ a.shadow = b.shadow
                         /\ a.zone = b.zone
                         /\ a.phase = "body" <=> b.phase = "body"
Alike(c, d, n) == \A i \in 1 .. n : SameItem(c[i], d[i])

\* What an item saved is what was the case below it.
Saved(c, i) ==
    /\ c[i].kind = "call" => IsInnermost(c[i].previous, Calls(c, i - 1))
    /\ c[i].kind = "zone" => c[i].previous = Cardinality(Zones(c, i - 1))
    /\ c[i].kind = "try" =>
          /\ IsInnermost(c[i].shadow, Calls(c, i - 1))
          /\ c[i].zone = Cardinality(Zones(c, i - 1))
          /\ IsInnermost(c[i].handler, Bodies(c, i - 1))

\* The first n items are nested as a program nests them: main comes first.
Nested(c, n) ==
    /\ n >= 1 /\ c[1].kind = "call"
    /\ \A i \in 1 .. n : Saved(c, i)

\* The globals are those of the first n items.
Matches(s, z, h, c, n) ==
    /\ IsInnermost(s, Calls(c, n))
    /\ z = Cardinality(Zones(c, n))
    /\ IsInnermost(h, Bodies(c, n))

LEMMA AlikePositions ==
    ASSUME NEW c, NEW d, NEW n \in Nat, Alike(c, d, n), NEW m \in 0 .. n
    PROVE  /\ Calls(c, m) = Calls(d, m)
           /\ Zones(c, m) = Zones(d, m)
           /\ Bodies(c, m) = Bodies(d, m)
<1>1. \A i \in 1 .. m : SameItem(c[i], d[i])
  BY DEF Alike
<1> QED BY <1>1 DEF Calls, Zones, Bodies, SameItem

LEMMA AlikeNested ==
    ASSUME NEW c, NEW d, NEW n \in Nat, Alike(c, d, n), Nested(c, n)
    PROVE  Nested(d, n)
<1>1. ASSUME NEW i \in 1 .. n PROVE Saved(d, i)
  <2>1. SameItem(c[i], d[i]) /\ Saved(c, i) /\ i - 1 \in 0 .. n
    BY DEF Alike, Nested
  <2>2. /\ Calls(c, i - 1) = Calls(d, i - 1)
        /\ Zones(c, i - 1) = Zones(d, i - 1)
        /\ Bodies(c, i - 1) = Bodies(d, i - 1)
    BY <2>1, AlikePositions
  <2> QED BY <2>1, <2>2 DEF Saved, SameItem
<1>2. n >= 1 /\ d[1].kind = "call"
  BY DEF Nested, Alike, SameItem
<1> QED BY <1>1, <1>2 DEF Nested

LEMMA AlikeMatches ==
    ASSUME NEW c, NEW d, NEW n \in Nat, Alike(c, d, n),
           NEW s, NEW z, NEW h, Matches(s, z, h, c, n)
    PROVE  Matches(s, z, h, d, n)
<1>1. n \in 0 .. n
  OBVIOUS
<1> QED BY <1>1, AlikePositions DEF Matches

\* What the last item saved matches the rest.
LEMMA SavedMatches ==
    ASSUME NEW c, NEW n \in Nat, Nested(c, n), NEW i \in 1 .. n
    PROVE  /\ c[i].kind = "call" => IsInnermost(c[i].previous, Calls(c, i - 1))
           /\ c[i].kind = "zone" => c[i].previous = Cardinality(Zones(c, i - 1))
           /\ c[i].kind = "try" =>
                 Matches(c[i].shadow, c[i].zone, c[i].handler, c, i - 1)
BY DEF Nested, Saved, Matches

\* Zones are finitely many.
LEMMA ZonesFinite ==
    ASSUME NEW c, NEW n \in Nat
    PROVE  IsFiniteSet(Zones(c, n)) /\ Cardinality(Zones(c, n)) \in Nat
<1>1. IsFiniteSet(1 .. n)
  BY FS_Interval
<1>2. Zones(c, n) \subseteq 1 .. n
  BY DEF Zones
<1> QED BY <1>1, <1>2, FS_Subset, FS_CardinalityType

\* One item more or less.
LEMMA OneMore ==
    ASSUME NEW c, NEW n \in Nat, NEW m, m = n + 1
    PROVE  /\ c[m].kind = "call" => Calls(c, m) = Calls(c, n) \cup {m}
           /\ c[m].kind # "call" => Calls(c, m) = Calls(c, n)
           /\ c[m].kind = "try" /\ c[m].phase = "body" =>
                 Bodies(c, m) = Bodies(c, n) \cup {m}
           /\ ~ (c[m].kind = "try" /\ c[m].phase = "body") =>
                 Bodies(c, m) = Bodies(c, n)
           /\ c[m].kind = "zone" =>
                 Cardinality(Zones(c, m)) = Cardinality(Zones(c, n)) + 1
           /\ c[m].kind # "zone" =>
                 Cardinality(Zones(c, m)) = Cardinality(Zones(c, n))
<1>1. 1 .. m = (1 .. n) \cup {m} /\ m \notin 1 .. n
  OBVIOUS
<1>2. ASSUME c[m].kind = "zone"
      PROVE  Cardinality(Zones(c, m)) = Cardinality(Zones(c, n)) + 1
  <2>1. Zones(c, m) = Zones(c, n) \cup {m} /\ m \notin Zones(c, n)
    BY <1>1, <1>2 DEF Zones
  <2> QED BY <2>1, ZonesFinite, FS_AddElement
<1>3. ASSUME c[m].kind # "zone" PROVE Zones(c, m) = Zones(c, n)
  BY <1>1, <1>3 DEF Zones
<1>4. /\ c[m].kind = "call" => Calls(c, m) = Calls(c, n) \cup {m}
      /\ c[m].kind # "call" => Calls(c, m) = Calls(c, n)
  BY <1>1 DEF Calls
<1>5. c[m].kind = "try" /\ c[m].phase = "body" => Bodies(c, m) = Bodies(c, n) \cup {m}
  BY <1>1 DEF Bodies
<1>6. ~ (c[m].kind = "try" /\ c[m].phase = "body") => Bodies(c, m) = Bodies(c, n)
  BY <1>1 DEF Bodies
<1> QED BY <1>2, <1>3, <1>4, <1>5, <1>6

\* What is innermost when a position is added at the end.
LEMMA InnermostMore ==
    ASSUME NEW positions, NEW n \in Nat, positions \subseteq 1 .. n, NEW m, m = n + 1
    PROVE  IsInnermost(m, positions \cup {m})
BY DEF IsInnermost

LEMMA NestedMore ==
    ASSUME NEW c, NEW n \in Nat, NEW m, m = n + 1
    PROVE  Nested(c, m) <=> (IF n = 0 THEN c[1].kind = "call" ELSE Nested(c, n))
                            /\ Saved(c, m)
<1>1. 1 .. m = (1 .. n) \cup {m}
  OBVIOUS
<1>2. (\A i \in 1 .. m : Saved(c, i)) <=> (\A i \in 1 .. n : Saved(c, i)) /\ Saved(c, m)
  BY <1>1
<1>3. CASE n = 0
  BY <1>2, <1>3 DEF Nested
<1>4. CASE n > 0
  BY <1>2, <1>4 DEF Nested
<1> QED BY <1>3, <1>4

\* The globals follow the nesting, by the kind of the last item.
LEMMA MatchesMore ==
    ASSUME NEW c, NEW n \in Nat, NEW m, m = n + 1, NEW s, NEW z, NEW h
    PROVE  /\ c[m].kind = "call" /\ Matches(s, z, h, c, n) => Matches(m, z, h, c, m)
           /\ c[m].kind = "zone" /\ Matches(s, z, h, c, n) => Matches(s, z + 1, h, c, m)
           /\ c[m].kind = "try" /\ c[m].phase = "body" /\ Matches(s, z, h, c, n) =>
                 Matches(s, z, m, c, m)
           /\ c[m].kind = "try" /\ c[m].phase # "body" =>
                 (Matches(s, z, h, c, n) <=> Matches(s, z, h, c, m))
<1>1. Calls(c, n) \subseteq 1 .. n /\ Bodies(c, n) \subseteq 1 .. n
  BY DEF Calls, Bodies
<1>2. IsInnermost(m, Calls(c, n) \cup {m}) /\ IsInnermost(m, Bodies(c, n) \cup {m})
  BY <1>1, InnermostMore
<1>3. ASSUME c[m].kind = "call", Matches(s, z, h, c, n) PROVE Matches(m, z, h, c, m)
  <2>1. c[m].kind = "call" /\ c[m].kind # "zone" /\ c[m].kind # "try"
    BY <1>3
  <2>2. Calls(c, m) = Calls(c, n) \cup {m}
    <3>1. 1 .. m = (1 .. n) \cup {m}
      OBVIOUS
    <3> QED BY <2>1, <3>1 DEF Calls
  <2>3. Bodies(c, m) = Bodies(c, n)
    BY <2>1, OneMore
  <2>4. Cardinality(Zones(c, m)) = Cardinality(Zones(c, n))
    BY <2>1, OneMore
  <2> QED BY <1>2, <1>3, <2>2, <2>3, <2>4 DEF Matches
<1>4. ASSUME c[m].kind = "zone", Matches(s, z, h, c, n) PROVE Matches(s, z + 1, h, c, m)
  <2>1. /\ Calls(c, m) = Calls(c, n) /\ Bodies(c, m) = Bodies(c, n)
        /\ Cardinality(Zones(c, m)) = Cardinality(Zones(c, n)) + 1
    BY <1>4, OneMore
  <2> QED BY <1>4, <2>1 DEF Matches
<1>5. ASSUME c[m].kind = "try", c[m].phase = "body", Matches(s, z, h, c, n)
      PROVE  Matches(s, z, m, c, m)
  <2>1. /\ Calls(c, m) = Calls(c, n) /\ Bodies(c, m) = Bodies(c, n) \cup {m}
        /\ Cardinality(Zones(c, m)) = Cardinality(Zones(c, n))
    BY <1>5, OneMore
  <2> QED BY <1>2, <1>5, <2>1 DEF Matches
<1>6. ASSUME c[m].kind = "try", c[m].phase # "body"
      PROVE  Matches(s, z, h, c, n) <=> Matches(s, z, h, c, m)
  <2>1. /\ Calls(c, m) = Calls(c, n) /\ Bodies(c, m) = Bodies(c, n)
        /\ Cardinality(Zones(c, m)) = Cardinality(Zones(c, n))
    BY <1>6, OneMore
  <2> QED BY <2>1 DEF Matches
<1> QED BY <1>3, <1>4, <1>5, <1>6

\* The globals below the last item: what it saved, and the rest as it is.
LEMMA MatchesBelow ==
    ASSUME NEW c, NEW n \in Nat, NEW m, m = n + 1, Saved(c, m),
           NEW s, NEW z, NEW h, Matches(s, z, h, c, m)
    PROVE  /\ c[m].kind = "call" => Matches(c[m].previous, z, h, c, n)
           /\ c[m].kind = "zone" => Matches(s, c[m].previous, h, c, n)
           /\ c[m].kind = "try" /\ c[m].phase = "body" =>
                 Matches(s, z, c[m].handler, c, n)
           /\ c[m].kind = "try" /\ c[m].phase # "body" => Matches(s, z, h, c, n)
<1>1. m - 1 = n
  OBVIOUS
<1>2. ASSUME c[m].kind = "call" PROVE Matches(c[m].previous, z, h, c, n)
  <2>1. /\ Bodies(c, m) = Bodies(c, n)
        /\ Cardinality(Zones(c, m)) = Cardinality(Zones(c, n))
    BY <1>2, OneMore
  <2>2. IsInnermost(c[m].previous, Calls(c, n))
    BY <1>1, <1>2 DEF Saved
  <2> QED BY <2>1, <2>2 DEF Matches
<1>3. ASSUME c[m].kind = "zone" PROVE Matches(s, c[m].previous, h, c, n)
  <2>1. Calls(c, m) = Calls(c, n) /\ Bodies(c, m) = Bodies(c, n)
    BY <1>3, OneMore
  <2>2. c[m].previous = Cardinality(Zones(c, n))
    BY <1>1, <1>3 DEF Saved
  <2> QED BY <2>1, <2>2 DEF Matches
<1>4. ASSUME c[m].kind = "try", c[m].phase = "body"
      PROVE  Matches(s, z, c[m].handler, c, n)
  <2>1. /\ Calls(c, m) = Calls(c, n)
        /\ Cardinality(Zones(c, m)) = Cardinality(Zones(c, n))
    BY <1>4, OneMore
  <2>2. IsInnermost(c[m].handler, Bodies(c, n))
    BY <1>1, <1>4 DEF Saved
  <2> QED BY <2>1, <2>2 DEF Matches
<1>5. ASSUME c[m].kind = "try", c[m].phase # "body" PROVE Matches(s, z, h, c, n)
  BY <1>5, MatchesMore
<1> QED BY <1>2, <1>3, <1>4, <1>5

-----------------------------------------------------------------------------
(* Stacks of items. *)

Abandoned(item) == item.kind = "try" /\ item.phase = "raised"
Calm(c) == ~ Abandoned(c[Len(c)])

\* A typed stack that is nested, with the globals that match it, and an
\* exception on its way only at the top.
Good(c, s, z, h) ==
    /\ c \in Seq(Items)
    /\ Nested(c, Len(c))
    /\ Matches(s, z, h, c, Len(c))
    /\ \A i \in 1 .. Len(c) - 1 : ~ Abandoned(c[i])

LEMMA ItemFields ==
    ASSUME NEW r \in Items
    PROVE  /\ r.kind \in {"call", "zone", "try"}
           /\ r.vars \in SUBSET Objects
           /\ r.kind = "call" => r.roots \in SUBSET Objects /\ r.previous \in Nat
           /\ r.kind = "zone" => r.previous \in Nat
           /\ r.kind = "try" => /\ r.phase \in Phases /\ r.clauses \in Clauses
                                /\ r.finalizer \in BOOLEAN
                                /\ r.result \in SUBSET Objects
                                /\ r.pending \in Objects \cup {None}
                                /\ r.phase = "unmatched" => r.pending \in Objects
                                /\ r.handler \in Nat /\ r.shadow \in Nat
                                /\ r.zone \in Nat
BY DEF Items, TryItems, Phases

LEMMA WithVars ==
    ASSUME NEW r \in Items, NEW V \in SUBSET Objects
    PROVE  /\ [r EXCEPT !.vars = V] \in Items
           /\ SameItem(r, [r EXCEPT !.vars = V])
           /\ Abandoned([r EXCEPT !.vars = V]) <=> Abandoned(r)
BY DEF Items, TryItems, SameItem, Abandoned

LEMMA WithRoots ==
    ASSUME NEW r \in Items, r.kind = "call", NEW R \in SUBSET Objects
    PROVE  /\ [r EXCEPT !.roots = R] \in Items
           /\ SameItem(r, [r EXCEPT !.roots = R])
           /\ ~ Abandoned([r EXCEPT !.roots = R]) /\ ~ Abandoned(r)
BY DEF Items, TryItems, SameItem, Abandoned

\* A try may go from one phase to another.
LEMMA WithPhase ==
    ASSUME NEW r \in Items, r.kind = "try", NEW phase \in Phases,
           NEW V \in SUBSET Objects, NEW R \in SUBSET Objects,
           NEW p \in Objects \cup {None}, phase = "unmatched" => p \in Objects,
           NEW q, q = [r EXCEPT !.phase = phase, !.vars = V, !.result = R, !.pending = p]
    PROVE  /\ q \in Items /\ q.kind = "try" /\ q.phase = phase
           /\ q.handler = r.handler /\ q.shadow = r.shadow /\ q.zone = r.zone
BY DEF Items, TryItems, Phases

\* The frame of a good stack is a call in it.
LEMMA FrameOfGood ==
    ASSUME NEW c, NEW s, NEW z, NEW h, Good(c, s, z, h)
    PROVE  /\ Frame(c) = s
           /\ s \in 1 .. Len(c)
           /\ c[s].kind = "call"
           /\ Len(c) \in Nat \ {0}
<1>1. c \in Seq(Items) /\ Len(c) \in Nat /\ Len(c) >= 1 /\ c[1].kind = "call"
  BY DEF Good, Nested
<1>2. Calls(c, Len(c)) \in SUBSET Nat /\ 1 \in Calls(c, Len(c))
  BY <1>1 DEF Calls
<1>3. IsInnermost(s, Calls(c, Len(c)))
  BY DEF Good, Matches
<1>4. Frame(c) = s
  BY <1>2, <1>3, InnermostIsUnique DEF Frame
<1>5. s \in Calls(c, Len(c))
  BY <1>2, <1>3 DEF IsInnermost
<1> QED BY <1>1, <1>4, <1>5 DEF Calls

\* Values may change anywhere.
LEMMA GoodAlike ==
    ASSUME NEW c, NEW d \in Seq(Items), NEW s, NEW z, NEW h, Good(c, s, z, h),
           Len(d) = Len(c), Alike(c, d, Len(c)),
           \A i \in 1 .. Len(c) - 1 : ~ Abandoned(d[i])
    PROVE  Good(d, s, z, h)
<1>1. Len(c) \in Nat /\ Nested(c, Len(c)) /\ Matches(s, z, h, c, Len(c))
  BY DEF Good
<1>2. Nested(d, Len(c)) /\ Matches(s, z, h, d, Len(c))
  BY <1>1, AlikeNested, AlikeMatches
<1> QED BY <1>2 DEF Good

\* One item is replaced by one that differs in values only.
LEMMA GoodReplace ==
    ASSUME NEW c, NEW s, NEW z, NEW h, Good(c, s, z, h),
           NEW i \in 1 .. Len(c), NEW r \in Items, SameItem(c[i], r),
           Abandoned(r) <=> Abandoned(c[i])
    PROVE  /\ Good([c EXCEPT ![i] = r], s, z, h)
           /\ Len([c EXCEPT ![i] = r]) = Len(c)
           /\ Calm([c EXCEPT ![i] = r]) <=> Calm(c)
<1> DEFINE d == [c EXCEPT ![i] = r]
<1>1. c \in Seq(Items) /\ d \in Seq(Items) /\ Len(d) = Len(c) /\ d[i] = r
  BY DEF Good
<1>2. \A j \in 1 .. Len(c) : j # i => d[j] = c[j]
  BY <1>1
<1>3. Alike(c, d, Len(c))
  BY <1>1, <1>2 DEF Alike, SameItem
<1>4. \A j \in 1 .. Len(c) - 1 : ~ Abandoned(d[j])
  BY <1>1, <1>2 DEF Good
<1> HIDE DEF d
<1>5. Good(d, s, z, h)
  BY <1>1, <1>3, <1>4, GoodAlike
<1>6. Calm(d) <=> Calm(c)
  <2>1. Len(c) \in 1 .. Len(c)
    BY FrameOfGood
  <2> QED BY <1>1, <1>2, <2>1 DEF Calm
<1> QED BY <1>1, <1>5, <1>6 DEF d

LEMMA GoodBind ==
    ASSUME NEW c, NEW s, NEW z, NEW h, Good(c, s, z, h), NEW V \in SUBSET Objects
    PROVE  /\ Good(Bind(c, V), s, z, h) /\ Len(Bind(c, V)) = Len(c)
           /\ Calm(Bind(c, V)) <=> Calm(c)
<1> DEFINE n == Len(c)
           r == [c[n] EXCEPT !.vars = c[n].vars \cup V]
           d == [c EXCEPT ![n] = r]
           q == [d[s] EXCEPT !.roots = d[s].roots \cup V]
<1>1. c \in Seq(Items) /\ n \in 1 .. Len(c) /\ c[n] \in Items
  BY FrameOfGood DEF Good
<1>2. r \in Items /\ SameItem(c[n], r) /\ (Abandoned(r) <=> Abandoned(c[n]))
  BY <1>1, ItemFields, WithVars
<1>3. Good(d, s, z, h) /\ Len(d) = n /\ (Calm(d) <=> Calm(c))
  BY <1>1, <1>2, GoodReplace
<1>4. s \in 1 .. Len(d) /\ d[s].kind = "call" /\ d \in Seq(Items) /\ d[s] \in Items
  BY <1>3, FrameOfGood DEF Good
<1>5. q \in Items /\ SameItem(d[s], q) /\ (Abandoned(q) <=> Abandoned(d[s]))
  BY <1>4, ItemFields, WithRoots
<1>6. /\ Good([d EXCEPT ![s] = q], s, z, h) /\ Len([d EXCEPT ![s] = q]) = n
      /\ Calm([d EXCEPT ![s] = q]) <=> Calm(c)
  <2> HIDE DEF d, q, n
  <2> QED BY <1>3, <1>4, <1>5, GoodReplace
<1>7. Bind(c, V) = [d EXCEPT ![s] = q]
  BY <1>1, <1>4, FrameOfGood DEF Bind
<1> QED BY <1>6, <1>7

LEMMA GoodReleased ==
    ASSUME NEW c, NEW s, NEW z, NEW h, Good(c, s, z, h), NEW V,
           NEW d \in Released(c, V)
    PROVE  Good(d, s, z, h) /\ Len(d) = Len(c) /\ (Calm(d) <=> Calm(c))
<1>1. Frame(c) = s /\ s \in 1 .. Len(c) /\ c[s].kind = "call" /\ c[s] \in Items
  BY FrameOfGood DEF Good
<1>2. PICK W : d \in {c, [c EXCEPT ![s].roots = @ \ W]}
  BY <1>1 DEF Released
<1> DEFINE q == [c[s] EXCEPT !.roots = c[s].roots \ W]
<1>3. q \in Items /\ SameItem(c[s], q) /\ (Abandoned(q) <=> Abandoned(c[s]))
  BY <1>1, ItemFields, WithRoots
<1>4. /\ Good([c EXCEPT ![s] = q], s, z, h) /\ Len([c EXCEPT ![s] = q]) = Len(c)
      /\ Calm([c EXCEPT ![s] = q]) <=> Calm(c)
  <2> HIDE DEF q
  <2> QED BY <1>1, <1>3, GoodReplace
<1>5. [c EXCEPT ![s].roots = @ \ W] = [c EXCEPT ![s] = q]
  BY <1>1 DEF Good
<1> QED BY <1>2, <1>4, <1>5

\* A scope begins: the item saved what is the case.
LEMMA GoodPush ==
    ASSUME NEW c, NEW s, NEW z, NEW h, Good(c, s, z, h), Calm(c),
           NEW r \in Items, NEW m, m = Len(c) + 1
    PROVE  /\ Len(Append(c, r)) = m /\ (~ Abandoned(r) => Calm(Append(c, r)))
           /\ r.kind = "call" /\ r.previous = s => Good(Append(c, r), m, z, h)
           /\ r.kind = "zone" /\ r.previous = z => Good(Append(c, r), s, z + 1, h)
           /\ r.kind = "try" /\ r.phase = "body" /\ r.shadow = s /\ r.zone = z
                 /\ r.handler = h => Good(Append(c, r), s, z, m)
<1> DEFINE d == Append(c, r)
           n == Len(c)
<1>1. c \in Seq(Items) /\ n \in Nat \ {0} /\ Nested(c, n) /\ Matches(s, z, h, c, n)
  BY DEF Good, Nested
<1>2. d \in Seq(Items) /\ Len(d) = m /\ d[m] = r /\ \A i \in 1 .. n : d[i] = c[i]
  BY <1>1
<1>3. m = n + 1 /\ m - 1 = n
  BY <1>1
<1>4. \A i \in 1 .. m - 1 : ~ Abandoned(d[i])
  <2>1. \A i \in 1 .. n : ~ Abandoned(c[i])
    <3>1. 1 .. n = (1 .. n - 1) \cup {n}
      BY <1>1
    <3> QED BY <3>1 DEF Good, Calm
  <2> QED BY <1>2, <1>3, <2>1
<1> HIDE DEF d, n
<1>5. Alike(c, d, n)
  BY <1>2 DEF Alike, SameItem
<1>6. Nested(d, n) /\ Matches(s, z, h, d, n)
  BY <1>1, <1>5, AlikeNested, AlikeMatches
<1>7. ASSUME Saved(d, m), NEW s1, NEW z1, NEW h1, Matches(s1, z1, h1, d, m)
      PROVE  Good(d, s1, z1, h1)
  <2>1. Nested(d, m)
    BY <1>1, <1>3, <1>6, <1>7, NestedMore
  <2> QED BY <1>2, <1>4, <1>7, <2>1 DEF Good
<1>8. ASSUME r.kind = "call", r.previous = s PROVE Good(d, m, z, h)
  <2>1. Saved(d, m)
    BY <1>2, <1>3, <1>6, <1>8 DEF Saved, Matches
  <2>2. Matches(m, z, h, d, m)
    BY <1>1, <1>2, <1>3, <1>6, <1>8, MatchesMore
  <2> QED BY <1>7, <2>1, <2>2
<1>9. ASSUME r.kind = "zone", r.previous = z PROVE Good(d, s, z + 1, h)
  <2>1. Saved(d, m)
    BY <1>2, <1>3, <1>6, <1>9 DEF Saved, Matches
  <2>2. Matches(s, z + 1, h, d, m)
    BY <1>1, <1>2, <1>3, <1>6, <1>9, MatchesMore
  <2> QED BY <1>7, <2>1, <2>2
<1>10. ASSUME r.kind = "try", r.phase = "body", r.shadow = s, r.zone = z, r.handler = h
       PROVE  Good(d, s, z, m)
  <2>1. Saved(d, m)
    BY <1>2, <1>3, <1>6, <1>10 DEF Saved, Matches
  <2>2. Matches(s, z, m, d, m)
    BY <1>1, <1>2, <1>3, <1>6, <1>10, MatchesMore
  <2> QED BY <1>7, <2>1, <2>2
<1>11. ~ Abandoned(r) => Calm(d)
  BY <1>2 DEF Calm
<1> QED BY <1>2, <1>8, <1>9, <1>10, <1>11 DEF d

\* A good stack with an item on top of the rest.
LEMMA GoodTop ==
    ASSUME NEW c, NEW s, NEW z, NEW h, Good(c, s, z, h),
           NEW m, m = Len(c), NEW n, n = m - 1, m > 1
    PROVE  /\ n \in Nat \ {0} /\ m = n + 1
           /\ Nested(c, n) /\ Saved(c, m) /\ Matches(s, z, h, c, m)
<1>1. c \in Seq(Items) /\ m \in Nat /\ Nested(c, m) /\ Matches(s, z, h, c, m)
  BY DEF Good
<1>2. n \in Nat \ {0} /\ m = n + 1
  BY <1>1
<1> QED BY <1>1, <1>2, NestedMore

\* The last scope ends.
LEMMA GoodPop ==
    ASSUME NEW c, NEW s, NEW z, NEW h, Good(c, s, z, h), Len(c) > 1,
           NEW r, r = c[Len(c)]
    PROVE  /\ Len(Below(c)) = Len(c) - 1 /\ Calm(Below(c))
           /\ r.kind = "call" => Good(Below(c), r.previous, z, h)
           /\ r.kind = "zone" => Good(Below(c), s, r.previous, h)
           /\ r.kind = "try" /\ r.phase = "body" => Good(Below(c), s, z, r.handler)
           /\ r.kind = "try" /\ r.phase # "body" => Good(Below(c), s, z, h)
<1> DEFINE d == Below(c)
           m == Len(c)
           n == m - 1
<1>1. /\ n \in Nat \ {0} /\ m = n + 1
      /\ Nested(c, n) /\ Saved(c, m) /\ Matches(s, z, h, c, m)
  BY GoodTop
<1>2. d \in Seq(Items) /\ Len(d) = n /\ \A i \in 1 .. n : d[i] = c[i]
  BY <1>1 DEF Below, Good
<1>3. \A i \in 1 .. Len(d) - 1 : ~ Abandoned(d[i])
  BY <1>1, <1>2 DEF Good
<1>4. r = c[m] /\ Calm(d)
  BY <1>1, <1>2 DEF Good, Calm
<1> HIDE DEF d, m, n
<1>5. Alike(c, d, n)
  BY <1>2 DEF Alike, SameItem
<1>6. ASSUME NEW s1, NEW z1, NEW h1, Matches(s1, z1, h1, c, n) PROVE Good(d, s1, z1, h1)
  <2>1. Nested(d, n) /\ Matches(s1, z1, h1, d, n)
    BY <1>1, <1>5, <1>6, AlikeNested, AlikeMatches
  <2> QED BY <1>2, <1>3, <2>1 DEF Good
<1>7. /\ r.kind = "call" => Matches(r.previous, z, h, c, n)
      /\ r.kind = "zone" => Matches(s, r.previous, h, c, n)
      /\ r.kind = "try" /\ r.phase = "body" => Matches(s, z, r.handler, c, n)
      /\ r.kind = "try" /\ r.phase # "body" => Matches(s, z, h, c, n)
  BY <1>1, <1>4, MatchesBelow
<1>8. Len(d) = Len(c) - 1
  BY <1>2 DEF m, n
<1> QED BY <1>4, <1>6, <1>7, <1>8 DEF d

\* The handler's try, seen from a good stack: what it saved is right.
LEMMA HandlerSaved ==
    ASSUME NEW c, NEW s, NEW z, NEW h, Good(c, s, z, h), h > 0
    PROVE  /\ h \in 2 .. Len(c) /\ c[h] \in Items
           /\ c[h].kind = "try" /\ c[h].phase = "body"
           /\ Nested(c, h - 1)
           /\ Matches(c[h].shadow, c[h].zone, c[h].handler, c, h - 1)
           /\ c[h].zone \in Nat /\ z \in Nat /\ c[h].zone <= z
<1>1. /\ c \in Seq(Items) /\ Len(c) \in Nat
      /\ Nested(c, Len(c)) /\ Matches(s, z, h, c, Len(c))
  BY DEF Good
<1>2. h \in Bodies(c, Len(c))
  BY <1>1 DEF Matches, IsInnermost
<1>3. h \in 1 .. Len(c) /\ c[h].kind = "try" /\ c[h].phase = "body" /\ c[h] \in Items
  BY <1>1, <1>2 DEF Bodies
<1>4. h \in 2 .. Len(c)
  BY <1>1, <1>3 DEF Nested
<1>5. Matches(c[h].shadow, c[h].zone, c[h].handler, c, h - 1)
  BY <1>1, <1>3, SavedMatches
<1>6. Nested(c, h - 1)
  BY <1>1, <1>4 DEF Nested
<1>7. c[h].zone \in Nat /\ z \in Nat /\ c[h].zone <= z
  <2>1. c[h].zone = Cardinality(Zones(c, h - 1)) /\ z = Cardinality(Zones(c, Len(c)))
    BY <1>1, <1>5 DEF Matches
  <2>2. Zones(c, h - 1) \subseteq Zones(c, Len(c))
    BY <1>1, <1>4 DEF Zones
  <2> QED BY <1>1, <1>4, <2>1, <2>2, ZonesFinite, FS_Subset
<1> QED BY <1>3, <1>4, <1>5, <1>6, <1>7

\* A try that raises on top of a nesting that matches what it saved.
LEMMA RaisedOnTop ==
    ASSUME NEW d \in Seq(Items), NEW m, m = Len(d), NEW n \in Nat \ {0}, m = n + 1,
           Nested(d, n), d[m].kind = "try", d[m].phase = "raised",
           Matches(d[m].shadow, d[m].zone, d[m].handler, d, n),
           \A i \in 1 .. n : ~ Abandoned(d[i])
    PROVE  Good(d, d[m].shadow, d[m].zone, d[m].handler)
<1>1. m - 1 = n
  OBVIOUS
<1>2. Saved(d, m)
  BY <1>1 DEF Saved, Matches
<1>3. Nested(d, m)
  BY <1>2, NestedMore
<1>4. Calls(d, m) = Calls(d, n) /\ Bodies(d, m) = Bodies(d, n)
  BY OneMore
<1>5. Cardinality(Zones(d, m)) = Cardinality(Zones(d, n))
  BY OneMore
<1>6. Matches(d[m].shadow, d[m].zone, d[m].handler, d, m)
  BY <1>4, <1>5 DEF Matches
<1> QED BY <1>1, <1>3, <1>6 DEF Good

\* An exception goes to the handler: the globals are what that saved.
LEMMA GoodCut ==
    ASSUME NEW c, NEW s, NEW z, NEW h, Good(c, s, z, h), h > 0
    PROVE  /\ Len(Unwound(c, h)) = h
           /\ Good(Unwound(c, h), c[h].shadow, c[h].zone, c[h].handler)
<1> DEFINE d == Unwound(c, h)
           e == SubSeq(c, 1, h)
           r == [c[h] EXCEPT !.phase = "raised", !.vars = {}]
           n == h - 1
<1>1. /\ h \in 2 .. Len(c) /\ c[h] \in Items /\ c[h].kind = "try"
      /\ Nested(c, n) /\ Matches(c[h].shadow, c[h].zone, c[h].handler, c, n)
  BY HandlerSaved
<1>2. c \in Seq(Items) /\ n \in Nat \ {0} /\ h = n + 1
  BY <1>1 DEF Good
<1>3. r \in Items /\ r.kind = "try" /\ r.phase = "raised" /\ r.handler = c[h].handler
      /\ r.shadow = c[h].shadow /\ r.zone = c[h].zone
  BY <1>1 DEF Items, TryItems, Phases
<1>4. e \in Seq(Items) /\ Len(e) = h /\ \A i \in 1 .. h : e[i] = c[i]
  BY <1>1, <1>2
<1>5. d = [e EXCEPT ![h] = r] /\ h \in 1 .. Len(e)
  <2>1. d = [e EXCEPT ![h] = [e[h] EXCEPT !.phase = "raised", !.vars = {}]]
    BY DEF Unwound
  <2>2. e[h] = c[h] /\ h \in 1 .. Len(e)
    BY <1>1, <1>4
  <2> HIDE DEF d, e
  <2> QED BY <2>1, <2>2
<1> HIDE DEF d, e, r
<1>6. d \in Seq(Items) /\ Len(d) = h /\ d[h] = r
  BY <1>3, <1>4, <1>5
<1>7. \A i \in 1 .. n : d[i] = c[i]
  BY <1>1, <1>2, <1>4, <1>5
<1>8. Alike(c, d, n)
  BY <1>7 DEF Alike, SameItem
<1>9. \A i \in 1 .. n : ~ Abandoned(d[i])
  BY <1>1, <1>2, <1>7 DEF Good
<1> HIDE DEF n
<1>10. Nested(d, n) /\ Matches(c[h].shadow, c[h].zone, c[h].handler, d, n)
  BY <1>1, <1>2, <1>8, AlikeNested, AlikeMatches
<1>11. Good(d, d[h].shadow, d[h].zone, d[h].handler)
  <2>1. d[h].kind = "try" /\ d[h].phase = "raised"
        /\ Matches(d[h].shadow, d[h].zone, d[h].handler, d, n)
    BY <1>3, <1>6, <1>10
  <2>2. h = Len(d)
    BY <1>6
  <2> QED BY <1>2, <1>6, <1>9, <1>10, <2>1, <2>2, RaisedOnTop
<1> QED BY <1>3, <1>6, <1>11 DEF d

\* The last item goes on to a phase that is neither body nor raised.
LEMMA GoodPhase ==
    ASSUME NEW c, NEW s, NEW z, NEW h, Good(c, s, z, h), NEW r, r = c[Len(c)],
           r.kind = "try", NEW q \in Items, q.kind = "try",
           q.phase \notin {"body", "raised"}, q.handler = r.handler,
           q.shadow = r.shadow, q.zone = r.zone,
           NEW d, d = [c EXCEPT ![Len(c)] = q]
    PROVE  /\ Len(d) = Len(c) /\ Calm(d)
           /\ r.phase = "body" => Good(d, s, z, r.handler)
           /\ r.phase # "body" => Good(d, s, z, h)
<1> DEFINE m == Len(c)
           n == m - 1
<1>1. m > 1
  BY DEF Good, Nested
<1>2. /\ n \in Nat \ {0} /\ m = n + 1
      /\ Nested(c, n) /\ Saved(c, m) /\ Matches(s, z, h, c, m)
  BY <1>1, GoodTop
<1>3. d \in Seq(Items) /\ Len(d) = m /\ d[m] = q /\ \A i \in 1 .. n : d[i] = c[i]
  BY <1>2 DEF Good
<1>4. \A i \in 1 .. m - 1 : ~ Abandoned(d[i])
  BY <1>2, <1>3 DEF Good
<1>5. r = c[m] /\ m - 1 = n
  BY <1>2
<1> HIDE DEF m, n
<1>6. Alike(c, d, n)
  BY <1>3 DEF Alike, SameItem
<1>7. Nested(d, n)
  BY <1>2, <1>6, AlikeNested
<1>8. Saved(d, m)
  <2>1. Matches(r.shadow, r.zone, r.handler, c, n)
    BY <1>2, <1>5 DEF Saved, Matches
  <2>2. Matches(r.shadow, r.zone, r.handler, d, n)
    BY <1>2, <1>6, <2>1, AlikeMatches
  <2> QED BY <1>3, <1>5, <2>2 DEF Saved, Matches
<1>9. Nested(d, m)
  BY <1>2, <1>7, <1>8, NestedMore
<1>10. ASSUME NEW e, Matches(s, z, e, c, n) PROVE Good(d, s, z, e)
  <2>1. Matches(s, z, e, d, n)
    BY <1>2, <1>6, <1>10, AlikeMatches
  <2>2. Matches(s, z, e, d, m)
    BY <1>2, <1>3, <2>1, MatchesMore
  <2> QED BY <1>3, <1>4, <1>9, <2>2 DEF Good
<1>11. /\ r.phase = "body" => Matches(s, z, r.handler, c, n)
       /\ r.phase # "body" => Matches(s, z, h, c, n)
  BY <1>2, <1>5, MatchesBelow
<1>12. Len(d) = Len(c) /\ Calm(d)
  BY <1>3 DEF m, Calm, Abandoned
<1> QED BY <1>10, <1>11, <1>12

\* Nothing above the innermost body is a body, and only the top may raise.
LEMMA AboveHandler ==
    ASSUME NEW c, NEW s, NEW z, NEW h, Good(c, s, z, h), Calm(c),
           NEW i \in 1 .. Len(c), i > h, c[i].kind = "try"
    PROVE  c[i].phase \notin {"body", "raised"}
<1>1. Len(c) \in Nat /\ Matches(s, z, h, c, Len(c))
  BY DEF Good
<1>2. h \in Nat /\ \A k \in Bodies(c, Len(c)) : k <= h
  BY <1>1 DEF Matches, IsInnermost, Bodies
<1>3. i \notin Bodies(c, Len(c))
  BY <1>1, <1>2
<1>4. ~ Abandoned(c[i])
  <2>1. CASE i = Len(c)
    BY <2>1 DEF Calm
  <2>2. CASE i # Len(c)
    BY <1>1, <2>2 DEF Good
  <2> QED BY <2>1, <2>2
<1> QED BY <1>3, <1>4 DEF Bodies, Abandoned

LEMMA GoodTypes ==
    ASSUME NEW c, NEW s, NEW z, NEW h, Good(c, s, z, h)
    PROVE  c \in Seq(Items) /\ s \in Nat /\ z \in Nat /\ h \in Nat
<1>1. c \in Seq(Items) /\ Len(c) \in Nat /\ Matches(s, z, h, c, Len(c))
  BY DEF Good
<1>2. Calls(c, Len(c)) \subseteq Nat /\ Bodies(c, Len(c)) \subseteq Nat
  BY DEF Calls, Bodies
<1>3. Cardinality(Zones(c, Len(c))) \in Nat
  BY <1>1, ZonesFinite
<1> QED BY <1>1, <1>2, <1>3 DEF Matches, IsInnermost

-----------------------------------------------------------------------------
(* The invariant. *)

\* The types of what is not about nesting.
Others ==
    /\ status \in {"running", "stopped"}
    /\ owner \in [Objects -> Owners]
    /\ zoneOf \in [Objects -> Nat]
    /\ field \in [Objects -> Objects \cup {None}]
    /\ module \in Objects \cup {None}
    /\ exception \in Objects \cup {None}
    /\ threshold \in Nat \ {0}
    /\ misread \subseteq Objects

\* While the program runs, the runtime's globals agree with its nesting, and
\* so does everything that an item has saved: what an exit, a throw or a
\* rethrow restores is then right.  A try that raises has an exception.
Nesting ==
    Running => /\ Good(control, shadow, zone, handler)
               /\ ~ Calm(control) => exception \in Objects

NestingInv == TypeOK /\ Nesting

\* What a step shows.
Escapes == Left({"body", "raised"})
StepIsSound == NestingInv' /\ ~ Escapes

LEMMA KeepsNesting ==
    ASSUME Others', Good(control', shadow', zone', handler'),
           ~ Calm(control') => exception' \in Objects
    PROVE  NestingInv'
<1>1. /\ control' \in Seq(Items) /\ shadow' \in Nat /\ zone' \in Nat
      /\ handler' \in Nat
  BY GoodTypes
<1> QED BY <1>1 DEF NestingInv, Nesting, TypeOK, Others

LEMMA NothingLeft ==
    ASSUME control \in Seq(Items), control' \in Seq(Items),
           Len(control') >= Len(control)
    PROVE  ~ Escapes
BY DEF Escapes, Left

LEMMA TopLeft ==
    ASSUME control \in Seq(Items), control' \in Seq(Items),
           Len(control') = Len(control) - 1,
           Top.kind = "try" /\ Top.finalizer => Top.phase \notin {"body", "raised"}
    PROVE  ~ Escapes
<1>1. ASSUME NEW i \in DOMAIN control, i \notin DOMAIN control' PROVE i = Depth
  BY <1>1 DEF Depth
<1> QED BY <1>1 DEF Escapes, Left, Top

\* A scope is left or another begins, with the rest typed.
LEMMA Deeper ==
    ASSUME NestingInv, Others', Good(control', shadow', zone', handler'),
           Calm(control'), Len(control') >= Depth
    PROVE  StepIsSound
<1>1. control \in Seq(Items) /\ control' \in Seq(Items)
  BY GoodTypes DEF NestingInv, TypeOK
<1> QED BY <1>1, KeepsNesting, NothingLeft DEF StepIsSound, Depth

LEMMA Shallower ==
    ASSUME NestingInv, Others', Good(control', shadow', zone', handler'),
           Calm(control'), Len(control') = Depth - 1,
           Top.kind = "try" /\ Top.finalizer => Top.phase \notin {"body", "raised"}
    PROVE  StepIsSound
<1>1. control \in Seq(Items) /\ control' \in Seq(Items)
  BY GoodTypes DEF NestingInv, TypeOK
<1> QED BY <1>1, KeepsNesting, TopLeft DEF StepIsSound, Depth

\* What a step of a running program starts from.
LEMMA RunningState ==
    ASSUME NestingInv, Running
    PROVE  /\ Good(control, shadow, zone, handler)
           /\ Others
           /\ Depth \in Nat \ {0} /\ Top \in Items /\ control[1].kind = "call"
           /\ Frame(control) = shadow /\ shadow \in 1 .. Depth
           /\ control[shadow].kind = "call" /\ control[shadow] \in Items
           /\ Visible \subseteq Objects /\ Results \subseteq SUBSET Objects
<1>1. Good(control, shadow, zone, handler) /\ control \in Seq(Items) /\ Others
  BY DEF NestingInv, Nesting, TypeOK, Others
<1>2. /\ Depth \in Nat \ {0} /\ Frame(control) = shadow /\ shadow \in 1 .. Depth
      /\ control[shadow].kind = "call"
  BY <1>1, FrameOfGood DEF Depth
<1>3. \A i \in 1 .. Depth : control[i] \in Items
  BY <1>1 DEF Depth
<1>4. control[1].kind = "call"
  BY <1>1 DEF Good, Nested
<1>5. Visible \subseteq Objects
  <2>1. ASSUME NEW i \in shadow .. Depth PROVE control[i].vars \subseteq Objects
    <3>1. control[i] \in Items
      BY <1>2, <1>3
    <3> QED BY <3>1, ItemFields
  <2> QED BY <1>2, <2>1 DEF Visible
<1>6. Results \subseteq SUBSET Objects
  BY <1>5 DEF Results
<1> QED BY <1>1, <1>2, <1>3, <1>4, <1>5, <1>6 DEF Top

LEMMA ExecutingTop ==
    ASSUME Executing
    PROVE  Running /\ Calm(control)
BY DEF Executing, Running, Abandoned, Calm, Top, Depth

\* The collector and the arenas keep types.
LEMMA StorageTypes ==
    ASSUME NEW own \in [Objects -> Owners], NEW top, NEW thrown, NEW levels
    PROVE  /\ AfterCollection(own, top, thrown) \in [Objects -> Owners]
           /\ MisreadBy(own, top, thrown) \subseteq Objects
           /\ WithoutZones(own, levels) \in [Objects -> Owners]
           /\ WithoutArena(own) \in [Objects -> Owners]
<1>1. "freed" \in Owners
  BY DEF Owners
<1>2. AfterCollection(own, top, thrown) \in [Objects -> Owners]
  BY <1>1 DEF AfterCollection, Swept
<1>3. MisreadBy(own, top, thrown) \subseteq Objects
  BY DEF MisreadBy, FreedIn
<1>4. WithoutZones(own, levels) \in [Objects -> Owners]
  BY <1>1 DEF WithoutZones
<1>5. WithoutArena(own) \in [Objects -> Owners]
  BY <1>1 DEF WithoutArena
<1> QED BY <1>2, <1>3, <1>4, <1>5

LEMMA AllocationTypes ==
    ASSUME Others, NEW o \in Objects, NEW top
    PROVE  /\ Allocated(o, top) \in [Objects -> Owners]
           /\ MisreadByPoll(top) \subseteq Objects
<1>1. AfterPoll(top) \in [Objects -> Owners] /\ MisreadByPoll(top) \subseteq Objects
  BY StorageTypes DEF AfterPoll, MisreadByPoll, Others
<1>2. Allocated(o, top) \in [Objects -> Owners]
  BY <1>1 DEF Allocated, Owners
<1> QED BY <1>1, <1>2

-----------------------------------------------------------------------------
(* The steps. *)

LEMMA InitIsSound == Init => NestingInv
<1> SUFFICES ASSUME Init PROVE NestingInv
  OBVIOUS
<1> DEFINE r == CallItem({}, 0)
           c == <<r>>
<1>1. r \in Items /\ r.kind = "call" /\ r.previous = 0
  BY DEF CallItem, Items
<1>2. c \in Seq(Items) /\ Len(c) = 1 /\ c[1] = r
  BY <1>1
<1>3. control = c
  BY DEF Init
<1> HIDE DEF c, r
<1>4. Calls(c, 0) = {} /\ Zones(c, 0) = {} /\ Bodies(c, 0) = {}
  BY DEF Calls, Zones, Bodies
<1>5. Cardinality({}) = 0
  BY FS_EmptySet
<1>6. Matches(0, 0, 0, c, 0)
  BY <1>4, <1>5 DEF Matches, IsInnermost
<1>7. Matches(1, 0, 0, c, 1)
  BY <1>1, <1>2, <1>6, MatchesMore
<1>8. Saved(c, 1)
  BY <1>1, <1>2, <1>4 DEF Saved, IsInnermost
<1>9. Nested(c, 1)
  BY <1>1, <1>2, <1>8 DEF Nested
<1>10. Good(c, 1, 0, 0)
  BY <1>2, <1>7, <1>9 DEF Good
<1>11. Calm(c)
  BY <1>1, <1>2 DEF Calm, Abandoned
<1>12. TypeOK
  BY <1>2, <1>3, BoundsAreNumbers DEF Init, TypeOK, Owners
<1> QED BY <1>3, <1>10, <1>11, <1>12 DEF Init, NestingInv, Nesting

\* The program stops: no try is open, or it is main that returns.
LEMMA ShutdownIsSound ==
    ASSUME NestingInv, Running, Calm(control), handler = 0 \/ Depth = 1,
           NEW STATE own, own \in [Objects -> Owners], NEW STATE top, NEW STATE thrown,
           NEW STATE seen, seen \in SUBSET Objects,
           Shutdown(own, top, thrown, seen),
           field' \in [Objects -> Objects \cup {None}]
    PROVE  StepIsSound
<1>1. /\ status' = "stopped" /\ control' = <<>> /\ shadow' = 0 /\ zone' = 0
      /\ handler' = 0 /\ exception' = None
      /\ zoneOf' = zoneOf /\ module' = module /\ threshold' = threshold
  BY DEF Shutdown
<1>2. owner' \in [Objects -> Owners] /\ misread' \subseteq Objects
  <2> DEFINE zoneless == WithoutZones(own, 1 .. zone)
  <2>1. zoneless \in [Objects -> Owners]
    BY StorageTypes
  <2>2. AfterCollection(zoneless, top, thrown) \in [Objects -> Owners]
        /\ MisreadBy(zoneless, top, thrown) \subseteq Objects
    <3> HIDE DEF zoneless
    <3> QED BY <2>1, StorageTypes
  <2> QED BY <2>2, StorageTypes DEF Shutdown
<1>3. NestingInv'
  BY <1>1, <1>2 DEF NestingInv, Nesting, TypeOK, Running
<1>4. ~ Escapes
  <2>1. ASSUME NEW i \in 1 .. Depth, control[i].kind = "try"
        PROVE  control[i].phase \notin {"body", "raised"}
    <3>1. Good(control, shadow, zone, handler) /\ control[1].kind = "call"
      BY RunningState
    <3>2. i # 1
      BY <2>1, <3>1
    <3>3. CASE handler = 0
      BY <2>1, <3>1, <3>3, AboveHandler DEF Depth
    <3>4. CASE Depth = 1
      BY <3>2, <3>4
    <3> QED BY <3>3, <3>4
  <2>2. DOMAIN control = 1 .. Depth
    BY RunningState DEF Good, Depth
  <2> QED BY <2>1, <2>2 DEF Escapes, Left
<1> QED BY <1>3, <1>4 DEF StepIsSound

\* An exception is thrown in a program that is not already raising one.
LEMMA RaiseIsSound ==
    ASSUME NestingInv, Running, Calm(control), NEW STATE thrown, thrown \in Objects,
           NEW STATE own, own \in [Objects -> Owners], NEW STATE top,
           NEW STATE seen, seen \in SUBSET Objects,
           Raise(thrown, own, top, seen),
           field' \in [Objects -> Objects \cup {None}]
    PROVE  StepIsSound
<1>1. /\ Good(control, shadow, zone, handler) /\ Others /\ Depth \in Nat
      /\ handler \in Nat /\ control \in Seq(Items)
  BY RunningState, GoodTypes
<1>2. CASE handler > 0
  <2>1. /\ control' = Unwound(control, handler)
        /\ handler' = control[handler].handler /\ shadow' = control[handler].shadow
        /\ exception' = thrown /\ misread' = seen
        /\ status' = status /\ zoneOf' = zoneOf /\ module' = module
        /\ threshold' = threshold
    BY <1>2 DEF Raise
  <2>2. /\ control[handler].zone <= zone /\ handler \in 1 .. Depth
    BY <1>1, <1>2, HandlerSaved DEF Depth
  <2>3. /\ zone' = control[handler].zone
        /\ owner' = WithoutZones(own, control[handler].zone + 1 .. zone)
    BY <1>2, <2>2 DEF Raise
  <2>4. Len(control') = handler /\ Good(control', shadow', zone', handler')
    BY <1>1, <1>2, <2>1, <2>3, GoodCut
  <2>5. owner' \in [Objects -> Owners]
    BY <2>3, StorageTypes
  <2>6. NestingInv'
    BY <1>1, <2>1, <2>4, <2>5, KeepsNesting DEF Others
  <2>7. ~ Escapes
    <3>1. control' \in Seq(Items)
      BY <2>4, GoodTypes
    <3>2. ASSUME NEW i \in DOMAIN control, i \notin DOMAIN control'
          PROVE  i \in 1 .. Len(control) /\ i > handler
      BY <1>1, <2>4, <3>1, <3>2
    <3> QED BY <1>1, <3>2, AboveHandler DEF Escapes, Left
  <2> QED BY <2>6, <2>7 DEF StepIsSound
<1>3. CASE handler = 0
  <2>1. Shutdown(own, top, thrown, seen)
    BY <1>3 DEF Raise
  <2> QED BY <1>3, <2>1, ShutdownIsSound
<1> QED BY <1>1, <1>2, <1>3

\* Values are bound and nothing else of the nesting changes.
LEMMA BindIsSound ==
    ASSUME NestingInv, Running, Calm(control), NEW STATE V, V \subseteq Objects,
           control' = Bind(control, V), stacks' = stacks, Others'
    PROVE  StepIsSound
<1>1. Good(control, shadow, zone, handler)
  BY RunningState
<1>2. /\ Good(control', shadow, zone, handler) /\ Len(control') = Len(control)
      /\ Calm(control')
  BY <1>1, GoodBind
<1>3. shadow' = shadow /\ zone' = zone /\ handler' = handler
  BY DEF stacks
<1>4. Depth \in Nat
  BY RunningState
<1> QED BY <1>2, <1>3, <1>4, Deeper DEF Depth

\* The nesting stays as it is.
LEMMA SameNesting ==
    ASSUME NestingInv, Running, Calm(control), control' = control, stacks' = stacks,
           Others'
    PROVE  StepIsSound
<1>1. Good(control, shadow, zone, handler)
  BY RunningState
<1>2. shadow' = shadow /\ zone' = zone /\ handler' = handler
  BY DEF stacks
<1>3. Depth \in Nat
  BY RunningState
<1> QED BY <1>1, <1>2, <1>3, Deeper DEF Depth

LEMMA CallIsSound ==
    ASSUME NestingInv, NEW args \in Results, Call(args)
    PROVE  StepIsSound
<1> DEFINE r == CallItem(args, shadow)
<1>1. /\ Executing /\ control' = Append(control, r) /\ shadow' = Depth + 1
      /\ UNCHANGED <<status, memory, zone, handler, exception, threshold, misread>>
  BY DEF Call
<1>2. Running /\ Calm(control) /\ Good(control, shadow, zone, handler) /\ Others
      /\ args \in SUBSET Objects /\ Depth \in Nat /\ shadow \in Nat
  BY <1>1, ExecutingTop, RunningState
<1>3. r \in Items /\ r.kind = "call" /\ r.previous = shadow /\ ~ Abandoned(r)
  BY <1>2 DEF CallItem, Items, Abandoned
<1> HIDE DEF r
<1>4. /\ Good(control', Depth + 1, zone, handler) /\ Calm(control')
      /\ Len(control') = Depth + 1
  BY <1>1, <1>2, <1>3, GoodPush DEF Depth
<1>5. Others' /\ zone' = zone /\ handler' = handler
  BY <1>1, <1>2 DEF Others, memory
<1> QED BY <1>1, <1>2, <1>4, <1>5, Deeper

LEMMA ReturnIsSound ==
    ASSUME NestingInv, NEW result \in Results, Return(result)
    PROVE  StepIsSound
<1> DEFINE below == Below(control)
<1>1. /\ Executing /\ Top.kind = "call" /\ Depth > 1
      /\ control' = Bind(below, result) /\ shadow' = Top.previous
      /\ UNCHANGED <<status, memory, zone, handler, exception, threshold, misread>>
  BY DEF Return
<1>2. Running /\ Calm(control) /\ Good(control, shadow, zone, handler) /\ Others
      /\ result \in SUBSET Objects /\ Depth \in Nat
  BY <1>1, ExecutingTop, RunningState
<1>3. Len(below) = Depth - 1 /\ Calm(below) /\ Good(below, Top.previous, zone, handler)
  BY <1>1, <1>2, GoodPop DEF Top, Depth
<1> HIDE DEF below
<1>4. /\ Good(control', Top.previous, zone, handler) /\ Calm(control')
      /\ Len(control') = Depth - 1
  BY <1>1, <1>2, <1>3, GoodBind
<1>5. Others' /\ zone' = zone /\ handler' = handler
  BY <1>1, <1>2 DEF Others, memory
<1> QED BY <1>1, <1>4, <1>5, Shallower

LEMMA MainReturnIsSound ==
    ASSUME NestingInv, MainReturn
    PROVE  StepIsSound
<1>1. /\ Executing /\ Depth = 1 /\ field' = field
      /\ Shutdown(owner, Top.previous, exception, misread)
  BY DEF MainReturn
<1>2. Running /\ Calm(control) /\ Others
  BY <1>1, ExecutingTop, RunningState
<1>3. /\ owner \in [Objects -> Owners] /\ misread \in SUBSET Objects
      /\ field' \in [Objects -> Objects \cup {None}]
  BY <1>1, <1>2 DEF Others
<1> QED BY <1>1, <1>2, <1>3, ShutdownIsSound

LEMMA NewIsSound ==
    ASSUME NestingInv, NEW o \in Objects, New(o)
    PROVE  StepIsSound
<1>1. Executing
  BY DEF New
<1>2. Running /\ Calm(control) /\ Others /\ {o} \subseteq Objects /\ zone \in Nat
  BY <1>1, ExecutingTop, RunningState, GoodTypes
<1>3. CASE NewOnHeap(o)
  <2>1. control' = Bind(control, {o}) /\ stacks' = stacks
    BY <1>3 DEF NewOnHeap
  <2>2. Others'
    BY <1>2, <1>3, AllocationTypes DEF NewOnHeap, Others
  <2> QED BY <1>2, <2>1, <2>2, BindIsSound
<1>4. ASSUME NEW arena \in {"zone", "program"}, NEW STATE level, level \in Nat,
             NewInArena(o, arena, level)
      PROVE  StepIsSound
  <2>1. control' = Bind(control, {o}) /\ stacks' = stacks
    BY <1>4 DEF NewInArena
  <2>2. owner' \in [Objects -> Owners] /\ zoneOf' \in [Objects -> Nat]
    BY <1>2, <1>4 DEF NewInArena, Others, Owners
  <2>3. Others'
    BY <1>2, <1>4, <2>2 DEF NewInArena, Others
  <2> QED BY <1>2, <2>1, <2>3, BindIsSound
<1> QED BY <1>2, <1>3, <1>4 DEF New

LEMMA MemoryIsSound ==
    ASSUME NestingInv,
           \/ \E x \in Visible, y \in Visible \cup {None} : Store(x, y)
           \/ \E y \in Visible \cup {None} : StoreModule(y)
           \/ GcCollect
           \/ \E n \in Thresholds : SetThreshold(n)
    PROVE  StepIsSound
<1>1. Executing /\ control' = control /\ stacks' = stacks
  BY DEF Store, StoreModule, GcCollect, SetThreshold
<1>2. Running /\ Calm(control) /\ Others /\ Visible \subseteq Objects
  BY <1>1, ExecutingTop, RunningState
<1>3. Others'
  <2>1. CASE \E x \in Visible, y \in Visible \cup {None} : Store(x, y)
    BY <1>2, <2>1 DEF Store, Others
  <2>2. CASE \E y \in Visible \cup {None} : StoreModule(y)
    BY <1>2, <2>2 DEF StoreModule, Others
  <2>3. CASE GcCollect
    BY <1>2, <2>3, StorageTypes DEF GcCollect, Others
  <2>4. CASE \E n \in Thresholds : SetThreshold(n)
    BY <1>2, <2>4, BoundsAreNumbers DEF SetThreshold, Others, memory
  <2> QED BY <2>1, <2>2, <2>3, <2>4
<1> QED BY <1>1, <1>2, <1>3, SameNesting

LEMMA LoadIsSound ==
    ASSUME NestingInv, (\E x \in Visible : Load(x)) \/ LoadModule
    PROVE  StepIsSound
<1>1. Executing
  BY DEF Load, LoadModule
<1>2. Running /\ Calm(control) /\ Others /\ Visible \subseteq Objects
  BY <1>1, ExecutingTop, RunningState
<1>3. Others'
  BY <1>2 DEF Load, LoadModule, Others, memory
<1>4. CASE LoadModule
  <2>1. control' = Bind(control, {module}) /\ stacks' = stacks
        /\ {module} \subseteq Objects
    BY <1>2, <1>4 DEF LoadModule, Others
  <2> QED BY <1>2, <1>3, <2>1, BindIsSound
<1>5. ASSUME NEW x \in Visible, Load(x) PROVE StepIsSound
  <2>1. control' = Bind(control, {field[x]}) /\ stacks' = stacks
        /\ {field[x]} \subseteq Objects
    BY <1>2, <1>5 DEF Load, Others
  <2> QED BY <1>2, <1>3, <2>1, BindIsSound
<1> QED BY <1>4, <1>5

LEMMA ForgetIsSound ==
    ASSUME NestingInv, NEW o \in Objects, Forget(o)
    PROVE  StepIsSound
<1> DEFINE r == [Top EXCEPT !.vars = Top.vars \ {o}]
           c == [control EXCEPT ![Depth] = r]
<1>1. /\ Executing /\ control' \in Released(c, {o})
      /\ UNCHANGED <<status, memory, stacks, exception, threshold, misread>>
  BY DEF Forget, Top
<1>2. /\ Running /\ Calm(control) /\ Good(control, shadow, zone, handler) /\ Others
      /\ Depth \in Nat \ {0} /\ Top \in Items
  BY <1>1, ExecutingTop, RunningState
<1>3. r \in Items /\ SameItem(Top, r) /\ (Abandoned(r) <=> Abandoned(Top))
  BY <1>2, ItemFields, WithVars
<1>4. Good(c, shadow, zone, handler) /\ Len(c) = Depth /\ Calm(c)
  <2> HIDE DEF r
  <2> QED BY <1>2, <1>3, GoodReplace DEF Top, Depth
<1> HIDE DEF c
<1>5. Good(control', shadow, zone, handler) /\ Len(control') = Depth /\ Calm(control')
  BY <1>1, <1>4, GoodReleased
<1>6. Others' /\ shadow' = shadow /\ zone' = zone /\ handler' = handler
  BY <1>1, <1>2 DEF Others, memory, stacks
<1> QED BY <1>2, <1>5, <1>6, Deeper

LEMMA EnterZoneIsSound ==
    ASSUME NestingInv, EnterZone
    PROVE  StepIsSound
<1> DEFINE r == [kind |-> "zone", vars |-> {}, previous |-> zone]
<1>1. /\ Executing /\ control' = Append(control, r) /\ zone' = zone + 1
      /\ UNCHANGED <<status, memory, shadow, handler, exception, threshold, misread>>
  BY DEF EnterZone
<1>2. Running /\ Calm(control) /\ Good(control, shadow, zone, handler) /\ Others
      /\ Depth \in Nat /\ zone \in Nat
  BY <1>1, ExecutingTop, RunningState, GoodTypes
<1>3. r \in Items /\ r.kind = "zone" /\ r.previous = zone /\ ~ Abandoned(r)
  BY <1>2 DEF Items, Abandoned
<1> HIDE DEF r
<1>4. /\ Good(control', shadow, zone + 1, handler) /\ Calm(control')
      /\ Len(control') = Depth + 1
  BY <1>1, <1>2, <1>3, GoodPush DEF Depth
<1>5. Others' /\ shadow' = shadow /\ handler' = handler
  BY <1>1, <1>2 DEF Others, memory
<1> QED BY <1>1, <1>2, <1>4, <1>5, Deeper

LEMMA LeaveZoneIsSound ==
    ASSUME NestingInv, LeaveZone
    PROVE  StepIsSound
<1>1. /\ Executing /\ Top.kind = "zone" /\ zone' = Top.previous
      /\ control' = Below(control) /\ owner' = WithoutZones(owner, {zone})
      /\ UNCHANGED <<status, zoneOf, field, module, shadow, handler, exception,
                     threshold, misread>>
  BY DEF LeaveZone
<1>2. Running /\ Calm(control) /\ Good(control, shadow, zone, handler) /\ Others
      /\ Depth \in Nat \ {0} /\ control[1].kind = "call"
  BY <1>1, ExecutingTop, RunningState
<1>3. Depth > 1
  BY <1>1, <1>2 DEF Top
<1>4. /\ Good(control', shadow, Top.previous, handler) /\ Calm(control')
      /\ Len(control') = Depth - 1
  BY <1>1, <1>2, <1>3, GoodPop DEF Top, Depth
<1>5. Others' /\ shadow' = shadow /\ handler' = handler
  BY <1>1, <1>2, StorageTypes DEF Others
<1> QED BY <1>1, <1>4, <1>5, Shallower

LEMMA ThrowIsSound ==
    ASSUME NestingInv, \E x \in Visible : Throw(x)
    PROVE  StepIsSound
<1>1. PICK x \in Visible : Throw(x)
  OBVIOUS
<1>2. Executing /\ x \in Exceptions /\ Raise(x, owner, Popped, misread) /\ field' = field
  BY <1>1 DEF Throw
<1>3. Running /\ Calm(control) /\ Others /\ x \in Objects
  BY <1>2, ExecutingTop, RunningState
<1> QED BY <1>2, <1>3, RaiseIsSound DEF Others

LEMMA FailureIsSound ==
    ASSUME NestingInv, NEW o \in Exceptions, Fail(o) \/ ThrowNull(o)
    PROVE  StepIsSound
<1>1. Executing
  BY DEF Fail, ThrowNull
<1>2. Running /\ Calm(control) /\ Others /\ o \in Objects
  BY <1>1, ExecutingTop, RunningState, ObjectsByClass
<1>3. ASSUME NEW STATE top, RaiseFailure(o, top) PROVE StepIsSound
  <2>1. /\ field' = [field EXCEPT ![o] = o]
        /\ Raise(o, Allocated(o, top), top, misread \cup MisreadByPoll(top))
    BY <1>3 DEF RaiseFailure
  <2>2. /\ Allocated(o, top) \in [Objects -> Owners]
        /\ misread \cup MisreadByPoll(top) \in SUBSET Objects
    BY <1>2, AllocationTypes DEF Others
  <2>3. field' \in [Objects -> Objects \cup {None}]
    BY <1>2, <2>1 DEF Others
  <2> QED BY <1>2, <2>1, <2>2, <2>3, RaiseIsSound
<1> QED BY <1>3 DEF Fail, ThrowNull

LEMMA EnterTryIsSound ==
    ASSUME NestingInv, NEW form \in Tries, EnterTry(form)
    PROVE  StepIsSound
<1> DEFINE r == [kind |-> "try", vars |-> {}, phase |-> "body",
                 clauses |-> form.clauses, finalizer |-> form.finalizer,
                 result |-> {}, pending |-> None,
                 handler |-> handler, shadow |-> shadow, zone |-> zone]
<1>1. /\ Executing /\ control' = Append(control, r) /\ handler' = Depth + 1
      /\ UNCHANGED <<status, memory, shadow, zone, exception, threshold, misread>>
  BY DEF EnterTry, OpenTry
<1>2. Running /\ Calm(control) /\ Good(control, shadow, zone, handler) /\ Others
      /\ Depth \in Nat /\ shadow \in Nat /\ zone \in Nat /\ handler \in Nat
  BY <1>1, ExecutingTop, RunningState, GoodTypes
<1>3. form.clauses \in Clauses /\ form.finalizer \in BOOLEAN
  BY TriesAreTries DEF TryForms
<1>4. r \in Items
  BY <1>2, <1>3 DEF Items, TryItems, Phases
<1>5. /\ r.kind = "try" /\ r.phase = "body" /\ r.shadow = shadow /\ r.zone = zone
      /\ r.handler = handler /\ ~ Abandoned(r)
  BY DEF Abandoned
<1> HIDE DEF r
<1>6. /\ Good(control', shadow, zone, Depth + 1) /\ Calm(control')
      /\ Len(control') = Depth + 1
  BY <1>1, <1>2, <1>4, <1>5, GoodPush DEF Depth
<1>7. Others' /\ shadow' = shadow /\ zone' = zone
  BY <1>1, <1>2 DEF Others, memory
<1> QED BY <1>1, <1>2, <1>6, <1>7, Deeper

\* The end of a try that has no handler installed.
LEMMA AfterTryIsSound ==
    ASSUME NestingInv, Executing, Top.kind = "try",
           NEW STATE h, Top.phase = "body" => h = Top.handler,
           Top.phase # "body" => h = handler, Top.phase = "body" => ~ Top.finalizer,
           NEW STATE result, result \in SUBSET Objects, control' \in AfterTry(result),
           shadow' = shadow, zone' = zone, handler' = h, Others'
    PROVE  StepIsSound
<1> DEFINE below == Below(control)
           bound == Bind(below, result)
<1>1. /\ Running /\ Calm(control) /\ Good(control, shadow, zone, handler)
      /\ Depth \in Nat \ {0} /\ control[1].kind = "call"
  BY ExecutingTop, RunningState
<1>2. Depth > 1
  BY <1>1 DEF Top
<1>3. Good(below, shadow, zone, h) /\ Len(below) = Depth - 1 /\ Calm(below)
  BY <1>1, <1>2, GoodPop DEF Top, Depth
<1> HIDE DEF below
<1>4. Good(bound, shadow, zone, h) /\ Len(bound) = Depth - 1 /\ Calm(bound)
  BY <1>3, GoodBind
<1>5. control' \in Released(bound, {Top.pending})
  BY DEF AfterTry, below
<1> HIDE DEF bound
<1>6. Good(control', shadow, zone, h) /\ Len(control') = Depth - 1 /\ Calm(control')
  BY <1>4, <1>5, GoodReleased
<1>7. Top.kind = "try" /\ Top.finalizer => Top.phase \notin {"body", "raised"}
  BY <1>1 DEF Calm, Abandoned, Top, Depth
<1> QED BY <1>6, <1>7, Shallower

\* The end of a body or a clause when a finalizer is to run.
LEMMA BeforeFinalizerIsSound ==
    ASSUME NestingInv, Executing, Top.kind = "try",
           NEW STATE h, Top.phase = "body" => h = Top.handler,
           Top.phase # "body" => h = handler,
           NEW STATE result, result \in SUBSET Objects, control' = BeforeFinalizer(result),
           shadow' = shadow, zone' = zone, handler' = h, Others'
    PROVE  StepIsSound
<1> DEFINE q == [Top EXCEPT !.phase = "finally", !.vars = {}, !.result = result]
<1>1. /\ Running /\ Calm(control) /\ Good(control, shadow, zone, handler)
      /\ Depth \in Nat \ {0} /\ Top \in Items
  BY ExecutingTop, RunningState
<1>2. /\ q \in Items /\ q.kind = "try" /\ q.phase = "finally"
      /\ q.handler = Top.handler /\ q.shadow = Top.shadow /\ q.zone = Top.zone
  BY <1>1 DEF Items, TryItems, Phases
<1> DEFINE c == [control EXCEPT ![Depth] = q]
<1>3. control' = c
  BY DEF BeforeFinalizer, Top
<1> HIDE DEF q
<1>4. /\ Len(c) = Depth /\ Calm(c)
      /\ Top.phase = "body" => Good(c, shadow, zone, Top.handler)
      /\ Top.phase # "body" => Good(c, shadow, zone, handler)
  BY <1>1, <1>2, GoodPhase DEF Top, Depth
<1> HIDE DEF c
<1>5. Good(control', shadow', zone', handler')
  BY <1>3, <1>4
<1> QED BY <1>1, <1>3, <1>4, <1>5, Deeper

LEMMA LeaveBodyIsSound ==
    ASSUME NestingInv, NEW result \in Results, LeaveBody(result)
    PROVE  StepIsSound
<1>1. /\ Executing /\ Top.kind = "try" /\ Top.phase = "body" /\ handler' = Top.handler
      /\ Proceed(result)
      /\ UNCHANGED <<status, memory, shadow, zone, exception, threshold, misread>>
  BY DEF LeaveBody, Ends
<1>2. Running /\ Others /\ result \in SUBSET Objects
  BY <1>1, ExecutingTop, RunningState
<1>3. Others' /\ shadow' = shadow /\ zone' = zone
  BY <1>1, <1>2 DEF Others, memory
<1>4. CASE Top.finalizer
  BY <1>1, <1>2, <1>3, <1>4, BeforeFinalizerIsSound DEF Proceed
<1>5. CASE ~ Top.finalizer
  BY <1>1, <1>2, <1>3, <1>5, AfterTryIsSound DEF Proceed
<1> QED BY <1>4, <1>5

LEMMA LeaveCatchIsSound ==
    ASSUME NestingInv, NEW result \in Results, LeaveCatch(result)
    PROVE  StepIsSound
<1>1. /\ Executing /\ Top.kind = "try" /\ Top.phase = "catch" /\ Proceed(result)
      /\ UNCHANGED <<status, memory, stacks, exception, threshold, misread>>
  BY DEF LeaveCatch, Ends
<1>2. Running /\ Others /\ result \in SUBSET Objects
  BY <1>1, ExecutingTop, RunningState
<1>3. Others' /\ shadow' = shadow /\ zone' = zone /\ handler' = handler
  BY <1>1, <1>2 DEF Others, memory, stacks
<1>4. CASE Top.finalizer
  BY <1>1, <1>2, <1>3, <1>4, BeforeFinalizerIsSound DEF Proceed
<1>5. CASE ~ Top.finalizer
  BY <1>1, <1>2, <1>3, <1>5, AfterTryIsSound DEF Proceed
<1> QED BY <1>4, <1>5

LEMMA LeaveFinallyIsSound ==
    ASSUME NestingInv, LeaveFinally
    PROVE  StepIsSound
<1>1. /\ Executing /\ Top.kind = "try" /\ Top.phase = "finally"
      /\ control' \in AfterTry(Top.result)
      /\ UNCHANGED <<status, memory, stacks, exception, threshold, misread>>
  BY DEF LeaveFinally, Ends
<1>2. Running /\ Others /\ Top.result \in SUBSET Objects
  BY <1>1, ExecutingTop, RunningState, ItemFields
<1>3. Others' /\ shadow' = shadow /\ zone' = zone /\ handler' = handler
  BY <1>1, <1>2 DEF Others, memory, stacks
<1> QED BY <1>1, <1>2, <1>3, AfterTryIsSound

LEMMA DispatchIsSound ==
    ASSUME NestingInv, NEW phase \in {"catch", "unmatched"}, Dispatch(phase)
    PROVE  StepIsSound
<1> DEFINE bound == IF phase = "catch" THEN {exception} ELSE {}
           q == [Top EXCEPT !.phase = phase, !.vars = bound, !.pending = exception]
           c == [control EXCEPT ![Depth] = q]
           r == [c[shadow] EXCEPT !.roots = c[shadow].roots \cup {exception}]
<1>1. Running /\ Top.kind = "try" /\ Top.phase = "raised" /\ exception' = None
      /\ UNCHANGED <<status, memory, stacks, threshold, misread>>
  BY DEF Dispatch, Running
<1>2. /\ Good(control, shadow, zone, handler) /\ Others
      /\ Depth \in Nat \ {0} /\ Top \in Items
      /\ Frame(control) = shadow /\ shadow \in 1 .. Depth
      /\ control[shadow].kind = "call" /\ control[shadow] \in Items
  BY <1>1, RunningState
<1>3. exception \in Objects
  BY <1>1 DEF NestingInv, Nesting, Calm, Abandoned, Top, Depth
<1>4. /\ q \in Items /\ q.kind = "try" /\ q.phase = phase
      /\ q.handler = Top.handler /\ q.shadow = Top.shadow /\ q.zone = Top.zone
  BY <1>1, <1>2, <1>3 DEF Items, TryItems, Phases
<1>5. control' = [c EXCEPT ![shadow] = r]
  <2>1. control' = [[control EXCEPT ![Depth] = q]
                        EXCEPT ![shadow].roots = @ \cup {exception}]
    BY <1>2 DEF Dispatch, Top
  <2>2. c \in Seq(Items) /\ shadow \in 1 .. Len(c)
    <3> HIDE DEF q
    <3> QED BY <1>2, <1>4 DEF Good, Depth
  <2> HIDE DEF q
  <2> QED BY <2>1, <2>2
<1> HIDE DEF q
<1>6. Good(c, shadow, zone, handler) /\ Len(c) = Depth /\ Calm(c)
  BY <1>1, <1>2, <1>4, GoodPhase DEF Top, Depth
<1> HIDE DEF c
<1>7. shadow \in 1 .. Len(c) /\ c[shadow].kind = "call" /\ c[shadow] \in Items
  BY <1>6, FrameOfGood DEF Good
<1>8. r \in Items /\ SameItem(c[shadow], r) /\ (Abandoned(r) <=> Abandoned(c[shadow]))
  BY <1>3, <1>7, ItemFields, WithRoots
<1> HIDE DEF r
<1>9. Good(control', shadow, zone, handler) /\ Len(control') = Depth /\ Calm(control')
  BY <1>5, <1>6, <1>7, <1>8, GoodReplace
<1>10. Others' /\ shadow' = shadow /\ zone' = zone /\ handler' = handler
  BY <1>1, <1>2 DEF Others, memory, stacks
<1> QED BY <1>2, <1>9, <1>10, Deeper

LEMMA RethrowIsSound ==
    ASSUME NestingInv, Rethrow
    PROVE  StepIsSound
<1>1. /\ Running /\ Top.kind = "try" /\ Top.phase = "unmatched"
      /\ Raise(Top.pending, owner, Popped, misread) /\ field' = field
  BY DEF Rethrow, Running
<1>2. Others /\ Top.pending \in Objects
  BY <1>1, RunningState, ItemFields
<1>3. Calm(control)
  BY <1>1 DEF Calm, Abandoned, Top, Depth
<1> QED BY <1>1, <1>2, <1>3, RaiseIsSound DEF Others

\* Every step of a running program, and the stopped program.
LEMMA EveryStepIsSound ==
    ASSUME NestingInv, [Next]_vars
    PROVE  StepIsSound
<1>1. CASE UNCHANGED vars
  <2>1. NestingInv'
    BY <1>1 DEF vars, memory, stacks, NestingInv, Nesting, TypeOK, Running
  <2>2. ~ Escapes
    BY <1>1 DEF vars, Escapes, Left
  <2> QED BY <2>1, <2>2 DEF StepIsSound
<1>2. CASE Next
  <2>1. Running /\ Step
    BY <1>2 DEF Next, Running
  <2>2. Visible \subseteq Objects /\ \A o \in Top.vars : o \in Objects
    BY <2>1, RunningState, ItemFields
  <2>3. ASSUME NEW o \in Top.vars, Forget(o) PROVE StepIsSound
    BY <2>2, <2>3, ForgetIsSound
  <2> QED
    BY <2>1, <2>3, CallIsSound, ReturnIsSound, LeaveBodyIsSound, LeaveCatchIsSound,
       MainReturnIsSound, NewIsSound, MemoryIsSound, LoadIsSound, ThrowIsSound,
       EnterZoneIsSound, LeaveZoneIsSound, FailureIsSound, EnterTryIsSound,
       LeaveFinallyIsSound, DispatchIsSound, RethrowIsSound DEF Step
<1> QED BY <1>1, <1>2

-----------------------------------------------------------------------------
(* Theorems. *)

LEMMA NestingAlways == Spec => []NestingInv
<1>1. NestingInv /\ [Next]_vars => NestingInv'
  BY EveryStepIsSound DEF StepIsSound
<1> QED BY InitIsSound, <1>1, PTL DEF Spec

\* The variables have their types however the program winds and unwinds.
THEOREM TypeCorrect == Spec => []TypeOK
<1>1. NestingInv => TypeOK
  BY DEF NestingInv
<1> QED BY <1>1, NestingAlways, PTL

\* Returns, throws, failures and rethrows leave the runtime with the frame,
\* the zone and the handler of the program, at any depth: emitShadowPush and
\* emitShadowPop, the zone calls, lowerTry and __scalanative_throw agree.
THEOREM RuntimeFollowsProgram == Spec => []RuntimeMatchesProgram
<1>1. NestingInv => RuntimeMatchesProgram
  <2> SUFFICES ASSUME NestingInv, Running
               PROVE  /\ shadow = Frame(control)
                      /\ zone = Cardinality(Zones(control, Depth))
                      /\ handler = Innermost(Bodies(control, Depth))
    BY DEF RuntimeMatchesProgram
  <2>1. Good(control, shadow, zone, handler) /\ shadow = Frame(control)
    BY RunningState
  <2>2. /\ zone = Cardinality(Zones(control, Depth))
        /\ IsInnermost(handler, Bodies(control, Depth))
    BY <2>1 DEF Good, Matches, Depth
  <2>3. Bodies(control, Depth) \in SUBSET Nat
    BY DEF Bodies
  <2> QED BY <2>1, <2>2, <2>3, InnermostIsUnique
<1> QED BY <1>1, NestingAlways, PTL

\* No exception that leaves the body of a try, or that none of its clauses
\* takes, gets past the finalizer: the handler of lowerTry is installed for
\* every form of try and removed only when the body has ended.
THEOREM BodyFinalizersAlwaysRun == Spec => BodyFinalizersRun
<1>1. NestingInv /\ [Next]_vars => [~ Left({"body", "raised"})]_vars
  BY EveryStepIsSound DEF StepIsSound, Escapes
<1> QED BY <1>1, NestingAlways, PTL DEF BodyFinalizersRun, Spec

================================================================================
