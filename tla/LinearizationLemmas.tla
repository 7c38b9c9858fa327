-------------------------- MODULE LinearizationLemmas --------------------------
(***************************************************************************)
(* What the merge of a linearization computes, for any sequences, and that *)
(* following parents link by link reaches the least closed set; first, the *)
(* facts about numbers that these proofs count by.                         *)
(***************************************************************************)
EXTENDS Linearization, Integers, WellFoundedInduction, FiniteSetTheorems, TLAPS

------------------------------------------------------------------------------
(***************************************************************************)
(* Least and greatest members of sets of numbers.  Proofs that would go by *)
(* induction take the least counterexample: the provers cannot instantiate *)
(* a theorem of induction, but they can apply one about sets.              *)
(***************************************************************************)

Less == OpToRel(<, Nat)

LEMMA LessHolds == \A m, n \in Nat : m < n => <<m, n>> \in Less
BY DEF Less, OpToRel

LEMMA LessIsWellFounded == IsWellFoundedOn(Less, Nat)
BY NatLessThanWellFounded, Zenon DEF Less

LEMMA LeastNumber ==
    ASSUME NEW T \in SUBSET Nat, T # {}
    PROVE  \E n \in T : \A m \in T : n <= m
<1>1. \E n \in T : \A m \in T : ~ (<<m, n>> \in Less)
  BY LessIsWellFounded, WFMin
<1>2. PICK n \in T : \A m \in T : ~ (<<m, n>> \in Less)
  BY <1>1
<1>3. ASSUME NEW m \in T PROVE n <= m
  <2>1. ~ (m < n)
    BY <1>2, LessHolds
  <2> QED BY <2>1
<1> QED BY <1>3

LEMMA GreatestNumber ==
    ASSUME NEW T \in SUBSET Nat, T # {}, NEW bound \in Nat, \A m \in T : m <= bound
    PROVE  \E n \in T : \A m \in T : m <= n
<1> DEFINE Bounds == {b \in Nat : \A m \in T : m <= b}
<1>1. PICK least \in Bounds : \A b \in Bounds : least <= b
  <2>1. Bounds \in SUBSET Nat /\ bound \in Bounds
    OBVIOUS
  <2> HIDE DEF Bounds
  <2>2. \E n \in Bounds : \A m \in Bounds : n <= m
    BY <2>1, LeastNumber
  <2> QED BY <2>2
<1>2. least \in T
  <2> SUFFICES ASSUME least \notin T PROVE FALSE
    OBVIOUS
  <2>1. \A m \in T : m <= least - 1
    OBVIOUS
  <2>2. least - 1 \in Nat
    <3>1. PICK t \in T : t <= least - 1
      BY <2>1
    <3> QED BY <3>1
  <2>3. least - 1 \in Bounds
    BY <2>1, <2>2
  <2> QED BY <1>1, <2>3
<1>3. \A m \in T : m <= least
  OBVIOUS
<1> QED BY <1>2, <1>3

\* Induction over a set of numbers.
LEMMA EveryNumber ==
    ASSUME NEW S, \A n \in Nat : (\A m \in Nat : m < n => m \in S) => n \in S
    PROVE  Nat \subseteq S
<1> DEFINE Others == Nat \ S
<1>1. ASSUME Others # {} PROVE FALSE
  <2>1. Others \in SUBSET Nat
    OBVIOUS
  <2> HIDE DEF Others
  <2>2. \E n \in Others : \A m \in Others : n <= m
    BY <1>1, <2>1, LeastNumber
  <2>3. PICK n \in Others : \A m \in Others : n <= m
    BY <2>2
  <2>4. \A m \in Nat : m < n => m \notin Others
    BY <2>1, <2>3
  <2> USE DEF Others
  <2> QED BY <2>3, <2>4
<1> QED BY <1>1

LEMMA NextNumber ==
    ASSUME NEW S, 0 \in S, \A n \in Nat : n \in S => n + 1 \in S
    PROVE  Nat \subseteq S
<1> SUFFICES ASSUME NEW n \in Nat, \A m \in Nat : m < n => m \in S PROVE n \in S
  BY EveryNumber
<1>1. CASE n = 0
  BY <1>1
<1>2. CASE n # 0
  <2>1. n - 1 \in Nat /\ n - 1 < n /\ (n - 1) + 1 = n
    BY <1>2
  <2> QED BY <2>1
<1> QED BY <1>1, <1>2

\* The values that a step takes in turn from x on, up to the last one.
Runs(X, step, x, last) ==
    {f \in [0 .. last -> X] : f[0] = x /\ \A k \in 1 .. last : f[k] = step[f[k - 1]]}

LEMMA StepByStep ==
    ASSUME NEW X, NEW step \in [X -> X], NEW x \in X, NEW n \in Nat
    PROVE  Runs(X, step, x, n) # {}
<1> DEFINE S == {m \in Nat : Runs(X, step, x, m) # {}}
<1>1. 0 \in S
  <2>1. [k \in 0 .. 0 |-> x] \in Runs(X, step, x, 0)
    BY DEF Runs
  <2> QED BY <2>1
<1>2. ASSUME NEW m \in Nat, m \in S PROVE m + 1 \in S
  <2>1. PICK f \in Runs(X, step, x, m) : TRUE
    BY <1>2
  <2> DEFINE g == [k \in 0 .. m + 1 |-> IF k <= m THEN f[k] ELSE step[f[m]]]
  <2>2. f \in [0 .. m -> X] /\ f[0] = x /\ \A k \in 1 .. m : f[k] = step[f[k - 1]]
    BY <2>1 DEF Runs
  <2>3. g \in [0 .. m + 1 -> X] /\ g[0] = x
    BY <2>2
  <2>4. ASSUME NEW k \in 1 .. m + 1 PROVE g[k] = step[g[k - 1]]
    <3>1. g[k - 1] = f[k - 1]
      OBVIOUS
    <3>2. CASE k <= m
      BY <2>2, <3>1, <3>2
    <3>3. CASE k = m + 1
      BY <3>1, <3>3
    <3> QED BY <3>2, <3>3
  <2>5. g \in Runs(X, step, x, m + 1)
    BY <2>3, <2>4 DEF Runs
  <2> QED BY <2>5
<1>3. n \in S
  <2> HIDE DEF S
  <2>1. Nat \subseteq S
    BY <1>1, <1>2, NextNumber
  <2> QED BY <2>1
<1> QED BY <1>3

------------------------------------------------------------------------------
(* Sequences. *)

\* x comes before y.
Precedes(s, x, y) == \E p, q \in DOMAIN s : p < q /\ s[p] = x /\ s[q] = y

LEMMA BeforePairs ==
    ASSUME NEW s, NEW e
    PROVE  e \in Before(s) <=> \E x, y : e = <<x, y>> /\ Precedes(s, x, y)
<1>1. ASSUME e \in Before(s) PROVE \E x, y : e = <<x, y>> /\ Precedes(s, x, y)
  <2>1. PICK p \in (DOMAIN s) \X (DOMAIN s) : p[1] < p[2] /\ e = <<s[p[1]], s[p[2]]>>
    BY <1>1 DEF Before
  <2>2. p[1] \in DOMAIN s /\ p[2] \in DOMAIN s
    OBVIOUS
  <2>3. Precedes(s, s[p[1]], s[p[2]])
    BY <2>1, <2>2 DEF Precedes
  <2> QED BY <2>1, <2>3
<1>2. ASSUME NEW x, NEW y, e = <<x, y>>, Precedes(s, x, y) PROVE e \in Before(s)
  <2>1. PICK p, q \in DOMAIN s : p < q /\ s[p] = x /\ s[q] = y
    BY <1>2 DEF Precedes
  <2>2. <<p, q>> \in {r \in (DOMAIN s) \X (DOMAIN s) : r[1] < r[2]}
    BY <2>1
  <2>3. e = <<s[<<p, q>>[1]], s[<<p, q>>[2]]>>
    BY <1>2, <2>1
  <2> QED BY <2>2, <2>3 DEF Before
<1> QED BY <1>1, <1>2

LEMMA BeforeSubset ==
    ASSUME NEW s, NEW r, \A x, y : Precedes(s, x, y) => Precedes(r, x, y)
    PROVE  Before(s) \subseteq Before(r)
BY BeforePairs

LEMMA MembersOf ==
    ASSUME NEW seqs, NEW x
    PROVE  x \in Members(seqs) <=> \E i \in DOMAIN seqs : \E p \in DOMAIN seqs[i] : x = seqs[i][p]
BY DEF Members, ToSet

LEMMA ToSetOf ==
    ASSUME NEW T, NEW s \in Seq(T)
    PROVE  /\ DOMAIN s = 1 .. Len(s) /\ Len(s) \in Nat
           /\ ToSet(s) \subseteq T
           /\ \A x : x \in ToSet(s) <=> \E p \in 1 .. Len(s) : x = s[p]
           /\ \A x : Contains(s, x) <=> x \in ToSet(s)
           /\ s # <<>> <=> Len(s) > 0
BY DEF ToSet, Contains

\* The rest of a sequence after its head.
LEMMA TailOf ==
    ASSUME NEW T, NEW s \in Seq(T), s # <<>>
    PROVE  /\ Tail(s) \in Seq(T) /\ Head(s) \in ToSet(s) /\ Head(s) \in T
           /\ ToSet(s) = {Head(s)} \cup ToSet(Tail(s))
           /\ \A x, y : Precedes(s, x, y)
                          <=> (x = Head(s) /\ y \in ToSet(Tail(s))) \/ Precedes(Tail(s), x, y)
           /\ IsInjective(s) <=> IsInjective(Tail(s)) /\ Head(s) \notin ToSet(Tail(s))
<1> DEFINE t == Tail(s)
<1>1. /\ Len(s) \in Nat /\ Len(s) > 0 /\ DOMAIN s = 1 .. Len(s) /\ Head(s) = s[1]
      /\ t \in Seq(T) /\ Len(t) = Len(s) - 1 /\ DOMAIN t = 1 .. Len(s) - 1
      /\ \A p \in 1 .. Len(s) - 1 : t[p] = s[p + 1]
      /\ \A p \in 1 .. Len(s) : s[p] \in T
  OBVIOUS
<1>2. \A p \in 2 .. Len(s) : s[p] = t[p - 1] /\ p - 1 \in DOMAIN t
  BY <1>1
<1> HIDE DEF t
<1>3. Head(s) \in ToSet(s) /\ Head(s) \in T
  BY <1>1 DEF ToSet
<1>4. ToSet(s) = {Head(s)} \cup ToSet(t)
  <2>1. ASSUME NEW x \in ToSet(s) PROVE x = Head(s) \/ x \in ToSet(t)
    <3>1. PICK p \in 1 .. Len(s) : x = s[p]
      BY <1>1 DEF ToSet
    <3>2. CASE p = 1
      BY <1>1, <3>1, <3>2
    <3>3. CASE p # 1
      <4>1. p - 1 \in DOMAIN t /\ x = t[p - 1]
        BY <1>1, <1>2, <3>1, <3>3
      <4> QED BY <4>1 DEF ToSet
    <3> QED BY <3>2, <3>3
  <2>2. ASSUME NEW x \in ToSet(t) PROVE x \in ToSet(s)
    <3>1. PICK p \in 1 .. Len(s) - 1 : x = t[p]
      BY <1>1 DEF ToSet
    <3>2. p + 1 \in 1 .. Len(s) /\ x = s[p + 1]
      BY <1>1, <3>1
    <3> QED BY <1>1, <3>2 DEF ToSet
  <2> QED BY <1>3, <2>1, <2>2
<1>5. ASSUME NEW x, NEW y
      PROVE  Precedes(s, x, y) <=> (x = Head(s) /\ y \in ToSet(t)) \/ Precedes(t, x, y)
  <2>1. ASSUME Precedes(s, x, y)
        PROVE  (x = Head(s) /\ y \in ToSet(t)) \/ Precedes(t, x, y)
    <3>1. PICK p, q \in 1 .. Len(s) : p < q /\ s[p] = x /\ s[q] = y
      BY <1>1, <2>1 DEF Precedes
    <3>2. q - 1 \in DOMAIN t /\ y = t[q - 1]
      BY <1>1, <1>2, <3>1
    <3>3. CASE p = 1
      BY <1>1, <3>1, <3>2, <3>3 DEF ToSet
    <3>4. CASE p # 1
      <4>1. p - 1 \in DOMAIN t /\ x = t[p - 1] /\ p - 1 < q - 1
        BY <1>1, <1>2, <3>1, <3>4
      <4> QED BY <3>2, <4>1 DEF Precedes
    <3> QED BY <3>3, <3>4
  <2>2. ASSUME x = Head(s), y \in ToSet(t) PROVE Precedes(s, x, y)
    <3>1. PICK q \in 1 .. Len(s) - 1 : y = t[q]
      BY <1>1, <2>2 DEF ToSet
    <3>2. 1 \in DOMAIN s /\ q + 1 \in DOMAIN s /\ 1 < q + 1 /\ s[1] = x /\ s[q + 1] = y
      BY <1>1, <2>2, <3>1
    <3> QED BY <3>2 DEF Precedes
  <2>3. ASSUME Precedes(t, x, y) PROVE Precedes(s, x, y)
    <3>1. PICK p, q \in 1 .. Len(s) - 1 : p < q /\ t[p] = x /\ t[q] = y
      BY <1>1, <2>3 DEF Precedes
    <3>2. p + 1 \in DOMAIN s /\ q + 1 \in DOMAIN s /\ p + 1 < q + 1
          /\ s[p + 1] = x /\ s[q + 1] = y
      BY <1>1, <3>1
    <3> QED BY <3>2 DEF Precedes
  <2> QED BY <2>1, <2>2, <2>3
<1>6. ASSUME IsInjective(s) PROVE IsInjective(t) /\ Head(s) \notin ToSet(t)
  <2>1. \A p, q \in 1 .. Len(s) : s[p] = s[q] => p = q
    BY <1>1, <1>6 DEF IsInjective
  <2>2. \A p, q \in 1 .. Len(s) - 1 : t[p] = t[q] => p = q
    <3> SUFFICES ASSUME NEW p \in 1 .. Len(s) - 1, NEW q \in 1 .. Len(s) - 1, t[p] = t[q]
                 PROVE  p = q
      OBVIOUS
    <3>1. p + 1 \in 1 .. Len(s) /\ q + 1 \in 1 .. Len(s) /\ t[p] = s[p + 1] /\ t[q] = s[q + 1]
      BY <1>1
    <3>2. p + 1 = q + 1
      BY <2>1, <3>1
    <3> QED BY <3>2
  <2>3. ASSUME NEW p \in 1 .. Len(s) - 1, t[p] = s[1] PROVE FALSE
    <3>1. p + 1 \in 1 .. Len(s) /\ 1 \in 1 .. Len(s) /\ s[p + 1] = s[1] /\ p + 1 # 1
      BY <1>1, <2>3
    <3>2. p + 1 = 1
      BY <2>1, <3>1
    <3> QED BY <3>1, <3>2
  <2> QED BY <1>1, <2>2, <2>3 DEF IsInjective, ToSet
<1>7. ASSUME IsInjective(t), Head(s) \notin ToSet(t) PROVE IsInjective(s)
  <2>1. \A p \in 2 .. Len(s) : s[p] # s[1]
    BY <1>1, <1>2, <1>7 DEF ToSet
  <2>2. ASSUME NEW p \in 2 .. Len(s), NEW q \in 2 .. Len(s), s[p] = s[q] PROVE p = q
    <3>1. p - 1 \in DOMAIN t /\ q - 1 \in DOMAIN t /\ t[p - 1] = t[q - 1]
      BY <1>2, <2>2
    <3>2. p - 1 = q - 1
      BY <1>7, <3>1 DEF IsInjective
    <3> QED BY <1>1, <3>2
  <2>3. ASSUME NEW p \in 1 .. Len(s), NEW q \in 1 .. Len(s), s[p] = s[q] PROVE p = q
    <3>1. CASE p = 1
      BY <1>1, <2>1, <2>3, <3>1
    <3>2. CASE q = 1
      BY <1>1, <2>1, <2>3, <3>2
    <3>3. CASE p # 1 /\ q # 1
      BY <1>1, <2>2, <2>3, <3>3
    <3> QED BY <3>1, <3>2, <3>3
  <2> QED BY <1>1, <2>3 DEF IsInjective
<1> QED BY <1>1, <1>3, <1>4, <1>5, <1>6, <1>7 DEF t

\* One more at the end.
LEMMA AppendOf ==
    ASSUME NEW T, NEW s \in Seq(T), NEW e \in T
    PROVE  /\ Append(s, e) \in Seq(T)
           /\ ToSet(Append(s, e)) = ToSet(s) \cup {e}
           /\ \A x, y : Precedes(Append(s, e), x, y)
                          <=> Precedes(s, x, y) \/ (x \in ToSet(s) /\ y = e)
           /\ IsInjective(s) /\ e \notin ToSet(s) => IsInjective(Append(s, e))
<1> DEFINE t == Append(s, e)
           n == Len(s)
<1>1. /\ n \in Nat /\ DOMAIN s = 1 .. n /\ t \in Seq(T) /\ DOMAIN t = 1 .. n + 1
      /\ \A p \in 1 .. n : t[p] = s[p]
      /\ t[n + 1] = e
  OBVIOUS
<1> HIDE DEF t, n
<1>2. ToSet(t) = ToSet(s) \cup {e}
  <2>1. \A p \in 1 .. n + 1 : p \in 1 .. n \/ p = n + 1
    BY <1>1
  <2>2. \A p \in 1 .. n : p \in 1 .. n + 1
    BY <1>1
  <2>3. n + 1 \in 1 .. n + 1
    BY <1>1
  <2> QED BY <1>1, <2>1, <2>2, <2>3 DEF ToSet
<1>3. ASSUME NEW x, NEW y
      PROVE  Precedes(t, x, y) <=> Precedes(s, x, y) \/ (x \in ToSet(s) /\ y = e)
  <2>1. ASSUME Precedes(t, x, y) PROVE Precedes(s, x, y) \/ (x \in ToSet(s) /\ y = e)
    <3>1. PICK p, q \in 1 .. n + 1 : p < q /\ t[p] = x /\ t[q] = y
      BY <1>1, <2>1 DEF Precedes
    <3>2. p \in 1 .. n /\ s[p] = x
      BY <1>1, <3>1
    <3>3. CASE q = n + 1
      BY <1>1, <3>1, <3>2, <3>3 DEF ToSet
    <3>4. CASE q # n + 1
      <4>1. q \in 1 .. n /\ s[q] = y
        BY <1>1, <3>1, <3>4
      <4>2. p \in DOMAIN s /\ q \in DOMAIN s /\ p < q /\ s[p] = x /\ s[q] = y
        BY <1>1, <3>1, <3>2, <4>1
      <4> QED BY <4>2 DEF Precedes
    <3> QED BY <3>3, <3>4
  <2>2. ASSUME Precedes(s, x, y) PROVE Precedes(t, x, y)
    <3>1. PICK p, q \in 1 .. n : p < q /\ s[p] = x /\ s[q] = y
      BY <1>1, <2>2 DEF Precedes
    <3>2. p \in 1 .. n + 1 /\ q \in 1 .. n + 1 /\ t[p] = x /\ t[q] = y
      BY <1>1, <3>1
    <3> QED BY <1>1, <3>1, <3>2 DEF Precedes
  <2>3. ASSUME x \in ToSet(s), y = e PROVE Precedes(t, x, y)
    <3>1. PICK p \in 1 .. n : x = s[p]
      BY <1>1, <2>3 DEF ToSet
    <3>2. p \in 1 .. n + 1 /\ n + 1 \in 1 .. n + 1 /\ p < n + 1 /\ t[p] = x /\ t[n + 1] = y
      BY <1>1, <2>3, <3>1
    <3> QED BY <1>1, <3>2 DEF Precedes
  <2> QED BY <2>1, <2>2, <2>3
<1>4. ASSUME IsInjective(s), e \notin ToSet(s) PROVE IsInjective(t)
  <2>1. \A p, q \in 1 .. n : s[p] = s[q] => p = q
    BY <1>1, <1>4 DEF IsInjective
  <2>2. \A p \in 1 .. n : s[p] # e
    BY <1>1, <1>4 DEF ToSet
  <2>3. ASSUME NEW p \in 1 .. n + 1, NEW q \in 1 .. n + 1, t[p] = t[q] PROVE p = q
    <3>1. CASE p \in 1 .. n /\ q \in 1 .. n
      BY <1>1, <2>1, <2>3, <3>1
    <3>2. CASE p = n + 1 /\ q = n + 1
      BY <3>2
    <3>3. CASE p \in 1 .. n /\ q = n + 1
      BY <1>1, <2>2, <2>3, <3>3
    <3>4. CASE q \in 1 .. n /\ p = n + 1
      BY <1>1, <2>2, <2>3, <3>4
    <3> QED BY <1>1, <3>1, <3>2, <3>3, <3>4
  <2> QED BY <1>1, <2>3 DEF IsInjective
<1>5. \A x, y : Precedes(t, x, y) <=> Precedes(s, x, y) \/ (x \in ToSet(s) /\ y = e)
  BY <1>3
<1> QED BY <1>1, <1>2, <1>4, <1>5, Zenon DEF t

-----------------------------------------------------------------------------
(* One turn of the merge. *)

\* The state after a candidate is taken.
Taken(st, next) ==
    [result     |-> IF Contains(st.result, next) THEN st.result ELSE Append(st.result, next),
     seqs       |-> [i \in DOMAIN st.seqs |-> DropHead(st.seqs[i], next)],
     consistent |-> TRUE]

GivenUp == [result |-> <<>>, seqs |-> <<>>, consistent |-> FALSE]

IsCandidate(i, seqs) == i \in Unfinished(seqs) /\ IsMergeable(Head(seqs[i]), seqs)

LEMMA TurnCases ==
    ASSUME NEW st, DOMAIN st.seqs \in SUBSET Nat
    PROVE  /\ Unfinished(st.seqs) = {} \/ ~ st.consistent => MergeTurn(st) = st
           /\ Unfinished(st.seqs) # {} /\ st.consistent =>
                 \/ MergeTurn(st) = GivenUp /\ \A i : ~ IsCandidate(i, st.seqs)
                 \/ \E i : /\ IsCandidate(i, st.seqs)
                           /\ MergeTurn(st) = Taken(st, Head(st.seqs[i]))
<1> DEFINE ready == {i \in Unfinished(st.seqs) : IsMergeable(Head(st.seqs[i]), st.seqs)}
           first == CHOOSE i \in ready : \A j \in ready : i <= j
<1>1. CASE Unfinished(st.seqs) = {} \/ ~ st.consistent
  BY <1>1 DEF MergeTurn
<1>2. CASE Unfinished(st.seqs) # {} /\ st.consistent /\ ready = {}
  BY <1>2 DEF MergeTurn, IsCandidate, GivenUp
<1>3. CASE Unfinished(st.seqs) # {} /\ st.consistent /\ ready # {}
  <2>1. ready \in SUBSET Nat
    BY DEF Unfinished
  <2>2. \E i \in ready : \A j \in ready : i <= j
    <3> HIDE DEF ready
    <3> QED BY <1>3, <2>1, LeastNumber
  <2>3. first \in ready
    <3> HIDE DEF ready
    <3> QED BY <2>2
  <2>4. MergeTurn(st) = Taken(st, Head(st.seqs[first]))
    BY <1>3 DEF MergeTurn, Taken
  <2> HIDE DEF first
  <2>5. IsCandidate(first, st.seqs)
    BY <2>3 DEF IsCandidate
  <2> QED BY <1>3, <2>4, <2>5
<1> QED BY <1>1, <1>2, <1>3

LEMMA DropHeadOf ==
    ASSUME NEW T, NEW s \in Seq(T), NEW e
    PROVE  /\ DropHead(s, e) \in Seq(T)
           /\ s # <<>> /\ Head(s) = e => DropHead(s, e) = Tail(s)
           /\ ~ (s # <<>> /\ Head(s) = e) => DropHead(s, e) = s
BY DEF DropHead

MergeStateOf(T) == [result : Seq(T), seqs : Seq(Seq(T)), consistent : BOOLEAN]

LEMMA TurnTyped ==
    ASSUME NEW T, NEW st \in MergeStateOf(T)
    PROVE  MergeTurn(st) \in MergeStateOf(T)
<1>1. /\ st.result \in Seq(T) /\ st.seqs \in Seq(Seq(T)) /\ st.consistent \in BOOLEAN
      /\ DOMAIN st.seqs = 1 .. Len(st.seqs) /\ Len(st.seqs) \in Nat
  BY DEF MergeStateOf
<1>2. GivenUp \in MergeStateOf(T)
  BY DEF MergeStateOf, GivenUp
<1>3. ASSUME NEW i, IsCandidate(i, st.seqs) PROVE Taken(st, Head(st.seqs[i])) \in MergeStateOf(T)
  <2> DEFINE next == Head(st.seqs[i])
             dropped == [j \in DOMAIN st.seqs |-> DropHead(st.seqs[j], next)]
  <2>1. st.seqs[i] \in Seq(T) /\ st.seqs[i] # <<>>
    BY <1>1, <1>3 DEF IsCandidate, Unfinished
  <2>2. next \in T
    BY <2>1
  <2>3. \A j \in DOMAIN st.seqs : DropHead(st.seqs[j], next) \in Seq(T)
    BY <1>1, DropHeadOf
  <2>4. dropped \in Seq(Seq(T))
    <3> HIDE DEF next
    <3> QED BY <1>1, <2>3
  <2>5. Append(st.result, next) \in Seq(T)
    BY <1>1, <2>2
  <2> HIDE DEF next, dropped
  <2>6. Taken(st, next) = [result |-> IF Contains(st.result, next) THEN st.result
                                      ELSE Append(st.result, next),
                           seqs |-> dropped, consistent |-> TRUE]
    BY DEF Taken, dropped
  <2>7. Taken(st, next) \in MergeStateOf(T)
    BY <1>1, <2>4, <2>5, <2>6 DEF MergeStateOf
  <2> QED BY <2>7 DEF next
<1>4. MergeTurn(st) = st \/ MergeTurn(st) = GivenUp
      \/ \E i : IsCandidate(i, st.seqs) /\ MergeTurn(st) = Taken(st, Head(st.seqs[i]))
  <2>1. DOMAIN st.seqs \in SUBSET Nat
    BY <1>1
  <2> QED BY <2>1, TurnCases
<1> QED BY <1>2, <1>3, <1>4

\* The recursion in MergeStates has a solution, the states of the loop.
LEMMA StatesOfMerge ==
    ASSUME NEW T, NEW seqs \in Seq(Seq(T)), IsFiniteSet(Members(seqs))
    PROVE  LET n == Cardinality(Members(seqs))
               state == MergeStates(seqs)
           IN  /\ n \in Nat
               /\ \A k \in 0 .. n : state[k] \in MergeStateOf(T)
               /\ state[0] = MergeStart(seqs)
               /\ \A k \in 1 .. n : state[k] = MergeTurn(state[k - 1])
<1> DEFINE n == Cardinality(Members(seqs))
           state == MergeStates(seqs)
           X == MergeStateOf(T)
           turn == [st \in X |-> MergeTurn(st)]
<1>1. n \in Nat
  BY FS_CardinalityType
<1>2. MergeStart(seqs) \in X
  BY DEF MergeStart, MergeStateOf
<1>3. turn \in [X -> X]
  BY TurnTyped
<1> HIDE DEF n, X
<1>4. Runs(X, turn, MergeStart(seqs), n) # {}
  <2> HIDE DEF turn
  <2> QED BY <1>1, <1>2, <1>3, StepByStep
<1>5. PICK f \in [0 .. n -> X] :
          f[0] = MergeStart(seqs) /\ \A k \in 1 .. n : f[k] = turn[f[k - 1]]
  BY <1>4 DEF Runs
<1>6. ASSUME NEW k \in 1 .. n PROVE f[k] = MergeTurn(f[k - 1])
  <2>1. k - 1 \in 0 .. n /\ f[k - 1] \in X
    BY <1>1, <1>5
  <2> QED BY <1>5, <2>1
<1>7. f = [k \in 0 .. n |-> IF k = 0 THEN MergeStart(seqs) ELSE MergeTurn(f[k - 1])]
  <2>1. ASSUME NEW k \in 0 .. n
        PROVE  f[k] = IF k = 0 THEN MergeStart(seqs) ELSE MergeTurn(f[k - 1])
    BY <1>1, <1>5, <1>6
  <2> QED BY <1>5, <2>1
<1>8. state = CHOOSE g :
          g = [k \in 0 .. n |-> IF k = 0 THEN MergeStart(seqs) ELSE MergeTurn(g[k - 1])]
  BY DEF MergeStates, n
<1> HIDE DEF state
<1>9. state = [k \in 0 .. n |-> IF k = 0 THEN MergeStart(seqs) ELSE MergeTurn(state[k - 1])]
  BY <1>7, <1>8
<1>10. state[0] = MergeStart(seqs) /\ \A k \in 1 .. n : state[k] = MergeTurn(state[k - 1])
  BY <1>1, <1>9
<1>11. \A k \in 0 .. n : state[k] \in X
  <2> DEFINE S == {k \in Nat : k <= n => state[k] \in X}
  <2>1. 0 \in S
    BY <1>2, <1>10
  <2>2. ASSUME NEW k \in Nat, k \in S PROVE k + 1 \in S
    <3>1. CASE k + 1 <= n
      <4>1. state[k] \in X /\ k + 1 \in 1 .. n /\ (k + 1) - 1 = k
        BY <1>1, <2>2, <3>1
      <4>2. state[k + 1] = MergeTurn(state[k])
        BY <1>10, <4>1
      <4> QED BY <4>1, <4>2, TurnTyped DEF X
    <3> QED BY <3>1
  <2> HIDE DEF S
  <2>3. Nat \subseteq S
    BY <2>1, <2>2, NextNumber
  <2> QED BY <1>1, <2>3 DEF S
<1> QED BY <1>1, <1>10, <1>11 DEF n, state, X

-----------------------------------------------------------------------------
(* What the merge computes. *)

\* What is left of a sequence, and what has been taken.
Remains(left, all, result) ==
    /\ IsInjective(left)
    /\ ToSet(left) \cap ToSet(result) = {}
    /\ ToSet(left) \subseteq ToSet(all)
    /\ ToSet(all) \subseteq ToSet(result) \cup ToSet(left)
    /\ \A x, y : Precedes(left, x, y) => Precedes(all, x, y)
    /\ \A x, y : Precedes(all, x, y) =>
          \/ Precedes(result, x, y) \/ Precedes(left, x, y)
          \/ x \in ToSet(result) /\ y \in ToSet(left)

\* Some members come one after the other in a circle.
Circular(seqs) ==
    \E S \in SUBSET Members(seqs) :
        S # {} /\ \A x \in S : \E y \in S : \E i \in DOMAIN seqs : Precedes(seqs[i], y, x)

MergeProgress(st, seqs) ==
    /\ DOMAIN st.seqs = DOMAIN seqs
    /\ IsInjective(st.result)
    /\ ToSet(st.result) \subseteq Members(seqs)
    /\ \A i \in DOMAIN seqs : Remains(st.seqs[i], seqs[i], st.result)

MergeInv(st, seqs, turns) ==
    IF st.consistent
    THEN /\ MergeProgress(st, seqs)
         /\ Cardinality(ToSet(st.result)) = turns \/ Unfinished(st.seqs) = {}
    ELSE st.result = <<>> /\ Circular(seqs)

\* The candidate of a turn is in no other place.
LEMMA CandidateIsNew ==
    ASSUME NEW T, NEW st \in MergeStateOf(T), NEW seqs, MergeProgress(st, seqs),
           NEW i, IsCandidate(i, st.seqs), NEW j \in DOMAIN seqs
    PROVE  LET next == Head(st.seqs[i])
               left == DropHead(st.seqs[j], next)
           IN  /\ next \in T /\ next \in Members(seqs) /\ next \notin ToSet(st.result)
               /\ left \in Seq(T) /\ IsInjective(left) /\ next \notin ToSet(left)
               /\ \/ left = st.seqs[j] /\ next \notin ToSet(st.seqs[j])
                  \/ st.seqs[j] # <<>> /\ Head(st.seqs[j]) = next /\ left = Tail(st.seqs[j])
<1> DEFINE next == Head(st.seqs[i])
           s == st.seqs[j]
           left == DropHead(s, next)
<1>1. /\ DOMAIN st.seqs = DOMAIN seqs /\ i \in DOMAIN seqs /\ st.seqs[i] # <<>>
      /\ st.seqs[i] \in Seq(T) /\ s \in Seq(T) /\ st.result \in Seq(T)
      /\ IsMergeable(next, st.seqs)
  BY DEF MergeStateOf, MergeProgress, IsCandidate, Unfinished
<1>2. next \in T /\ next \in ToSet(st.seqs[i])
  BY <1>1, TailOf
<1>3. next \in ToSet(seqs[i]) /\ next \notin ToSet(st.result)
  BY <1>1, <1>2 DEF MergeProgress, Remains
<1>4. next \in Members(seqs)
  BY <1>1, <1>3 DEF Members
<1>5. IsInjective(s)
  BY DEF MergeProgress, Remains
<1> HIDE DEF next
<1>6. CASE s = <<>>
  <2>1. left = s
    BY <1>1, <1>6, DropHeadOf
  <2>2. ToSet(s) = {}
    <3> HIDE DEF s
    <3> QED BY <1>6 DEF ToSet
  <2> QED BY <1>1, <1>2, <1>3, <1>4, <1>5, <2>1, <2>2 DEF next
<1>7. CASE s # <<>>
  <2>1. next \notin ToSet(Tail(s))
    <3>1. ~ Contains(Tail(s), next)
      BY <1>1, <1>7 DEF IsMergeable, Unfinished
    <3>2. Tail(s) \in Seq(T)
      BY <1>1, <1>7, TailOf
    <3> QED BY <3>1, <3>2, ToSetOf
  <2>2. /\ ToSet(s) = {Head(s)} \cup ToSet(Tail(s)) /\ Tail(s) \in Seq(T)
        /\ IsInjective(Tail(s))
    BY <1>1, <1>5, <1>7, TailOf
  <2>3. CASE Head(s) = next
    <3>1. left = Tail(s)
      BY <1>1, <1>7, <2>3, DropHeadOf
    <3> QED BY <1>2, <1>3, <1>4, <1>7, <2>1, <2>2, <2>3, <3>1 DEF next
  <2>4. CASE Head(s) # next
    <3>1. left = s /\ next \notin ToSet(s)
      BY <1>1, <2>1, <2>2, <2>4, DropHeadOf
    <3> QED BY <1>1, <1>2, <1>3, <1>4, <1>5, <3>1 DEF next
  <2> QED BY <2>3, <2>4
<1> QED BY <1>6, <1>7

LEMMA TakingKeepsProgress ==
    ASSUME NEW T, NEW st \in MergeStateOf(T), NEW seqs, MergeProgress(st, seqs),
           NEW i, IsCandidate(i, st.seqs)
    PROVE  LET next == Head(st.seqs[i])
               taken == Taken(st, next)
           IN  /\ MergeProgress(taken, seqs)
               /\ next \notin ToSet(st.result)
               /\ ToSet(taken.result) = ToSet(st.result) \cup {next}
<1> DEFINE next == Head(st.seqs[i])
           taken == Taken(st, next)
           r == st.result
           R == taken.result
<1>1. i \in DOMAIN seqs /\ r \in Seq(T) /\ DOMAIN st.seqs = DOMAIN seqs
  BY DEF MergeStateOf, MergeProgress, IsCandidate, Unfinished
<1>2. /\ next \in T /\ next \in Members(seqs) /\ next \notin ToSet(r)
  BY <1>1, CandidateIsNew
<1>3. /\ R = Append(r, next) /\ DOMAIN taken.seqs = DOMAIN seqs
      /\ \A j \in DOMAIN seqs : taken.seqs[j] = DropHead(st.seqs[j], next)
  <2>1. ~ Contains(r, next)
    BY <1>1, <1>2, ToSetOf
  <2> QED BY <1>1, <2>1 DEF Taken
<1>4. /\ R \in Seq(T) /\ ToSet(R) = ToSet(r) \cup {next} /\ IsInjective(R)
      /\ \A x, y : Precedes(R, x, y) <=> Precedes(r, x, y) \/ (x \in ToSet(r) /\ y = next)
  <2>1. IsInjective(r)
    BY DEF MergeProgress
  <2> HIDE DEF next, taken, r
  <2> QED BY <1>1, <1>2, <1>3, <2>1, AppendOf
<1>5. ASSUME NEW j \in DOMAIN seqs PROVE Remains(taken.seqs[j], seqs[j], R)
  <2> DEFINE s == st.seqs[j]
             left == taken.seqs[j]
             all == seqs[j]
  <2>1. /\ left \in Seq(T) /\ IsInjective(left) /\ next \notin ToSet(left)
        /\ \/ left = s /\ next \notin ToSet(s)
           \/ s # <<>> /\ Head(s) = next /\ left = Tail(s)
    BY <1>3, CandidateIsNew
  <2>2. Remains(s, all, r) /\ s \in Seq(T)
    BY <1>1 DEF MergeProgress, MergeStateOf
  <2> HIDE DEF next, taken, r, R, s, left, all
  <2>3. /\ ToSet(s) \cap ToSet(r) = {} /\ ToSet(s) \subseteq ToSet(all)
        /\ ToSet(all) \subseteq ToSet(r) \cup ToSet(s)
        /\ \A x, y : Precedes(s, x, y) => Precedes(all, x, y)
        /\ \A x, y : Precedes(all, x, y) =>
              \/ Precedes(r, x, y) \/ Precedes(s, x, y)
              \/ x \in ToSet(r) /\ y \in ToSet(s)
    BY <2>2 DEF Remains
  <2>4. /\ ToSet(left) \subseteq ToSet(s) /\ ToSet(s) \subseteq ToSet(left) \cup {next}
        /\ \A x, y : Precedes(left, x, y) => Precedes(s, x, y)
        /\ \A x, y : Precedes(s, x, y) =>
              Precedes(left, x, y) \/ (x = next /\ y \in ToSet(left))
    <3>1. CASE left = s
      BY <3>1
    <3>2. CASE s # <<>> /\ Head(s) = next /\ left = Tail(s)
      <4>1. /\ ToSet(s) = {next} \cup ToSet(left)
            /\ \A x, y : Precedes(s, x, y)
                           <=> (x = next /\ y \in ToSet(left)) \/ Precedes(left, x, y)
        BY <2>2, <3>2, TailOf
      <4> QED BY <4>1
    <3> QED BY <2>1, <3>1, <3>2
  <2>5. ToSet(left) \cap ToSet(R) = {}
    BY <1>4, <2>1, <2>3, <2>4
  <2>6. ToSet(left) \subseteq ToSet(all) /\ ToSet(all) \subseteq ToSet(R) \cup ToSet(left)
    BY <1>4, <2>3, <2>4
  <2>7. \A x, y : Precedes(left, x, y) => Precedes(all, x, y)
    BY <2>3, <2>4
  <2>8. ASSUME NEW x, NEW y, Precedes(all, x, y)
        PROVE  \/ Precedes(R, x, y) \/ Precedes(left, x, y)
               \/ x \in ToSet(R) /\ y \in ToSet(left)
    <3>1. CASE Precedes(r, x, y)
      BY <1>4, <3>1
    <3>2. CASE Precedes(s, x, y)
      BY <1>4, <2>4, <3>2
    <3>3. CASE x \in ToSet(r) /\ y \in ToSet(s)
      BY <1>4, <2>4, <3>3
    <3> QED BY <2>3, <2>8, <3>1, <3>2, <3>3
  <2>9. Remains(left, all, R)
    BY <2>1, <2>5, <2>6, <2>7, <2>8 DEF Remains
  <2> QED BY <2>9 DEF left, all
<1>6. ToSet(R) \subseteq Members(seqs)
  BY <1>2, <1>4 DEF MergeProgress
<1>7. MergeProgress(taken, seqs)
  BY <1>3, <1>4, <1>5, <1>6 DEF MergeProgress
<1> QED BY <1>2, <1>4, <1>7

\* When no head can be taken, the heads are in a circle.
LEMMA StuckIsCircular ==
    ASSUME NEW T, NEW st \in MergeStateOf(T), NEW seqs, MergeProgress(st, seqs),
           Unfinished(st.seqs) # {}, \A i : ~ IsCandidate(i, st.seqs)
    PROVE  Circular(seqs)
<1> DEFINE heads == {Head(st.seqs[i]) : i \in Unfinished(st.seqs)}
<1>1. ASSUME NEW i \in Unfinished(st.seqs)
      PROVE  /\ i \in DOMAIN seqs /\ st.seqs[i] \in Seq(T) /\ st.seqs[i] # <<>>
             /\ Head(st.seqs[i]) \in Members(seqs)
             /\ \A y : y \in ToSet(Tail(st.seqs[i])) =>
                   Precedes(seqs[i], Head(st.seqs[i]), y)
  <2>1. i \in DOMAIN seqs /\ st.seqs[i] \in Seq(T) /\ st.seqs[i] # <<>>
    BY DEF MergeProgress, MergeStateOf, Unfinished
  <2>2. Head(st.seqs[i]) \in ToSet(seqs[i])
    BY <2>1, TailOf DEF MergeProgress, Remains
  <2>3. Head(st.seqs[i]) \in Members(seqs)
    BY <2>1, <2>2 DEF Members
  <2>4. ASSUME NEW y \in ToSet(Tail(st.seqs[i])) PROVE Precedes(seqs[i], Head(st.seqs[i]), y)
    <3>1. Precedes(st.seqs[i], Head(st.seqs[i]), y)
      BY <2>1, TailOf
    <3> QED BY <2>1, <3>1 DEF MergeProgress, Remains
  <2> QED BY <2>1, <2>3, <2>4
<1>2. ASSUME NEW x \in heads
      PROVE  \E y \in heads : \E j \in DOMAIN seqs : Precedes(seqs[j], y, x)
  <2>1. PICK i \in Unfinished(st.seqs) : x = Head(st.seqs[i])
    OBVIOUS
  <2>2. PICK j \in Unfinished(st.seqs) : Contains(Tail(st.seqs[j]), x)
    BY <2>1 DEF IsCandidate, IsMergeable
  <2>3. x \in ToSet(Tail(st.seqs[j]))
    <3>1. Tail(st.seqs[j]) \in Seq(T)
      BY <1>1, TailOf
    <3> QED BY <2>2, <3>1, ToSetOf
  <2>4. Precedes(seqs[j], Head(st.seqs[j]), x) /\ j \in DOMAIN seqs
    BY <1>1, <2>3
  <2>5. Head(st.seqs[j]) \in heads
    OBVIOUS
  <2> QED BY <2>4, <2>5
<1>3. heads \in SUBSET Members(seqs) /\ heads # {}
  BY <1>1
<1> HIDE DEF heads
<1> QED BY <1>2, <1>3 DEF Circular

LEMMA TurnKeepsInv ==
    ASSUME NEW T, NEW seqs, IsFiniteSet(Members(seqs)), NEW st \in MergeStateOf(T),
           NEW n \in Nat, MergeInv(st, seqs, n)
    PROVE  MergeInv(MergeTurn(st), seqs, n + 1)
<1>1. DOMAIN st.seqs \in SUBSET Nat
  <2>1. st.seqs \in Seq(Seq(T))
    BY DEF MergeStateOf
  <2> QED BY <2>1
<1>2. CASE Unfinished(st.seqs) = {} \/ ~ st.consistent
  <2>1. MergeTurn(st) = st
    BY <1>1, <1>2, TurnCases
  <2> QED BY <1>2, <2>1 DEF MergeInv
<1>3. CASE /\ Unfinished(st.seqs) # {} /\ st.consistent
           /\ MergeTurn(st) = GivenUp /\ \A i : ~ IsCandidate(i, st.seqs)
  <2>1. Circular(seqs)
    BY <1>3, StuckIsCircular DEF MergeInv
  <2> QED BY <1>3, <2>1 DEF MergeInv, GivenUp
<1>4. ASSUME NEW i, Unfinished(st.seqs) # {}, st.consistent,
             IsCandidate(i, st.seqs), MergeTurn(st) = Taken(st, Head(st.seqs[i]))
      PROVE  MergeInv(MergeTurn(st), seqs, n + 1)
  <2> DEFINE next == Head(st.seqs[i])
             taken == Taken(st, next)
  <2>1. MergeProgress(st, seqs) /\ Cardinality(ToSet(st.result)) = n
    BY <1>4 DEF MergeInv
  <2>2. /\ MergeProgress(taken, seqs) /\ next \notin ToSet(st.result)
        /\ ToSet(taken.result) = ToSet(st.result) \cup {next}
    BY <1>4, <2>1, TakingKeepsProgress
  <2>3. IsFiniteSet(ToSet(st.result))
    BY <2>1, FS_Subset DEF MergeProgress
  <2>4. Cardinality(ToSet(taken.result)) = n + 1
    <3> HIDE DEF next, taken
    <3> QED BY <2>1, <2>2, <2>3, FS_AddElement
  <2>5. taken.consistent
    BY DEF Taken
  <2> QED BY <1>4, <2>2, <2>4, <2>5 DEF MergeInv
<1> QED BY <1>1, <1>2, <1>3, <1>4, TurnCases

\* Injective sequences are merged into one that has every member once and keeps
\* the order of each; or their orders make a circle and nothing is the result.
LEMMA MergeIsSound ==
    ASSUME NEW T, NEW seqs \in Seq(Seq(T)), IsFiniteSet(Members(seqs)),
           \A i \in DOMAIN seqs : IsInjective(seqs[i])
    PROVE  LET merged == Merge(seqs)
           IN  /\ merged.result \in Seq(T) /\ merged.consistent \in BOOLEAN
               /\ merged.consistent =>
                     /\ IsInjective(merged.result)
                     /\ ToSet(merged.result) = Members(seqs)
                     /\ \A i \in DOMAIN seqs : \A x, y :
                           Precedes(seqs[i], x, y) => Precedes(merged.result, x, y)
               /\ ~ merged.consistent => merged.result = <<>> /\ Circular(seqs)
<1> DEFINE n == Cardinality(Members(seqs))
           state == MergeStates(seqs)
           m == state[n]
<1>1. /\ n \in Nat
      /\ \A k \in 0 .. n : state[k] \in MergeStateOf(T)
      /\ state[0] = MergeStart(seqs)
      /\ \A k \in 1 .. n : state[k] = MergeTurn(state[k - 1])
  BY StatesOfMerge
<1> HIDE DEF n, state
<1>2. MergeInv(state[0], seqs, 0)
  <2> DEFINE st == state[0]
  <2>1. st.seqs = seqs /\ st.result = <<>> /\ st.consistent
    BY <1>1 DEF MergeStart
  <2>2. ToSet(st.result) = {} /\ IsInjective(st.result)
    BY <2>1 DEF ToSet, IsInjective
  <2> HIDE DEF st
  <2>3. \A i \in DOMAIN seqs : Remains(st.seqs[i], seqs[i], st.result)
    BY <2>1, <2>2 DEF Remains
  <2>4. MergeProgress(st, seqs)
    BY <2>1, <2>2, <2>3 DEF MergeProgress
  <2>5. MergeInv(st, seqs, 0)
    BY <2>1, <2>2, <2>4, FS_EmptySet DEF MergeInv
  <2> QED BY <2>5 DEF st
<1>3. MergeInv(m, seqs, n)
  <2> DEFINE S == {k \in Nat : k <= n => MergeInv(state[k], seqs, k)}
  <2>1. 0 \in S
    BY <1>2
  <2>2. ASSUME NEW k \in Nat, k \in S PROVE k + 1 \in S
    <3>1. CASE k + 1 <= n
      <4>1. k \in 0 .. n /\ k + 1 \in 1 .. n /\ (k + 1) - 1 = k /\ MergeInv(state[k], seqs, k)
        BY <1>1, <2>2, <3>1
      <4>2. state[k + 1] = MergeTurn(state[k]) /\ state[k] \in MergeStateOf(T)
        BY <1>1, <4>1
      <4>3. MergeInv(state[k + 1], seqs, k + 1)
        BY <4>1, <4>2, TurnKeepsInv
      <4> QED BY <4>3
    <3> QED BY <3>1
  <2> HIDE DEF S
  <2>3. Nat \subseteq S
    BY <2>1, <2>2, NextNumber
  <2> QED BY <1>1, <2>3 DEF S
<1>4. m \in MergeStateOf(T)
  BY <1>1
<1>5. Merge(seqs) = m
  BY DEF Merge, n, state
<1> HIDE DEF m
<1>6. ASSUME m.consistent
      PROVE  /\ IsInjective(m.result)
             /\ ToSet(m.result) = Members(seqs)
             /\ \A i \in DOMAIN seqs : \A x, y :
                   Precedes(seqs[i], x, y) => Precedes(m.result, x, y)
  <2>1. MergeProgress(m, seqs)
    BY <1>3, <1>6 DEF MergeInv
  <2>2. Unfinished(m.seqs) = {}
    <3> SUFFICES ASSUME Unfinished(m.seqs) # {} PROVE FALSE
      OBVIOUS
    <3>1. Cardinality(ToSet(m.result)) = n /\ ToSet(m.result) \subseteq Members(seqs)
      BY <1>3, <1>6 DEF MergeInv, MergeProgress
    <3>2. ToSet(m.result) = Members(seqs)
      BY <3>1, FS_Subset DEF n
    <3>3. PICK i \in DOMAIN seqs : m.seqs[i] # <<>> /\ m.seqs[i] \in Seq(T)
      BY <1>4, <2>1 DEF Unfinished, MergeProgress, MergeStateOf
    <3>4. Head(m.seqs[i]) \in ToSet(m.seqs[i])
      BY <3>3, TailOf
    <3>5. Head(m.seqs[i]) \in ToSet(seqs[i]) /\ Head(m.seqs[i]) \notin ToSet(m.result)
      BY <2>1, <3>4 DEF MergeProgress, Remains
    <3>6. Head(m.seqs[i]) \in Members(seqs)
      BY <3>5 DEF Members
    <3> QED BY <3>2, <3>5, <3>6
  <2>3. ASSUME NEW i \in DOMAIN seqs
        PROVE  /\ ToSet(seqs[i]) \subseteq ToSet(m.result)
               /\ \A x, y : Precedes(seqs[i], x, y) => Precedes(m.result, x, y)
    <3>1. m.seqs[i] = <<>> /\ Remains(m.seqs[i], seqs[i], m.result)
      BY <2>1, <2>2 DEF Unfinished, MergeProgress
    <3>2. ToSet(m.seqs[i]) = {} /\ \A x, y : ~ Precedes(m.seqs[i], x, y)
      BY <3>1 DEF ToSet, Precedes
    <3> QED BY <3>1, <3>2 DEF Remains
  <2>4. Members(seqs) \subseteq ToSet(m.result)
    BY <2>3 DEF Members
  <2> QED BY <2>1, <2>3, <2>4 DEF MergeProgress
<1>7. ~ m.consistent => m.result = <<>> /\ Circular(seqs)
  BY <1>3 DEF MergeInv
<1> QED BY <1>4, <1>5, <1>6, <1>7 DEF MergeStateOf

\* Orders that one injective sequence keeps make no circle.
LEMMA KeptOrdersAreNotCircular ==
    ASSUME NEW T, NEW r \in Seq(T), IsInjective(r), NEW S, S # {}, S \subseteq ToSet(r),
           \A x \in S : \E y \in S : Precedes(r, y, x)
    PROVE  FALSE
<1> DEFINE places == {p \in 1 .. Len(r) : r[p] \in S}
<1>1. DOMAIN r = 1 .. Len(r) /\ Len(r) \in Nat
  OBVIOUS
<1>2. places \in SUBSET Nat /\ places # {}
  <2>1. PICK x \in S : TRUE
    OBVIOUS
  <2>2. PICK p \in 1 .. Len(r) : r[p] = x
    BY <1>1, <2>1 DEF ToSet
  <2> QED BY <1>1, <2>1, <2>2
<1>3. \E p \in places : \A q \in places : p <= q
  <2> HIDE DEF places
  <2> QED BY <1>2, LeastNumber
<1>4. PICK p \in places : \A q \in places : p <= q
  BY <1>3
<1>5. PICK y \in S : Precedes(r, y, r[p])
  OBVIOUS
<1>6. PICK q, p2 \in DOMAIN r : q < p2 /\ r[q] = y /\ r[p2] = r[p]
  BY <1>5 DEF Precedes
<1>7. p2 = p
  BY <1>1, <1>6 DEF IsInjective
<1>8. q \in places /\ q < p
  BY <1>1, <1>5, <1>6, <1>7
<1> QED BY <1>1, <1>4, <1>8

-----------------------------------------------------------------------------
(* Following parents. *)

AndParents(parentMap, below) ==
    below \cup UNION {ToSet(ParentsIn(parentMap, t)) : t \in below}

Closed(parentMap, S) == \A t \in S : ToSet(ParentsIn(parentMap, t)) \subseteq S

LEMMA ParentsAreMentioned ==
    ASSUME NEW parentMap, NEW t
    PROVE  ToSet(ParentsIn(parentMap, t)) \subseteq Mentioned(parentMap)
<1>1. CASE t \in DOMAIN parentMap
  BY <1>1 DEF ParentsIn, Mentioned
<1>2. CASE t \notin DOMAIN parentMap
  <2>1. ParentsIn(parentMap, t) = <<>>
    BY <1>2 DEF ParentsIn
  <2>2. ToSet(ParentsIn(parentMap, t)) = {}
    BY <2>1 DEF ToSet
  <2> QED BY <2>2
<1> QED BY <1>1, <1>2

\* The recursion in Climb has a solution.
LEMMA StepsOfClimb ==
    ASSUME NEW parentMap, IsFiniteSet(Mentioned(parentMap)),
           NEW start \in SUBSET Mentioned(parentMap)
    PROVE  LET n == Cardinality(Mentioned(parentMap))
               up == Climb(parentMap, start)
           IN  /\ n \in Nat
               /\ \A k \in 0 .. n : up[k] \in SUBSET Mentioned(parentMap)
               /\ up[0] = start
               /\ \A k \in 1 .. n : up[k] = AndParents(parentMap, up[k - 1])
<1> DEFINE n == Cardinality(Mentioned(parentMap))
           up == Climb(parentMap, start)
           X == SUBSET Mentioned(parentMap)
           step == [S \in X |-> AndParents(parentMap, S)]
<1>1. n \in Nat
  BY FS_CardinalityType
<1>2. \A S \in X : AndParents(parentMap, S) \in X
  BY ParentsAreMentioned DEF AndParents
<1>3. step \in [X -> X]
  BY <1>2
<1> HIDE DEF n, X
<1>4. Runs(X, step, start, n) # {}
  <2>1. start \in X
    BY DEF X
  <2> HIDE DEF step
  <2> QED BY <1>1, <1>3, <2>1, StepByStep
<1>5. PICK f \in [0 .. n -> X] : f[0] = start /\ \A k \in 1 .. n : f[k] = step[f[k - 1]]
  BY <1>4 DEF Runs
<1>6. ASSUME NEW k \in 1 .. n PROVE f[k] = AndParents(parentMap, f[k - 1])
  <2>1. k - 1 \in 0 .. n /\ f[k - 1] \in X
    BY <1>1, <1>5
  <2> QED BY <1>5, <2>1
<1>7. f = [k \in 0 .. n |-> IF k = 0 THEN start ELSE AndParents(parentMap, f[k - 1])]
  <2>1. ASSUME NEW k \in 0 .. n
        PROVE  f[k] = IF k = 0 THEN start ELSE AndParents(parentMap, f[k - 1])
    BY <1>1, <1>5, <1>6
  <2> QED BY <1>5, <2>1
<1>8. up = CHOOSE g :
          g = [k \in 0 .. n |-> IF k = 0 THEN start ELSE AndParents(parentMap, g[k - 1])]
  BY DEF Climb, AndParents, n
<1> HIDE DEF up
<1>9. up = [k \in 0 .. n |-> IF k = 0 THEN start ELSE AndParents(parentMap, up[k - 1])]
  BY <1>7, <1>8
<1>10. up[0] = start /\ \A k \in 1 .. n : up[k] = AndParents(parentMap, up[k - 1])
  BY <1>1, <1>9
<1>11. \A k \in 0 .. n : up[k] \in X
  <2> DEFINE S == {k \in Nat : k <= n => up[k] \in X}
  <2>1. 0 \in S
    BY <1>10 DEF X
  <2>2. ASSUME NEW k \in Nat, k \in S PROVE k + 1 \in S
    <3>1. CASE k + 1 <= n
      <4>1. up[k] \in X /\ k + 1 \in 1 .. n /\ (k + 1) - 1 = k
        BY <1>1, <2>2, <3>1
      <4>2. up[k + 1] = AndParents(parentMap, up[k])
        BY <1>10, <4>1
      <4> QED BY <1>2, <4>1, <4>2
    <3> QED BY <3>1
  <2> HIDE DEF S
  <2>3. Nat \subseteq S
    BY <2>1, <2>2, NextNumber
  <2> QED BY <1>1, <2>3 DEF S
<1> QED BY <1>1, <1>10, <1>11 DEF n, up, X

\* As many links as there are types reach the least set that holds the start and
\* the parents of its members: as long as it is not closed, a link adds a type.
LEMMA UpwardIsLeast ==
    ASSUME NEW parentMap, IsFiniteSet(Mentioned(parentMap)),
           NEW start \in SUBSET Mentioned(parentMap)
    PROVE  LET reached == Upward(parentMap, start)
           IN  /\ start \subseteq reached /\ reached \subseteq Mentioned(parentMap)
               /\ Closed(parentMap, reached)
               /\ \A C : start \subseteq C /\ Closed(parentMap, C) => reached \subseteq C
<1> DEFINE n == Cardinality(Mentioned(parentMap))
           up == Climb(parentMap, start)
           X == SUBSET Mentioned(parentMap)
<1>1. /\ n \in Nat
      /\ \A k \in 0 .. n : up[k] \in X
      /\ up[0] = start
      /\ \A k \in 1 .. n : up[k] = AndParents(parentMap, up[k - 1])
  BY StepsOfClimb
<1>2. Upward(parentMap, start) = up[n]
  BY DEF Upward
<1> HIDE DEF n, up
<1>3. ASSUME NEW k \in Nat, k + 1 <= n
      PROVE  k \in 0 .. n /\ up[k] \in X /\ up[k + 1] = AndParents(parentMap, up[k])
             /\ up[k + 1] \in X
  <2>1. k \in 0 .. n /\ k + 1 \in 1 .. n /\ k + 1 \in 0 .. n /\ (k + 1) - 1 = k
    BY <1>1, <1>3
  <2> QED BY <1>1, <2>1
<1>4. start \subseteq up[n]
  <2> DEFINE S == {k \in Nat : k <= n => start \subseteq up[k]}
  <2>1. 0 \in S
    BY <1>1
  <2>2. ASSUME NEW k \in Nat, k \in S PROVE k + 1 \in S
    <3>1. CASE k + 1 <= n
      <4>1. start \subseteq up[k]
        BY <1>1, <2>2, <3>1
      <4> QED BY <1>3, <3>1, <4>1 DEF AndParents
    <3> QED BY <3>1
  <2> HIDE DEF S
  <2>3. Nat \subseteq S
    BY <2>1, <2>2, NextNumber
  <2> QED BY <1>1, <2>3 DEF S
<1>5. ASSUME NEW C, start \subseteq C, Closed(parentMap, C) PROVE up[n] \subseteq C
  <2> DEFINE S == {k \in Nat : k <= n => up[k] \subseteq C}
  <2>1. 0 \in S
    BY <1>1, <1>5
  <2>2. ASSUME NEW k \in Nat, k \in S PROVE k + 1 \in S
    <3>1. CASE k + 1 <= n
      <4>1. up[k] \subseteq C
        BY <1>1, <2>2, <3>1
      <4>2. AndParents(parentMap, up[k]) \subseteq C
        BY <1>5, <4>1 DEF AndParents, Closed
      <4> QED BY <1>3, <3>1, <4>2
    <3> QED BY <3>1
  <2> HIDE DEF S
  <2>3. Nat \subseteq S
    BY <2>1, <2>2, NextNumber
  <2> QED BY <1>1, <2>3 DEF S
<1>6. ASSUME NEW k \in Nat, k <= n
      PROVE  up[k] \in X /\ IsFiniteSet(up[k]) /\ Cardinality(up[k]) \in Nat
  <2>1. up[k] \in X
    BY <1>1, <1>6
  <2> QED BY <2>1, FS_Subset, FS_CardinalityType
<1>7. Closed(parentMap, up[n]) \/ Cardinality(up[n]) >= n
  <2> DEFINE Q(k) == Closed(parentMap, up[k]) \/ Cardinality(up[k]) >= k
             S == {k \in Nat : k <= n => Q(k)}
  <2>1. 0 \in S
    BY <1>1, <1>6
  <2>2. ASSUME NEW k \in Nat, k \in S PROVE k + 1 \in S
    <3>1. CASE k + 1 <= n
      <4>1. /\ Q(k) /\ up[k + 1] = AndParents(parentMap, up[k])
            /\ k <= n /\ up[k + 1] \in X
        BY <1>1, <1>3, <2>2, <3>1
      <4>2. CASE Closed(parentMap, up[k])
        <5>1. up[k + 1] = up[k]
          BY <4>1, <4>2 DEF Closed, AndParents
        <5> QED BY <4>2, <5>1
      <4>3. CASE ~ Closed(parentMap, up[k])
        <5>1. up[k] \subseteq up[k + 1] /\ up[k] # up[k + 1]
          BY <4>1, <4>3 DEF Closed, AndParents
        <5>2. IsFiniteSet(up[k + 1]) /\ Cardinality(up[k + 1]) \in Nat /\ Cardinality(up[k]) \in Nat
          BY <1>6, <3>1, <4>1
        <5>3. Cardinality(up[k]) < Cardinality(up[k + 1])
          BY <5>1, <5>2, FS_Subset
        <5>4. Cardinality(up[k + 1]) >= k + 1
          BY <4>1, <4>3, <5>2, <5>3
        <5> QED BY <5>4
      <4> QED BY <4>2, <4>3
    <3> QED BY <3>1
  <2>3. Nat \subseteq S
    <3> HIDE DEF S
    <3> QED BY <2>1, <2>2, NextNumber
  <2>4. n \in S
    BY <1>1, <2>3
  <2> QED BY <1>1, <2>4
<1>8. Closed(parentMap, up[n])
  <2> SUFFICES ASSUME ~ Closed(parentMap, up[n]) PROVE FALSE
    OBVIOUS
  <2>1. up[n] \subseteq Mentioned(parentMap)
    BY <1>1
  <2>2. Cardinality(up[n]) >= n /\ Cardinality(up[n]) <= n
    BY <1>7, <2>1, FS_Subset DEF n
  <2>3. Cardinality(up[n]) = n
    BY <1>1, <1>6, <2>2
  <2>4. up[n] = Mentioned(parentMap)
    BY <2>1, <2>3, FS_Subset DEF n
  <2> QED BY <2>4, ParentsAreMentioned DEF Closed
<1>9. up[n] \subseteq Mentioned(parentMap)
  BY <1>1
<1> QED BY <1>2, <1>4, <1>5, <1>8, <1>9

LEMMA ParentsAreAncestors ==
    ASSUME NEW parentMap, IsFiniteSet(Mentioned(parentMap)), NEW t
    PROVE  LET above == Ancestors(parentMap, t)
           IN  /\ ToSet(ParentsIn(parentMap, t)) \subseteq above
               /\ above \subseteq Mentioned(parentMap)
               /\ Closed(parentMap, above)
               /\ \A C : ToSet(ParentsIn(parentMap, t)) \subseteq C /\ Closed(parentMap, C)
                            => above \subseteq C
BY ParentsAreMentioned, UpwardIsLeast DEF Ancestors

\* The ancestors are the parents and what is above them.
LEMMA AncestorsUnfold ==
    ASSUME NEW parentMap, IsFiniteSet(Mentioned(parentMap)), NEW t
    PROVE  Ancestors(parentMap, t) =
               ToSet(ParentsIn(parentMap, t))
                   \cup UNION {Ancestors(parentMap, d) : d \in ToSet(ParentsIn(parentMap, t))}
<1> DEFINE P(x) == ToSet(ParentsIn(parentMap, x))
           A(x) == Ancestors(parentMap, x)
           R == P(t) \cup UNION {A(d) : d \in P(t)}
<1>1. \A x : /\ P(x) \subseteq A(x) /\ Closed(parentMap, A(x))
             /\ \A C : P(x) \subseteq C /\ Closed(parentMap, C) => A(x) \subseteq C
  BY ParentsAreAncestors
<1>2. \A C : Closed(parentMap, C) <=> \A x \in C : P(x) \subseteq C
  BY DEF Closed
<1> HIDE DEF P, A
<1>3. Closed(parentMap, R)
  <2>1. ASSUME NEW x \in R PROVE P(x) \subseteq R
    <3>1. CASE x \in P(t)
      BY <1>1, <3>1
    <3>2. CASE \E d \in P(t) : x \in A(d)
      BY <1>1, <1>2, <3>2
    <3> QED BY <3>1, <3>2
  <2> HIDE DEF R
  <2> QED BY <1>2, <2>1
<1>4. A(t) \subseteq R
  BY <1>1, <1>3
<1>5. ASSUME NEW d \in P(t) PROVE A(d) \subseteq A(t)
  <2>1. d \in A(t)
    BY <1>1
  <2>2. P(d) \subseteq A(t)
    BY <1>1, <1>2, <2>1
  <2> QED BY <1>1, <2>2
<1>6. R \subseteq A(t)
  BY <1>1, <1>5
<1>7. A(t) = R
  BY <1>4, <1>6
<1> QED BY <1>7 DEF A, P

-----------------------------------------------------------------------------
(* The linearization of a type, from those of its parents. *)

LEMMA ReverseOf ==
    ASSUME NEW T, NEW s \in Seq(T)
    PROVE  /\ Reverse(s) \in Seq(T) /\ ToSet(Reverse(s)) = ToSet(s)
           /\ Reverse(s) = <<>> <=> s = <<>>
           /\ IsInjective(s) => IsInjective(Reverse(s))
<1> DEFINE n == Len(s)
           r == Reverse(s)
<1>1. n \in Nat /\ DOMAIN s = 1 .. n /\ \A p \in 1 .. n : s[p] \in T
  OBVIOUS
<1>2. r = [p \in 1 .. n |-> s[(n - p) + 1]]
  BY DEF Reverse
<1>3. \A p \in 1 .. n : (n - p) + 1 \in 1 .. n /\ (n - ((n - p) + 1)) + 1 = p
  BY <1>1
<1> HIDE DEF n, r
<1>4. r \in Seq(T) /\ DOMAIN r = 1 .. n /\ Len(r) = n
  BY <1>1, <1>2, <1>3
<1>5. ToSet(r) = ToSet(s)
  <2>1. ToSet(r) \subseteq ToSet(s)
    BY <1>1, <1>2, <1>3, <1>4 DEF ToSet
  <2>2. ASSUME NEW p \in 1 .. n PROVE s[p] \in ToSet(r)
    <3>1. s[p] = r[(n - p) + 1] /\ (n - p) + 1 \in DOMAIN r
      BY <1>2, <1>3, <1>4
    <3> QED BY <3>1 DEF ToSet
  <2>3. ToSet(s) \subseteq ToSet(r)
    BY <1>1, <2>2 DEF ToSet
  <2> QED BY <2>1, <2>3
<1>6. r = <<>> <=> s = <<>>
  BY <1>1, <1>4 DEF n
<1>7. ASSUME IsInjective(s) PROVE IsInjective(r)
  <2>1. ASSUME NEW p \in 1 .. n, NEW q \in 1 .. n, r[p] = r[q] PROVE p = q
    <3>1. (n - p) + 1 = (n - q) + 1
      BY <1>1, <1>2, <1>3, <1>7, <2>1 DEF IsInjective
    <3> QED BY <1>1, <3>1
  <2> QED BY <1>4, <2>1 DEF IsInjective
<1> QED BY <1>4, <1>5, <1>6, <1>7 DEF r

LEMMA InputOf ==
    ASSUME NEW T, NEW ds \in Seq(T), NEW lin, \A d \in ToSet(ds) : lin[d] \in Seq(T)
    PROVE  LET seqs == MergeInput(ds, lin)
           IN  /\ seqs \in Seq(Seq(T))
               /\ \A i \in DOMAIN seqs :
                     seqs[i] = Reverse(ds) \/ \E d \in ToSet(ds) : seqs[i] = lin[d]
               /\ \A d \in ToSet(ds) : \E i \in DOMAIN seqs : seqs[i] = lin[d]
               /\ ds # <<>> => \E i \in DOMAIN seqs : seqs[i] = Reverse(ds)
<1> DEFINE r == Reverse(ds)
           seqs == MergeInput(ds, lin)
           first == [i \in DOMAIN r |-> lin[r[i]]]
<1>1. r \in Seq(T) /\ ToSet(r) = ToSet(ds) /\ (r = <<>> <=> ds = <<>>)
  BY ReverseOf
<1>2. seqs = IF r = <<>> THEN <<>> ELSE Append(first, r)
  BY DEF MergeInput
<1> HIDE DEF r, seqs
<1>3. CASE r = <<>>
  <2>1. ToSet(ds) = {}
    BY <1>1, <1>3 DEF ToSet
  <2>2. seqs \in Seq(Seq(T)) /\ DOMAIN seqs = {} /\ ds = <<>>
    BY <1>1, <1>2, <1>3
  <2> QED BY <2>1, <2>2 DEF seqs
<1>4. CASE r # <<>>
  <2>1. DOMAIN r = 1 .. Len(r) /\ Len(r) \in Nat
    BY <1>1
  <2>2. \A i \in 1 .. Len(r) : r[i] \in ToSet(ds) /\ lin[r[i]] \in Seq(T)
    BY <1>1, <2>1 DEF ToSet
  <2>3. /\ first \in Seq(Seq(T)) /\ Len(first) = Len(r)
        /\ \A i \in 1 .. Len(r) : first[i] = lin[r[i]]
    BY <2>1, <2>2
  <2> HIDE DEF first
  <2>4. /\ seqs \in Seq(Seq(T)) /\ DOMAIN seqs = 1 .. Len(r) + 1
        /\ \A i \in 1 .. Len(r) : seqs[i] = lin[r[i]]
        /\ seqs[Len(r) + 1] = r
    BY <1>1, <1>2, <1>4, <2>3
  <2>5. ASSUME NEW i \in DOMAIN seqs
        PROVE  seqs[i] = r \/ \E d \in ToSet(ds) : seqs[i] = lin[d]
    BY <2>1, <2>2, <2>4
  <2>6. ASSUME NEW d \in ToSet(ds) PROVE \E i \in DOMAIN seqs : seqs[i] = lin[d]
    <3>1. PICK i \in 1 .. Len(r) : r[i] = d
      BY <1>1, <2>1 DEF ToSet
    <3>2. i \in DOMAIN seqs /\ seqs[i] = lin[d]
      BY <2>1, <2>4, <3>1
    <3> QED BY <3>2
  <2>7. Len(r) + 1 \in DOMAIN seqs
    BY <2>1, <2>4
  <2> QED BY <2>4, <2>5, <2>6, <2>7 DEF r, seqs
<1> QED BY <1>3, <1>4 DEF r, seqs

\* Only the linearizations of the parents are read.
LEMMA InputReadsParents ==
    ASSUME NEW T, NEW ds \in Seq(T), NEW lin, NEW other, \A d \in ToSet(ds) : lin[d] = other[d]
    PROVE  MergeInput(ds, lin) = MergeInput(ds, other)
<1> DEFINE r == Reverse(ds)
<1>1. r \in Seq(T) /\ ToSet(r) = ToSet(ds)
  BY ReverseOf
<1>2. \A i \in DOMAIN r : lin[r[i]] = other[r[i]]
  BY <1>1 DEF ToSet
<1>3. [i \in DOMAIN r |-> lin[r[i]]] = [i \in DOMAIN r |-> other[r[i]]]
  <2> HIDE DEF r
  <2> QED BY <1>2
<1> QED BY <1>3 DEF MergeInput

\* The pairs that the parents and their linearizations put in order.
Ordered(ds, lin, x, y) ==
    Precedes(Reverse(ds), x, y) \/ \E d \in ToSet(ds) : Precedes(lin[d], x, y)

LEMMA LineOf ==
    ASSUME NEW T, NEW t, t \notin T, NEW s \in Seq(T)
    PROVE  LET line == <<t>> \o s
           IN  /\ line \in Seq({t} \cup T) /\ line # <<>> /\ Head(line) = t /\ Tail(line) = s
               /\ ToSet(line) = {t} \cup ToSet(s)
               /\ \A x, y : Precedes(s, x, y) => Precedes(line, x, y)
               /\ IsInjective(s) => IsInjective(line)
<1> DEFINE line == <<t>> \o s
           U == {t} \cup T
<1>1. line \in Seq(U) /\ line # <<>> /\ Head(line) = t /\ Tail(line) = s
  <2>1. <<t>> \in Seq(U) /\ s \in Seq(U) /\ Len(s) \in Nat
    OBVIOUS
  <2>2. line \in Seq(U) /\ Len(line) = Len(s) + 1 /\ line[1] = t
    BY <2>1
  <2>3. \A p \in 1 .. Len(s) : line[p + 1] = s[p]
    BY <2>1
  <2> HIDE DEF line
  <2>4. Tail(line) = s
    BY <2>1, <2>2, <2>3
  <2> QED BY <2>1, <2>2, <2>4
<1>2. t \notin ToSet(s)
  BY ToSetOf
<1> HIDE DEF line
<1>3. /\ ToSet(line) = {t} \cup ToSet(s)
      /\ \A x, y : Precedes(s, x, y) => Precedes(line, x, y)
      /\ IsInjective(s) => IsInjective(line)
  BY <1>1, <1>2, TailOf
<1> QED BY <1>1, <1>3 DEF line

LEMMA LinearizedFrom ==
    ASSUME NEW T, IsFiniteSet(T), NEW ds \in Seq(T), IsInjective(ds), NEW lin,
           \A d \in ToSet(ds) : lin[d] \in Seq(T) /\ IsInjective(lin[d]), NEW t, t \notin T
    PROVE  LET merged == Merge(MergeInput(ds, lin))
               line == <<t>> \o merged.result
           IN  /\ merged.consistent \in BOOLEAN
               /\ line \in Seq({t} \cup T) /\ line # <<>> /\ Head(line) = t /\ IsInjective(line)
               /\ merged.consistent =>
                     /\ ToSet(line) = {t} \cup ToSet(ds)
                                          \cup UNION {ToSet(lin[d]) : d \in ToSet(ds)}
                     /\ \A x, y : Ordered(ds, lin, x, y) => Precedes(line, x, y)
                     /\ \A S : S # {} => ~ \A x \in S : \E y \in S : Ordered(ds, lin, y, x)
               /\ ~ merged.consistent =>
                     \E S \in SUBSET T :
                        S # {} /\ \A x \in S : \E y \in S : Ordered(ds, lin, y, x)
<1> DEFINE seqs == MergeInput(ds, lin)
           merged == Merge(seqs)
           result == merged.result
           line == <<t>> \o result
<1>1. /\ seqs \in Seq(Seq(T))
      /\ \A i \in DOMAIN seqs :
            seqs[i] = Reverse(ds) \/ \E d \in ToSet(ds) : seqs[i] = lin[d]
      /\ \A d \in ToSet(ds) : \E i \in DOMAIN seqs : seqs[i] = lin[d]
      /\ ds # <<>> => \E i \in DOMAIN seqs : seqs[i] = Reverse(ds)
  BY InputOf
<1>2. IsInjective(Reverse(ds)) /\ ToSet(Reverse(ds)) = ToSet(ds) /\ Reverse(ds) \in Seq(T)
      /\ (Reverse(ds) = <<>> <=> ds = <<>>)
  BY ReverseOf
<1> HIDE DEF seqs
<1>3. \A i \in DOMAIN seqs : IsInjective(seqs[i])
  BY <1>1, <1>2
<1>4. \A x, y : Ordered(ds, lin, x, y) <=> \E i \in DOMAIN seqs : Precedes(seqs[i], x, y)
  <2>1. ASSUME NEW x, NEW y, Ordered(ds, lin, x, y)
        PROVE  \E i \in DOMAIN seqs : Precedes(seqs[i], x, y)
    <3>1. CASE Precedes(Reverse(ds), x, y)
      <4>1. ds # <<>>
        <5> SUFFICES ASSUME ds = <<>> PROVE FALSE
          OBVIOUS
        <5>1. Reverse(ds) = <<>>
          BY <1>2
        <5> QED BY <3>1, <5>1 DEF Precedes
      <4> QED BY <1>1, <3>1, <4>1
    <3>2. CASE \E d \in ToSet(ds) : Precedes(lin[d], x, y)
      BY <1>1, <3>2
    <3> QED BY <2>1, <3>1, <3>2 DEF Ordered
  <2>2. ASSUME NEW x, NEW y, NEW i \in DOMAIN seqs, Precedes(seqs[i], x, y)
        PROVE  Ordered(ds, lin, x, y)
    BY <1>1, <2>2 DEF Ordered
  <2> QED BY <2>1, <2>2
<1>5. Members(seqs) = ToSet(ds) \cup UNION {ToSet(lin[d]) : d \in ToSet(ds)}
  <2>1. ASSUME NEW i \in DOMAIN seqs, NEW x \in ToSet(seqs[i])
        PROVE  x \in ToSet(ds) \/ \E d \in ToSet(ds) : x \in ToSet(lin[d])
    BY <1>1, <1>2
  <2>2. ASSUME NEW x \in ToSet(ds) PROVE \E i \in DOMAIN seqs : x \in ToSet(seqs[i])
    <3>1. ds # <<>>
      BY DEF ToSet
    <3> QED BY <1>1, <1>2, <3>1
  <2>3. ASSUME NEW d \in ToSet(ds), NEW x \in ToSet(lin[d])
        PROVE  \E i \in DOMAIN seqs : x \in ToSet(seqs[i])
    BY <1>1
  <2>4. \A x : x \in Members(seqs) <=> \E i \in DOMAIN seqs : x \in ToSet(seqs[i])
    BY DEF Members
  <2>5. ASSUME NEW x \in Members(seqs)
        PROVE  x \in ToSet(ds) \/ \E d \in ToSet(ds) : x \in ToSet(lin[d])
    BY <2>1, <2>4
  <2>6. ToSet(ds) \subseteq Members(seqs)
    BY <2>2, <2>4
  <2>7. \A d \in ToSet(ds) : ToSet(lin[d]) \subseteq Members(seqs)
    BY <2>3, <2>4
  <2> QED BY <2>5, <2>6, <2>7
<1>6. Members(seqs) \in SUBSET T
  <2>1. ToSet(ds) \subseteq T
    BY ToSetOf
  <2>2. \A d \in ToSet(ds) : ToSet(lin[d]) \subseteq T
    BY ToSetOf
  <2> QED BY <1>5, <2>1, <2>2
<1>7. /\ result \in Seq(T) /\ merged.consistent \in BOOLEAN
      /\ merged.consistent =>
            /\ IsInjective(result)
            /\ ToSet(result) = Members(seqs)
            /\ \A i \in DOMAIN seqs : \A x, y :
                  Precedes(seqs[i], x, y) => Precedes(result, x, y)
      /\ ~ merged.consistent => result = <<>> /\ Circular(seqs)
  <2>1. IsFiniteSet(Members(seqs))
    BY <1>6, FS_Subset
  <2> QED BY <1>1, <1>3, <2>1, MergeIsSound
<1> HIDE DEF merged, result
<1>8. IsInjective(result)
  <2>1. ASSUME result = <<>> PROVE IsInjective(result)
    BY <2>1 DEF IsInjective
  <2> QED BY <1>7, <2>1
<1>9. /\ line \in Seq({t} \cup T) /\ line # <<>> /\ Head(line) = t
      /\ ToSet(line) = {t} \cup ToSet(result)
      /\ \A x, y : Precedes(result, x, y) => Precedes(line, x, y)
      /\ IsInjective(line)
  <2>1. result \in Seq(T) /\ t \notin T
    BY <1>7
  <2>2. /\ line \in Seq({t} \cup T) /\ line # <<>> /\ Head(line) = t
        /\ ToSet(line) = {t} \cup ToSet(result)
        /\ \A x, y : Precedes(result, x, y) => Precedes(line, x, y)
        /\ IsInjective(result) => IsInjective(line)
    BY <2>1, LineOf
  <2> HIDE DEF line
  <2> QED BY <1>8, <2>2
<1> HIDE DEF line
<1>10. ASSUME merged.consistent
       PROVE  /\ ToSet(line) = {t} \cup ToSet(ds) \cup UNION {ToSet(lin[d]) : d \in ToSet(ds)}
              /\ \A x, y : Ordered(ds, lin, x, y) => Precedes(line, x, y)
              /\ \A S : S # {} => ~ \A x \in S : \E y \in S : Ordered(ds, lin, y, x)
  <2>1. \A x, y : Ordered(ds, lin, x, y) => Precedes(result, x, y)
    BY <1>4, <1>7, <1>10
  <2>2. ASSUME NEW S, S # {}, \A x \in S : \E y \in S : Ordered(ds, lin, y, x) PROVE FALSE
    <3>1. \A x \in S : \E y \in S : Precedes(result, y, x)
      BY <2>1, <2>2
    <3>2. S \subseteq ToSet(result)
      BY <3>1 DEF Precedes, ToSet
    <3> QED BY <1>7, <1>8, <2>2, <3>1, <3>2, KeptOrdersAreNotCircular
  <2> QED BY <1>5, <1>7, <1>9, <1>10, <2>1, <2>2
<1>11. ASSUME ~ merged.consistent
       PROVE  \E S \in SUBSET T : S # {} /\ \A x \in S : \E y \in S : Ordered(ds, lin, y, x)
  <2>1. Circular(seqs)
    BY <1>7, <1>11
  <2> QED BY <1>4, <1>6, <2>1 DEF Circular
<1> QED BY <1>7, <1>9, <1>10, <1>11 DEF line, result, merged, seqs

-----------------------------------------------------------------------------
(* The linearizations of an acyclic parent map, the recursion without a cache. *)

ParentsAreSequences(parentMap) ==
    \A t \in DOMAIN parentMap : parentMap[t] \in Seq(ToSet(parentMap[t]))

LEMMA ParentClause ==
    ASSUME NEW parentMap, ParentsAreSequences(parentMap), NEW t
    PROVE  /\ ParentsIn(parentMap, t) \in Seq(ToSet(ParentsIn(parentMap, t)))
           /\ ParentsIn(parentMap, t) \in Seq(Mentioned(parentMap))
<1>1. ParentsIn(parentMap, t) \in Seq(ToSet(ParentsIn(parentMap, t)))
  <2>1. CASE t \in DOMAIN parentMap
    BY <2>1 DEF ParentsAreSequences, ParentsIn
  <2>2. CASE t \notin DOMAIN parentMap
    BY <2>2 DEF ParentsIn
  <2> QED BY <2>1, <2>2
<1>2. ToSet(ParentsIn(parentMap, t)) \subseteq Mentioned(parentMap)
  BY ParentsAreMentioned
<1> HIDE DEF ParentsIn
<1>3. ASSUME NEW X, NEW Y, X \subseteq Y, NEW s \in Seq(X) PROVE s \in Seq(Y)
  BY <1>3
<1> QED BY <1>1, <1>2, <1>3

\* Who is above a type is above what is below it, and there are fewer of them.
LEMMA AncestorsAbove ==
    ASSUME NEW parentMap, IsFiniteSet(Mentioned(parentMap)), NEW t, NEW d \in Ancestors(parentMap, t)
    PROVE  Ancestors(parentMap, d) \subseteq Ancestors(parentMap, t)
<1>1. /\ Closed(parentMap, Ancestors(parentMap, t))
      /\ \A C : ToSet(ParentsIn(parentMap, d)) \subseteq C /\ Closed(parentMap, C)
                   => Ancestors(parentMap, d) \subseteq C
  BY ParentsAreAncestors
<1>2. ToSet(ParentsIn(parentMap, d)) \subseteq Ancestors(parentMap, t)
  BY <1>1 DEF Closed
<1> QED BY <1>1, <1>2

Rank(parentMap, t) == Cardinality(Ancestors(parentMap, t))

LEMMA RankIsTyped ==
    ASSUME NEW parentMap, IsFiniteSet(Mentioned(parentMap)), NEW t
    PROVE  /\ IsFiniteSet(Ancestors(parentMap, t)) /\ Rank(parentMap, t) \in Nat
           /\ Cardinality(Mentioned(parentMap)) \in Nat
           /\ Rank(parentMap, t) <= Cardinality(Mentioned(parentMap))
<1>1. Ancestors(parentMap, t) \subseteq Mentioned(parentMap)
  BY ParentsAreAncestors
<1> QED BY <1>1, FS_Subset, FS_CardinalityType DEF Rank

LEMMA ParentsRankLower ==
    ASSUME NEW parentMap, IsFiniteSet(Mentioned(parentMap)), IsAcyclic(parentMap),
           NEW t, NEW d \in ToSet(ParentsIn(parentMap, t))
    PROVE  Rank(parentMap, d) < Rank(parentMap, t)
<1>1. d \in Ancestors(parentMap, t) /\ d \in Mentioned(parentMap)
  BY ParentsAreAncestors, ParentsAreMentioned
<1>2. Ancestors(parentMap, d) \subseteq Ancestors(parentMap, t)
  BY <1>1, AncestorsAbove
<1>3. d \notin Ancestors(parentMap, d)
  BY <1>1 DEF IsAcyclic
<1>4. /\ IsFiniteSet(Ancestors(parentMap, t))
      /\ Rank(parentMap, t) \in Nat /\ Rank(parentMap, d) \in Nat
  BY RankIsTyped
<1>5. Rank(parentMap, d) <= Rank(parentMap, t) /\ Rank(parentMap, d) # Rank(parentMap, t)
  BY <1>1, <1>2, <1>3, <1>4, FS_Subset DEF Rank
<1> QED BY <1>4, <1>5

\* What the recursion makes of one type.
LineIn(parentMap, t, lin) == <<t>> \o Merge(MergeInput(ParentsIn(parentMap, t), lin)).result

LEMMA MergeIsTyped ==
    ASSUME NEW T, IsFiniteSet(T), NEW ds \in Seq(T), NEW lin,
           \A d \in ToSet(ds) : lin[d] \in Seq(T)
    PROVE  Merge(MergeInput(ds, lin)).result \in Seq(T)
<1> DEFINE seqs == MergeInput(ds, lin)
           n == Cardinality(Members(seqs))
           state == MergeStates(seqs)
<1>1. seqs \in Seq(Seq(T))
  BY InputOf
<1> HIDE DEF seqs
<1>2. IsFiniteSet(Members(seqs))
  <2>1. \A i \in DOMAIN seqs : seqs[i] \in Seq(T)
    BY <1>1
  <2>2. \A i \in DOMAIN seqs : ToSet(seqs[i]) \subseteq T
    BY <2>1, ToSetOf
  <2>3. Members(seqs) \subseteq T
    BY <2>2 DEF Members
  <2> QED BY <2>3, FS_Subset
<1>3. n \in Nat /\ \A k \in 0 .. n : state[k] \in MergeStateOf(T)
  BY <1>1, <1>2, StatesOfMerge
<1>4. state[n] \in MergeStateOf(T)
  BY <1>3
<1> QED BY <1>4 DEF Merge, MergeStateOf, seqs

LEMMA LineIsTyped ==
    ASSUME NEW T, IsFiniteSet(T), NEW parentMap, NEW t \in T, NEW lin,
           ParentsIn(parentMap, t) \in Seq(T),
           \A d \in ToSet(ParentsIn(parentMap, t)) : lin[d] \in Seq(T)
    PROVE  LineIn(parentMap, t, lin) \in Seq(T)
<1>1. Merge(MergeInput(ParentsIn(parentMap, t), lin)).result \in Seq(T)
  BY MergeIsTyped
<1>2. <<t>> \in Seq(T)
  OBVIOUS
<1> QED BY <1>1, <1>2 DEF LineIn

\* The functions that the recursion accepts for the types of lower rank.
PartialLines(parentMap, n) ==
    {f \in [Mentioned(parentMap) -> Seq(Mentioned(parentMap))] :
        \A t \in Mentioned(parentMap) :
            Rank(parentMap, t) < n => f[t] = LineIn(parentMap, t, f)}

\* The recursion in Linearizations has a solution: rank by rank, the parents of
\* a type being ranked lower.
LEMMA LinearizationsHold ==
    ASSUME NEW parentMap, IsFiniteSet(Mentioned(parentMap)), IsAcyclic(parentMap),
           ParentsAreSequences(parentMap)
    PROVE  /\ Linearizations(parentMap) \in [Mentioned(parentMap) -> Seq(Mentioned(parentMap))]
           /\ \A t \in Mentioned(parentMap) :
                 Linearizations(parentMap)[t] = LineIn(parentMap, t, Linearizations(parentMap))
<1> DEFINE M == Mentioned(parentMap)
           L == Linearizations(parentMap)
           S == {n \in Nat : PartialLines(parentMap, n) # {}}
<1>1. 0 \in S
  <2>1. [t \in M |-> <<>>] \in PartialLines(parentMap, 0)
    BY RankIsTyped DEF PartialLines
  <2> QED BY <2>1
<1>2. ASSUME NEW n \in Nat, n \in S PROVE n + 1 \in S
  <2>1. PICK f \in [M -> Seq(M)] :
            \A t \in M : Rank(parentMap, t) < n => f[t] = LineIn(parentMap, t, f)
    BY <1>2 DEF PartialLines
  <2> DEFINE g == [t \in M |-> LineIn(parentMap, t, f)]
  <2>2. ASSUME NEW t \in M PROVE ParentsIn(parentMap, t) \in Seq(M)
                                 /\ ToSet(ParentsIn(parentMap, t)) \subseteq M
    BY ParentClause, ParentsAreMentioned
  <2>3. g \in [M -> Seq(M)]
    <3>1. \A t \in M : LineIn(parentMap, t, f) \in Seq(M)
      BY <2>1, <2>2, LineIsTyped
    <3> QED BY <3>1
  <2>4. ASSUME NEW t \in M, Rank(parentMap, t) < n + 1 PROVE g[t] = LineIn(parentMap, t, g)
    <3>1. \A d \in ToSet(ParentsIn(parentMap, t)) : f[d] = g[d]
      <4> SUFFICES ASSUME NEW d \in ToSet(ParentsIn(parentMap, t)) PROVE f[d] = g[d]
        OBVIOUS
      <4>1. Rank(parentMap, d) < Rank(parentMap, t)
        BY ParentsRankLower
      <4>2. Rank(parentMap, d) < n /\ d \in M
        BY <2>2, <2>4, <4>1, RankIsTyped
      <4> QED BY <2>1, <4>2
    <3>2. ParentsIn(parentMap, t) \in Seq(M)
      BY <2>2
    <3> HIDE DEF M, g
    <3>3. MergeInput(ParentsIn(parentMap, t), f) = MergeInput(ParentsIn(parentMap, t), g)
      BY <3>1, <3>2, InputReadsParents
    <3> USE DEF M, g
    <3> QED BY <3>3 DEF LineIn
  <2> HIDE DEF g
  <2>5. g \in PartialLines(parentMap, n + 1)
    BY <2>3, <2>4 DEF PartialLines
  <2> QED BY <2>5
<1>3. Nat \subseteq S
  <2> HIDE DEF S
  <2> QED BY <1>1, <1>2, NextNumber
<1>4. Cardinality(M) \in Nat /\ Cardinality(M) + 1 \in S
  BY <1>3, FS_CardinalityType
<1>5. PICK f \in PartialLines(parentMap, Cardinality(M) + 1) : TRUE
  BY <1>4
<1>6. f \in [M -> Seq(M)] /\ \A t \in M : f[t] = LineIn(parentMap, t, f)
  <2>1. \A t \in M : Rank(parentMap, t) < Cardinality(M) + 1
    BY <1>4, RankIsTyped
  <2> QED BY <1>5, <2>1 DEF PartialLines
<1>7. f = [t \in M |-> LineIn(parentMap, t, f)]
  BY <1>6
<1>8. L = CHOOSE g : g = [t \in M |-> LineIn(parentMap, t, g)]
  BY DEF Linearizations, LineIn
<1> HIDE DEF L, M
<1>9. L = [t \in M |-> LineIn(parentMap, t, L)]
  BY <1>7, <1>8
<1>10. \A t \in M : L[t] = LineIn(parentMap, t, L)
  BY <1>9
<1>11. ASSUME NEW T, \A t \in M : L[t] \in T PROVE L \in [M -> T]
  BY <1>9, <1>11
<1> DEFINE R == {n \in Nat : \A t \in M : Rank(parentMap, t) = n => L[t] \in Seq(M)}
<1>12. ASSUME NEW n \in Nat, \A m \in Nat : m < n => m \in R PROVE n \in R
  <2> SUFFICES ASSUME NEW t \in M, Rank(parentMap, t) = n PROVE L[t] \in Seq(M)
    OBVIOUS
  <2>1. ParentsIn(parentMap, t) \in Seq(M) /\ ToSet(ParentsIn(parentMap, t)) \subseteq M
    BY ParentClause, ParentsAreMentioned DEF M
  <2>2. \A d \in ToSet(ParentsIn(parentMap, t)) : L[d] \in Seq(M)
    BY <1>12, <2>1, ParentsRankLower, RankIsTyped DEF M
  <2>3. LineIn(parentMap, t, L) \in Seq(M)
    BY <2>1, <2>2, LineIsTyped DEF M
  <2> QED BY <1>10, <2>3
<1>13. Nat \subseteq R
  <2> HIDE DEF R
  <2> QED BY <1>12, EveryNumber
<1>14. \A t \in M : L[t] \in Seq(M)
  BY <1>13, RankIsTyped DEF M
<1> QED BY <1>10, <1>11, <1>14 DEF L, M

\* A linearization has nothing but the type and its ancestors.
LEMMA LinearizationMembers ==
    ASSUME NEW parentMap, IsFiniteSet(Mentioned(parentMap)), IsAcyclic(parentMap),
           ParentsAreSequences(parentMap), NEW t \in Mentioned(parentMap)
    PROVE  Linearizations(parentMap)[t] \in Seq({t} \cup Ancestors(parentMap, t))
<1> DEFINE M == Mentioned(parentMap)
           L == Linearizations(parentMap)
           Up(x) == {x} \cup Ancestors(parentMap, x)
           S == {n \in Nat : \A x \in M : Rank(parentMap, x) = n => L[x] \in Seq(Up(x))}
<1>1. \A x \in M : L[x] = LineIn(parentMap, x, L)
  BY LinearizationsHold
<1> HIDE DEF L
<1>2. ASSUME NEW n \in Nat, \A m \in Nat : m < n => m \in S PROVE n \in S
  <2> SUFFICES ASSUME NEW x \in M, Rank(parentMap, x) = n PROVE L[x] \in Seq(Up(x))
    OBVIOUS
  <2> DEFINE P == ToSet(ParentsIn(parentMap, x))
  <2>1. IsFiniteSet(Up(x))
    BY RankIsTyped, FS_AddElement
  <2>2. P \subseteq Up(x) /\ P \subseteq M /\ ParentsIn(parentMap, x) \in Seq(P)
    BY ParentsAreAncestors, ParentsAreMentioned, ParentClause
  <2>3. ASSUME NEW X, NEW Y, X \subseteq Y, NEW s \in Seq(X) PROVE s \in Seq(Y)
    BY <2>3
  <2>4. ASSUME NEW d \in P PROVE L[d] \in Seq(Up(x))
    <3>1. L[d] \in Seq(Up(d))
      BY <1>2, <2>2, ParentsRankLower, RankIsTyped
    <3>2. d \in Ancestors(parentMap, x)
      BY ParentsAreAncestors
    <3>3. Up(d) \subseteq Up(x)
      BY <3>2, AncestorsAbove
    <3> HIDE DEF Up
    <3> QED BY <2>3, <3>1, <3>3
  <2>5. x \in Up(x)
    OBVIOUS
  <2>6. ParentsIn(parentMap, x) \in Seq(Up(x))
    <3> HIDE DEF Up, P
    <3> QED BY <2>2, <2>3
  <2>7. LineIn(parentMap, x, L) \in Seq(Up(x))
    <3> HIDE DEF Up
    <3> QED BY <2>1, <2>4, <2>5, <2>6, LineIsTyped
  <2> QED BY <1>1, <2>7
<1>3. Nat \subseteq S
  <2> HIDE DEF S
  <2> QED BY <1>2, EveryNumber
<1>4. L[t] \in Seq(Up(t))
  BY <1>3, RankIsTyped
<1> QED BY <1>4 DEF L

===============================================================================
