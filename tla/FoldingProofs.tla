---------------------------- MODULE FoldingProofs ----------------------------
(***************************************************************************)
(* Proofs that the rules of Folding keep the meaning of an expression, for *)
(* any width of the integers, any operands and any machine.                *)
(*                                                                         *)
(* What the operands do is given by eval, of which no more is known than   *)
(* its equation for arithmetic and control (Machine) and what the rules    *)
(* ask: a value of known type gives data of it, a pure one has no effect.  *)
(***************************************************************************)
EXTENDS Folding, Machine, LinearizationLemmas

CONSTANT eval(_, _)     \* what a value does on a machine (NirSemantics)

\* The equation of NirSemantics for the values that are scalar.
Evaluates == \A v, s : IsScalar(v) => eval(v, s) = scalar(v, s, eval)

LEMMA EvalUnary ==
    ASSUME Evaluates, NEW v, v.k = "Unary", NEW s
    PROVE  eval(v, s) =
             LET r == eval(v.ops[1], s)
             IN  IF r.x # none THEN r
                 ELSE done(r.s, unary(v.x, r.v))
BY DEF Evaluates, IsScalar, scalar, then

LEMMA UnaryOf ==
    \A d : unary("!", d) = bool(~ isTrue(d)) /\ unary("-", d) = int(- d.n) /\ unary("+", d) = d
BY Zenon DEF unary

LEMMA EvalBinary ==
    ASSUME Evaluates, NEW v, v.k = "Binary", v.x \notin Logical, NEW s
    PROVE  eval(v, s) =
             LET r == eval(v.ops[1], s)
                 q == eval(v.ops[2], r.s)
             IN  IF r.x # none THEN r
                 ELSE IF q.x # none THEN q
                 ELSE binary(v.x, r.v, q.v, q.s)
BY DEF Evaluates, IsScalar, scalar, then

LEMMA EvalLogical ==
    ASSUME Evaluates, NEW v, v.k = "Binary", v.x \in Logical, NEW s
    PROVE  eval(v, s) =
             LET r == eval(v.ops[1], s)
             IN  IF r.x # none THEN r
                 ELSE IF isTrue(r.v) = (v.x = "||") THEN done(r.s, r.v)
                 ELSE eval(v.ops[2], r.s)
BY DEF Evaluates, IsScalar, scalar, then

LEMMA EvalIf ==
    ASSUME Evaluates, NEW v, v.k = "If", NEW s
    PROVE  eval(v, s) =
             LET r == eval(v.ops[1], s)
             IN  IF r.x # none THEN r
                 ELSE eval(v.ops[IF isTrue(r.v) THEN 2 ELSE 3], r.s)
BY DEF Evaluates, IsScalar, scalar, then

LEMMA EvalLiteral ==
    ASSUME Evaluates, NEW v, v.k = "Literal", NEW s
    PROVE  eval(v, s) = done(s, literal(v))
<1>1. IsScalar(v)
  BY DEF IsScalar
<1> QED BY <1>1, Zenon DEF Evaluates, scalar

------------------------------------------------------------------------------
(* Integers of a width. *)

LEMMA HalfIsPositive == half \in Nat /\ half > 0
<1> DEFINE n == IntWidth - 1
           S == 1 .. n
<1>1. n \in Nat
  BY IntWidthAssumption
<1>2. IsFiniteSet(S) /\ Cardinality(S) = n
  <2>1. 1 \in Int /\ n \in Int
    BY <1>1
  <2>2. IsFiniteSet(1 .. n) /\ Cardinality(1 .. n) = IF 1 > n THEN 0 ELSE n - 1 + 1
    BY <2>1, FS_Interval, Zenon
  <2>3. (IF 1 > n THEN 0 ELSE n - 1 + 1) = n
    BY <1>1
  <2> QED BY <2>2, <2>3
<1>3. IsFiniteSet(SUBSET S) /\ Cardinality(SUBSET S) = 2 ^ n
  <2> HIDE DEF S, n
  <2>1. IsFiniteSet(SUBSET S) /\ Cardinality(SUBSET S) = 2 ^ Cardinality(S)
    BY <1>2, FS_SUBSET, Zenon
  <2> QED BY <1>2, <2>1
<1>4. Cardinality(SUBSET S) \in Nat /\ Cardinality(SUBSET S) # 0
  <2>1. SUBSET S # {}
    OBVIOUS
  <2> HIDE DEF S
  <2> QED BY <1>3, <2>1, FS_CardinalityType, FS_EmptySet
<1> QED BY <1>3, <1>4 DEF half

LEMMA WrappedInRange ==
    ASSUME NEW n \in ints PROVE wrapped(n) = n
<1>1. half \in Nat /\ half > 0
  BY HalfIsPositive
<1> DEFINE m == n + half
           w == 2 * half
<1>2. m \in Nat /\ m < w /\ w \in Nat /\ w > 0
  BY <1>1 DEF ints
<1>3. n \in Int
  BY <1>1 DEF ints
<1> HIDE DEF m, w
<1>4. m % w = m
  BY <1>2
<1> QED BY <1>1, <1>3, <1>4 DEF wrapped, m, w

LEMMA WrappedIsInRange ==
    ASSUME NEW n \in Int PROVE wrapped(n) \in ints
<1>1. half \in Nat /\ half > 0
  BY HalfIsPositive
<1> DEFINE m == n + half
           w == 2 * half
<1>2. m \in Int /\ w \in Nat /\ w > 0
  BY <1>1
<1> HIDE DEF m, w
<1>3. m % w \in 0 .. w - 1
  BY <1>2
<1> QED BY <1>1, <1>3 DEF wrapped, ints, m, w

LEMMA WrappedNegation ==
    ASSUME NEW n \in ints PROVE wrapped(- wrapped(- n)) = n
<1>1. half \in Nat /\ half > 0 /\ n \in Int
  BY HalfIsPositive DEF ints
<1>2. CASE - n \in ints
  BY <1>1, <1>2, WrappedInRange
<1>3. CASE - n \notin ints
  <2>1. n = - half
    BY <1>1, <1>3 DEF ints
  <2>2. wrapped(half) = - half
    <3>1. (half + half) % (2 * half) = 0
      <4> DEFINE w == 2 * half
      <4>1. half + half = w /\ w \in Nat /\ w > 0
        BY <1>1
      <4> HIDE DEF w
      <4>2. w % w = 0
        BY <4>1
      <4> QED BY <4>1, <4>2 DEF w
    <3> QED BY <1>1, <3>1 DEF wrapped
  <2>3. - n = half /\ - (- half) = half
    BY <1>1, <2>1
  <2> QED BY <2>1, <2>2, <2>3
<1> QED BY <1>2, <1>3

------------------------------------------------------------------------------
(***************************************************************************)
(* What the rules are asked about: values E, closed under the operands of  *)
(* arithmetic, on machines S.  Every part is something the front end and   *)
(* the analyses of the optimizer vouch for.                                *)
(***************************************************************************)

Ints == {datum("int", n) : n \in ints}
Bools == {bool(TRUE), bool(FALSE)}

OperandsBelong(E) ==
    \A v \in E : /\ v.k = "Unary" => v.ops[1] \in E
                 /\ v.k = "Binary" => v.ops[1] \in E /\ v.ops[2] \in E

\* A literal of the source has the range of its type.
LiteralsInRange(E) ==
    \A v \in E : /\ IsInteger(v) => \E n \in ints : v = intLiteral(n)
                 /\ IsBoolean(v) => \E b \in BOOLEAN : v = booleanLiteral(b)

EndInS(E, S) ==
    \A v \in E, s \in S : \E t \in S : \E d, x : eval(v, s) = [s |-> t, v |-> d, x |-> x]

\* knownValueType is right about the data a value ends with.
TypesAreRight(E, S, types) ==
    \A v \in E, s \in S : eval(v, s).x = none =>
        /\ knownValueType(v, types) = "Int" => eval(v, s).v \in Ints
        /\ knownValueType(v, types) = "Boolean" => eval(v, s).v \in Bools

\* isPureLetValue is right: the value ends and leaves the machine as it was.
PureIsPure(E, S) ==
    \A v \in E, s \in S : isPureLetValue(v) => eval(v, s).x = none /\ eval(v, s).s = s

\* A local is read, which has no effect; a name alone is no call here.
LocalsArePure(E) == \A v \in E : v.k = "Local" => isPureLetValue(v)

Scope(E, S, types) ==
    /\ OperandsBelong(E) /\ LiteralsInRange(E) /\ EndInS(E, S)
    /\ TypesAreRight(E, S, types) /\ PureIsPure(E, S) /\ LocalsArePure(E)

\* Two values do the same on every machine of S.
MeanSame(u, v, S) == \A s \in S : eval(u, s) = eval(v, s)

\* A rule that applies gives a value that does what v does.
Keeps(result, v, S) == Some(result) => MeanSame(result, v, S)

------------------------------------------------------------------------------
(* Rules and literals. *)

LEMMA FirstIsOne ==
    ASSUME NEW rules, NEW n \in Nat, Len(rules) = n
    PROVE  first(rules) = NoValue \/ \E j \in 1..n : first(rules) = rules[j]
<1> DEFINE I == {j \in 1..Len(rules) : Some(rules[j])}
<1>1. CASE I = {}
  <2>1. SelectInSeq(rules, Some) = 0
    BY <1>1 DEF SelectInSeq
  <2> QED BY <2>1, Zenon DEF first
<1>2. CASE I # {}
  <2>1. SelectInSeq(rules, Some) = Min(I)
    BY <1>2 DEF SelectInSeq
  <2>2. I \in SUBSET Nat
    OBVIOUS
  <2>3. \E i \in I : \A j \in I : i <= j
    BY <1>2, <2>2, LeastNumber
  <2>4. Min(I) \in I
    <3> HIDE DEF I
    <3> QED BY <2>3 DEF Min
  <2>5. Min(I) \in 1..n /\ Min(I) # 0
    BY <2>4
  <2> HIDE DEF I
  <2>6. first(rules) = rules[Min(I)]
    BY <2>1, <2>5, Zenon DEF first
  <2> QED BY <2>5, <2>6
<1> QED BY <1>1, <1>2

LEMMA NoValueKeeps ==
    ASSUME NEW v, NEW S PROVE Keeps(NoValue, v, S)
BY Zenon DEF Keeps, Some

LEMMA FirstKeeps ==
    ASSUME NEW rules, NEW n \in Nat, Len(rules) = n, NEW v, NEW S,
           \A j \in 1..n : Keeps(rules[j], v, S)
    PROVE  Keeps(first(rules), v, S)
<1>1. first(rules) = NoValue \/ \E j \in 1..n : first(rules) = rules[j]
  BY FirstIsOne
<1> QED BY <1>1, NoValueKeeps

LEMMA WhenKeeps ==
    ASSUME NEW condition, NEW u, NEW v, NEW S, condition => MeanSame(u, v, S)
    PROVE  Keeps(when(condition, u), v, S)
BY Zenon DEF Keeps, when, Some

LEMMA FactKeeps ==
    ASSUME NEW condition, NEW b, NEW v, NEW S, condition => MeanSame(booleanLiteral(b), v, S)
    PROVE  Keeps(fact(condition, b), v, S)
BY Zenon DEF Keeps, fact, Some

LEMMA EvalInt ==
    ASSUME Evaluates, NEW n, NEW s
    PROVE  eval(intLiteral(n), s) = done(s, int(n))
<1> DEFINE v == intLiteral(n)
<1>1. v.k = "Literal" /\ v.t = "Int" /\ v.x = "" /\ v.i = n
  BY DEF intLiteral, value
<1>2. v.x # "null"
  BY <1>1, Zenon
<1>3. IsInteger(v) /\ ~ isNullLiteral(v) /\ ~ IsBoolean(v)
  BY <1>1, <1>2 DEF IsInteger, isNullLiteral, IsBoolean
<1> HIDE DEF v
<1>4. literal(v) = int(n)
  BY <1>1, <1>3 DEF literal
<1>5. eval(v, s) = done(s, literal(v))
  BY <1>1, EvalLiteral
<1> QED BY <1>4, <1>5 DEF v

LEMMA BooleanText ==
    ASSUME NEW b \in BOOLEAN
    PROVE  /\ IsBoolean(booleanLiteral(b))
           /\ IsTrue(booleanLiteral(b)) <=> b
           /\ IsFalse(booleanLiteral(b)) <=> ~ b
BY DEF booleanLiteral, literalValue, value, IsBoolean, IsTrue, IsFalse

LEMMA EvalBool ==
    ASSUME Evaluates, NEW b \in BOOLEAN, NEW s
    PROVE  eval(booleanLiteral(b), s) = done(s, bool(b))
<1> DEFINE v == booleanLiteral(b)
<1>1. v.k = "Literal" /\ v.t = "Boolean" /\ v.x \in {"true", "false"}
  BY DEF booleanLiteral, literalValue, value
<1>2. IsBoolean(v) /\ ~ isNullLiteral(v) /\ ~ IsInteger(v)
  BY <1>1 DEF IsInteger, isNullLiteral, IsBoolean
<1>3. IsTrue(v) <=> b
  BY BooleanText
<1> HIDE DEF v
<1>4. literal(v) = bool(b)
  BY <1>2, <1>3, Zenon DEF literal, bool
<1>5. eval(v, s) = done(s, literal(v))
  BY <1>1, EvalLiteral
<1> QED BY <1>4, <1>5 DEF v

------------------------------------------------------------------------------
(* Data and operators. *)

LEMMA IntData ==
    ASSUME NEW d \in Ints
    PROVE  d.k = "int" /\ d.n \in ints /\ d.n \in Int /\ d = datum("int", d.n) /\ int(d.n) = d
<1>1. PICK n \in ints : d = datum("int", n)
  BY DEF Ints
<1>2. d.k = "int" /\ d.n = n
  BY <1>1 DEF datum
<1>3. n \in Int
  BY HalfIsPositive DEF ints
<1>4. wrapped(n) = n
  BY WrappedInRange
<1> QED BY <1>1, <1>2, <1>3, <1>4 DEF int

LEMMA IntIsData ==
    ASSUME NEW n \in Int
    PROVE  int(n) \in Ints /\ int(n).n = wrapped(n)
<1>1. wrapped(n) \in ints
  BY WrappedIsInRange
<1> QED BY <1>1 DEF int, Ints, datum

LEMMA BoolData ==
    /\ \A b \in BOOLEAN : bool(b) \in Bools /\ (isTrue(bool(b)) <=> b) /\ bool(b).k = "bool"
    /\ \A d \in Bools : d = bool(isTrue(d)) /\ isTrue(d) \in BOOLEAN /\ d.n \in {0, 1}
    /\ bool(TRUE) # bool(FALSE)
<1>1. bool(TRUE).n = 1 /\ bool(FALSE).n = 0 /\ bool(TRUE).k = "bool" /\ bool(FALSE).k = "bool"
  BY DEF bool, datum
<1>2. isTrue(bool(TRUE)) /\ ~ isTrue(bool(FALSE))
  <2>1. 0 # 1
    OBVIOUS
  <2> QED BY <1>1, <2>1, Zenon DEF isTrue
<1>3. \A b \in BOOLEAN : b = TRUE \/ b = FALSE
  OBVIOUS
<1>4. \A d \in Bools : d = bool(TRUE) \/ d = bool(FALSE)
  BY DEF Bools
<1>5. \A d : isTrue(d) \in BOOLEAN
  BY DEF isTrue
<1>6. ASSUME NEW d \in Bools PROVE d = bool(isTrue(d))
  <2>1. CASE d = bool(TRUE)
    <3>1. isTrue(d) = TRUE
      BY <2>1, <1>2, <1>5
    <3> QED BY <2>1, <3>1
  <2>2. CASE d = bool(FALSE)
    <3>1. isTrue(d) = FALSE
      BY <2>2, <1>2, <1>5
    <3> QED BY <2>2, <3>1
  <2> QED BY <1>4, <2>1, <2>2
<1>7. bool(TRUE) \in Bools /\ bool(FALSE) \in Bools
  BY DEF Bools
<1>8. ASSUME NEW b \in BOOLEAN PROVE bool(b) \in Bools /\ (isTrue(bool(b)) <=> b) /\ bool(b).k = "bool"
  <2>1. CASE b = TRUE
    BY <2>1, <1>1, <1>2, <1>7
  <2>2. CASE b = FALSE
    BY <2>2, <1>1, <1>2, <1>7
  <2> QED BY <2>1, <2>2
<1>9. ASSUME NEW d \in Bools PROVE d.n \in {0, 1}
  BY <1>1, <1>4
<1> QED BY <1>1, <1>5, <1>6, <1>8, <1>9

LEMMA BinaryOf ==
    ASSUME NEW a, NEW b, NEW s
    PROVE  /\ binary("==", a, b, s) = done(s, bool(anyEqual(a, b, s)))
           /\ binary("!=", a, b, s) = done(s, bool(~ anyEqual(a, b, s)))
           /\ binary("<", a, b, s) = done(s, bool(a.n < b.n))
           /\ binary(">", a, b, s) = done(s, bool(a.n > b.n))
           /\ binary("<=", a, b, s) = done(s, bool(a.n <= b.n))
           /\ binary(">=", a, b, s) = done(s, bool(a.n >= b.n))
           /\ binary("+", a, b, s) = done(s, int(a.n + b.n))
           /\ binary("-", a, b, s) = done(s, int(a.n - b.n))
           /\ binary("*", a, b, s) = done(s, int(a.n * b.n))
           /\ b.n # 0 => /\ binary("/", a, b, s) = done(s, int(truncated(a.n, b.n)))
                         /\ binary("%", a, b, s) = done(s, int(a.n - b.n * truncated(a.n, b.n)))
<1>1. binary("==", a, b, s) = done(s, bool(anyEqual(a, b, s)))
  BY Zenon DEF binary, BitOps, Shifts
<1>2. binary("!=", a, b, s) = done(s, bool(~ anyEqual(a, b, s)))
  BY Zenon DEF binary, BitOps, Shifts
<1>3. binary("<", a, b, s) = done(s, bool(a.n < b.n))
  BY Zenon DEF binary, BitOps, Shifts
<1>4. binary(">", a, b, s) = done(s, bool(a.n > b.n))
  BY Zenon DEF binary, BitOps, Shifts
<1>5. binary("<=", a, b, s) = done(s, bool(a.n <= b.n))
  BY Zenon DEF binary, BitOps, Shifts
<1>6. binary(">=", a, b, s) = done(s, bool(a.n >= b.n))
  BY Zenon DEF binary, BitOps, Shifts
<1>7. binary("+", a, b, s) = done(s, int(a.n + b.n))
  BY Zenon DEF binary, BitOps, Shifts
<1>8. binary("-", a, b, s) = done(s, int(a.n - b.n))
  BY Zenon DEF binary, BitOps, Shifts
<1>9. binary("*", a, b, s) = done(s, int(a.n * b.n))
  BY Zenon DEF binary, BitOps, Shifts
<1>10. b.n # 0 => binary("/", a, b, s) = done(s, int(truncated(a.n, b.n)))
  BY Zenon DEF binary, BitOps, Shifts
<1>11. b.n # 0 => binary("%", a, b, s) = done(s, int(a.n - b.n * truncated(a.n, b.n)))
  BY Zenon DEF binary, BitOps, Shifts
<1> QED BY <1>1, <1>2, <1>3, <1>4, <1>5, <1>6, <1>7, <1>8, <1>9, <1>10, <1>11

LEMMA BitsOf ==
    ASSUME NEW op \in BitOps, NEW a, NEW b, NEW s
    PROVE  /\ a.k = "bool" => binary(op, a, b, s) = done(s, bool(connected(op, isTrue(a), isTrue(b))))
           /\ a.k # "bool" => binary(op, a, b, s) = done(s, int(bitwise(op, a.n, b.n)))
<1>1. op \notin {"==", "!=", "<", ">", "<=", ">=", "+", "-", "*", "/", "%"} \cup Shifts
  BY DEF BitOps, Shifts
<1> QED BY <1>1, Zenon DEF binary

LEMMA ShiftOf ==
    ASSUME NEW op \in Shifts, NEW a, NEW b, NEW s
    PROVE  binary(op, a, b, s) = done(s, int(shifted(op, a.n, b.n)))
<1>1. op \notin {"==", "!=", "<", ">", "<=", ">=", "+", "-", "*", "/", "%"} \cup BitOps
  BY DEF BitOps, Shifts
<1> QED BY <1>1, Zenon DEF binary

LEMMA SameIsEqual == \A a, s : anyEqual(a, a, s)
BY DEF anyEqual

LEMMA ScalarsEqual ==
    ASSUME NEW a \in Ints \cup Bools, NEW b, NEW s
    PROVE  anyEqual(a, b, s) <=> a = b
<1>1. a.k # "ref"
  <2>1. CASE a \in Ints
    BY <2>1, IntData
  <2>2. CASE a \in Bools
    BY <2>2, BoolData DEF Bools
  <2> QED BY <2>1, <2>2
<1> QED BY <1>1 DEF anyEqual

LEMMA OfBinary ==
    ASSUME Evaluates, NEW op, op \notin Logical, NEW l, NEW r, NEW s
    PROVE  eval(binaryValue(op, l, r), s) =
             LET p == eval(l, s)
                 q == eval(r, p.s)
             IN  IF p.x # none THEN p ELSE IF q.x # none THEN q ELSE binary(op, p.v, q.v, q.s)
<1> DEFINE v == binaryValue(op, l, r)
<1>1. v.k = "Binary" /\ v.x = op /\ v.ops[1] = l /\ v.ops[2] = r
  BY DEF binaryValue, value
<1> HIDE DEF v
<1>2. v.k = "Binary" /\ v.x \notin Logical
  BY <1>1
<1>3. eval(v, s) = LET p == eval(v.ops[1], s)
                       q == eval(v.ops[2], p.s)
                   IN  IF p.x # none THEN p ELSE IF q.x # none THEN q ELSE binary(v.x, p.v, q.v, q.s)
  BY <1>2, EvalBinary
<1> QED BY <1>1, <1>3 DEF v

LEMMA OfLogical ==
    ASSUME Evaluates, NEW op \in Logical, NEW l, NEW r, NEW s
    PROVE  eval(binaryValue(op, l, r), s) =
             LET p == eval(l, s)
             IN  IF p.x # none THEN p
                 ELSE IF isTrue(p.v) = (op = "||") THEN done(p.s, p.v) ELSE eval(r, p.s)
<1> DEFINE v == binaryValue(op, l, r)
<1>1. v.k = "Binary" /\ v.x = op /\ v.ops[1] = l /\ v.ops[2] = r
  BY DEF binaryValue, value
<1> HIDE DEF v
<1>2. v.k = "Binary" /\ v.x \in Logical
  BY <1>1
<1>3. eval(v, s) = LET p == eval(v.ops[1], s)
                   IN  IF p.x # none THEN p
                       ELSE IF isTrue(p.v) = (v.x = "||") THEN done(p.s, p.v) ELSE eval(v.ops[2], p.s)
  BY <1>2, EvalLogical
<1> QED BY <1>1, <1>3 DEF v

LEMMA OfUnary ==
    ASSUME Evaluates, NEW op, NEW u, NEW s
    PROVE  eval(unaryValue(op, u), s) =
             LET p == eval(u, s)
             IN  IF p.x # none THEN p
                 ELSE done(p.s, unary(op, p.v))
<1> DEFINE v == unaryValue(op, u)
<1>1. v.k = "Unary" /\ v.x = op /\ v.ops[1] = u
  BY DEF unaryValue, value
<1> HIDE DEF v
<1>2. eval(v, s) = LET p == eval(v.ops[1], s)
                   IN  IF p.x # none THEN p ELSE done(p.s, unary(v.x, p.v))
  BY <1>1, EvalUnary
<1> QED BY <1>1, <1>2 DEF v

LEMMA Done == \A s, d : done(s, d).s = s /\ done(s, d).v = d /\ done(s, d).x = none
BY DEF done

\* What an operand of known type and one without effect do.
LEMMA Known ==
    ASSUME NEW E, NEW S, NEW types, Scope(E, S, types), NEW v \in E, NEW s \in S
    PROVE  /\ eval(v, s).s \in S
           /\ eval(v, s).x = none => eval(v, s) = done(eval(v, s).s, eval(v, s).v)
           /\ eval(v, s).x = none /\ knownValueType(v, types) = "Int" => eval(v, s).v \in Ints
           /\ eval(v, s).x = none /\ knownValueType(v, types) = "Boolean" => eval(v, s).v \in Bools
           /\ isPureLetValue(v) => eval(v, s).x = none /\ eval(v, s).s = s
<1>1. PICK t \in S : \E d, x : eval(v, s) = [s |-> t, v |-> d, x |-> x]
  BY DEF Scope, EndInS
<1>2. PICK d, x : eval(v, s) = [s |-> t, v |-> d, x |-> x]
  BY <1>1
<1>3. eval(v, s).s = t /\ eval(v, s).v = d /\ eval(v, s).x = x
  BY <1>2
<1>4. eval(v, s).x = none => eval(v, s) = done(eval(v, s).s, eval(v, s).v)
  BY <1>2, <1>3 DEF done
<1>5. /\ eval(v, s).x = none /\ knownValueType(v, types) = "Int" => eval(v, s).v \in Ints
      /\ eval(v, s).x = none /\ knownValueType(v, types) = "Boolean" => eval(v, s).v \in Bools
  BY DEF Scope, TypesAreRight
<1>6. isPureLetValue(v) => eval(v, s).x = none /\ eval(v, s).s = s
  BY DEF Scope, PureIsPure
<1> QED BY <1>3, <1>4, <1>5, <1>6

------------------------------------------------------------------------------
(* Literals. *)

LEMMA OnValues ==
    ASSUME Evaluates, NEW op, op \notin Logical, NEW l, NEW r, NEW a, NEW b,
           NEW s, eval(l, s) = done(s, a), eval(r, s) = done(s, b)
    PROVE  eval(binaryValue(op, l, r), s) = binary(op, a, b, s)
<1>1. eval(l, s).s = s /\ eval(l, s).v = a /\ eval(l, s).x = none
  BY Done
<1>2. eval(r, s).s = s /\ eval(r, s).v = b /\ eval(r, s).x = none
  BY Done
<1> QED BY <1>1, <1>2, OfBinary

LEMMA QuotientIsTruncated ==
    ASSUME NEW a \in Int, NEW b \in Int, b # 0
    PROVE  quotient(a, b) = truncated(a, b) /\ truncated(a, b) \in Int
<1>1. quotient(a, b) = truncated(a, b)
  BY DEF quotient, truncated
<1> DEFINE m == IF a < 0 THEN - a ELSE a
           n == IF b < 0 THEN - b ELSE b
<1>2. m \in Nat /\ n \in Nat /\ n > 0
  OBVIOUS
<1>3. truncated(a, b) = IF (a < 0) = (b < 0) THEN m \div n ELSE - (m \div n)
  BY DEF truncated
<1> HIDE DEF m, n
<1>4. m \div n \in Int
  BY <1>2
<1> QED BY <1>1, <1>3, <1>4

LEMMA FoldedIntegers ==
    ASSUME NEW l, NEW r, NEW a, NEW b, IsInteger(l), IsInteger(r), l.i = a, r.i = b
    PROVE  /\ foldIntegerLiterals("/", l, r) = foldIntegralDivisionOrRemainder("/", a, b)
           /\ foldIntegerLiterals("%", l, r) = foldIntegralDivisionOrRemainder("%", a, b)
           /\ foldIntegerLiterals("+", l, r) = intLiteral(a + b)
           /\ foldIntegerLiterals("-", l, r) = intLiteral(a - b)
           /\ foldIntegerLiterals("*", l, r) = intLiteral(a * b)
           /\ foldIntegerLiterals("==", l, r) = booleanLiteral(a = b)
           /\ foldIntegerLiterals("!=", l, r) = booleanLiteral(a # b)
           /\ foldIntegerLiterals("<", l, r) = booleanLiteral(a < b)
           /\ foldIntegerLiterals(">", l, r) = booleanLiteral(a > b)
           /\ foldIntegerLiterals("<=", l, r) = booleanLiteral(a <= b)
           /\ foldIntegerLiterals(">=", l, r) = booleanLiteral(a >= b)
           /\ \A op \in BitOps \cup Shifts : foldIntegerLiterals(op, l, r) = foldIntegralBitwiseOrShift(op, a, b)
           /\ \A op : op \notin {"/", "%", "+", "-", "*"} \cup Comparisons \cup BitOps \cup Shifts =>
                         foldIntegerLiterals(op, l, r) = NoValue
<1> DEFINE Others == BitOps \cup Shifts
<1>0. Others \cap ({"/", "%", "+", "-", "*"} \cup Comparisons) = {}
  BY DEF Comparisons, BitOps, Shifts
<1>21. ASSUME NEW op \in BitOps \cup Shifts
       PROVE  foldIntegerLiterals(op, l, r) = foldIntegralBitwiseOrShift(op, a, b)
  <2>1. op \notin {"/", "%", "+", "-", "*"} /\ op \notin Comparisons
    BY <1>0
  <2> QED BY <2>1, Zenon DEF foldIntegerLiterals
<1>1. foldIntegerLiterals("/", l, r) = foldIntegralDivisionOrRemainder("/", a, b)
  BY Zenon DEF foldIntegerLiterals, Comparisons, BitOps, Shifts
<1>2. foldIntegerLiterals("%", l, r) = foldIntegralDivisionOrRemainder("%", a, b)
  BY Zenon DEF foldIntegerLiterals, Comparisons, BitOps, Shifts
<1>3. foldIntegerLiterals("+", l, r) = intLiteral(a + b)
  BY Zenon DEF foldIntegerLiterals, Comparisons, BitOps, Shifts
<1>4. foldIntegerLiterals("-", l, r) = intLiteral(a - b)
  BY Zenon DEF foldIntegerLiterals, Comparisons, BitOps, Shifts
<1>5. foldIntegerLiterals("*", l, r) = intLiteral(a * b)
  BY Zenon DEF foldIntegerLiterals, Comparisons, BitOps, Shifts
<1>6. ASSUME NEW op \in Comparisons
      PROVE  foldIntegerLiterals(op, l, r) = booleanLiteral(compares(op, a, b))
  BY Zenon DEF foldIntegerLiterals, Comparisons, BitOps, Shifts
<1>7. compares("==", a, b) = (a = b)
  BY Zenon DEF compares
<1>8. compares("!=", a, b) = (a # b)
  BY Zenon DEF compares
<1>9. compares("<", a, b) = (a < b)
  BY Zenon DEF compares
<1>10. compares(">", a, b) = (a > b)
  BY Zenon DEF compares
<1>11. compares("<=", a, b) = (a <= b)
  BY Zenon DEF compares
<1>12. compares(">=", a, b) = (a >= b)
  BY Zenon DEF compares
<1>13. ASSUME NEW op, op \notin {"/", "%", "+", "-", "*"} \cup Comparisons \cup BitOps \cup Shifts
       PROVE  foldIntegerLiterals(op, l, r) = NoValue
  BY <1>13, Zenon DEF foldIntegerLiterals
<1>14. {"==", "!=", "<", ">", "<=", ">="} = Comparisons
  BY DEF Comparisons
<1>15. foldIntegerLiterals("==", l, r) = booleanLiteral(a = b)
  BY <1>6, <1>7, <1>14, Zenon
<1>16. foldIntegerLiterals("!=", l, r) = booleanLiteral(a # b)
  BY <1>6, <1>8, <1>14, Zenon
<1>17. foldIntegerLiterals("<", l, r) = booleanLiteral(a < b)
  BY <1>6, <1>9, <1>14, Zenon
<1>18. foldIntegerLiterals(">", l, r) = booleanLiteral(a > b)
  BY <1>6, <1>10, <1>14, Zenon
<1>19. foldIntegerLiterals("<=", l, r) = booleanLiteral(a <= b)
  BY <1>6, <1>11, <1>14, Zenon
<1>20. foldIntegerLiterals(">=", l, r) = booleanLiteral(a >= b)
  BY <1>6, <1>12, <1>14, Zenon
<1> QED BY <1>1, <1>2, <1>3, <1>4, <1>5, <1>13, <1>15, <1>16, <1>17, <1>18, <1>19, <1>20, <1>21, Zenon

LEMMA IntegerLiteralsKeep ==
    ASSUME Evaluates, NEW E, NEW S, NEW types, Scope(E, S, types),
           NEW op, NEW lhs \in E, NEW rhs \in E
    PROVE  Keeps(foldIntegerLiterals(op, lhs, rhs), binaryValue(op, lhs, rhs), S)
<1>1. CASE ~ (IsInteger(lhs) /\ IsInteger(rhs))
  <2>1. foldIntegerLiterals(op, lhs, rhs) = NoValue
    BY <1>1, Zenon DEF foldIntegerLiterals
  <2> QED BY <2>1, NoValueKeeps
<1>2. CASE IsInteger(lhs) /\ IsInteger(rhs)
  <2>1. PICK a \in ints : lhs = intLiteral(a)
    BY <1>2 DEF Scope, LiteralsInRange
  <2>2. PICK b \in ints : rhs = intLiteral(b)
    BY <1>2 DEF Scope, LiteralsInRange
  <2>3. lhs.i = a /\ rhs.i = b
    BY <2>1, <2>2 DEF intLiteral, value
  <2>4. a \in Int /\ b \in Int /\ wrapped(a) = a /\ wrapped(b) = b
    BY HalfIsPositive, WrappedInRange DEF ints
  <2>5. int(a).n = a /\ int(b).n = b /\ int(a) \in Ints /\ int(b) \in Ints
    BY <2>4, IntIsData
  <2> SUFFICES ASSUME NEW s \in S, Some(foldIntegerLiterals(op, lhs, rhs))
               PROVE  eval(foldIntegerLiterals(op, lhs, rhs), s) = eval(binaryValue(op, lhs, rhs), s)
    BY DEF Keeps, MeanSame
  <2>7. eval(lhs, s) = done(s, int(a)) /\ eval(rhs, s) = done(s, int(b))
    BY <2>1, <2>2, EvalInt
  <2>8. op \in {"/", "%", "+", "-", "*"} \cup Comparisons \cup BitOps \cup Shifts
    <3>1. foldIntegerLiterals(op, lhs, rhs) # NoValue
      BY Zenon DEF Some
    <3>2. op \notin {"/", "%", "+", "-", "*"} \cup Comparisons \cup BitOps \cup Shifts =>
            foldIntegerLiterals(op, lhs, rhs) = NoValue
      BY <1>2, <2>3, FoldedIntegers
    <3> QED BY <3>1, <3>2, Zenon
  <2>9. op \notin Logical
    BY <2>8 DEF Comparisons, Logical, BitOps, Shifts
  <2>10. eval(binaryValue(op, lhs, rhs), s) = binary(op, int(a), int(b), s)
    BY <2>7, <2>9, OnValues
  <2>11. \A n : eval(intLiteral(n), s) = done(s, int(n))
    BY EvalInt
  <2>12. \A c \in BOOLEAN : eval(booleanLiteral(c), s) = done(s, bool(c))
    BY EvalBool
  <2>13. int(a) = int(b) <=> a = b
    BY <2>5
  <2>14. anyEqual(int(a), int(b), s) <=> a = b
    BY <2>5, <2>13, ScalarsEqual
  <2>15. CASE op \in {"+", "-", "*"}
    BY <1>2, <2>3, <2>5, <2>10, <2>11, <2>15, FoldedIntegers, BinaryOf
  <2>16. CASE op = "=="
    <3>1. foldIntegerLiterals(op, lhs, rhs) = booleanLiteral(a = b)
      BY <1>2, <2>3, <2>16, FoldedIntegers
    <3>2. binary(op, int(a), int(b), s) = done(s, bool(anyEqual(int(a), int(b), s)))
      BY <2>16, BinaryOf
    <3>3. bool(anyEqual(int(a), int(b), s)) = bool(a = b)
      BY <2>14, Zenon DEF bool
    <3> QED BY <2>10, <2>12, <3>1, <3>2, <3>3, Zenon
  <2>17. CASE op = "!="
    <3>1. foldIntegerLiterals(op, lhs, rhs) = booleanLiteral(a # b)
      BY <1>2, <2>3, <2>17, FoldedIntegers
    <3>2. binary(op, int(a), int(b), s) = done(s, bool(~ anyEqual(int(a), int(b), s)))
      BY <2>17, BinaryOf
    <3>3. bool(~ anyEqual(int(a), int(b), s)) = bool(a # b)
      BY <2>14, Zenon DEF bool
    <3> QED BY <2>10, <2>12, <3>1, <3>2, <3>3, Zenon
  <2>18. CASE op = "<"
    <3>1. foldIntegerLiterals(op, lhs, rhs) = booleanLiteral(a < b)
      BY <1>2, <2>3, <2>18, FoldedIntegers
    <3>2. binary(op, int(a), int(b), s) = done(s, bool(int(a).n < int(b).n))
      BY <2>18, BinaryOf
    <3>3. (a < b) \in BOOLEAN
      OBVIOUS
    <3> QED BY <2>5, <2>10, <2>12, <3>1, <3>2, <3>3, Zenon
  <2>19. CASE op = ">"
    <3>1. foldIntegerLiterals(op, lhs, rhs) = booleanLiteral(a > b)
      BY <1>2, <2>3, <2>19, FoldedIntegers
    <3>2. binary(op, int(a), int(b), s) = done(s, bool(int(a).n > int(b).n))
      BY <2>19, BinaryOf
    <3>3. (a > b) \in BOOLEAN
      OBVIOUS
    <3> QED BY <2>5, <2>10, <2>12, <3>1, <3>2, <3>3, Zenon
  <2>20. CASE op = "<="
    <3>1. foldIntegerLiterals(op, lhs, rhs) = booleanLiteral(a <= b)
      BY <1>2, <2>3, <2>20, FoldedIntegers
    <3>2. binary(op, int(a), int(b), s) = done(s, bool(int(a).n <= int(b).n))
      BY <2>20, BinaryOf
    <3>3. (a <= b) \in BOOLEAN
      OBVIOUS
    <3> QED BY <2>5, <2>10, <2>12, <3>1, <3>2, <3>3, Zenon
  <2>21. CASE op = ">="
    <3>1. foldIntegerLiterals(op, lhs, rhs) = booleanLiteral(a >= b)
      BY <1>2, <2>3, <2>21, FoldedIntegers
    <3>2. binary(op, int(a), int(b), s) = done(s, bool(int(a).n >= int(b).n))
      BY <2>21, BinaryOf
    <3>3. (a >= b) \in BOOLEAN
      OBVIOUS
    <3> QED BY <2>5, <2>10, <2>12, <3>1, <3>2, <3>3, Zenon
  <2>22. CASE op \in {"/", "%"}
    <3>1. foldIntegerLiterals(op, lhs, rhs) = foldIntegralDivisionOrRemainder(op, a, b)
      BY <1>2, <2>3, <2>22, FoldedIntegers
    <3>2. b # 0
      BY <3>1, Zenon DEF foldIntegralDivisionOrRemainder, when, Some
    <3>3. quotient(a, b) = truncated(a, b) /\ truncated(a, b) \in Int
      BY <2>4, <3>2, QuotientIsTruncated
    <3>4. foldIntegerLiterals(op, lhs, rhs) =
            intLiteral(IF op = "/" THEN wrapped(quotient(a, b)) ELSE remainder(a, b))
      BY <3>1, Zenon DEF foldIntegralDivisionOrRemainder, when, Some
    <3>5. int(wrapped(truncated(a, b))) = int(truncated(a, b))
      BY <3>3, WrappedIsInRange, WrappedInRange DEF int
    <3>6. CASE op = "/"
      <4>1. eval(foldIntegerLiterals(op, lhs, rhs), s) = done(s, int(truncated(a, b)))
        BY <2>11, <3>3, <3>4, <3>5, <3>6
      <4> QED BY <2>5, <2>10, <3>2, <3>6, <4>1, BinaryOf
    <3>7. CASE op = "%"
      <4>1. eval(foldIntegerLiterals(op, lhs, rhs), s) = done(s, int(a - b * truncated(a, b)))
        BY <2>11, <3>3, <3>4, <3>7 DEF remainder
      <4> QED BY <2>5, <2>10, <3>2, <3>7, <4>1, BinaryOf
    <3> QED BY <2>22, <3>6, <3>7
  <2>23. CASE op \in BitOps \cup Shifts
    <3>1. foldIntegerLiterals(op, lhs, rhs) = foldIntegralBitwiseOrShift(op, a, b)
      BY <1>2, <2>3, <2>23, FoldedIntegers
    <3>2. foldIntegerLiterals(op, lhs, rhs) =
            intLiteral(IF op \in BitOps THEN bitwise(op, a, b) ELSE shifted(op, a, b))
      BY <3>1, Zenon DEF foldIntegralBitwiseOrShift, when, Some
    <3>3. CASE op \in BitOps
      <4>1. int(a).k # "bool"
        BY <2>5, IntData
      <4>2. binary(op, int(a), int(b), s) = done(s, int(bitwise(op, a, b)))
        BY <2>5, <3>3, <4>1, BitsOf
      <4> QED BY <2>10, <2>11, <3>2, <3>3, <4>2, Zenon
    <3>4. CASE op \in Shifts
      <4>1. op \notin BitOps
        BY <3>4 DEF BitOps, Shifts
      <4>2. binary(op, int(a), int(b), s) = done(s, int(shifted(op, a, b)))
        BY <2>5, <3>4, ShiftOf
      <4> QED BY <2>10, <2>11, <3>2, <4>1, <4>2, Zenon
    <3> QED BY <2>23, <3>3, <3>4
  <2> QED BY <2>8, <2>23, <2>15, <2>16, <2>17, <2>18, <2>19, <2>20, <2>21, <2>22 DEF Comparisons
<1> QED BY <1>1, <1>2

LEMMA OnBooleans ==
    ASSUME Evaluates, NEW op \in Logical, NEW l, NEW r, NEW s, NEW a \in BOOLEAN, NEW b \in BOOLEAN,
           eval(l, s) = done(s, bool(a)), eval(r, s) = done(s, bool(b))
    PROVE  eval(binaryValue(op, l, r), s) = done(s, bool(IF op = "&&" THEN a /\ b ELSE a \/ b))
<1>1. eval(l, s).s = s /\ eval(l, s).v = bool(a) /\ eval(l, s).x = none
  BY Done
<1>2. isTrue(bool(a)) <=> a
  BY BoolData
<1>3. eval(binaryValue(op, l, r), s) =
        IF a = (op = "||") THEN done(s, bool(a)) ELSE done(s, bool(b))
  <2>1. isTrue(bool(a)) = a
    BY <1>2 DEF isTrue
  <2> QED BY <1>1, <2>1, OfLogical
<1>4. op = "&&" \/ op = "||"
  BY DEF Logical
<1>5. CASE op = "&&" /\ a
  <2>1. (a = (op = "||")) = FALSE /\ (a /\ b) = b
    BY <1>5
  <2> QED BY <1>3, <1>5, <2>1
<1>6. CASE op = "&&" /\ ~ a
  <2>1. (a = (op = "||")) = TRUE /\ (a /\ b) = a
    BY <1>6
  <2> QED BY <1>3, <1>6, <2>1
<1>7. CASE op = "||" /\ a
  <2>1. (a = (op = "||")) = TRUE /\ (a \/ b) = a
    BY <1>7
  <2> QED BY <1>3, <1>7, <2>1
<1>8. CASE op = "||" /\ ~ a
  <2>1. (a = (op = "||")) = FALSE /\ (a \/ b) = b
    BY <1>8
  <2> QED BY <1>3, <1>8, <2>1
<1> QED BY <1>4, <1>5, <1>6, <1>7, <1>8

LEMMA PureBoolean ==
    ASSUME NEW E, NEW S, NEW types, Scope(E, S, types), NEW v \in E, NEW s \in S,
           isPureKnownBooleanValue(v, types)
    PROVE  \E b \in BOOLEAN : eval(v, s) = done(s, bool(b))
<1>1. isPureLetValue(v) /\ knownValueType(v, types) = "Boolean"
  BY DEF isPureKnownBooleanValue
<1>2. eval(v, s) = done(s, eval(v, s).v) /\ eval(v, s).v \in Bools
  BY <1>1, Known
<1>3. eval(v, s).v = bool(isTrue(eval(v, s).v)) /\ isTrue(eval(v, s).v) \in BOOLEAN
  BY <1>2, BoolData
<1> QED BY <1>2, <1>3

LEMMA PureInteger ==
    ASSUME NEW E, NEW S, NEW types, Scope(E, S, types), NEW v \in E, NEW s \in S,
           isPureLetValue(v), knownValueType(v, types) = "Int"
    PROVE  eval(v, s) = done(s, eval(v, s).v) /\ eval(v, s).v \in Ints
BY Known

LEMMA BooleanLiteralsKeep ==
    ASSUME Evaluates, NEW E, NEW S, NEW types, Scope(E, S, types),
           NEW op, NEW lhs \in E, NEW rhs \in E
    PROVE  Keeps(foldBooleanLiterals(op, lhs, rhs), binaryValue(op, lhs, rhs), S)
<1>1. CASE ~ (IsBoolean(lhs) /\ IsBoolean(rhs))
  <2>1. foldBooleanLiterals(op, lhs, rhs) = NoValue
    BY <1>1, Zenon DEF foldBooleanLiterals
  <2> QED BY <2>1, NoValueKeeps
<1>2. CASE op \notin {"==", "!=", "&&", "||"} \cup BitOps
  <2>1. foldBooleanLiterals(op, lhs, rhs) = NoValue
    BY <1>2, Zenon DEF foldBooleanLiterals
  <2> QED BY <2>1, NoValueKeeps
<1>3. CASE (IsBoolean(lhs) /\ IsBoolean(rhs)) /\ op \in {"==", "!=", "&&", "||"} \cup BitOps
  <2>1. PICK a \in BOOLEAN : lhs = booleanLiteral(a)
    BY <1>3 DEF Scope, LiteralsInRange
  <2>2. PICK b \in BOOLEAN : rhs = booleanLiteral(b)
    BY <1>3 DEF Scope, LiteralsInRange
  <2>3. IsTrue(lhs) <=> a
    BY <2>1, BooleanText
  <2>4. IsTrue(rhs) <=> b
    BY <2>2, BooleanText
  <2>5. lhs.x = (IF a THEN "true" ELSE "false") /\ rhs.x = (IF b THEN "true" ELSE "false")
    BY <2>1, <2>2 DEF booleanLiteral, literalValue, value
  <2>6. lhs.x = rhs.x <=> a = b
    BY <2>5
  <2>7. bool(a) \in Bools /\ (bool(a) = bool(b) <=> a = b)
    BY BoolData
  <2> SUFFICES ASSUME NEW s \in S
               PROVE  eval(foldBooleanLiterals(op, lhs, rhs), s) = eval(binaryValue(op, lhs, rhs), s)
    BY DEF Keeps, MeanSame
  <2>8. eval(lhs, s) = done(s, bool(a)) /\ eval(rhs, s) = done(s, bool(b))
    BY <2>1, <2>2, EvalBool
  <2>9. anyEqual(bool(a), bool(b), s) <=> a = b
    BY <2>7, ScalarsEqual
  <2>10. \A c \in BOOLEAN : eval(booleanLiteral(c), s) = done(s, bool(c))
    BY EvalBool
  <2>11. op \notin Logical => eval(binaryValue(op, lhs, rhs), s) = binary(op, bool(a), bool(b), s)
    BY <2>8, OnValues
  <2>12. CASE op = "=="
    <3>1. foldBooleanLiterals(op, lhs, rhs) = booleanLiteral(lhs.x = rhs.x)
      BY <1>3, <2>12, Zenon DEF foldBooleanLiterals, BitOps
    <3>2. eval(binaryValue(op, lhs, rhs), s) = done(s, bool(anyEqual(bool(a), bool(b), s)))
      BY <2>11, <2>12, BinaryOf DEF Logical
    <3>3. bool(anyEqual(bool(a), bool(b), s)) = bool(lhs.x = rhs.x)
      BY <2>6, <2>9, Zenon DEF bool
    <3> QED BY <2>10, <3>1, <3>2, <3>3, Zenon
  <2>13. CASE op = "!="
    <3>1. foldBooleanLiterals(op, lhs, rhs) = booleanLiteral(lhs.x # rhs.x)
      BY <1>3, <2>13, Zenon DEF foldBooleanLiterals, BitOps
    <3>2. eval(binaryValue(op, lhs, rhs), s) = done(s, bool(~ anyEqual(bool(a), bool(b), s)))
      BY <2>11, <2>13, BinaryOf DEF Logical
    <3>3. bool(~ anyEqual(bool(a), bool(b), s)) = bool(lhs.x # rhs.x)
      BY <2>6, <2>9, Zenon DEF bool
    <3> QED BY <2>10, <3>1, <3>2, <3>3, Zenon
  <2>14. CASE op = "&&"
    <3>1. foldBooleanLiterals(op, lhs, rhs) = booleanLiteral(IsTrue(lhs) /\ IsTrue(rhs))
      BY <1>3, <2>14, Zenon DEF foldBooleanLiterals, BitOps
    <3>2. booleanLiteral(IsTrue(lhs) /\ IsTrue(rhs)) = booleanLiteral(a /\ b)
      BY <2>3, <2>4, Zenon DEF booleanLiteral
    <3>3. eval(binaryValue(op, lhs, rhs), s) = done(s, bool(a /\ b))
      BY <2>8, <2>14, OnBooleans DEF Logical
    <3> QED BY <2>10, <3>1, <3>2, <3>3
  <2>15. CASE op = "||"
    <3>1. foldBooleanLiterals(op, lhs, rhs) = booleanLiteral(IsTrue(lhs) \/ IsTrue(rhs))
      BY <1>3, <2>15, Zenon DEF foldBooleanLiterals, BitOps
    <3>2. booleanLiteral(IsTrue(lhs) \/ IsTrue(rhs)) = booleanLiteral(a \/ b)
      BY <2>3, <2>4, Zenon DEF booleanLiteral
    <3>3. eval(binaryValue(op, lhs, rhs), s) = done(s, bool(a \/ b))
      BY <2>8, <2>15, OnBooleans DEF Logical
    <3> QED BY <2>10, <3>1, <3>2, <3>3
  <2>16. CASE op \in BitOps
    <3>1. op \notin {"==", "!=", "&&", "||"} /\ op \notin Logical
      BY <2>16 DEF BitOps, Logical
    <3>2. foldBooleanLiterals(op, lhs, rhs) = booleanLiteral(connected(op, IsTrue(lhs), IsTrue(rhs)))
      BY <1>3, <2>16, <3>1, Zenon DEF foldBooleanLiterals
    <3>3. (isTrue(bool(a)) <=> a) /\ (isTrue(bool(b)) <=> b) /\ bool(a).k = "bool"
      BY BoolData
    <3>4. eval(binaryValue(op, lhs, rhs), s) = done(s, bool(connected(op, isTrue(bool(a)), isTrue(bool(b)))))
      <4>1. binary(op, bool(a), bool(b), s) = done(s, bool(connected(op, isTrue(bool(a)), isTrue(bool(b)))))
        BY <2>16, <3>3, BitsOf
      <4> QED BY <2>11, <3>1, <4>1
    <3> DEFINE c == connected(op, IsTrue(lhs), IsTrue(rhs))
               d == connected(op, isTrue(bool(a)), isTrue(bool(b)))
    <3>5. c \in BOOLEAN /\ (c <=> d)
      <4>1. CASE op = "&"
        BY <2>3, <2>4, <3>3, <4>1 DEF connected
      <4>2. CASE op = "|"
        BY <2>3, <2>4, <3>3, <4>2 DEF connected
      <4>3. CASE op = "^"
        <5>1. c <=> ~ (IsTrue(lhs) <=> IsTrue(rhs))
          BY <4>3, Zenon DEF connected
        <5>2. d <=> ~ (isTrue(bool(a)) <=> isTrue(bool(b)))
          BY <4>3, Zenon DEF connected
        <5> QED BY <2>3, <2>4, <3>3, <5>1, <5>2, <4>3 DEF connected
      <4> QED BY <2>16, <4>1, <4>2, <4>3 DEF BitOps
    <3> HIDE DEF c, d
    <3>6. bool(c) = bool(d)
      BY <3>5, Zenon DEF bool
    <3> QED BY <2>10, <3>2, <3>4, <3>5, <3>6, Zenon DEF c, d
  <2> QED BY <1>3, <2>16, <2>12, <2>13, <2>14, <2>15
<1> QED BY <1>1, <1>2, <1>3

------------------------------------------------------------------------------
(* The same operand twice, identities, directions. *)

LEMMA ReflexiveComparison ==
    ASSUME NEW op \in Comparisons, NEW d, NEW s, op \in {"==", "!="} \/ d.n \in Int
    PROVE  binary(op, d, d, s) = done(s, bool(op \in {"==", "<=", ">="}))
<1>1. bool(anyEqual(d, d, s)) = bool(TRUE) /\ bool(~ anyEqual(d, d, s)) = bool(FALSE)
  BY SameIsEqual, Zenon DEF bool
<1>2. \A b : (b => bool(b) = bool(TRUE)) /\ (~ b => bool(b) = bool(FALSE))
  BY Zenon DEF bool
<1>3. CASE op = "=="
  <2>1. bool(op \in {"==", "<=", ">="}) = bool(TRUE)
    <3>1. (op \in {"==", "<=", ">="}) <=> TRUE
      BY <1>3
    <3> QED BY <1>2, <3>1, Zenon
  <2>2. binary(op, d, d, s) = done(s, bool(anyEqual(d, d, s)))
    BY <1>3, BinaryOf
  <2> QED BY <1>1, <2>1, <2>2, Zenon
<1>4. CASE op = "!="
  <2>1. bool(op \in {"==", "<=", ">="}) = bool(FALSE)
    <3>1. (op \in {"==", "<=", ">="}) <=> FALSE
      BY <1>4
    <3> QED BY <1>2, <3>1, Zenon
  <2>2. binary(op, d, d, s) = done(s, bool(~ anyEqual(d, d, s)))
    BY <1>4, BinaryOf
  <2> QED BY <1>1, <2>1, <2>2, Zenon
<1>5. CASE op \in {"<=", ">="}
  <2>1. d.n <= d.n /\ d.n >= d.n
    BY <1>5
  <2>2. bool(d.n <= d.n) = bool(TRUE) /\ bool(d.n >= d.n) = bool(TRUE)
    BY <1>2, <2>1, Zenon
  <2> QED BY <1>2, <1>5, <2>2, BinaryOf
<1>6. CASE op \in {"<", ">"}
  <2>1. ~ (d.n < d.n) /\ ~ (d.n > d.n)
    BY <1>6
  <2>2. bool(d.n < d.n) = bool(FALSE) /\ bool(d.n > d.n) = bool(FALSE)
    BY <1>2, <2>1, Zenon
  <2> QED BY <1>2, <1>6, <2>2, BinaryOf
<1> QED BY <1>3, <1>4, <1>5, <1>6 DEF Comparisons

LEMMA SameOperandsKeep ==
    ASSUME Evaluates, NEW E, NEW S, NEW types, Scope(E, S, types),
           NEW op, NEW lhs \in E, NEW rhs \in E
    PROVE  Keeps(foldSameOperands(op, lhs, rhs, types), binaryValue(op, lhs, rhs), S)
<1> DEFINE v == binaryValue(op, lhs, rhs)
           same == lhs = rhs /\ isPureLetValue(lhs)
           type == knownValueType(lhs, types)
           result == op \in {"==", "<=", ">="}
           c1 == op \in Comparisons /\ same /\ type \in {"Boolean", "Int"}
           c2 == /\ op \in {"==", "!="}
                 /\ lhs.k = "Local" /\ lhs = rhs /\ type # "Unknown"
           c3 == op = "-" /\ same /\ type = "Int"
           c4 == op \in Logical /\ same /\ type = "Boolean"
           rules == <<fact(c1, result), fact(c2, result), when(c3, intLiteral(0)), when(c4, lhs)>>
<1>1. \A s : eval(booleanLiteral(result), s) = done(s, bool(result))
  <2>1. result \in BOOLEAN
    OBVIOUS
  <2> HIDE DEF result
  <2> QED BY <2>1, EvalBool
<1>2. Keeps(fact(c1, result), v, S)
  <2>1. ASSUME c1, NEW s \in S PROVE eval(booleanLiteral(result), s) = eval(v, s)
    <3> DEFINE d == eval(lhs, s).v
    <3>1. eval(lhs, s) = done(s, d) /\ d \in Ints \cup Bools
      BY <2>1, Known
    <3>2. d.n \in Int
      BY <3>1, IntData, BoolData
    <3>3. op \notin Logical
      BY <2>1 DEF Comparisons, Logical
    <3> HIDE DEF d
    <3>4. eval(v, s) = binary(op, d, d, s)
      BY <2>1, <3>1, <3>3, OnValues
    <3>5. binary(op, d, d, s) = done(s, bool(result))
      BY <2>1, <3>2, ReflexiveComparison
    <3> QED BY <1>1, <3>4, <3>5
  <2>2. c1 => MeanSame(booleanLiteral(result), v, S)
    BY <2>1 DEF MeanSame
  <2> HIDE DEF c1, result, v
  <2> QED BY <2>2, FactKeeps
<1>3. Keeps(fact(c2, result), v, S)
  <2>1. ASSUME c2, NEW s \in S PROVE eval(booleanLiteral(result), s) = eval(v, s)
    <3> DEFINE d == eval(lhs, s).v
    <3>1. isPureLetValue(lhs)
      BY <2>1 DEF Scope, LocalsArePure
    <3>2. eval(lhs, s) = done(s, d)
      BY <3>1, Known
    <3>3. op \notin Logical /\ op \in Comparisons
      BY <2>1 DEF Comparisons, Logical
    <3> HIDE DEF d
    <3>4. eval(v, s) = binary(op, d, d, s)
      BY <2>1, <3>2, <3>3, OnValues
    <3>5. binary(op, d, d, s) = done(s, bool(result))
      BY <2>1, <3>3, ReflexiveComparison
    <3> QED BY <1>1, <3>4, <3>5
  <2>2. c2 => MeanSame(booleanLiteral(result), v, S)
    BY <2>1 DEF MeanSame
  <2> HIDE DEF c2, result, v
  <2> QED BY <2>2, FactKeeps
<1>4. Keeps(when(c3, intLiteral(0)), v, S)
  <2>1. ASSUME c3, NEW s \in S PROVE eval(intLiteral(0), s) = eval(v, s)
    <3> DEFINE d == eval(lhs, s).v
    <3>1. eval(lhs, s) = done(s, d) /\ d \in Ints
      BY <2>1, Known
    <3>2. d.n - d.n = 0
      BY <3>1, IntData
    <3>3. op \notin Logical
      BY <2>1 DEF Logical
    <3> HIDE DEF d
    <3>4. eval(v, s) = binary(op, d, d, s)
      BY <2>1, <3>1, <3>3, OnValues
    <3>5. binary(op, d, d, s) = done(s, int(d.n - d.n))
      BY <2>1, BinaryOf
    <3> QED BY <3>2, <3>4, <3>5, EvalInt
  <2>2. c3 => MeanSame(intLiteral(0), v, S)
    BY <2>1 DEF MeanSame
  <2> HIDE DEF c3, v
  <2> QED BY <2>2, WhenKeeps
<1>5. Keeps(when(c4, lhs), v, S)
  <2>1. ASSUME c4, NEW s \in S PROVE eval(lhs, s) = eval(v, s)
    <3>1. isPureKnownBooleanValue(lhs, types)
      BY <2>1 DEF isPureKnownBooleanValue
    <3>2. PICK b \in BOOLEAN : eval(lhs, s) = done(s, bool(b))
      BY <3>1, PureBoolean
    <3>3. eval(v, s) = done(s, bool(IF op = "&&" THEN b /\ b ELSE b \/ b))
      BY <2>1, <3>2, OnBooleans
    <3>4. (IF op = "&&" THEN b /\ b ELSE b \/ b) = b
      OBVIOUS
    <3> QED BY <3>2, <3>3, <3>4
  <2>2. c4 => MeanSame(lhs, v, S)
    BY <2>1 DEF MeanSame
  <2> HIDE DEF c4, v
  <2> QED BY <2>2, WhenKeeps
<1>6. foldSameOperands(op, lhs, rhs, types) = first(rules)
  BY Zenon DEF foldSameOperands
<1>7. Keeps(first(rules), v, S)
  <2> HIDE DEF c1, c2, c3, c4, result, v
  <2>1. Len(rules) = 4 /\ 4 \in Nat
    OBVIOUS
  <2>2. \A j \in 1..4 : Keeps(rules[j], v, S)
    BY <1>2, <1>3, <1>4, <1>5
  <2> HIDE DEF rules
  <2> QED BY <2>1, <2>2, FirstKeeps
<1> QED BY <1>6, <1>7

LEMMA LiteralOperand ==
    ASSUME Evaluates, NEW E, NEW S, NEW types, Scope(E, S, types), NEW v \in E, NEW n \in Int,
           isIntegerLiteral(v, n), NEW s
    PROVE  eval(v, s) = done(s, int(n)) /\ int(n).n = n
<1>1. PICK m \in ints : v = intLiteral(m)
  BY DEF Scope, LiteralsInRange, isIntegerLiteral
<1>2. m = n
  BY <1>1 DEF isIntegerLiteral, intLiteral, value
<1>3. eval(v, s) = done(s, int(n))
  BY <1>1, <1>2, EvalInt
<1> QED BY <1>2, <1>3, WrappedInRange, IntIsData

LEMMA LiteralOnRight ==
    ASSUME Evaluates, NEW op, op \notin Logical, NEW l, NEW r, NEW s, NEW b,
           eval(r, eval(l, s).s) = done(eval(l, s).s, b)
    PROVE  eval(binaryValue(op, l, r), s) =
             IF eval(l, s).x # none THEN eval(l, s) ELSE binary(op, eval(l, s).v, b, eval(l, s).s)
<1> DEFINE p == eval(l, s)
           q == eval(r, p.s)
<1>1. q.s = p.s /\ q.v = b /\ q.x = none
  BY Done
<1>2. eval(binaryValue(op, l, r), s) =
        IF p.x # none THEN p ELSE IF q.x # none THEN q ELSE binary(op, p.v, q.v, q.s)
  BY OfBinary
<1> QED BY <1>1, <1>2

LEMMA LiteralOnLeft ==
    ASSUME Evaluates, NEW op, op \notin Logical, NEW l, NEW r, NEW s, NEW a, eval(l, s) = done(s, a)
    PROVE  eval(binaryValue(op, l, r), s) =
             IF eval(r, s).x # none THEN eval(r, s) ELSE binary(op, a, eval(r, s).v, eval(r, s).s)
<1>1. eval(l, s).s = s /\ eval(l, s).v = a /\ eval(l, s).x = none
  BY Done
<1> QED BY <1>1, OfBinary

LEMMA Identities ==
    ASSUME NEW d \in Ints, NEW t, NEW n \in Int, int(n).n = n
    PROVE  /\ n = 0 => /\ binary("+", d, int(n), t) = done(t, d)
                       /\ binary("-", d, int(n), t) = done(t, d)
                       /\ binary("+", int(n), d, t) = done(t, d)
                       /\ binary("-", int(n), d, t) = done(t, int(- d.n))
                       /\ binary("*", d, int(n), t) = done(t, int(0))
                       /\ binary("*", int(n), d, t) = done(t, int(0))
           /\ n = 1 => /\ binary("*", d, int(n), t) = done(t, d)
                       /\ binary("/", d, int(n), t) = done(t, d)
                       /\ binary("*", int(n), d, t) = done(t, d)
                       /\ binary("%", d, int(n), t) = done(t, int(0))
           /\ n = -1 => /\ binary("*", d, int(n), t) = done(t, int(- d.n))
                        /\ binary("*", int(n), d, t) = done(t, int(- d.n))
<1>1. d.n \in Int /\ int(d.n) = d
  BY IntData
<1> DEFINE m == d.n
<1> HIDE DEF m
<1>2. m \in Int
  BY <1>1 DEF m
<1>3. m + 0 = m /\ m - 0 = m /\ 0 + m = m /\ 0 - m = - m /\ m * 0 = 0 /\ 0 * m = 0
  BY <1>2
<1>4. m * 1 = m /\ 1 * m = m /\ m * (-1) = - m /\ (-1) * m = - m
  BY <1>2
<1>5. truncated(m, 1) = m
  BY <1>2 DEF truncated
<1>6. m - 1 * m = 0
  BY <1>2
<1>7. CASE n = 0
  BY <1>1, <1>3, <1>7, BinaryOf DEF m
<1>8. CASE n = 1
  BY <1>1, <1>4, <1>5, <1>6, <1>8, BinaryOf DEF m
<1>9. CASE n = -1
  BY <1>1, <1>4, <1>9, BinaryOf DEF m
<1> QED BY <1>7, <1>8, <1>9

LEMMA ArithmeticIdentitiesKeep ==
    ASSUME Evaluates, NEW E, NEW S, NEW types, Scope(E, S, types),
           NEW op, NEW lhs \in E, NEW rhs \in E
    PROVE  Keeps(foldArithmeticIdentities(op, lhs, rhs, types), binaryValue(op, lhs, rhs), S)
<1> DEFINE v == binaryValue(op, lhs, rhs)
           lhsInt == knownValueType(lhs, types) = "Int"
           rhsInt == knownValueType(rhs, types) = "Int"
           c1 == op \in {"+", "-"} /\ isIntegerLiteral(rhs, 0) /\ lhsInt
           c2 == op = "+" /\ isIntegerLiteral(lhs, 0) /\ rhsInt
           c3 == op = "-" /\ isIntegerLiteral(lhs, 0) /\ rhsInt
           c4 == op \in {"*", "/"} /\ isIntegerLiteral(rhs, 1) /\ lhsInt
           c5 == op = "*" /\ isIntegerLiteral(lhs, 1) /\ rhsInt
           c6 == op = "*" /\ isIntegerLiteral(rhs, -1) /\ lhsInt
           c7 == op = "*" /\ isIntegerLiteral(lhs, -1) /\ rhsInt
           c8 == op = "*" /\ isIntegerLiteral(rhs, 0) /\ lhsInt /\ isPureLetValue(lhs)
           c9 == op = "*" /\ isIntegerLiteral(lhs, 0) /\ rhsInt /\ isPureLetValue(rhs)
           c10 == op = "%" /\ isIntegerLiteral(rhs, 1) /\ lhsInt /\ isPureLetValue(lhs)
           rules == <<when(c1, lhs), when(c2, rhs), when(c3, unaryValue("-", rhs)),
                      when(c4, lhs), when(c5, rhs),
                      when(c6, unaryValue("-", lhs)), when(c7, unaryValue("-", rhs)),
                      when(c8, intLiteral(0)), when(c9, intLiteral(0)), when(c10, intLiteral(0))>>
\* The operand that is not the literal, and what v makes of it.
<1>1. ASSUME NEW n \in Int, isIntegerLiteral(rhs, n), lhsInt, op \notin Logical, NEW s \in S
      PROVE  /\ eval(lhs, s).x # none => eval(v, s) = eval(lhs, s)
             /\ eval(lhs, s).x = none =>
                  /\ eval(v, s) = binary(op, eval(lhs, s).v, int(n), eval(lhs, s).s)
                  /\ eval(lhs, s) = done(eval(lhs, s).s, eval(lhs, s).v)
                  /\ eval(lhs, s).v \in Ints
             /\ int(n).n = n
  <2>1. eval(rhs, eval(lhs, s).s) = done(eval(lhs, s).s, int(n)) /\ int(n).n = n
    BY <1>1, LiteralOperand
  <2>2. eval(v, s) = IF eval(lhs, s).x # none THEN eval(lhs, s)
                     ELSE binary(op, eval(lhs, s).v, int(n), eval(lhs, s).s)
    BY <1>1, <2>1, LiteralOnRight
  <2> HIDE DEF v
  <2> QED BY <1>1, <2>1, <2>2, Known
<1>2. ASSUME NEW n \in Int, isIntegerLiteral(lhs, n), rhsInt, op \notin Logical, NEW s \in S
      PROVE  /\ eval(rhs, s).x # none => eval(v, s) = eval(rhs, s)
             /\ eval(rhs, s).x = none =>
                  /\ eval(v, s) = binary(op, int(n), eval(rhs, s).v, eval(rhs, s).s)
                  /\ eval(rhs, s) = done(eval(rhs, s).s, eval(rhs, s).v)
                  /\ eval(rhs, s).v \in Ints
             /\ int(n).n = n
  <2>1. eval(lhs, s) = done(s, int(n)) /\ int(n).n = n
    BY <1>2, LiteralOperand
  <2>2. eval(v, s) = IF eval(rhs, s).x # none THEN eval(rhs, s)
                     ELSE binary(op, int(n), eval(rhs, s).v, eval(rhs, s).s)
    BY <1>2, <2>1, LiteralOnLeft
  <2> HIDE DEF v
  <2> QED BY <1>2, <2>1, <2>2, Known
<1>3. \A u, s : eval(unaryValue("-", u), s) =
                  IF eval(u, s).x # none THEN eval(u, s) ELSE done(eval(u, s).s, int(- eval(u, s).v.n))
  BY OfUnary, UnaryOf
<1>4. \A s : eval(intLiteral(0), s) = done(s, int(0))
  BY EvalInt
<1>5. 0 \in Int /\ 1 \in Int /\ -1 \in Int
  OBVIOUS
<1>6. \A o \in {"+", "-", "*", "/", "%"} : o \notin Logical
  BY DEF Logical
<1> HIDE DEF v, lhsInt, rhsInt
<1>7. Keeps(when(c1, lhs), v, S)
  <2>1. ASSUME c1, NEW s \in S PROVE eval(lhs, s) = eval(v, s)
    BY <1>1, <1>5, <1>6, <2>1, Identities
  <2> QED BY <2>1, WhenKeeps DEF MeanSame
<1>8. Keeps(when(c2, rhs), v, S)
  <2>1. ASSUME c2, NEW s \in S PROVE eval(rhs, s) = eval(v, s)
    BY <1>2, <1>5, <1>6, <2>1, Identities
  <2> QED BY <2>1, WhenKeeps DEF MeanSame
<1>9. Keeps(when(c3, unaryValue("-", rhs)), v, S)
  <2>1. ASSUME c3, NEW s \in S PROVE eval(unaryValue("-", rhs), s) = eval(v, s)
    BY <1>2, <1>3, <1>5, <1>6, <2>1, Identities
  <2> QED BY <2>1, WhenKeeps DEF MeanSame
<1>10. Keeps(when(c4, lhs), v, S)
  <2>1. ASSUME c4, NEW s \in S PROVE eval(lhs, s) = eval(v, s)
    BY <1>1, <1>5, <1>6, <2>1, Identities
  <2> QED BY <2>1, WhenKeeps DEF MeanSame
<1>11. Keeps(when(c5, rhs), v, S)
  <2>1. ASSUME c5, NEW s \in S PROVE eval(rhs, s) = eval(v, s)
    BY <1>2, <1>5, <1>6, <2>1, Identities
  <2> QED BY <2>1, WhenKeeps DEF MeanSame
<1>12. Keeps(when(c6, unaryValue("-", lhs)), v, S)
  <2>1. ASSUME c6, NEW s \in S PROVE eval(unaryValue("-", lhs), s) = eval(v, s)
    BY <1>1, <1>3, <1>5, <1>6, <2>1, Identities
  <2> QED BY <2>1, WhenKeeps DEF MeanSame
<1>13. Keeps(when(c7, unaryValue("-", rhs)), v, S)
  <2>1. ASSUME c7, NEW s \in S PROVE eval(unaryValue("-", rhs), s) = eval(v, s)
    BY <1>2, <1>3, <1>5, <1>6, <2>1, Identities
  <2> QED BY <2>1, WhenKeeps DEF MeanSame
<1>14. Keeps(when(c8, intLiteral(0)), v, S)
  <2>1. ASSUME c8, NEW s \in S PROVE eval(intLiteral(0), s) = eval(v, s)
    <3>1. eval(lhs, s).x = none /\ eval(lhs, s).s = s
      BY <2>1, Known
    <3> QED BY <1>1, <1>4, <1>5, <1>6, <2>1, <3>1, Identities
  <2> QED BY <2>1, WhenKeeps DEF MeanSame
<1>15. Keeps(when(c9, intLiteral(0)), v, S)
  <2>1. ASSUME c9, NEW s \in S PROVE eval(intLiteral(0), s) = eval(v, s)
    <3>1. eval(rhs, s).x = none /\ eval(rhs, s).s = s
      BY <2>1, Known
    <3> QED BY <1>2, <1>4, <1>5, <1>6, <2>1, <3>1, Identities
  <2> QED BY <2>1, WhenKeeps DEF MeanSame
<1>16. Keeps(when(c10, intLiteral(0)), v, S)
  <2>1. ASSUME c10, NEW s \in S PROVE eval(intLiteral(0), s) = eval(v, s)
    <3>1. eval(lhs, s).x = none /\ eval(lhs, s).s = s
      BY <2>1, Known
    <3> QED BY <1>1, <1>4, <1>5, <1>6, <2>1, <3>1, Identities
  <2> QED BY <2>1, WhenKeeps DEF MeanSame
<1>17. foldArithmeticIdentities(op, lhs, rhs, types) = first(rules)
  BY Zenon DEF foldArithmeticIdentities, lhsInt, rhsInt
<1>18. Keeps(first(rules), v, S)
  <2> HIDE DEF c1, c2, c3, c4, c5, c6, c7, c8, c9, c10
  <2>1. Len(rules) = 10 /\ 10 \in Nat
    OBVIOUS
  <2>2. \A j \in 1..10 : Keeps(rules[j], v, S)
    BY <1>7, <1>8, <1>9, <1>10, <1>11, <1>12, <1>13, <1>14, <1>15, <1>16
  <2> HIDE DEF rules
  <2> QED BY <2>1, <2>2, FirstKeeps
<1> QED BY <1>17, <1>18 DEF v

LEMMA DirectionKeeps ==
    ASSUME Evaluates, NEW E, NEW S, NEW types, Scope(E, S, types),
           NEW op, NEW lhs \in E, NEW rhs \in E
    PROVE  Keeps(canonicalizeOrderedComparisonDirection(op, lhs, rhs, types),
                 binaryValue(op, lhs, rhs), S)
<1> DEFINE v == binaryValue(op, lhs, rhs)
           turned == IF op = ">" THEN "<" ELSE "<="
           c == /\ op \in {">", ">="} /\ bothInts(lhs, rhs, types)
                /\ isPureLetValue(lhs) /\ isPureLetValue(rhs)
<1>1. ASSUME c, NEW s \in S PROVE eval(binaryValue(turned, rhs, lhs), s) = eval(v, s)
  <2> DEFINE a == eval(lhs, s).v
             b == eval(rhs, s).v
  <2>1. eval(lhs, s) = done(s, a) /\ eval(rhs, s) = done(s, b) /\ a \in Ints /\ b \in Ints
    BY <1>1, PureInteger DEF bothInts
  <2>2. a.n \in Int /\ b.n \in Int
    BY <2>1, IntData
  <2>3. op \notin Logical /\ turned \notin Logical
    BY <1>1 DEF Logical
  <2> HIDE DEF a, b
  <2>4. eval(v, s) = binary(op, a, b, s)
    BY <2>1, <2>3, OnValues
  <2> HIDE DEF v
  <2>5. CASE op = ">"
    <3>1. eval(binaryValue("<", rhs, lhs), s) = done(s, bool(b.n < a.n))
      BY <2>1, <2>3, <2>5, OnValues, BinaryOf
    <3>2. eval(v, s) = done(s, bool(a.n > b.n))
      BY <2>4, <2>5, BinaryOf
    <3>3. b.n < a.n <=> a.n > b.n
      BY <2>2
    <3>4. bool(b.n < a.n) = bool(a.n > b.n)
      BY <3>3, Zenon DEF bool
    <3> QED BY <2>5, <3>1, <3>2, <3>4
  <2>6. CASE op = ">="
    <3>1. eval(binaryValue("<=", rhs, lhs), s) = done(s, bool(b.n <= a.n))
      BY <2>1, <2>3, <2>6, OnValues, BinaryOf
    <3>2. eval(v, s) = done(s, bool(a.n >= b.n))
      BY <2>4, <2>6, BinaryOf
    <3>3. b.n <= a.n <=> a.n >= b.n
      BY <2>2
    <3>4. bool(b.n <= a.n) = bool(a.n >= b.n)
      BY <3>3, Zenon DEF bool
    <3> QED BY <2>6, <3>1, <3>2, <3>4
  <2> QED BY <1>1, <2>5, <2>6
<1>2. c => MeanSame(binaryValue(turned, rhs, lhs), v, S)
  BY <1>1 DEF MeanSame
<1>3. canonicalizeOrderedComparisonDirection(op, lhs, rhs, types) =
        when(c, binaryValue(turned, rhs, lhs))
  BY DEF canonicalizeOrderedComparisonDirection
<1> HIDE DEF c, turned, v
<1>4. Keeps(when(c, binaryValue(turned, rhs, lhs)), v, S)
  BY <1>2, WhenKeeps
<1> QED BY <1>3, <1>4 DEF v

------------------------------------------------------------------------------
(* Booleans. *)

LEMMA AsBuilt ==
    ASSUME Evaluates, NEW v, v.k = "Binary", NEW s
    PROVE  eval(v, s) = eval(binaryValue(v.x, v.ops[1], v.ops[2]), s)
<1>1. CASE v.x \in Logical
  <2>1. eval(v, s) = LET p == eval(v.ops[1], s)
                     IN  IF p.x # none THEN p
                         ELSE IF isTrue(p.v) = (v.x = "||") THEN done(p.s, p.v) ELSE eval(v.ops[2], p.s)
    BY <1>1, EvalLogical
  <2> QED BY <1>1, <2>1, OfLogical
<1>2. CASE v.x \notin Logical
  <2>1. eval(v, s) = LET p == eval(v.ops[1], s)
                         q == eval(v.ops[2], p.s)
                     IN  IF p.x # none THEN p ELSE IF q.x # none THEN q ELSE binary(v.x, p.v, q.v, q.s)
    BY <1>2, EvalBinary
  <2> QED BY <1>2, <2>1, OfBinary
<1> QED BY <1>1, <1>2

LEMMA NegationOf ==
    ASSUME Evaluates, NEW v, isNegation(v), NEW s
    PROVE  eval(v, s) = LET p == eval(v.ops[1], s)
                        IN  IF p.x # none THEN p ELSE done(p.s, bool(~ isTrue(p.v)))
<1>1. v.k = "Unary" /\ v.x = "!"
  BY DEF isNegation
<1> QED BY <1>1, EvalUnary, UnaryOf

LEMMA NotOf ==
    ASSUME Evaluates, NEW u, NEW s, NEW b \in BOOLEAN, eval(u, s) = done(s, bool(b))
    PROVE  /\ eval(unaryValue("!", u), s) = done(s, bool(~ b))
           /\ \A v : isNegation(v) /\ v.ops[1] = u => eval(v, s) = done(s, bool(~ b))
<1>1. eval(u, s).x = none /\ eval(u, s).s = s /\ eval(u, s).v = bool(b)
  BY Done
<1>2. isTrue(bool(b)) <=> b
  BY BoolData
<1>3. bool(~ isTrue(bool(b))) = bool(~ b)
  BY <1>2, Zenon DEF bool
<1>4. eval(unaryValue("!", u), s) = done(s, bool(~ isTrue(eval(u, s).v)))
  BY <1>1, OfUnary, UnaryOf
<1>5. ASSUME NEW v, isNegation(v), v.ops[1] = u PROVE eval(v, s) = done(s, bool(~ b))
  <2>1. eval(v, s) = done(s, bool(~ isTrue(eval(u, s).v)))
    BY <1>1, <1>5, NegationOf
  <2> QED BY <1>1, <1>3, <2>1
<1> QED BY <1>1, <1>3, <1>4, <1>5

LEMMA Negated ==
    ASSUME Evaluates, NEW E, NEW S, NEW types, Scope(E, S, types),
           NEW v, NEW w \in E, NEW s \in S, negates(v, w, types)
    PROVE  \E b \in BOOLEAN : eval(w, s) = done(s, bool(b)) /\ eval(v, s) = done(s, bool(~ b))
<1>1. isNegation(v) /\ v.ops[1] = w /\ isPureKnownBooleanValue(w, types)
  BY DEF negates
<1>2. PICK b \in BOOLEAN : eval(w, s) = done(s, bool(b))
  BY <1>1, PureBoolean
<1>3. eval(v, s) = done(s, bool(~ b))
  BY <1>1, <1>2, NotOf
<1> QED BY <1>2, <1>3

LEMMA BooleanOperand ==
    ASSUME Evaluates, NEW E, NEW S, NEW types, Scope(E, S, types), NEW v \in E, IsBoolean(v)
    PROVE  /\ IsTrue(v) \in BOOLEAN /\ (IsFalse(v) <=> ~ IsTrue(v))
           /\ \A s : eval(v, s) = done(s, bool(IsTrue(v)))
<1>1. PICK b \in BOOLEAN : v = booleanLiteral(b)
  BY DEF Scope, LiteralsInRange
<1>2. (IsTrue(v) <=> b) /\ (IsFalse(v) <=> ~ b)
  BY <1>1, BooleanText
<1>3. IsTrue(v) \in BOOLEAN
  BY DEF IsTrue, IsBoolean
<1>4. IsTrue(v) = b
  BY <1>2, <1>3
<1>5. ASSUME NEW s PROVE eval(v, s) = done(s, bool(IsTrue(v)))
  <2>1. eval(v, s) = done(s, bool(b))
    BY <1>1, EvalBool
  <2> QED BY <1>4, <2>1
<1> QED BY <1>2, <1>3, <1>5

LEMMA Polarity ==
    ASSUME Evaluates, NEW E, NEW S, NEW types, Scope(E, S, types),
           NEW v \in E, NEW s \in S, NEW preserve \in BOOLEAN
    PROVE  eval(booleanWithPolarity(v, preserve, types), s) =
             LET p == eval(v, s)
             IN  IF p.x # none THEN p
                 ELSE done(p.s, IF preserve THEN p.v ELSE bool(~ isTrue(p.v)))
<1> DEFINE p == eval(v, s)
           inner == isNegation(v) /\ knownValueType(v.ops[1], types) = "Boolean"
<1>1. p.x = none => p = done(p.s, p.v)
  BY Known
<1>2. CASE preserve
  <2>1. booleanWithPolarity(v, preserve, types) = v
    BY <1>2, Zenon DEF booleanWithPolarity
  <2> QED BY <1>1, <1>2, <2>1
<1>3. CASE ~ preserve /\ inner
  <2>1. booleanWithPolarity(v, preserve, types) = v.ops[1]
    BY <1>3, Zenon DEF booleanWithPolarity
  <2> DEFINE q == eval(v.ops[1], s)
  <2>2. v.ops[1] \in E
    BY <1>3 DEF Scope, OperandsBelong, isNegation
  <2>3. q.x = none => q = done(q.s, q.v) /\ q.v \in Bools
    BY <1>3, <2>2, Known
  <2>4. p = IF q.x # none THEN q ELSE done(q.s, bool(~ isTrue(q.v)))
    BY <1>3, NegationOf
  <2> HIDE DEF p, q
  <2>5. CASE q.x # none
    BY <1>3, <2>1, <2>4, <2>5 DEF p, q
  <2>6. CASE q.x = none
    <3>1. p.x = none /\ p.s = q.s /\ p.v = bool(~ isTrue(q.v))
      BY <2>4, <2>6, Done
    <3>2. q.v = bool(isTrue(q.v)) /\ isTrue(q.v) \in BOOLEAN
      BY <2>3, <2>6, BoolData
    <3>3. isTrue(p.v) <=> ~ isTrue(q.v)
      BY <3>1, <3>2, BoolData
    <3>4. bool(~ isTrue(p.v)) = bool(isTrue(q.v))
      BY <3>3, Zenon DEF bool
    <3> QED BY <1>3, <2>1, <2>3, <2>6, <3>1, <3>2, <3>4 DEF p, q
  <2> QED BY <2>5, <2>6
<1>4. CASE ~ preserve /\ ~ inner
  <2>1. booleanWithPolarity(v, preserve, types) = unaryValue("!", v)
    BY <1>4, Zenon DEF booleanWithPolarity
  <2>2. eval(unaryValue("!", v), s) = IF p.x # none THEN p ELSE done(p.s, bool(~ isTrue(p.v)))
    BY OfUnary, UnaryOf
  <2> QED BY <1>4, <2>1, <2>2
<1> QED BY <1>2, <1>3, <1>4

LEMMA EqualsLiteral ==
    ASSUME NEW d \in Bools, NEW b \in BOOLEAN, NEW t, NEW op \in {"==", "!="}
    PROVE  /\ binary(op, d, bool(b), t) =
                done(t, IF b = (op = "==") THEN d ELSE bool(~ isTrue(d)))
           /\ binary(op, bool(b), d, t) =
                done(t, IF b = (op = "==") THEN d ELSE bool(~ isTrue(d)))
<1> DEFINE c == isTrue(d)
<1>1. d = bool(c) /\ c \in BOOLEAN
  BY BoolData
<1>2. bool(b) \in Bools /\ (isTrue(bool(b)) <=> b) /\ (isTrue(d) <=> c)
  BY BoolData
<1>3. (d = bool(b) <=> (c <=> b)) /\ (bool(b) = d <=> (c <=> b))
  <2>1. isTrue(bool(b)) = b
    BY <1>2 DEF isTrue
  <2> QED BY <1>1, <2>1
<1>4. (anyEqual(d, bool(b), t) <=> (c <=> b)) /\ (anyEqual(bool(b), d, t) <=> (c <=> b))
  BY <1>2, <1>3, ScalarsEqual
<1> HIDE DEF c
<1>5. CASE op = "=="
  <2>1. binary(op, d, bool(b), t) = done(t, bool(anyEqual(d, bool(b), t)))
    BY <1>5, BinaryOf
  <2>2. binary(op, bool(b), d, t) = done(t, bool(anyEqual(bool(b), d, t)))
    BY <1>5, BinaryOf
  <2>3. CASE b
    <3>1. bool(anyEqual(d, bool(b), t)) = bool(c) /\ bool(anyEqual(bool(b), d, t)) = bool(c)
      BY <1>4, <2>3, Zenon DEF bool
    <3>2. b = (op = "==")
      BY <1>5, <2>3
    <3> QED BY <1>1, <2>1, <2>2, <3>1, <3>2
  <2>4. CASE ~ b
    <3>1. bool(anyEqual(d, bool(b), t)) = bool(~ c) /\ bool(anyEqual(bool(b), d, t)) = bool(~ c)
      BY <1>4, <2>4, Zenon DEF bool
    <3>2. b # (op = "==")
      BY <1>5, <2>4
    <3> QED BY <2>1, <2>2, <3>1, <3>2 DEF c
  <2> QED BY <2>3, <2>4
<1>6. CASE op = "!="
  <2>1. binary(op, d, bool(b), t) = done(t, bool(~ anyEqual(d, bool(b), t)))
    BY <1>6, BinaryOf
  <2>2. binary(op, bool(b), d, t) = done(t, bool(~ anyEqual(bool(b), d, t)))
    BY <1>6, BinaryOf
  <2>3. CASE b
    <3>1. bool(~ anyEqual(d, bool(b), t)) = bool(~ c) /\ bool(~ anyEqual(bool(b), d, t)) = bool(~ c)
      BY <1>4, <2>3, Zenon DEF bool
    <3>2. b # (op = "==")
      BY <1>6, <2>3
    <3> QED BY <2>1, <2>2, <3>1, <3>2 DEF c
  <2>4. CASE ~ b
    <3>1. bool(~ anyEqual(d, bool(b), t)) = bool(c) /\ bool(~ anyEqual(bool(b), d, t)) = bool(c)
      BY <1>4, <2>4, Zenon DEF bool
    <3>2. b = (op = "==")
      BY <1>6, <2>4
    <3> QED BY <1>1, <2>1, <2>2, <3>1, <3>2
  <2> QED BY <2>3, <2>4
<1> QED BY <1>5, <1>6

LEMMA BooleanEqualityKeeps ==
    ASSUME Evaluates, NEW E, NEW S, NEW types, Scope(E, S, types),
           NEW op, NEW lhs \in E, NEW rhs \in E
    PROVE  Keeps(foldBooleanEquality(op, lhs, rhs, types), binaryValue(op, lhs, rhs), S)
<1> DEFINE v == binaryValue(op, lhs, rhs)
           equality == op = "=="
           known(u) == knownValueType(u, types) = "Boolean"
           c1 == negates(lhs, rhs, types) \/ negates(rhs, lhs, types)
           c2 == IsBoolean(rhs) /\ known(lhs)
           c3 == IsBoolean(lhs) /\ known(rhs)
           u2 == booleanWithPolarity(lhs, IsTrue(rhs) = equality, types)
           u3 == booleanWithPolarity(rhs, IsTrue(lhs) = equality, types)
           rules == <<fact(c1, ~ equality), when(c2, u2), when(c3, u3)>>
<1>1. CASE op \notin {"==", "!="}
  <2>1. foldBooleanEquality(op, lhs, rhs, types) = NoValue
    BY <1>1, Zenon DEF foldBooleanEquality
  <2> QED BY <2>1, NoValueKeeps
<1>2. CASE op \in {"==", "!="}
  <2>1. op \notin Logical
    BY <1>2 DEF Logical
  <2>2. Keeps(fact(c1, ~ equality), v, S)
    <3>1. ASSUME c1, NEW s \in S PROVE eval(booleanLiteral(~ equality), s) = eval(v, s)
      <4>1. PICK b \in BOOLEAN : eval(lhs, s) = done(s, bool(b)) /\ eval(rhs, s) = done(s, bool(~ b))
        <5>1. CASE negates(lhs, rhs, types)
          <6>1. PICK b \in BOOLEAN : eval(rhs, s) = done(s, bool(b)) /\ eval(lhs, s) = done(s, bool(~ b))
            BY <5>1, Negated
          <6>2. (~ (~ b)) = b /\ (~ b) \in BOOLEAN
            OBVIOUS
          <6> QED BY <6>1, <6>2
        <5>2. CASE negates(rhs, lhs, types)
          BY <5>2, Negated
        <5> QED BY <3>1, <5>1, <5>2
      <4>2. bool(b) \in Bools /\ (isTrue(bool(b)) <=> b) /\ (~ b) \in BOOLEAN
        BY BoolData
      <4>3. eval(v, s) = binary(op, bool(b), bool(~ b), s)
        BY <2>1, <4>1, OnValues
      <4>4. eval(v, s) = done(s, IF (~ b) = equality THEN bool(b) ELSE bool(~ isTrue(bool(b))))
        BY <1>2, <4>2, <4>3, EqualsLiteral
      <4>5. (IF (~ b) = equality THEN bool(b) ELSE bool(~ isTrue(bool(b)))) = bool(~ equality)
        <5>1. CASE (~ b) = equality
          <6>1. b <=> ~ equality
            BY <5>1
          <6>2. bool(b) = bool(~ equality)
            BY <6>1, Zenon DEF bool
          <6> QED BY <5>1, <6>2
        <5>2. CASE (~ b) # equality
          <6>1. ~ isTrue(bool(b)) <=> ~ equality
            BY <4>2, <5>2
          <6>2. bool(~ isTrue(bool(b))) = bool(~ equality)
            BY <6>1, Zenon DEF bool
          <6> QED BY <5>2, <6>2
        <5> QED BY <5>1, <5>2
      <4>6. (~ equality) \in BOOLEAN
        OBVIOUS
      <4> HIDE DEF equality, v
      <4>7. eval(booleanLiteral(~ equality), s) = done(s, bool(~ equality))
        BY <4>6, EvalBool
      <4> QED BY <4>4, <4>5, <4>7
    <3>2. c1 => MeanSame(booleanLiteral(~ equality), v, S)
      BY <3>1 DEF MeanSame
    <3> HIDE DEF c1, equality, v
    <3> QED BY <3>2, FactKeeps
  <2>3. Keeps(when(c2, u2), v, S)
    <3>1. ASSUME c2, NEW s \in S PROVE eval(u2, s) = eval(v, s)
      <4> DEFINE b == IsTrue(rhs)
                 p == eval(lhs, s)
      <4>1. b \in BOOLEAN /\ eval(rhs, p.s) = done(p.s, bool(b))
        BY <3>1, BooleanOperand
      <4>2. eval(v, s) = IF p.x # none THEN p ELSE binary(op, p.v, bool(b), p.s)
        BY <2>1, <4>1, LiteralOnRight
      <4>3. p.x = none => p.v \in Bools
        BY <3>1, Known
      <4>4. (b = equality) \in BOOLEAN
        OBVIOUS
      <4>5. eval(u2, s) = IF p.x # none THEN p
                          ELSE done(p.s, IF b = equality THEN p.v ELSE bool(~ isTrue(p.v)))
        <5> DEFINE preserve == b = equality
        <5>0. preserve \in BOOLEAN
          BY <4>4
        <5> HIDE DEF preserve
        <5>1. eval(booleanWithPolarity(lhs, preserve, types), s) =
                LET q == eval(lhs, s)
                IN  IF q.x # none THEN q ELSE done(q.s, IF preserve THEN q.v ELSE bool(~ isTrue(q.v)))
          BY <5>0, Polarity
        <5> QED BY <5>1 DEF preserve
      <4> HIDE DEF b, p, v, u2
      <4>6. p.x = none => binary(op, p.v, bool(b), p.s) =
                            done(p.s, IF b = equality THEN p.v ELSE bool(~ isTrue(p.v)))
        BY <1>2, <4>1, <4>3, EqualsLiteral
      <4> QED BY <4>2, <4>5, <4>6
    <3> HIDE DEF c2, u2, v
    <3> QED BY <3>1, WhenKeeps DEF MeanSame
  <2>4. Keeps(when(c3, u3), v, S)
    <3>1. ASSUME c3, NEW s \in S PROVE eval(u3, s) = eval(v, s)
      <4> DEFINE b == IsTrue(lhs)
                 p == eval(rhs, s)
      <4>1. b \in BOOLEAN /\ eval(lhs, s) = done(s, bool(b))
        BY <3>1, BooleanOperand
      <4>2. eval(v, s) = IF p.x # none THEN p ELSE binary(op, bool(b), p.v, p.s)
        BY <2>1, <4>1, LiteralOnLeft
      <4>3. p.x = none => p.v \in Bools
        BY <3>1, Known
      <4>4. (b = equality) \in BOOLEAN
        OBVIOUS
      <4>5. eval(u3, s) = IF p.x # none THEN p
                          ELSE done(p.s, IF b = equality THEN p.v ELSE bool(~ isTrue(p.v)))
        <5> DEFINE preserve == b = equality
        <5>0. preserve \in BOOLEAN
          BY <4>4
        <5> HIDE DEF preserve
        <5>1. eval(booleanWithPolarity(rhs, preserve, types), s) =
                LET q == eval(rhs, s)
                IN  IF q.x # none THEN q ELSE done(q.s, IF preserve THEN q.v ELSE bool(~ isTrue(q.v)))
          BY <5>0, Polarity
        <5> QED BY <5>1 DEF preserve
      <4> HIDE DEF b, p, v, u3
      <4>6. p.x = none => binary(op, bool(b), p.v, p.s) =
                            done(p.s, IF b = equality THEN p.v ELSE bool(~ isTrue(p.v)))
        BY <1>2, <4>1, <4>3, EqualsLiteral
      <4> QED BY <4>2, <4>5, <4>6
    <3> HIDE DEF c3, u3, v
    <3> QED BY <3>1, WhenKeeps DEF MeanSame
  <2>5. foldBooleanEquality(op, lhs, rhs, types) = first(rules)
    BY <1>2, Zenon DEF foldBooleanEquality
  <2>6. Keeps(first(rules), v, S)
    <3> HIDE DEF c1, c2, c3, u2, u3, equality, v
    <3>1. Len(rules) = 3 /\ 3 \in Nat
      OBVIOUS
    <3>2. \A j \in 1..3 : Keeps(rules[j], v, S)
      BY <2>2, <2>3, <2>4
    <3> HIDE DEF rules
    <3> QED BY <3>1, <3>2, FirstKeeps
  <2> QED BY <2>5, <2>6
<1> QED BY <1>1, <1>2

LEMMA ConnectiveKeeps ==
    ASSUME Evaluates, NEW E, NEW S, NEW types, Scope(E, S, types),
           NEW op, NEW lhs \in E, NEW rhs \in E
    PROVE  Keeps(foldBooleanConnective(op, lhs, rhs, types), binaryValue(op, lhs, rhs), S)
<1> DEFINE v == binaryValue(op, lhs, rhs)
           neutral(u) == IF op = "&&" THEN IsTrue(u) ELSE IsFalse(u)
           absorbs(u) == IF op = "&&" THEN IsFalse(u) ELSE IsTrue(u)
           known(u) == knownValueType(u, types) = "Boolean"
           c1 == negates(lhs, rhs, types) \/ negates(rhs, lhs, types)
           c2 == neutral(rhs) /\ known(lhs)
           c3 == neutral(lhs) /\ known(rhs)
           c4 == absorbs(rhs) /\ isPureKnownBooleanValue(lhs, types)
           c5 == absorbs(lhs) /\ isPureKnownBooleanValue(rhs, types)
           rules == <<fact(c1, op = "||"), when(c2, lhs), when(c3, rhs),
                      fact(c4, op = "||"), fact(c5, op = "||")>>
<1>1. CASE op \notin Logical
  <2>1. foldBooleanConnective(op, lhs, rhs, types) = NoValue
    BY <1>1, Zenon DEF foldBooleanConnective
  <2> QED BY <2>1, NoValueKeeps
<1>2. CASE op \in Logical
  <2>1. op = "&&" \/ op = "||"
    BY <1>2 DEF Logical
  <2>2. \A s : eval(booleanLiteral(op = "||"), s) = done(s, bool(op = "||"))
    <3> DEFINE b == op = "||"
    <3>1. b \in BOOLEAN
      OBVIOUS
    <3> HIDE DEF b
    <3>2. \A s : eval(booleanLiteral(b), s) = done(s, bool(b))
      BY <3>1, EvalBool
    <3> QED BY <3>2 DEF b
  \* The literals that are neutral, and those that absorb.
  <2>3. ASSUME NEW u \in E, neutral(u), NEW s PROVE eval(u, s) = done(s, bool(op = "&&"))
    <3>1. IsBoolean(u)
      BY <2>3 DEF IsTrue, IsFalse
    <3>2. eval(u, s) = done(s, bool(IsTrue(u))) /\ (IsFalse(u) <=> ~ IsTrue(u))
      BY <3>1, BooleanOperand
    <3>3. IsTrue(u) <=> op = "&&"
      BY <2>3, <3>2
    <3>4. bool(IsTrue(u)) = bool(op = "&&")
      BY <3>3, Zenon DEF bool
    <3> QED BY <3>2, <3>4
  <2>4. ASSUME NEW u \in E, absorbs(u), NEW s PROVE eval(u, s) = done(s, bool(op = "||"))
    <3>1. IsBoolean(u)
      BY <2>4 DEF IsTrue, IsFalse
    <3>2. eval(u, s) = done(s, bool(IsTrue(u))) /\ (IsFalse(u) <=> ~ IsTrue(u))
      BY <3>1, BooleanOperand
    <3>3. IsTrue(u) <=> op = "||"
      BY <2>1, <2>4, <3>2
    <3>4. bool(IsTrue(u)) = bool(op = "||")
      BY <3>3, Zenon DEF bool
    <3> QED BY <3>2, <3>4
  \* Both operands have no effect, and one of them decides.
  <2>5. ASSUME NEW s, NEW a \in BOOLEAN, NEW b \in BOOLEAN,
               eval(lhs, s) = done(s, bool(a)), eval(rhs, s) = done(s, bool(b)),
               a = (op = "||") \/ b = (op = "||")
        PROVE  eval(booleanLiteral(op = "||"), s) = eval(v, s)
    <3>1. eval(v, s) = done(s, bool(IF op = "&&" THEN a /\ b ELSE a \/ b))
      BY <1>2, <2>5, OnBooleans
    <3>2. (IF op = "&&" THEN a /\ b ELSE a \/ b) = (op = "||")
      BY <2>1, <2>5
    <3> QED BY <2>2, <3>1, <3>2
  <2>6. bool(op = "||") = (IF op = "||" THEN bool(TRUE) ELSE bool(FALSE))
    BY Zenon DEF bool
  <2>7. bool(op = "&&") = (IF op = "&&" THEN bool(TRUE) ELSE bool(FALSE))
    BY Zenon DEF bool
  <2>8. Keeps(fact(c1, op = "||"), v, S)
    <3>1. ASSUME c1, NEW s \in S PROVE eval(booleanLiteral(op = "||"), s) = eval(v, s)
      <4>1. CASE negates(lhs, rhs, types)
        <5>1. PICK b \in BOOLEAN : eval(rhs, s) = done(s, bool(b)) /\ eval(lhs, s) = done(s, bool(~ b))
          BY <4>1, Negated
        <5> DEFINE a == ~ b
        <5>2. a \in BOOLEAN /\ (a = (op = "||") \/ b = (op = "||")) /\ eval(lhs, s) = done(s, bool(a))
          BY <5>1
        <5> HIDE DEF a
        <5> QED BY <2>5, <5>1, <5>2
      <4>2. CASE negates(rhs, lhs, types)
        <5>1. PICK b \in BOOLEAN : eval(lhs, s) = done(s, bool(b)) /\ eval(rhs, s) = done(s, bool(~ b))
          BY <4>2, Negated
        <5> DEFINE a == ~ b
        <5>2. a \in BOOLEAN /\ (b = (op = "||") \/ a = (op = "||")) /\ eval(rhs, s) = done(s, bool(a))
          BY <5>1
        <5> HIDE DEF a
        <5> QED BY <2>5, <5>1, <5>2
      <4> QED BY <3>1, <4>1, <4>2
    <3>2. c1 => MeanSame(booleanLiteral(op = "||"), v, S)
      BY <3>1 DEF MeanSame
    <3> HIDE DEF c1, v
    <3> QED BY <3>2, FactKeeps
  <2>9. Keeps(when(c2, lhs), v, S)
    <3>1. ASSUME c2, NEW s \in S PROVE eval(lhs, s) = eval(v, s)
      <4> DEFINE p == eval(lhs, s)
      <4>1. eval(rhs, p.s) = done(p.s, bool(op = "&&"))
        BY <2>3, <3>1
      <4>2. eval(v, s) = IF p.x # none THEN p
                         ELSE IF isTrue(p.v) = (op = "||") THEN done(p.s, p.v) ELSE eval(rhs, p.s)
        BY <1>2, OfLogical
      <4>3. p.x = none => p = done(p.s, p.v) /\ p.v \in Bools
        BY <3>1, Known
      <4>4. p.x = none => p.v = bool(isTrue(p.v)) /\ isTrue(p.v) \in BOOLEAN
        BY <4>3, BoolData
      <4> HIDE DEF p, v
      <4>5. CASE p.x # none
        BY <4>2, <4>5 DEF p
      <4>6. CASE p.x = none /\ isTrue(p.v) = (op = "||")
        BY <4>2, <4>3, <4>6 DEF p
      <4>7. CASE p.x = none /\ isTrue(p.v) # (op = "||")
        <5>1. isTrue(p.v) <=> op = "&&"
          BY <2>1, <4>4, <4>7
        <5>2. bool(isTrue(p.v)) = bool(op = "&&")
          BY <5>1, Zenon DEF bool
        <5> QED BY <4>1, <4>2, <4>3, <4>4, <4>7, <5>2 DEF p
      <4> QED BY <4>5, <4>6, <4>7
    <3>2. c2 => MeanSame(lhs, v, S)
      BY <3>1 DEF MeanSame
    <3> HIDE DEF c2, v
    <3> QED BY <3>2, WhenKeeps
  <2>10. Keeps(when(c3, rhs), v, S)
    <3>1. ASSUME c3, NEW s \in S PROVE eval(rhs, s) = eval(v, s)
      <4>1. eval(lhs, s) = done(s, bool(op = "&&"))
        BY <2>3, <3>1
      <4> DEFINE d == bool(op = "&&")
      <4>2. isTrue(d) # (op = "||")
        BY <2>1, <2>7, BoolData
      <4> HIDE DEF d
      <4>3. eval(lhs, s).x = none /\ eval(lhs, s).s = s /\ eval(lhs, s).v = d
        BY <4>1, Done DEF d
      <4> QED BY <1>2, <4>2, <4>3, OfLogical
    <3>2. c3 => MeanSame(rhs, v, S)
      BY <3>1 DEF MeanSame
    <3> HIDE DEF c3, v
    <3> QED BY <3>2, WhenKeeps
  <2>11. Keeps(fact(c4, op = "||"), v, S)
    <3>1. ASSUME c4, NEW s \in S PROVE eval(booleanLiteral(op = "||"), s) = eval(v, s)
      <4>1. PICK a \in BOOLEAN : eval(lhs, s) = done(s, bool(a))
        BY <3>1, PureBoolean
      <4> DEFINE b == op = "||"
      <4>2. b \in BOOLEAN /\ b = (op = "||") /\ eval(rhs, s) = done(s, bool(b))
        BY <2>4, <3>1
      <4> HIDE DEF b
      <4> QED BY <2>5, <4>1, <4>2
    <3>2. c4 => MeanSame(booleanLiteral(op = "||"), v, S)
      BY <3>1 DEF MeanSame
    <3> HIDE DEF c4, v
    <3> QED BY <3>2, FactKeeps
  <2>12. Keeps(fact(c5, op = "||"), v, S)
    <3>1. ASSUME c5, NEW s \in S PROVE eval(booleanLiteral(op = "||"), s) = eval(v, s)
      <4>1. PICK b \in BOOLEAN : eval(rhs, s) = done(s, bool(b))
        BY <3>1, PureBoolean
      <4> DEFINE a == op = "||"
      <4>2. a \in BOOLEAN /\ a = (op = "||") /\ eval(lhs, s) = done(s, bool(a))
        BY <2>4, <3>1
      <4> HIDE DEF a
      <4> QED BY <2>5, <4>1, <4>2
    <3>2. c5 => MeanSame(booleanLiteral(op = "||"), v, S)
      BY <3>1 DEF MeanSame
    <3> HIDE DEF c5, v
    <3> QED BY <3>2, FactKeeps
  <2>13. foldBooleanConnective(op, lhs, rhs, types) = first(rules)
    BY <1>2, Zenon DEF foldBooleanConnective
  <2>14. Keeps(first(rules), v, S)
    <3> HIDE DEF c1, c2, c3, c4, c5, v
    <3>1. Len(rules) = 5 /\ 5 \in Nat
      OBVIOUS
    <3>2. \A j \in 1..5 : Keeps(rules[j], v, S)
      BY <2>8, <2>9, <2>10, <2>11, <2>12
    <3> HIDE DEF rules
    <3> QED BY <3>1, <3>2, FirstKeeps
  <2> QED BY <2>13, <2>14
<1> QED BY <1>1, <1>2

LEMMA AbsorptionKeeps ==
    ASSUME Evaluates, NEW E, NEW S, NEW types, Scope(E, S, types),
           NEW op, NEW lhs \in E, NEW rhs \in E
    PROVE  Keeps(foldAbsorption(op, lhs, rhs, types), binaryValue(op, lhs, rhs), S)
<1> DEFINE orig == binaryValue(op, lhs, rhs)
           nestedOp == IF op = "&&" THEN "||" ELSE "&&"
           pure(v) == isPureKnownBooleanValue(v, types)
           nested(v) == v.k = "Binary" /\ v.x = nestedOp
           absorbed(v, kept) == /\ nested(v) /\ pure(kept) /\ pure(v.ops[1]) /\ pure(v.ops[2])
                                /\ kept \in {v.ops[1], v.ops[2]}
           rest(v, kept) ==
               IF ~ nested(v) \/ ~ pure(kept) THEN NoValue
               ELSE first(<<when(negates(v.ops[1], kept, types) /\ pure(v.ops[2]), v.ops[2]),
                            when(negates(v.ops[2], kept, types) /\ pure(v.ops[1]), v.ops[1])>>)
           rules == <<when(absorbed(lhs, rhs), rhs),
                      when(absorbed(rhs, lhs), lhs),
                      when(Some(rest(rhs, lhs)), binaryValue(op, lhs, rest(rhs, lhs))),
                      when(Some(rest(lhs, rhs)), binaryValue(op, rhs, rest(lhs, rhs)))>>
<1>1. CASE op \notin Logical
  <2>1. foldAbsorption(op, lhs, rhs, types) = NoValue
    BY <1>1, Zenon DEF foldAbsorption
  <2> QED BY <2>1, NoValueKeeps
<1>2. CASE op \in Logical
  <2>1. op = "&&" \/ op = "||"
    BY <1>2 DEF Logical
  <2>2. nestedOp \in Logical /\ (nestedOp = "&&" <=> op = "||")
    BY <2>1 DEF Logical
  \* What the connective of op, and that of the nested value, make of two Booleans.
  <2> DEFINE join(a, b) == IF op = "&&" THEN a /\ b ELSE a \/ b
             meet(a, b) == IF nestedOp = "&&" THEN a /\ b ELSE a \/ b
  <2>3. ASSUME NEW l, NEW r, NEW s, NEW a \in BOOLEAN, NEW b \in BOOLEAN,
               eval(l, s) = done(s, bool(a)), eval(r, s) = done(s, bool(b))
        PROVE  eval(binaryValue(op, l, r), s) = done(s, bool(join(a, b)))
    BY <1>2, <2>3, OnBooleans
  <2>4. ASSUME NEW v \in E, nested(v), NEW s, NEW a \in BOOLEAN, NEW b \in BOOLEAN,
               eval(v.ops[1], s) = done(s, bool(a)), eval(v.ops[2], s) = done(s, bool(b))
        PROVE  eval(v, s) = done(s, bool(meet(a, b)))
    <3>1. eval(v, s) = eval(binaryValue(nestedOp, v.ops[1], v.ops[2]), s)
      BY <2>4, AsBuilt
    <3> QED BY <2>2, <2>4, <3>1, OnBooleans
  <2>5. \A v \in E : nested(v) => v.ops[1] \in E /\ v.ops[2] \in E
    BY DEF Scope, OperandsBelong
  <2>6. \A v \in E, s \in S : pure(v) => \E b \in BOOLEAN : eval(v, s) = done(s, bool(b))
    BY PureBoolean
  <2>7. \A a, b \in BOOLEAN : join(a, b) \in BOOLEAN /\ meet(a, b) \in BOOLEAN
    BY <2>1
  <2>8. \A a, b \in BOOLEAN :
          /\ join(meet(a, b), a) = a /\ join(meet(a, b), b) = b
          /\ join(a, meet(a, b)) = a /\ join(b, meet(a, b)) = b
          /\ join(a, meet(~ a, b)) = join(a, b) /\ join(a, meet(b, ~ a)) = join(a, b)
          /\ join(meet(~ a, b), a) = join(a, b) /\ join(meet(b, ~ a), a) = join(a, b)
    BY <2>1
  \* Absorption: the value of the nested connective and of the operand kept.
  <2>9. ASSUME NEW v \in E, NEW kept \in E, absorbed(v, kept), NEW s \in S
        PROVE  \E a, b \in BOOLEAN :
                 /\ eval(v, s) = done(s, bool(b)) /\ eval(kept, s) = done(s, bool(a))
                 /\ join(a, b) = a /\ join(b, a) = a
    <3>1. v.ops[1] \in E /\ v.ops[2] \in E
      BY <2>5, <2>9
    <3>2. PICK a \in BOOLEAN : eval(v.ops[1], s) = done(s, bool(a))
      BY <2>6, <2>9, <3>1
    <3>3. PICK b \in BOOLEAN : eval(v.ops[2], s) = done(s, bool(b))
      BY <2>6, <2>9, <3>1
    <3>4. eval(v, s) = done(s, bool(meet(a, b)))
      BY <2>4, <2>9, <3>2, <3>3
    <3>5. meet(a, b) \in BOOLEAN /\ join(meet(a, b), a) = a /\ join(meet(a, b), b) = b
          /\ join(a, meet(a, b)) = a /\ join(b, meet(a, b)) = b
      BY <2>7, <2>8
    <3>6. kept = v.ops[1] \/ kept = v.ops[2]
      BY <2>9
    <3> HIDE DEF join, meet
    <3>7. CASE kept = v.ops[1]
      BY <3>2, <3>4, <3>5, <3>7
    <3>8. CASE kept = v.ops[2]
      BY <3>3, <3>4, <3>5, <3>8
    <3> QED BY <3>6, <3>7, <3>8
  \* The rest of a nested connective without the negation of the operand kept.
  <2>10. ASSUME NEW v \in E, NEW kept \in E, Some(rest(v, kept)), NEW s \in S
         PROVE  \E a, b, c \in BOOLEAN :
                  /\ eval(v, s) = done(s, bool(c)) /\ eval(kept, s) = done(s, bool(a))
                  /\ eval(rest(v, kept), s) = done(s, bool(b))
                  /\ join(a, c) = join(a, b) /\ join(c, a) = join(a, b)
    <3> DEFINE c1 == negates(v.ops[1], kept, types) /\ pure(v.ops[2])
               c2 == negates(v.ops[2], kept, types) /\ pure(v.ops[1])
               both == <<when(c1, v.ops[2]), when(c2, v.ops[1])>>
    <3>1. nested(v) /\ pure(kept)
      BY <2>10, Zenon DEF Some
    <3>2. rest(v, kept) = first(both) /\ first(both) # NoValue
      BY <2>10, <3>1, Zenon DEF Some
    <3>3. Len(both) = 2 /\ 2 \in Nat
      OBVIOUS
    <3>4. \E j \in 1..2 : first(both) = both[j]
      <4> HIDE DEF both
      <4> QED BY <3>2, <3>3, FirstIsOne
    <3>5. first(both) = when(c1, v.ops[2]) \/ first(both) = when(c2, v.ops[1])
      <4> HIDE DEF c1, c2
      <4> QED BY <3>4
    <3>6. (c1 /\ rest(v, kept) = v.ops[2]) \/ (c2 /\ rest(v, kept) = v.ops[1])
      <4> HIDE DEF c1, c2, both, rest
      <4> QED BY <3>2, <3>5, Zenon DEF when
    <3>7. v.ops[1] \in E /\ v.ops[2] \in E
      BY <2>5, <3>1
    <3>8. CASE c1 /\ rest(v, kept) = v.ops[2]
      <4>1. PICK a \in BOOLEAN : eval(kept, s) = done(s, bool(a)) /\ eval(v.ops[1], s) = done(s, bool(~ a))
        BY <3>8, Negated
      <4>2. PICK b \in BOOLEAN : eval(v.ops[2], s) = done(s, bool(b))
        BY <2>6, <3>7, <3>8
      <4>3. (~ a) \in BOOLEAN
        OBVIOUS
      <4>4. eval(v, s) = done(s, bool(meet(~ a, b)))
        <5> DEFINE n == ~ a
        <5>1. n \in BOOLEAN /\ eval(v.ops[1], s) = done(s, bool(n))
          BY <4>1
        <5> HIDE DEF n
        <5>2. eval(v, s) = done(s, bool(meet(n, b)))
          BY <2>4, <3>1, <4>2, <5>1
        <5> QED BY <5>2 DEF n
      <4>5. meet(~ a, b) \in BOOLEAN /\ join(a, meet(~ a, b)) = join(a, b)
            /\ join(meet(~ a, b), a) = join(a, b)
        BY <2>7, <2>8, <4>3
      <4> HIDE DEF join, meet, rest
      <4> QED BY <3>8, <4>1, <4>2, <4>4, <4>5
    <3>9. CASE c2 /\ rest(v, kept) = v.ops[1]
      <4>1. PICK a \in BOOLEAN : eval(kept, s) = done(s, bool(a)) /\ eval(v.ops[2], s) = done(s, bool(~ a))
        BY <3>9, Negated
      <4>2. PICK b \in BOOLEAN : eval(v.ops[1], s) = done(s, bool(b))
        BY <2>6, <3>7, <3>9
      <4>3. (~ a) \in BOOLEAN
        OBVIOUS
      <4>4. eval(v, s) = done(s, bool(meet(b, ~ a)))
        <5> DEFINE n == ~ a
        <5>1. n \in BOOLEAN /\ eval(v.ops[2], s) = done(s, bool(n))
          BY <4>1
        <5> HIDE DEF n
        <5>2. eval(v, s) = done(s, bool(meet(b, n)))
          BY <2>4, <3>1, <4>2, <5>1
        <5> QED BY <5>2 DEF n
      <4>5. meet(b, ~ a) \in BOOLEAN /\ join(a, meet(b, ~ a)) = join(a, b)
            /\ join(meet(b, ~ a), a) = join(a, b)
        BY <2>7, <2>8, <4>3
      <4> HIDE DEF join, meet, rest
      <4> QED BY <3>9, <4>1, <4>2, <4>4, <4>5
    <3> QED BY <3>6, <3>8, <3>9
  <2>11. Keeps(when(absorbed(lhs, rhs), rhs), orig, S)
    <3>1. ASSUME absorbed(lhs, rhs), NEW s \in S PROVE eval(rhs, s) = eval(orig, s)
      <4> HIDE DEF absorbed, join
      <4>1. PICK a, b \in BOOLEAN :
              /\ eval(lhs, s) = done(s, bool(b)) /\ eval(rhs, s) = done(s, bool(a))
              /\ join(a, b) = a /\ join(b, a) = a
        BY <2>9, <3>1
      <4>2. eval(orig, s) = done(s, bool(join(b, a)))
        BY <2>3, <4>1
      <4> QED BY <4>1, <4>2
    <3>2. absorbed(lhs, rhs) => MeanSame(rhs, orig, S)
      BY <3>1 DEF MeanSame
    <3> HIDE DEF absorbed, orig
    <3> QED BY <3>2, WhenKeeps
  <2>12. Keeps(when(absorbed(rhs, lhs), lhs), orig, S)
    <3>1. ASSUME absorbed(rhs, lhs), NEW s \in S PROVE eval(lhs, s) = eval(orig, s)
      <4> HIDE DEF absorbed, join
      <4>1. PICK a, b \in BOOLEAN :
              /\ eval(rhs, s) = done(s, bool(b)) /\ eval(lhs, s) = done(s, bool(a))
              /\ join(a, b) = a /\ join(b, a) = a
        BY <2>9, <3>1
      <4>2. eval(orig, s) = done(s, bool(join(a, b)))
        BY <2>3, <4>1
      <4> QED BY <4>1, <4>2
    <3>2. absorbed(rhs, lhs) => MeanSame(lhs, orig, S)
      BY <3>1 DEF MeanSame
    <3> HIDE DEF absorbed, orig
    <3> QED BY <3>2, WhenKeeps
  <2>13. Keeps(when(Some(rest(rhs, lhs)), binaryValue(op, lhs, rest(rhs, lhs))), orig, S)
    <3>1. ASSUME Some(rest(rhs, lhs)), NEW s \in S
          PROVE  eval(binaryValue(op, lhs, rest(rhs, lhs)), s) = eval(orig, s)
      <4> HIDE DEF rest, join
      <4>1. PICK a, b, c \in BOOLEAN :
              /\ eval(rhs, s) = done(s, bool(c)) /\ eval(lhs, s) = done(s, bool(a))
              /\ eval(rest(rhs, lhs), s) = done(s, bool(b))
              /\ join(a, c) = join(a, b) /\ join(c, a) = join(a, b)
        BY <2>10, <3>1
      <4>2. eval(orig, s) = done(s, bool(join(a, c)))
        BY <2>3, <4>1
      <4>3. eval(binaryValue(op, lhs, rest(rhs, lhs)), s) = done(s, bool(join(a, b)))
        BY <2>3, <4>1
      <4> QED BY <4>1, <4>2, <4>3
    <3> HIDE DEF rest, orig
    <3>2. Some(rest(rhs, lhs)) => MeanSame(binaryValue(op, lhs, rest(rhs, lhs)), orig, S)
      BY <3>1 DEF MeanSame
    <3> QED BY <3>2, WhenKeeps
  <2>14. Keeps(when(Some(rest(lhs, rhs)), binaryValue(op, rhs, rest(lhs, rhs))), orig, S)
    <3>1. ASSUME Some(rest(lhs, rhs)), NEW s \in S
          PROVE  eval(binaryValue(op, rhs, rest(lhs, rhs)), s) = eval(orig, s)
      <4> HIDE DEF rest, join
      <4>1. PICK a, b, c \in BOOLEAN :
              /\ eval(lhs, s) = done(s, bool(c)) /\ eval(rhs, s) = done(s, bool(a))
              /\ eval(rest(lhs, rhs), s) = done(s, bool(b))
              /\ join(a, c) = join(a, b) /\ join(c, a) = join(a, b)
        BY <2>10, <3>1
      <4>2. eval(orig, s) = done(s, bool(join(c, a)))
        BY <2>3, <4>1
      <4>3. eval(binaryValue(op, rhs, rest(lhs, rhs)), s) = done(s, bool(join(a, b)))
        BY <2>3, <4>1
      <4> QED BY <4>1, <4>2, <4>3
    <3> HIDE DEF rest, orig
    <3>2. Some(rest(lhs, rhs)) => MeanSame(binaryValue(op, rhs, rest(lhs, rhs)), orig, S)
      BY <3>1 DEF MeanSame
    <3> QED BY <3>2, WhenKeeps
  <2>15. foldAbsorption(op, lhs, rhs, types) = first(rules)
    BY <1>2, Zenon DEF foldAbsorption
  <2>16. Keeps(first(rules), orig, S)
    <3> HIDE DEF absorbed, rest, orig
    <3>1. Len(rules) = 4 /\ 4 \in Nat
      OBVIOUS
    <3>2. \A j \in 1..4 : Keeps(rules[j], orig, S)
      BY <2>11, <2>12, <2>13, <2>14
    <3> HIDE DEF rules
    <3> QED BY <3>1, <3>2, FirstKeeps
  <2> QED BY <2>15, <2>16
<1> QED BY <1>1, <1>2

------------------------------------------------------------------------------
(* Negations. *)

LEMMA TruthOf ==
    ASSUME NEW b \in BOOLEAN
    PROVE  isTrue(bool(b)) = b /\ isTrue(bool(~ b)) = (~ b)
<1>1. isTrue(bool(b)) <=> b
  BY BoolData
<1> DEFINE c == ~ b
<1>2. c \in BOOLEAN
  OBVIOUS
<1> HIDE DEF c
<1>3. isTrue(bool(c)) <=> c
  BY <1>2, BoolData
<1>4. isTrue(bool(b)) \in BOOLEAN /\ isTrue(bool(c)) \in BOOLEAN
  BY DEF isTrue
<1>5. isTrue(bool(b)) = b /\ isTrue(bool(c)) = c
  BY <1>1, <1>2, <1>3, <1>4
<1> QED BY <1>5 DEF c

\* The opposite operator gives the negation, when it does so for what the operands end with.
LEMMA Opposite ==
    ASSUME Evaluates, NEW v, v.k = "Binary", v.x \notin Logical, NEW op, op \notin Logical, NEW s,
           NEW p, p = eval(v.ops[1], s), NEW q, q = eval(v.ops[2], p.s),
           p.x = none /\ q.x = none =>
             \E c \in BOOLEAN : /\ binary(v.x, p.v, q.v, q.s) = done(q.s, bool(c))
                                /\ binary(op, p.v, q.v, q.s) = done(q.s, bool(~ c))
    PROVE  eval(unaryValue("!", v), s) = eval(binaryValue(op, v.ops[1], v.ops[2]), s)
<1> DEFINE r == eval(v, s)
<1>1. r = IF p.x # none THEN p ELSE IF q.x # none THEN q ELSE binary(v.x, p.v, q.v, q.s)
  BY EvalBinary
<1>2. eval(binaryValue(op, v.ops[1], v.ops[2]), s) =
        IF p.x # none THEN p ELSE IF q.x # none THEN q ELSE binary(op, p.v, q.v, q.s)
  BY OfBinary
<1>3. eval(unaryValue("!", v), s) = IF r.x # none THEN r ELSE done(r.s, bool(~ isTrue(r.v)))
  BY OfUnary, UnaryOf
<1> HIDE DEF r
<1>4. CASE p.x # none \/ q.x # none
  BY <1>1, <1>2, <1>3, <1>4
<1>5. CASE p.x = none /\ q.x = none
  <2>1. PICK c \in BOOLEAN : /\ binary(v.x, p.v, q.v, q.s) = done(q.s, bool(c))
                             /\ binary(op, p.v, q.v, q.s) = done(q.s, bool(~ c))
    BY <1>5
  <2>2. r.x = none /\ r.s = q.s /\ r.v = bool(c)
    BY <1>1, <1>5, <2>1, Done
  <2>3. isTrue(bool(c)) <=> c
    BY BoolData
  <2>4. bool(~ isTrue(bool(c))) = bool(~ c)
    BY <2>3, Zenon DEF bool
  <2> QED BY <1>2, <1>3, <1>5, <2>1, <2>2, <2>4
<1> QED BY <1>4, <1>5

LEMMA InverseOf == /\ inverse("<") = ">=" /\ inverse(">") = "<="
                   /\ inverse("<=") = ">" /\ inverse(">=") = "<"
<1>1. {"<", ">", "<=", ">="} = Comparisons \ {"==", "!="}
  BY DEF Comparisons
<1> DEFINE turned(o) == CASE o = "<" -> ">=" [] o = ">" -> "<=" [] o = "<=" -> ">" [] o = ">=" -> "<"
<1>2. turned("<") = ">=" /\ turned(">") = "<=" /\ turned("<=") = ">" /\ turned(">=") = "<"
  BY Zenon
<1>3. \A o \in Comparisons \ {"==", "!="} : inverse(o) = turned(o)
  BY DEF inverse
<1> HIDE DEF turned
<1> QED BY <1>1, <1>2, <1>3

LEMMA OppositeData ==
    /\ \A a, b, t : \E c \in BOOLEAN : /\ binary("==", a, b, t) = done(t, bool(c))
                                       /\ binary("!=", a, b, t) = done(t, bool(~ c))
    /\ \A a, b, t : \E c \in BOOLEAN : /\ binary("!=", a, b, t) = done(t, bool(c))
                                       /\ binary("==", a, b, t) = done(t, bool(~ c))
    /\ \A a, b \in Ints : \A t :
         /\ \E c \in BOOLEAN : /\ binary("<", a, b, t) = done(t, bool(c))
                               /\ binary(">=", a, b, t) = done(t, bool(~ c))
         /\ \E c \in BOOLEAN : /\ binary(">=", a, b, t) = done(t, bool(c))
                               /\ binary("<", a, b, t) = done(t, bool(~ c))
         /\ \E c \in BOOLEAN : /\ binary(">", a, b, t) = done(t, bool(c))
                               /\ binary("<=", a, b, t) = done(t, bool(~ c))
         /\ \E c \in BOOLEAN : /\ binary("<=", a, b, t) = done(t, bool(c))
                               /\ binary(">", a, b, t) = done(t, bool(~ c))
\* Two results of which one is the negation of the other.
<1>1. ASSUME NEW x, NEW y, NEW t, NEW c, c \in BOOLEAN, x = done(t, bool(c)), y = done(t, bool(~ c))
      PROVE  /\ \E d \in BOOLEAN : x = done(t, bool(d)) /\ y = done(t, bool(~ d))
             /\ \E d \in BOOLEAN : y = done(t, bool(d)) /\ x = done(t, bool(~ d))
  <2>1. (~ c) \in BOOLEAN /\ bool(~ (~ c)) = bool(c)
    <3>1. ~ (~ c) <=> c
      OBVIOUS
    <3> QED BY <3>1, Zenon DEF bool
  <2> DEFINE e == ~ c
  <2>2. e \in BOOLEAN /\ y = done(t, bool(e)) /\ x = done(t, bool(~ e))
    BY <1>1, <2>1
  <2> HIDE DEF e
  <2> QED BY <1>1, <2>2
<1>2. ASSUME NEW a, NEW b, NEW t
      PROVE  /\ \E c \in BOOLEAN : /\ binary("==", a, b, t) = done(t, bool(c))
                                   /\ binary("!=", a, b, t) = done(t, bool(~ c))
             /\ \E c \in BOOLEAN : /\ binary("!=", a, b, t) = done(t, bool(c))
                                   /\ binary("==", a, b, t) = done(t, bool(~ c))
  <2> DEFINE c == anyEqual(a, b, t)
  <2>1. c \in BOOLEAN
    BY DEF anyEqual
  <2>2. binary("==", a, b, t) = done(t, bool(c)) /\ binary("!=", a, b, t) = done(t, bool(~ c))
    BY BinaryOf
  <2> HIDE DEF c
  <2> QED BY <1>1, <2>1, <2>2
<1>3. ASSUME NEW a \in Ints, NEW b \in Ints, NEW t
      PROVE  /\ \E c \in BOOLEAN : /\ binary("<", a, b, t) = done(t, bool(c))
                                   /\ binary(">=", a, b, t) = done(t, bool(~ c))
             /\ \E c \in BOOLEAN : /\ binary(">=", a, b, t) = done(t, bool(c))
                                   /\ binary("<", a, b, t) = done(t, bool(~ c))
  <2> DEFINE c == a.n < b.n
  <2>1. c \in BOOLEAN /\ (~ c <=> a.n >= b.n)
    BY IntData
  <2>2. bool(a.n >= b.n) = bool(~ c)
    BY <2>1, Zenon DEF bool
  <2>3. binary("<", a, b, t) = done(t, bool(c)) /\ binary(">=", a, b, t) = done(t, bool(~ c))
    BY <2>2, BinaryOf
  <2> HIDE DEF c
  <2> QED BY <1>1, <2>1, <2>3
<1>4. ASSUME NEW a \in Ints, NEW b \in Ints, NEW t
      PROVE  /\ \E c \in BOOLEAN : /\ binary(">", a, b, t) = done(t, bool(c))
                                   /\ binary("<=", a, b, t) = done(t, bool(~ c))
             /\ \E c \in BOOLEAN : /\ binary("<=", a, b, t) = done(t, bool(c))
                                   /\ binary(">", a, b, t) = done(t, bool(~ c))
  <2> DEFINE c == a.n > b.n
  <2>1. c \in BOOLEAN /\ (~ c <=> a.n <= b.n)
    BY IntData
  <2>2. bool(a.n <= b.n) = bool(~ c)
    BY <2>1, Zenon DEF bool
  <2>3. binary(">", a, b, t) = done(t, bool(c)) /\ binary("<=", a, b, t) = done(t, bool(~ c))
    BY <2>2, BinaryOf
  <2> HIDE DEF c
  <2> QED BY <1>1, <2>1, <2>3
<1> QED BY <1>2, <1>3, <1>4

LEMMA MinusKeeps ==
    ASSUME Evaluates, NEW E, NEW S, NEW types, Scope(E, S, types), NEW v \in E
    PROVE  Keeps(foldUnary("-", v, types), unaryValue("-", v), S)
<1> DEFINE orig == unaryValue("-", v)
           c1 == IsInteger(v)
           isMinus == v.k = "Unary" /\ v.x = "-"
           c2 == knownValueType(v.ops[1], types) = "Int"
           inner == IF isMinus THEN when(c2, v.ops[1]) ELSE NoValue
           rules == <<when(c1, intLiteral(- v.i)), inner>>
<1>1. Keeps(when(c1, intLiteral(- v.i)), orig, S)
  <2>1. ASSUME c1, NEW s \in S PROVE eval(intLiteral(- v.i), s) = eval(orig, s)
    <3>1. PICK n \in ints : v = intLiteral(n)
      BY <2>1 DEF Scope, LiteralsInRange
    <3>2. v.i = n /\ n \in Int
      <4>1. v.i = n
        BY <3>1 DEF intLiteral, value
      <4>2. n \in Int
        BY HalfIsPositive DEF ints
      <4> QED BY <4>1, <4>2
    <3>3. eval(v, s) = done(s, int(n)) /\ int(n).n = n
      BY <3>1, <3>2, EvalInt, IntIsData, WrappedInRange
    <3>4. eval(orig, s) = done(s, int(- n))
      <4>1. eval(v, s).x = none /\ eval(v, s).s = s /\ eval(v, s).v.n = n
        BY <3>3, Done
      <4>2. eval(orig, s) = IF eval(v, s).x # none THEN eval(v, s)
                            ELSE done(eval(v, s).s, int(- eval(v, s).v.n))
        BY OfUnary, UnaryOf
      <4> QED BY <4>1, <4>2
    <3> QED BY <3>2, <3>4, EvalInt
  <2>2. c1 => MeanSame(intLiteral(- v.i), orig, S)
    BY <2>1 DEF MeanSame
  <2> HIDE DEF c1, orig
  <2> QED BY <2>2, WhenKeeps
<1>2. Keeps(inner, orig, S)
  <2>1. CASE ~ isMinus
    <3>1. inner = NoValue
      BY <2>1, Zenon
    <3> QED BY <3>1, NoValueKeeps
  <2>2. CASE isMinus
    <3>1. inner = when(c2, v.ops[1])
      BY <2>2, Zenon
    <3>2. ASSUME c2, NEW s \in S PROVE eval(v.ops[1], s) = eval(orig, s)
      <4> DEFINE u == v.ops[1]
                 q == eval(u, s)
                 p == eval(v, s)
      <4>1. u \in E
        BY <2>2 DEF Scope, OperandsBelong
      <4>2. q.x = none => q = done(q.s, q.v) /\ q.v \in Ints
        BY <3>2, <4>1, Known
      <4>3. p = IF q.x # none THEN q ELSE done(q.s, int(- q.v.n))
        BY <2>2, EvalUnary, UnaryOf
      <4>4. eval(orig, s) = IF p.x # none THEN p ELSE done(p.s, int(- p.v.n))
        BY OfUnary, UnaryOf
      <4> HIDE DEF u, q, p, orig
      <4>5. CASE q.x # none
        BY <4>3, <4>4, <4>5 DEF q, u
      <4>6. CASE q.x = none
        <5>1. q.v.n \in ints /\ q.v.n \in Int /\ q.v = datum("int", q.v.n)
          BY <4>2, <4>6, IntData
        <5>2. p.x = none /\ p.s = q.s /\ p.v = int(- q.v.n)
          BY <4>3, <4>6, Done
        <5> DEFINE n == q.v.n
        <5>3. - n \in Int
          BY <5>1
        <5>4. wrapped(- wrapped(- n)) = n
          BY <5>1, WrappedNegation
        <5>5. p.v.n = wrapped(- n)
          BY <5>2, <5>3, IntIsData
        <5>6. int(- p.v.n) = datum("int", n)
          BY <5>4, <5>5 DEF int
        <5> QED BY <4>2, <4>4, <4>6, <5>1, <5>2, <5>6 DEF q, u
      <4> QED BY <4>5, <4>6
    <3>3. c2 => MeanSame(v.ops[1], orig, S)
      BY <3>2 DEF MeanSame
    <3> HIDE DEF c2, orig, inner
    <3>4. Keeps(when(c2, v.ops[1]), orig, S)
      BY <3>3, WhenKeeps
    <3> QED BY <3>1, <3>4
  <2> QED BY <2>1, <2>2
<1>3. foldUnary("-", v, types) = first(rules)
  BY Zenon DEF foldUnary
<1>4. Keeps(first(rules), orig, S)
  <2> HIDE DEF c1, inner, orig
  <2>1. Len(rules) = 2 /\ 2 \in Nat
    OBVIOUS
  <2>2. \A j \in 1..2 : Keeps(rules[j], orig, S)
    BY <1>1, <1>2
  <2> HIDE DEF rules
  <2> QED BY <2>1, <2>2, FirstKeeps
<1> QED BY <1>3, <1>4

LEMMA PlusKeeps ==
    ASSUME Evaluates, NEW E, NEW S, NEW types, Scope(E, S, types), NEW v \in E
    PROVE  Keeps(foldUnary("+", v, types), unaryValue("+", v), S)
<1>1. foldUnary("+", v, types) = when(knownValueType(v, types) = "Int", v)
  BY Zenon DEF foldUnary
<1>2. ASSUME NEW s \in S PROVE eval(v, s) = eval(unaryValue("+", v), s)
  <2>1. eval(unaryValue("+", v), s) =
          IF eval(v, s).x # none THEN eval(v, s) ELSE done(eval(v, s).s, eval(v, s).v)
    BY OfUnary, UnaryOf
  <2> QED BY <2>1, Known
<1>3. MeanSame(v, unaryValue("+", v), S)
  BY <1>2 DEF MeanSame
<1> QED BY <1>1, <1>3, WhenKeeps

LEMMA NotKeeps ==
    ASSUME Evaluates, NEW E, NEW S, NEW types, Scope(E, S, types), NEW v \in E
    PROVE  Keeps(foldUnary("!", v, types), unaryValue("!", v), S)
<1> DEFINE orig == unaryValue("!", v)
           u == v.ops[1]
           w == v.ops[2]
           isBinary == v.k = "Binary"
           pure == \A j \in 1..2 : isPureKnownBooleanValue(v.ops[j], types)
           swapped == binaryValue(IF v.x = "&&" THEN "||" ELSE "&&",
                                  unaryValue("!", u), unaryValue("!", w))
           isDeMorgan == isBinary /\ v.x \in Logical
           isEquality == isBinary /\ v.x \in {"==", "!="}
           isOrdered == isBinary /\ v.x \in {"<", ">", "<=", ">="} /\ bothInts(u, w, types)
           isDouble == isNegation(v) /\ knownValueType(u, types) = "Boolean"
           other == binaryValue(IF v.x = "==" THEN "!=" ELSE "==", u, w)
           o == inverse(v.x)
           turned == canonicalizeOrderedComparisonDirection(o, u, w, types)
           inverted == IF Some(turned) THEN turned ELSE binaryValue(o, u, w)
           r1 == fact(IsBoolean(v), IsFalse(v))
           r2 == IF isDeMorgan THEN when(pure, swapped) ELSE NoValue
           r3 == IF isEquality THEN other ELSE NoValue
           r4 == IF isOrdered THEN inverted ELSE NoValue
           r5 == IF isDouble THEN u ELSE NoValue
           rules == <<r1, r2, r3, r4, r5>>
<1>1. isBinary => u \in E /\ w \in E
  BY DEF Scope, OperandsBelong
<1>2. Keeps(r1, orig, S)
  <2>1. ASSUME IsBoolean(v), NEW s \in S PROVE eval(booleanLiteral(IsFalse(v)), s) = eval(orig, s)
    <3> DEFINE b == IsTrue(v)
    <3>1. b \in BOOLEAN /\ (IsFalse(v) <=> ~ b) /\ eval(v, s) = done(s, bool(b))
      BY <2>1, BooleanOperand
    <3>2. IsFalse(v) \in BOOLEAN /\ bool(IsFalse(v)) = bool(~ b)
      <4>1. IsFalse(v) \in BOOLEAN
        BY DEF IsFalse, IsBoolean
      <4> QED BY <3>1, <4>1, Zenon DEF bool
    <3>3. eval(booleanLiteral(IsFalse(v)), s) = done(s, bool(IsFalse(v)))
      <4> DEFINE f == IsFalse(v)
      <4>1. f \in BOOLEAN
        BY <3>2
      <4> HIDE DEF f
      <4>2. eval(booleanLiteral(f), s) = done(s, bool(f))
        BY <4>1, EvalBool
      <4> QED BY <4>2 DEF f
    <3> HIDE DEF b
    <3>4. eval(orig, s) = done(s, bool(~ b))
      BY <3>1, NotOf
    <3> QED BY <3>2, <3>3, <3>4
  <2>2. IsBoolean(v) => MeanSame(booleanLiteral(IsFalse(v)), orig, S)
    BY <2>1 DEF MeanSame
  <2> HIDE DEF orig
  <2> QED BY <2>2, FactKeeps
<1>3. Keeps(r2, orig, S)
  <2>1. CASE ~ isDeMorgan
    <3>1. r2 = NoValue
      BY <2>1, Zenon
    <3> QED BY <3>1, NoValueKeeps
  <2>2. CASE isDeMorgan
    <3>1. ASSUME pure, NEW s \in S PROVE eval(swapped, s) = eval(orig, s)
      <4>1. isPureKnownBooleanValue(u, types) /\ isPureKnownBooleanValue(w, types)
        BY <3>1
      <4>2. PICK a \in BOOLEAN : eval(u, s) = done(s, bool(a))
        BY <1>1, <2>2, <4>1, PureBoolean
      <4>3. PICK b \in BOOLEAN : eval(w, s) = done(s, bool(b))
        BY <1>1, <2>2, <4>1, PureBoolean
      <4> DEFINE na == ~ a
                 nb == ~ b
                 c == IF v.x = "&&" THEN a /\ b ELSE a \/ b
                 dual == IF v.x = "&&" THEN "||" ELSE "&&"
      <4>4. na \in BOOLEAN /\ nb \in BOOLEAN /\ c \in BOOLEAN /\ dual \in Logical
        BY DEF Logical
      <4>5. eval(unaryValue("!", u), s) = done(s, bool(na)) /\ eval(unaryValue("!", w), s) = done(s, bool(nb))
        BY <4>2, <4>3, NotOf
      <4>6. eval(v, s) = done(s, bool(c))
        <5>1. eval(v, s) = eval(binaryValue(v.x, u, w), s)
          BY <2>2, AsBuilt
        <5> QED BY <2>2, <4>2, <4>3, <5>1, OnBooleans
      <4>7. (IF dual = "&&" THEN na /\ nb ELSE na \/ nb) = (~ c)
        BY <2>2
      <4> HIDE DEF na, nb, c, dual
      <4>8. eval(orig, s) = done(s, bool(~ c))
        BY <4>4, <4>6, NotOf
      <4>9. eval(binaryValue(dual, unaryValue("!", u), unaryValue("!", w)), s) =
              done(s, bool(IF dual = "&&" THEN na /\ nb ELSE na \/ nb))
        BY <4>4, <4>5, OnBooleans
      <4> QED BY <4>7, <4>8, <4>9 DEF dual
    <3>2. pure => MeanSame(swapped, orig, S)
      BY <3>1 DEF MeanSame
    <3> HIDE DEF pure, swapped, orig
    <3>3. Keeps(when(pure, swapped), orig, S)
      BY <3>2, WhenKeeps
    <3>4. r2 = when(pure, swapped)
      BY <2>2, Zenon
    <3> QED BY <3>3, <3>4
  <2> QED BY <2>1, <2>2
<1>4. Keeps(r3, orig, S)
  <2>1. CASE ~ isEquality
    <3>1. r3 = NoValue
      BY <2>1, Zenon
    <3> QED BY <3>1, NoValueKeeps
  <2>2. CASE isEquality
    <3>1. ASSUME NEW s \in S PROVE eval(other, s) = eval(orig, s)
      <4> DEFINE p == eval(u, s)
                 q == eval(w, p.s)
                 op == IF v.x = "==" THEN "!=" ELSE "=="
      <4>1. v.k = "Binary" /\ v.x \notin Logical /\ op \notin Logical
        BY <2>2 DEF Logical
      <4>2. \E c \in BOOLEAN : /\ binary(v.x, p.v, q.v, q.s) = done(q.s, bool(c))
                               /\ binary(op, p.v, q.v, q.s) = done(q.s, bool(~ c))
        BY <2>2, OppositeData
      <4> HIDE DEF op
      <4>3. eval(orig, s) = eval(binaryValue(op, u, w), s)
        BY <4>1, <4>2, Opposite
      <4> QED BY <4>3 DEF op
    <3>2. MeanSame(other, orig, S)
      BY <3>1 DEF MeanSame
    <3>3. r3 = other
      BY <2>2, Zenon
    <3> QED BY <3>2, <3>3 DEF Keeps
  <2> QED BY <2>1, <2>2
<1>5. Keeps(r4, orig, S)
  <2>1. CASE ~ isOrdered
    <3>1. r4 = NoValue
      BY <2>1, Zenon
    <3> QED BY <3>1, NoValueKeeps
  <2>2. CASE isOrdered
    <3>1. o \in {"<", ">", "<=", ">="}
      BY <2>2, InverseOf
    <3>2. ASSUME NEW s \in S PROVE eval(binaryValue(o, u, w), s) = eval(orig, s)
      <4> DEFINE p == eval(u, s)
                 q == eval(w, p.s)
      <4>1. v.k = "Binary" /\ v.x \notin Logical /\ o \notin Logical
        BY <2>2, <3>1 DEF Logical
      <4>2. p.s \in S /\ (p.x = none => p.v \in Ints)
        BY <1>1, <2>2, Known DEF bothInts
      <4>3. q.x = none => q.v \in Ints
        BY <1>1, <2>2, <4>2, Known DEF bothInts
      <4>4. p.x = none /\ q.x = none =>
              \E c \in BOOLEAN : /\ binary(v.x, p.v, q.v, q.s) = done(q.s, bool(c))
                                 /\ binary(o, p.v, q.v, q.s) = done(q.s, bool(~ c))
        BY <2>2, <4>2, <4>3, OppositeData, InverseOf
      <4> HIDE DEF o
      <4> QED BY <4>1, <4>4, Opposite
    <3>3. Keeps(turned, binaryValue(o, u, w), S)
      BY <1>1, <2>2, DirectionKeeps
    <3>4. MeanSame(inverted, orig, S)
      <4>1. CASE Some(turned)
        <5>1. inverted = turned
          BY <4>1, Zenon
        <5>2. MeanSame(turned, binaryValue(o, u, w), S)
          BY <3>3, <4>1 DEF Keeps
        <5> HIDE DEF turned, inverted, o, orig, u, w
        <5> QED BY <3>2, <5>1, <5>2 DEF MeanSame
      <4>2. CASE ~ Some(turned)
        <5>1. inverted = binaryValue(o, u, w)
          BY <4>2, Zenon
        <5> HIDE DEF turned, inverted, o, orig, u, w
        <5> QED BY <3>2, <5>1 DEF MeanSame
      <4> QED BY <4>1, <4>2
    <3>5. r4 = inverted
      BY <2>2, Zenon
    <3> QED BY <3>4, <3>5 DEF Keeps
  <2> QED BY <2>1, <2>2
<1>6. Keeps(r5, orig, S)
  <2>1. CASE ~ isDouble
    <3>1. r5 = NoValue
      BY <2>1, Zenon
    <3> QED BY <3>1, NoValueKeeps
  <2>2. CASE isDouble
    <3>1. ASSUME NEW s \in S PROVE eval(u, s) = eval(orig, s)
      <4> DEFINE p == eval(v, s)
                 q == eval(u, s)
      <4>1. u \in E
        BY <2>2 DEF Scope, OperandsBelong, isNegation
      <4>2. q.x = none => q = done(q.s, q.v) /\ q.v \in Bools
        BY <2>2, <4>1, Known
      <4>3. p = IF q.x # none THEN q ELSE done(q.s, bool(~ isTrue(q.v)))
        BY <2>2, NegationOf
      <4>4. eval(orig, s) = IF p.x # none THEN p ELSE done(p.s, bool(~ isTrue(p.v)))
        BY OfUnary, UnaryOf
      <4> HIDE DEF p, q, orig
      <4>5. CASE q.x # none
        BY <4>3, <4>4, <4>5 DEF q
      <4>6. CASE q.x = none
        <5>1. p.x = none /\ p.s = q.s /\ p.v = bool(~ isTrue(q.v))
          BY <4>3, <4>6, Done
        <5>2. q.v = bool(isTrue(q.v)) /\ isTrue(q.v) \in BOOLEAN
          BY <4>2, <4>6, BoolData
        <5>3. isTrue(p.v) <=> ~ isTrue(q.v)
          BY <5>1, <5>2, BoolData
        <5>4. bool(~ isTrue(p.v)) = bool(isTrue(q.v))
          BY <5>3, Zenon DEF bool
        <5> QED BY <4>2, <4>4, <4>6, <5>1, <5>2, <5>4 DEF q
      <4> QED BY <4>5, <4>6
    <3>2. MeanSame(u, orig, S)
      BY <3>1 DEF MeanSame
    <3>3. r5 = u
      BY <2>2, Zenon
    <3> QED BY <3>2, <3>3 DEF Keeps
  <2> QED BY <2>1, <2>2
<1>7. foldUnary("!", v, types) = first(rules)
  BY Zenon DEF foldUnary
<1>8. Keeps(first(rules), orig, S)
  <2> HIDE DEF r1, r2, r3, r4, r5, orig
  <2>1. Len(rules) = 5 /\ 5 \in Nat
    OBVIOUS
  <2>2. \A j \in 1..5 : Keeps(rules[j], orig, S)
    BY <1>2, <1>3, <1>4, <1>5, <1>6
  <2> HIDE DEF rules
  <2> QED BY <2>1, <2>2, FirstKeeps
<1> QED BY <1>7, <1>8

------------------------------------------------------------------------------
(* Conditionals. *)

LEMMA OfIf ==
    ASSUME Evaluates, NEW c, NEW t, NEW e, NEW type, NEW s
    PROVE  eval(ifValue(c, t, e, type), s) =
             LET p == eval(c, s)
             IN  IF p.x # none THEN p
                 ELSE IF isTrue(p.v) THEN eval(t, p.s) ELSE eval(e, p.s)
<1> DEFINE v == ifValue(c, t, e, type)
<1>1. v.k = "If" /\ v.ops[1] = c /\ v.ops[2] = t /\ v.ops[3] = e
  BY DEF ifValue, value
<1> HIDE DEF v
<1>2. eval(v, s) = LET p == eval(v.ops[1], s)
                   IN  IF p.x # none THEN p ELSE eval(v.ops[IF isTrue(p.v) THEN 2 ELSE 3], p.s)
  BY <1>1, EvalIf
<1> QED BY <1>1, <1>2 DEF v

\* What a branch is known to be when the condition, which has no effect, is b.
LEMMA WhenConditionOf ==
    ASSUME Evaluates, NEW E, NEW S, NEW types, Scope(E, S, types),
           NEW v \in E, NEW condition \in E, NEW b \in BOOLEAN,
           isPureKnownBooleanValue(condition, types), Some(whenCondition(v, condition, b, types))
    PROVE  \E c \in BOOLEAN :
             /\ whenCondition(v, condition, b, types) = booleanLiteral(c)
             /\ \A s \in S : eval(condition, s) = done(s, bool(b)) => eval(v, s) = done(s, bool(c))
<1> DEFINE known(u) == knownValueType(u, types) = "Boolean"
           c2 == v = condition /\ known(condition)
           c3 == isNegation(v) /\ v.ops = <<condition>> /\ known(condition)
           c4 == isNegation(condition) /\ condition.ops = <<v>> /\ known(v)
           rules == <<when(IsBoolean(v), v), fact(c2, b), fact(c3, ~ b), fact(c4, ~ b)>>
<1>1. whenCondition(v, condition, b, types) = first(rules)
  BY Zenon DEF whenCondition
<1>2. first(rules) # NoValue
  BY <1>1 DEF Some
<1>3. \E j \in 1..4 : first(rules) = rules[j]
  <2>1. Len(rules) = 4 /\ 4 \in Nat
    OBVIOUS
  <2> HIDE DEF rules
  <2> QED BY <1>2, <2>1, FirstIsOne
<1>4. \/ first(rules) = when(IsBoolean(v), v) \/ first(rules) = fact(c2, b)
      \/ first(rules) = fact(c3, ~ b) \/ first(rules) = fact(c4, ~ b)
  <2> HIDE DEF c2, c3, c4
  <2> QED BY <1>3
<1>5. \/ IsBoolean(v) /\ first(rules) = v
      \/ c2 /\ first(rules) = booleanLiteral(b)
      \/ (c3 \/ c4) /\ first(rules) = booleanLiteral(~ b)
  <2> HIDE DEF c2, c3, c4, rules
  <2> QED BY <1>2, <1>4, Zenon DEF when, fact
<1>6. CASE IsBoolean(v) /\ first(rules) = v
  <2>1. PICK c \in BOOLEAN : v = booleanLiteral(c)
    BY <1>6 DEF Scope, LiteralsInRange
  <2>2. \A s \in S : eval(v, s) = done(s, bool(c))
    BY <2>1, EvalBool
  <2> HIDE DEF rules
  <2> QED BY <1>1, <1>6, <2>1, <2>2
<1>7. CASE c2 /\ first(rules) = booleanLiteral(b)
  <2> HIDE DEF rules
  <2> QED BY <1>1, <1>7
<1>8. CASE (c3 \/ c4) /\ first(rules) = booleanLiteral(~ b)
  <2> DEFINE n == ~ b
  <2>1. n \in BOOLEAN /\ first(rules) = booleanLiteral(n)
    BY <1>8
  <2>2. ASSUME NEW s \in S, eval(condition, s) = done(s, bool(b)) PROVE eval(v, s) = done(s, bool(n))
    <3>1. CASE c3
      <4>1. v.ops[1] = condition
        BY <3>1
      <4> QED BY <2>2, <3>1, <4>1, NotOf
    <3>2. CASE c4
      <4> DEFINE q == eval(v, s)
                 p == eval(condition, s)
      <4>1. condition.ops[1] = v
        BY <3>2
      <4>2. p = IF q.x # none THEN q ELSE done(q.s, bool(~ isTrue(q.v)))
        BY <3>2, <4>1, NegationOf
      <4>3. p.x = none /\ p.s = s /\ p.v = bool(b)
        BY <2>2, Done
      <4>4. q.x = none
        <5> HIDE DEF p, q
        <5> QED BY <4>2, <4>3
      <4>5. q = done(q.s, q.v) /\ q.v \in Bools
        BY <3>2, <4>4, Known
      <4>6. q.v = bool(isTrue(q.v)) /\ isTrue(q.v) \in BOOLEAN
        BY <4>5, BoolData
      <4> HIDE DEF p, q
      <4>7. p = done(q.s, bool(~ isTrue(q.v)))
        BY <4>2, <4>4
      <4>8. q.s = s /\ bool(~ isTrue(q.v)) = bool(b)
        BY <4>3, <4>7, Done
      <4> DEFINE d == isTrue(q.v)
      <4>9. d \in BOOLEAN
        BY <4>6
      <4>10. bool(~ d) = bool(b)
        BY <4>8
      <4> HIDE DEF d
      <4>11. isTrue(bool(~ d)) = (~ d) /\ isTrue(bool(b)) = b
        BY <4>9, TruthOf
      <4>12. d <=> ~ b
        BY <4>10, <4>11
      <4>13. bool(d) = bool(n)
        BY <4>12, Zenon DEF bool
      <4> QED BY <4>5, <4>6, <4>8, <4>13 DEF d, q
    <3> QED BY <1>8, <3>1, <3>2
  <2> HIDE DEF rules, n
  <2> QED BY <1>1, <2>1, <2>2
<1> QED BY <1>5, <1>6, <1>7, <1>8

\* One branch is a literal: a connective takes the place of the conditional.
LEMMA AsLogicalKeeps ==
    ASSUME Evaluates, NEW E, NEW S, NEW types, Scope(E, S, types),
           NEW condition \in E, NEW t \in E, NEW e \in E, NEW type
    PROVE  Keeps(ifAsLogical(condition, t, e, types), ifValue(condition, t, e, type), S)
<1> DEFINE orig == ifValue(condition, t, e, type)
           known(u) == knownValueType(u, types) = "Boolean"
           c1 == IsBoolean(e) /\ ~ IsBoolean(t) /\ known(t)
           c2 == IsBoolean(t) /\ ~ IsBoolean(e) /\ known(e)
           op1 == IF IsTrue(e) THEN "||" ELSE "&&"
           op2 == IF IsTrue(t) THEN "||" ELSE "&&"
           l1 == booleanWithPolarity(condition, IsFalse(e), types)
           l2 == booleanWithPolarity(condition, IsTrue(t), types)
           rules == <<when(c1, binaryValue(op1, l1, t)), when(c2, binaryValue(op2, l2, e))>>
<1>1. CASE ~ known(condition)
  <2>1. ifAsLogical(condition, t, e, types) = NoValue
    BY <1>1, Zenon DEF ifAsLogical
  <2> QED BY <2>1, NoValueKeeps
<1>2. CASE known(condition)
  <2>1. \A s \in S : eval(condition, s).x = none =>
                       eval(condition, s) = done(eval(condition, s).s, eval(condition, s).v)
    BY Known
  <2>2. \A s \in S : eval(condition, s).x = none =>
                       /\ eval(condition, s).v = bool(isTrue(eval(condition, s).v))
                       /\ isTrue(eval(condition, s).v) \in BOOLEAN
    <3>1. \A s \in S : eval(condition, s).x = none => eval(condition, s).v \in Bools
      BY <1>2, Known
    <3> QED BY <3>1, BoolData
  \* The condition as it is, or negated, short-circuits into the literal or goes on to the branch.
  <2>3. ASSUME NEW preserve \in BOOLEAN, NEW branch \in E, NEW lit \in BOOLEAN, NEW s \in S,
               NEW op, op = IF lit THEN "||" ELSE "&&"
        PROVE  eval(binaryValue(op, booleanWithPolarity(condition, preserve, types), branch), s) =
                 LET p == eval(condition, s)
                     d == isTrue(p.v) = preserve
                 IN  IF p.x # none THEN p
                     ELSE IF d = lit THEN done(p.s, bool(lit)) ELSE eval(branch, p.s)
    <3> DEFINE p == eval(condition, s)
               l == booleanWithPolarity(condition, preserve, types)
               r == eval(l, s)
               d == isTrue(p.v) = preserve
    <3>1. r = IF p.x # none THEN p ELSE done(p.s, IF preserve THEN p.v ELSE bool(~ isTrue(p.v)))
      BY Polarity
    <3>2. op \in Logical /\ (op = "||" <=> lit)
      BY <2>3 DEF Logical
    <3>3. eval(binaryValue(op, l, branch), s) =
            IF r.x # none THEN r
            ELSE IF isTrue(r.v) = (op = "||") THEN done(r.s, r.v) ELSE eval(branch, r.s)
      BY <3>2, OfLogical
    <3>4. p.x = none => p.v = bool(isTrue(p.v)) /\ isTrue(p.v) \in BOOLEAN
      BY <2>2
    <3> HIDE DEF p, l, r
    <3>5. CASE p.x # none
      BY <3>1, <3>3, <3>5 DEF p, l
    <3>6. CASE p.x = none
      <4>1. (IF preserve THEN p.v ELSE bool(~ isTrue(p.v))) = bool(d)
        <5>1. CASE preserve
          <6>1. d <=> isTrue(p.v)
            BY <3>4, <3>6, <5>1
          <6>2. bool(d) = bool(isTrue(p.v))
            BY <6>1, Zenon DEF bool
          <6> QED BY <3>4, <3>6, <5>1, <6>2
        <5>2. CASE ~ preserve
          <6>1. d <=> ~ isTrue(p.v)
            BY <3>4, <3>6, <5>2
          <6>2. bool(d) = bool(~ isTrue(p.v))
            BY <6>1, Zenon DEF bool
          <6> QED BY <5>2, <6>2
        <5> QED BY <5>1, <5>2
      <4>2. d \in BOOLEAN
        OBVIOUS
      <4> HIDE DEF d
      <4>3. r.x = none /\ r.s = p.s /\ r.v = bool(d)
        BY <3>1, <3>6, <4>1, Done
      <4>4. isTrue(r.v) = d
        BY <4>2, <4>3, TruthOf
      <4>5. eval(binaryValue(op, l, branch), s) =
              IF d = lit THEN done(p.s, bool(d)) ELSE eval(branch, p.s)
        <5>1. (isTrue(r.v) = (op = "||")) <=> (d = lit)
          BY <3>2, <4>2, <4>4
        <5> QED BY <3>3, <4>3, <5>1
      <4> QED BY <3>6, <4>5 DEF d, p, l
    <3> QED BY <3>5, <3>6
  <2>4. \A s : eval(orig, s) = LET p == eval(condition, s)
                               IN  IF p.x # none THEN p
                                   ELSE IF isTrue(p.v) THEN eval(t, p.s) ELSE eval(e, p.s)
    BY OfIf
  <2>5. Keeps(when(c1, binaryValue(op1, l1, t)), orig, S)
    <3>1. ASSUME c1, NEW s \in S PROVE eval(binaryValue(op1, l1, t), s) = eval(orig, s)
      <4> DEFINE lit == IsTrue(e)
                 preserve == IsFalse(e)
                 p == eval(condition, s)
      <4>1. lit \in BOOLEAN /\ (preserve <=> ~ lit) /\ eval(e, p.s) = done(p.s, bool(lit))
        BY <3>1, BooleanOperand
      <4>2. preserve \in BOOLEAN
        BY DEF IsFalse, IsBoolean
      <4>3. op1 = IF lit THEN "||" ELSE "&&"
        OBVIOUS
      <4> HIDE DEF lit, preserve, op1, p, orig
      <4>4. eval(binaryValue(op1, booleanWithPolarity(condition, preserve, types), t), s) =
              LET c == eval(condition, s)
                  d == isTrue(c.v) = preserve
              IN  IF c.x # none THEN c ELSE IF d = lit THEN done(c.s, bool(lit)) ELSE eval(t, c.s)
        BY <2>3, <4>1, <4>2, <4>3
      <4>5. p.x = none => ((isTrue(p.v) = preserve) = lit <=> ~ isTrue(p.v))
        BY <2>2, <4>1, <4>2 DEF p
      <4> QED BY <2>4, <4>1, <4>4, <4>5 DEF p, preserve
    <3>2. c1 => MeanSame(binaryValue(op1, l1, t), orig, S)
      BY <3>1 DEF MeanSame
    <3> HIDE DEF c1, op1, l1, orig
    <3> QED BY <3>2, WhenKeeps
  <2>6. Keeps(when(c2, binaryValue(op2, l2, e)), orig, S)
    <3>1. ASSUME c2, NEW s \in S PROVE eval(binaryValue(op2, l2, e), s) = eval(orig, s)
      <4> DEFINE lit == IsTrue(t)
                 p == eval(condition, s)
      <4>1. lit \in BOOLEAN /\ eval(t, p.s) = done(p.s, bool(lit))
        BY <3>1, BooleanOperand
      <4>2. op2 = IF lit THEN "||" ELSE "&&"
        OBVIOUS
      <4> HIDE DEF lit, op2, p, orig
      <4>3. eval(binaryValue(op2, booleanWithPolarity(condition, lit, types), e), s) =
              LET c == eval(condition, s)
                  d == isTrue(c.v) = lit
              IN  IF c.x # none THEN c ELSE IF d = lit THEN done(c.s, bool(lit)) ELSE eval(e, c.s)
        BY <2>3, <4>1, <4>2
      <4>4. p.x = none => ((isTrue(p.v) = lit) = lit <=> isTrue(p.v))
        BY <2>2, <4>1 DEF p
      <4> QED BY <2>4, <4>1, <4>3, <4>4 DEF p, lit
    <3>2. c2 => MeanSame(binaryValue(op2, l2, e), orig, S)
      BY <3>1 DEF MeanSame
    <3> HIDE DEF c2, op2, l2, orig
    <3> QED BY <3>2, WhenKeeps
  <2>7. ifAsLogical(condition, t, e, types) = first(rules)
    BY <1>2, Zenon DEF ifAsLogical
  <2>8. Keeps(first(rules), orig, S)
    <3> HIDE DEF c1, c2, op1, op2, l1, l2, orig
    <3>1. Len(rules) = 2 /\ 2 \in Nat
      OBVIOUS
    <3>2. \A j \in 1..2 : Keeps(rules[j], orig, S)
      BY <2>5, <2>6
    <3> HIDE DEF rules
    <3> QED BY <3>1, <3>2, FirstKeeps
  <2> QED BY <2>7, <2>8
<1> QED BY <1>1, <1>2

\* What a conditional asks besides: its condition ends with a Boolean, and a block
\* of two values that bind nothing runs one after the other.
GivesBoolean(v, S) == \A s \in S : eval(v, s).x = none => eval(v, s).v \in Bools

InSequence(u, v, S) ==
    \A s \in S : eval(blockValue(<<u, v>>), s) =
                   IF eval(u, s).x # none THEN eval(u, s) ELSE eval(v, eval(u, s).s)

LEMMA IfKeeps ==
    ASSUME Evaluates, NEW E, NEW S, NEW types, Scope(E, S, types),
           NEW condition \in E, NEW t \in E, NEW e \in E, NEW type,
           GivesBoolean(condition, S), InSequence(condition, t, S)
    PROVE  Keeps(foldIf(condition, t, e, types), ifValue(condition, t, e, type), S)
<1> DEFINE orig == ifValue(condition, t, e, type)
           whenTrue == whenCondition(t, condition, TRUE, types)
           whenFalse == whenCondition(e, condition, FALSE, types)
           both == /\ isPureKnownBooleanValue(condition, types)
                   /\ Some(whenTrue) /\ Some(whenFalse)
           u4 == booleanWithPolarity(condition, FALSE, types)
           u6 == booleanWithPolarity(condition, IsTrue(whenTrue), types)
           u7 == IF isPureLetValue(condition) THEN t ELSE blockValue(<<condition, t>>)
           r1 == when(IsTrue(condition), t)
           r2 == when(IsFalse(condition), e)
           r3 == when(IsTrue(t) /\ IsFalse(e), condition)
           r4 == when(IsFalse(t) /\ IsTrue(e), u4)
           r5 == when(both /\ whenTrue = whenFalse, whenTrue)
           r6 == when(both /\ whenTrue # whenFalse, u6)
           r7 == when(t = e, u7)
           r8 == ifAsLogical(condition, t, e, types)
           rules == <<r1, r2, r3, r4, r5, r6, r7, r8>>
<1>1. \A s : eval(orig, s) = LET p == eval(condition, s)
                             IN  IF p.x # none THEN p
                                 ELSE IF isTrue(p.v) THEN eval(t, p.s) ELSE eval(e, p.s)
  BY OfIf
<1>2. \A s \in S : eval(condition, s).x = none =>
                     eval(condition, s) = done(eval(condition, s).s, eval(condition, s).v)
  BY Known
<1>3. \A s \in S : eval(condition, s).x = none =>
                     /\ eval(condition, s).v = bool(isTrue(eval(condition, s).v))
                     /\ isTrue(eval(condition, s).v) \in BOOLEAN
  BY BoolData DEF GivesBoolean
<1>4. ASSUME NEW u \in E, IsTrue(u), NEW s PROVE eval(u, s) = done(s, bool(TRUE))
  <2>1. IsBoolean(u)
    BY <1>4 DEF IsTrue
  <2>2. eval(u, s) = done(s, bool(IsTrue(u))) /\ IsTrue(u) \in BOOLEAN
    BY <2>1, BooleanOperand
  <2>3. IsTrue(u) = TRUE
    BY <1>4, <2>2
  <2> QED BY <2>2, <2>3
<1>5. ASSUME NEW u \in E, IsFalse(u), NEW s PROVE eval(u, s) = done(s, bool(FALSE))
  <2>1. IsBoolean(u)
    BY <1>5 DEF IsFalse
  <2>2. eval(u, s) = done(s, bool(IsTrue(u))) /\ IsTrue(u) \in BOOLEAN /\ (IsFalse(u) <=> ~ IsTrue(u))
    BY <2>1, BooleanOperand
  <2>3. IsTrue(u) = FALSE
    BY <1>5, <2>2
  <2> QED BY <2>2, <2>3
<1>6. isTrue(bool(TRUE)) /\ ~ isTrue(bool(FALSE))
  BY BoolData
<1>7. Keeps(r1, orig, S)
  <2>1. ASSUME IsTrue(condition), NEW s \in S PROVE eval(t, s) = eval(orig, s)
    <3> DEFINE b == IsTrue(condition)
    <3>1. IsBoolean(condition)
      BY <2>1 DEF IsTrue, IsFalse
    <3>2. b \in BOOLEAN /\ eval(condition, s) = done(s, bool(b))
      BY <3>1, BooleanOperand
    <3>4. b
      BY <2>1
    <3> HIDE DEF b
    <3>3. eval(condition, s).x = none /\ eval(condition, s).s = s /\ isTrue(eval(condition, s).v)
      <4>1. eval(condition, s).x = none /\ eval(condition, s).s = s /\ eval(condition, s).v = bool(b)
        BY <3>2, Done
      <4>2. isTrue(bool(b)) <=> b
        BY <3>2, BoolData
      <4> QED BY <3>4, <4>1, <4>2
    <3> HIDE DEF orig
    <3> QED BY <1>1, <3>3
  <2>2. IsTrue(condition) => MeanSame(t, orig, S)
    BY <2>1 DEF MeanSame
  <2> HIDE DEF orig
  <2> QED BY <2>2, WhenKeeps
<1>8. Keeps(r2, orig, S)
  <2>1. ASSUME IsFalse(condition), NEW s \in S PROVE eval(e, s) = eval(orig, s)
    <3> DEFINE b == IsTrue(condition)
    <3>1. IsBoolean(condition)
      BY <2>1 DEF IsTrue, IsFalse
    <3>2. b \in BOOLEAN /\ ~ b /\ eval(condition, s) = done(s, bool(b))
      BY <2>1, <3>1, BooleanOperand
    <3> HIDE DEF b
    <3>3. eval(condition, s).x = none /\ eval(condition, s).s = s /\ ~ isTrue(eval(condition, s).v)
      <4>1. eval(condition, s).x = none /\ eval(condition, s).s = s /\ eval(condition, s).v = bool(b)
        BY <3>2, Done
      <4>2. isTrue(bool(b)) <=> b
        BY <3>2, BoolData
      <4> QED BY <3>2, <4>1, <4>2
    <3> HIDE DEF orig
    <3> QED BY <1>1, <3>3
  <2>2. IsFalse(condition) => MeanSame(e, orig, S)
    BY <2>1 DEF MeanSame
  <2> HIDE DEF orig
  <2> QED BY <2>2, WhenKeeps
<1>9. Keeps(r3, orig, S)
  <2>1. ASSUME IsTrue(t) /\ IsFalse(e), NEW s \in S PROVE eval(condition, s) = eval(orig, s)
    <3> DEFINE p == eval(condition, s)
    <3>1. eval(t, p.s) = done(p.s, bool(TRUE)) /\ eval(e, p.s) = done(p.s, bool(FALSE))
      BY <1>4, <1>5, <2>1
    <3>2. p.x = none => p = done(p.s, p.v) /\ p.v = bool(isTrue(p.v)) /\ isTrue(p.v) \in BOOLEAN
      BY <1>2, <1>3
    <3>3. eval(orig, s) = IF p.x # none THEN p
                          ELSE IF isTrue(p.v) THEN eval(t, p.s) ELSE eval(e, p.s)
      BY <1>1
    <3> DEFINE c == isTrue(p.v)
    <3>4. p.x = none => c \in BOOLEAN /\ p.v = bool(c)
      BY <3>2
    <3>5. CASE p.x # none
      BY <3>3, <3>5
    <3>6. CASE p.x = none /\ c = TRUE
      <4>1. p = done(p.s, bool(TRUE))
        BY <3>2, <3>4, <3>6
      <4> HIDE DEF p
      <4> QED BY <3>1, <3>3, <3>6, <4>1 DEF p
    <3>7. CASE p.x = none /\ c = FALSE
      <4>1. p = done(p.s, bool(FALSE))
        BY <3>2, <3>4, <3>7
      <4> HIDE DEF p
      <4> QED BY <3>1, <3>3, <3>7, <4>1 DEF p
    <3> QED BY <3>4, <3>5, <3>6, <3>7
  <2>2. IsTrue(t) /\ IsFalse(e) => MeanSame(condition, orig, S)
    BY <2>1 DEF MeanSame
  <2> HIDE DEF orig
  <2> QED BY <2>2, WhenKeeps
<1>10. Keeps(r4, orig, S)
  <2>1. ASSUME IsFalse(t) /\ IsTrue(e), NEW s \in S PROVE eval(u4, s) = eval(orig, s)
    <3> DEFINE p == eval(condition, s)
               c == isTrue(p.v)
    <3>1. eval(t, p.s) = done(p.s, bool(FALSE)) /\ eval(e, p.s) = done(p.s, bool(TRUE))
      BY <1>4, <1>5, <2>1
    <3>2. eval(orig, s) = IF p.x # none THEN p
                          ELSE IF isTrue(p.v) THEN eval(t, p.s) ELSE eval(e, p.s)
      BY <1>1
    <3>3. eval(u4, s) = IF p.x # none THEN p ELSE done(p.s, bool(~ isTrue(p.v)))
      <4> DEFINE preserve == FALSE
      <4>1. preserve \in BOOLEAN /\ ~ preserve
        OBVIOUS
      <4> HIDE DEF preserve, p
      <4>2. eval(booleanWithPolarity(condition, preserve, types), s) =
              LET q == eval(condition, s)
              IN  IF q.x # none THEN q ELSE done(q.s, IF preserve THEN q.v ELSE bool(~ isTrue(q.v)))
        BY <4>1, Polarity
      <4> QED BY <4>1, <4>2 DEF preserve, p
    <3>4. bool(~ c) = (IF c THEN bool(FALSE) ELSE bool(TRUE))
      BY Zenon DEF bool
    <3> HIDE DEF p, u4, orig
    <3> QED BY <3>1, <3>2, <3>3, <3>4
  <2>2. IsFalse(t) /\ IsTrue(e) => MeanSame(u4, orig, S)
    BY <2>1 DEF MeanSame
  <2> HIDE DEF orig, u4
  <2> QED BY <2>2, WhenKeeps
\* Both branches are known where the condition decides.
<1>11. ASSUME both, NEW s \in S
       PROVE  \E b, c, d \in BOOLEAN :
                /\ eval(condition, s) = done(s, bool(b))
                /\ whenTrue = booleanLiteral(c) /\ whenFalse = booleanLiteral(d)
                /\ eval(orig, s) = done(s, bool(IF b THEN c ELSE d))
  <2>1. PICK b \in BOOLEAN : eval(condition, s) = done(s, bool(b))
    BY <1>11, PureBoolean
  <2>2. PICK c \in BOOLEAN :
          /\ whenTrue = booleanLiteral(c)
          /\ \A s1 \in S : eval(condition, s1) = done(s1, bool(TRUE)) => eval(t, s1) = done(s1, bool(c))
    <3> DEFINE decided == TRUE
    <3>1. decided \in BOOLEAN
      OBVIOUS
    <3>2. isPureKnownBooleanValue(condition, types) /\ Some(whenCondition(t, condition, decided, types))
      BY <1>11
    <3> HIDE DEF decided
    <3>3. \E k \in BOOLEAN :
            /\ whenCondition(t, condition, decided, types) = booleanLiteral(k)
            /\ \A s1 \in S : eval(condition, s1) = done(s1, bool(decided)) => eval(t, s1) = done(s1, bool(k))
      BY <3>1, <3>2, WhenConditionOf
    <3> QED BY <3>3 DEF decided
  <2>3. PICK d \in BOOLEAN :
          /\ whenFalse = booleanLiteral(d)
          /\ \A s1 \in S : eval(condition, s1) = done(s1, bool(FALSE)) => eval(e, s1) = done(s1, bool(d))
    <3> DEFINE decided == FALSE
    <3>1. decided \in BOOLEAN
      OBVIOUS
    <3>2. isPureKnownBooleanValue(condition, types) /\ Some(whenCondition(e, condition, decided, types))
      BY <1>11
    <3> HIDE DEF decided
    <3>3. \E k \in BOOLEAN :
            /\ whenCondition(e, condition, decided, types) = booleanLiteral(k)
            /\ \A s1 \in S : eval(condition, s1) = done(s1, bool(decided)) => eval(e, s1) = done(s1, bool(k))
      BY <3>1, <3>2, WhenConditionOf
    <3> QED BY <3>3 DEF decided
  <2>4. eval(condition, s).x = none /\ eval(condition, s).s = s /\ eval(condition, s).v = bool(b)
    BY <2>1, Done
  <2> HIDE DEF orig, whenTrue, whenFalse
  <2>5. CASE b = TRUE
    <3>1. eval(orig, s) = done(s, bool(c))
      BY <1>1, <1>6, <2>1, <2>2, <2>4, <2>5
    <3> QED BY <2>1, <2>2, <2>3, <2>5, <3>1
  <2>6. CASE b = FALSE
    <3>1. eval(orig, s) = done(s, bool(d))
      BY <1>1, <1>6, <2>1, <2>3, <2>4, <2>6
    <3> QED BY <2>1, <2>2, <2>3, <2>6, <3>1
  <2> QED BY <2>5, <2>6
<1>12. \A c, d \in BOOLEAN : booleanLiteral(c) = booleanLiteral(d) <=> c = d
  BY BooleanText
<1>13. Keeps(r5, orig, S)
  <2>1. ASSUME both /\ whenTrue = whenFalse, NEW s \in S PROVE eval(whenTrue, s) = eval(orig, s)
    <3>1. both
      BY <2>1
    <3> HIDE DEF both, whenTrue, whenFalse, orig
    <3>2. PICK b, c, d \in BOOLEAN :
            /\ eval(condition, s) = done(s, bool(b))
            /\ whenTrue = booleanLiteral(c) /\ whenFalse = booleanLiteral(d)
            /\ eval(orig, s) = done(s, bool(IF b THEN c ELSE d))
      BY <1>11, <3>1
    <3>3. c = d
      BY <1>12, <2>1, <3>2
    <3>4. eval(whenTrue, s) = done(s, bool(c))
      BY <3>2, EvalBool
    <3>5. (IF b THEN c ELSE d) = c
      BY <3>3
    <3> QED BY <3>2, <3>4, <3>5
  <2>2. both /\ whenTrue = whenFalse => MeanSame(whenTrue, orig, S)
    BY <2>1 DEF MeanSame
  <2> HIDE DEF orig, both, whenTrue, whenFalse
  <2> QED BY <2>2, WhenKeeps
<1>14. Keeps(r6, orig, S)
  <2>1. ASSUME both /\ whenTrue # whenFalse, NEW s \in S PROVE eval(u6, s) = eval(orig, s)
    <3>1. both
      BY <2>1
    <3> DEFINE preserve == IsTrue(whenTrue)
    <3> HIDE DEF both, whenTrue, whenFalse, orig
    <3>2. PICK b, c, d \in BOOLEAN :
            /\ eval(condition, s) = done(s, bool(b))
            /\ whenTrue = booleanLiteral(c) /\ whenFalse = booleanLiteral(d)
            /\ eval(orig, s) = done(s, bool(IF b THEN c ELSE d))
      BY <1>11, <3>1
    <3>3. c # d
      BY <1>12, <2>1, <3>2
    <3>4. preserve <=> c
      BY <3>2, BooleanText
    <3>5. preserve \in BOOLEAN
      BY DEF IsTrue, IsBoolean
    <3>6. preserve = c
      BY <3>4, <3>5
    <3>7. eval(condition, s).x = none /\ eval(condition, s).s = s /\ eval(condition, s).v = bool(b)
      BY <3>2, Done
    <3> HIDE DEF preserve, u6
    <3>8. eval(booleanWithPolarity(condition, c, types), s) =
            LET p == eval(condition, s)
            IN  IF p.x # none THEN p ELSE done(p.s, IF c THEN p.v ELSE bool(~ isTrue(p.v)))
      BY Polarity
    <3>9. eval(u6, s) = done(s, IF c THEN bool(b) ELSE bool(~ isTrue(bool(b))))
      BY <3>6, <3>7, <3>8 DEF u6, preserve
    <3>10. (IF c THEN bool(b) ELSE bool(~ isTrue(bool(b)))) = bool(IF b THEN c ELSE d)
      <4>1. isTrue(bool(b)) = b
        BY TruthOf
      <4>2. CASE c
        <5>1. (IF b THEN c ELSE d) <=> b
          BY <3>3, <4>2
        <5>2. bool(IF b THEN c ELSE d) = bool(b)
          BY <5>1, Zenon DEF bool
        <5> QED BY <4>2, <5>2
      <4>3. CASE ~ c
        <5>1. (IF b THEN c ELSE d) <=> ~ isTrue(bool(b))
          BY <3>3, <4>1, <4>3
        <5>2. bool(IF b THEN c ELSE d) = bool(~ isTrue(bool(b)))
          BY <5>1, Zenon DEF bool
        <5> QED BY <4>3, <5>2
      <4> QED BY <4>2, <4>3
    <3> QED BY <3>2, <3>9, <3>10
  <2>2. both /\ whenTrue # whenFalse => MeanSame(u6, orig, S)
    BY <2>1 DEF MeanSame
  <2> HIDE DEF orig, both, whenTrue, whenFalse, u6
  <2> QED BY <2>2, WhenKeeps
<1>15. Keeps(r7, orig, S)
  <2>1. ASSUME t = e, NEW s \in S PROVE eval(u7, s) = eval(orig, s)
    <3> DEFINE p == eval(condition, s)
    <3>1. eval(orig, s) = IF p.x # none THEN p ELSE eval(t, p.s)
      BY <1>1, <2>1
    <3>2. CASE isPureLetValue(condition)
      <4>1. p.x = none /\ p.s = s
        BY <3>2, Known
      <4>2. u7 = t
        BY <3>2, Zenon
      <4> HIDE DEF p, orig, u7
      <4> QED BY <3>1, <4>1, <4>2
    <3>3. CASE ~ isPureLetValue(condition)
      <4>1. u7 = blockValue(<<condition, t>>)
        BY <3>3, Zenon
      <4>2. eval(blockValue(<<condition, t>>), s) = IF p.x # none THEN p ELSE eval(t, p.s)
        BY DEF InSequence
      <4> HIDE DEF p, orig, u7
      <4> QED BY <3>1, <4>1, <4>2
    <3> QED BY <3>2, <3>3
  <2>2. t = e => MeanSame(u7, orig, S)
    BY <2>1 DEF MeanSame
  <2> HIDE DEF orig, u7
  <2> QED BY <2>2, WhenKeeps
<1>16. Keeps(r8, orig, S)
  BY AsLogicalKeeps
<1>17. foldIf(condition, t, e, types) = first(rules)
  BY Zenon DEF foldIf
<1>18. Keeps(first(rules), orig, S)
  <2> HIDE DEF r1, r2, r3, r4, r5, r6, r7, r8, orig
  <2>1. Len(rules) = 8 /\ 8 \in Nat
    OBVIOUS
  <2>2. \A j \in 1..8 : Keeps(rules[j], orig, S)
    BY <1>7, <1>8, <1>9, <1>10, <1>13, <1>14, <1>15, <1>16
  <2> HIDE DEF rules
  <2> QED BY <2>1, <2>2, FirstKeeps
<1> QED BY <1>17, <1>18

------------------------------------------------------------------------------
(* The theorems. *)

(***************************************************************************)
(* Whatever rule of foldValue applies to a Binary on values of Int and     *)
(* Boolean, in the order the code tries them, its value does on every      *)
(* machine what the operation did: the same result, the same exception,    *)
(* the same effects in the same order.  Arithmetic wraps around at any     *)
(* width, a division by zero still throws.                                 *)
(***************************************************************************)
THEOREM BinaryRulesKeepMeaning ==
    ASSUME Evaluates, NEW E, NEW S, NEW types, Scope(E, S, types),
           NEW op, NEW lhs \in E, NEW rhs \in E
    PROVE  Keeps(foldScalars(op, lhs, rhs, types), binaryValue(op, lhs, rhs), S)
<1> DEFINE orig == binaryValue(op, lhs, rhs)
           r1 == foldIntegerLiterals(op, lhs, rhs)
           r2 == foldBooleanLiterals(op, lhs, rhs)
           r3 == foldSameOperands(op, lhs, rhs, types)
           r4 == foldArithmeticIdentities(op, lhs, rhs, types)
           r5 == canonicalizeOrderedComparisonDirection(op, lhs, rhs, types)
           r6 == foldBooleanEquality(op, lhs, rhs, types)
           r7 == foldBooleanConnective(op, lhs, rhs, types)
           r8 == foldAbsorption(op, lhs, rhs, types)
           rules == <<r1, r2, r3, r4, r5, r6, r7, r8>>
<1>1. Keeps(r1, orig, S)
  BY IntegerLiteralsKeep
<1>2. Keeps(r2, orig, S)
  BY BooleanLiteralsKeep
<1>3. Keeps(r3, orig, S)
  BY SameOperandsKeep
<1>4. Keeps(r4, orig, S)
  BY ArithmeticIdentitiesKeep
<1>5. Keeps(r5, orig, S)
  BY DirectionKeeps
<1>6. Keeps(r6, orig, S)
  BY BooleanEqualityKeeps
<1>7. Keeps(r7, orig, S)
  BY ConnectiveKeeps
<1>8. Keeps(r8, orig, S)
  BY AbsorptionKeeps
<1>9. foldScalars(op, lhs, rhs, types) = first(rules)
  BY Zenon DEF foldScalars
<1>10. Keeps(first(rules), orig, S)
  <2> HIDE DEF r1, r2, r3, r4, r5, r6, r7, r8, orig
  <2>1. Len(rules) = 8 /\ 8 \in Nat
    OBVIOUS
  <2>2. \A j \in 1..8 : Keeps(rules[j], orig, S)
    BY <1>1, <1>2, <1>3, <1>4, <1>5, <1>6, <1>7, <1>8
  <2> HIDE DEF rules
  <2> QED BY <2>1, <2>2, FirstKeeps
<1> QED BY <1>9, <1>10

(***************************************************************************)
(* The same for the rules of a negation and of the signs (foldValue):      *)
(* De Morgan, the opposite comparison, two signs that cancel out, and the  *)
(* plus, which goes.                                                       *)
(***************************************************************************)
THEOREM UnaryRulesKeepMeaning ==
    ASSUME Evaluates, NEW E, NEW S, NEW types, Scope(E, S, types),
           NEW op \in {"-", "+", "!"}, NEW v \in E
    PROVE  Keeps(foldUnary(op, v, types), unaryValue(op, v), S)
<1>1. CASE op = "-"
  BY <1>1, MinusKeeps
<1>2. CASE op = "!"
  BY <1>2, NotKeeps
<1>3. CASE op = "+"
  BY <1>3, PlusKeeps
<1> QED BY <1>1, <1>2, <1>3

(***************************************************************************)
(* The same for the rules of a conditional (foldValue), of which a branch  *)
(* is still taken when it was and after its condition: a branch that is    *)
(* known, one that repeats the condition, two equal ones, and those that   *)
(* are a connective.                                                       *)
(***************************************************************************)
THEOREM IfRulesKeepMeaning ==
    ASSUME Evaluates, NEW E, NEW S, NEW types, Scope(E, S, types),
           NEW condition \in E, NEW t \in E, NEW e \in E, NEW type,
           GivesBoolean(condition, S), InSequence(condition, t, S)
    PROVE  Keeps(foldIf(condition, t, e, types), ifValue(condition, t, e, type), S)
BY IfKeeps

=============================================================================
