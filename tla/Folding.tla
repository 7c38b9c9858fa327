------------------------------- MODULE Folding -------------------------------
(***************************************************************************)
(* The folding pass of the optimizer (foldValue, tools/interflow) on the   *)
(* values of Nir: literals, identities, known contents, known receivers,   *)
(* inlined functions, casts and tests.  A rule is an operator that gives   *)
(* the value to put in place of its argument, or NoValue when it does not  *)
(* apply; rules are tried in the order of the code.  Long, Char, Float,    *)
(* Double, String and Symbol constants have rules of the same shapes and   *)
(* are left out.                                                           *)
(*                                                                         *)
(* st has the types and snapshots (vals) of the locals, names the locals   *)
(* in scope.                                                               *)
(***************************************************************************)
EXTENDS Nir

CONSTANTS
    knownValueType(_, _),   \* the type of a value as far as it is known
    isPureLetValue(_)       \* whether a value has no effect

isPureKnownBooleanValue(v, types) == isPureLetValue(v) /\ knownValueType(v, types) = "Boolean"

-----------------------------------------------------------------------------
(* Literals and arithmetic. *)

quotient(a, b) ==
    LET q == (IF a < 0 THEN -a ELSE a) \div (IF b < 0 THEN -b ELSE b)
    IN  IF (a < 0) = (b < 0) THEN q ELSE -q

remainder(a, b) == a - b * quotient(a, b)

compares(op, a, b) ==
    CASE op = "==" -> a = b
      [] op = "!=" -> a # b
      [] op = "<"  -> a < b
      [] op = ">"  -> a > b
      [] op = "<=" -> a <= b
      [] op = ">=" -> a >= b

\* Division, bit operations and shifts are folded to the width of the type.
foldIntegralDivisionOrRemainder(op, a, b) ==
    when(b # 0 /\ {a, b} \subseteq ints,
         intLiteral(IF op = "/" THEN wrapped(quotient(a, b)) ELSE remainder(a, b)))

foldIntegralBitwiseOrShift(op, a, b) ==
    when({a, b} \subseteq ints,
         intLiteral(IF op \in BitOps THEN bitwise(op, a, b) ELSE shifted(op, a, b)))

\* Sums, differences and products are computed in 64 bits and not wrapped.
foldIntegerLiterals(op, lhs, rhs) ==
    IF ~ (IsInteger(lhs) /\ IsInteger(rhs)) THEN NoValue
    ELSE CASE op \in BitOps \cup Shifts -> foldIntegralBitwiseOrShift(op, lhs.i, rhs.i)
           [] op \in {"/", "%"} -> foldIntegralDivisionOrRemainder(op, lhs.i, rhs.i)
           [] op = "+" -> intLiteral(lhs.i + rhs.i)
           [] op = "-" -> intLiteral(lhs.i - rhs.i)
           [] op = "*" -> intLiteral(lhs.i * rhs.i)
           [] op \in Comparisons -> booleanLiteral(compares(op, lhs.i, rhs.i))
           [] OTHER -> NoValue

foldBooleanLiterals(op, lhs, rhs) ==
    IF ~ (IsBoolean(lhs) /\ IsBoolean(rhs)) THEN NoValue
    ELSE CASE op = "==" -> booleanLiteral(lhs.x = rhs.x)
           [] op = "!=" -> booleanLiteral(lhs.x # rhs.x)
           [] op = "&&" -> booleanLiteral(IsTrue(lhs) /\ IsTrue(rhs))
           [] op = "||" -> booleanLiteral(IsTrue(lhs) \/ IsTrue(rhs))
           [] op \in BitOps -> booleanLiteral(connected(op, IsTrue(lhs), IsTrue(rhs)))
           [] OTHER -> NoValue

\* The same pure operand twice.
foldSameOperands(op, lhs, rhs, types) ==
    LET same == lhs = rhs /\ isPureLetValue(lhs)
        type == knownValueType(lhs, types)
        result == op \in {"==", "<=", ">="}
    IN  first(<<fact(op \in Comparisons /\ same /\ type \in {"Boolean", "Int"}, result),
                fact(/\ op \in {"==", "!="}
                     /\ lhs.k = "Local" /\ lhs = rhs /\ type # "Unknown", result),
                when(op = "-" /\ same /\ type = "Int", intLiteral(0)),
                when(op \in Logical /\ same /\ type = "Boolean", lhs)>>)

foldArithmeticIdentities(op, lhs, rhs, types) ==
    LET lhsInt == knownValueType(lhs, types) = "Int"
        rhsInt == knownValueType(rhs, types) = "Int"
    IN  first(<<when(op \in {"+", "-"} /\ isIntegerLiteral(rhs, 0) /\ lhsInt, lhs),
                when(op = "+" /\ isIntegerLiteral(lhs, 0) /\ rhsInt, rhs),
                when(op = "-" /\ isIntegerLiteral(lhs, 0) /\ rhsInt, unaryValue("-", rhs)),
                when(op \in {"*", "/"} /\ isIntegerLiteral(rhs, 1) /\ lhsInt, lhs),
                when(op = "*" /\ isIntegerLiteral(lhs, 1) /\ rhsInt, rhs),
                when(op = "*" /\ isIntegerLiteral(rhs, -1) /\ lhsInt, unaryValue("-", lhs)),
                when(op = "*" /\ isIntegerLiteral(lhs, -1) /\ rhsInt, unaryValue("-", rhs)),
                when(op = "*" /\ isIntegerLiteral(rhs, 0) /\ lhsInt /\ isPureLetValue(lhs),
                     intLiteral(0)),
                when(op = "*" /\ isIntegerLiteral(lhs, 0) /\ rhsInt /\ isPureLetValue(rhs),
                     intLiteral(0)),
                when(op = "%" /\ isIntegerLiteral(rhs, 1) /\ lhsInt /\ isPureLetValue(lhs),
                     intLiteral(0))>>)

bothInts(lhs, rhs, types) ==
    knownValueType(lhs, types) = "Int" /\ knownValueType(rhs, types) = "Int"

\* Fault: each direction is turned into the other.
canonicalizeEitherDirection(op, lhs, rhs, types) ==
    LET turned == CASE op = ">" -> "<" [] op = ">=" -> "<=" [] op = "<" -> ">" [] OTHER -> ">="
    IN  when(/\ op \in {"<", ">", "<=", ">="} /\ bothInts(lhs, rhs, types)
             /\ isPureLetValue(lhs) /\ isPureLetValue(rhs),
             binaryValue(turned, rhs, lhs))

\* canonicalizeOrderedComparisonDirection: only < and <= are left.
canonicalizeOrderedComparisonDirection(op, lhs, rhs, types) ==
    when(/\ op \in {">", ">="} /\ bothInts(lhs, rhs, types)
         /\ isPureLetValue(lhs) /\ isPureLetValue(rhs),
         binaryValue(IF op = ">" THEN "<" ELSE "<=", rhs, lhs))

-----------------------------------------------------------------------------
(* Booleans. *)

isNegation(v) == v.k = "Unary" /\ v.x = "!"

\* The operand, or its negation when it is not to be preserved.
booleanWithPolarity(operand, preserve, types) ==
    IF preserve THEN operand
    ELSE IF isNegation(operand) /\ knownValueType(operand.ops[1], types) = "Boolean"
    THEN operand.ops[1]
    ELSE unaryValue("!", operand)

\* isNegatedSamePureBooleanValue
negates(v, w, types) ==
    isNegation(v) /\ v.ops[1] = w /\ isPureKnownBooleanValue(w, types)

foldBooleanEquality(op, lhs, rhs, types) ==
    LET equality == op = "=="
        known(v) == knownValueType(v, types) = "Boolean"
    IN  IF op \notin {"==", "!="} THEN NoValue
        ELSE first(<<
            fact(negates(lhs, rhs, types) \/ negates(rhs, lhs, types), ~ equality),
            when(IsBoolean(rhs) /\ known(lhs),
                 booleanWithPolarity(lhs, IsTrue(rhs) = equality, types)),
            when(IsBoolean(lhs) /\ known(rhs),
                 booleanWithPolarity(rhs, IsTrue(lhs) = equality, types))>>)

foldBooleanConnective(op, lhs, rhs, types) ==
    LET neutral(v) == IF op = "&&" THEN IsTrue(v) ELSE IsFalse(v)
        absorbs(v) == IF op = "&&" THEN IsFalse(v) ELSE IsTrue(v)
        known(v) == knownValueType(v, types) = "Boolean"
    IN  IF op \notin Logical THEN NoValue
        ELSE first(<<
            fact(negates(lhs, rhs, types) \/ negates(rhs, lhs, types), op = "||"),
            when(neutral(rhs) /\ known(lhs), lhs),
            when(neutral(lhs) /\ known(rhs), rhs),
            fact(absorbs(rhs) /\ isPureKnownBooleanValue(lhs, types), op = "||"),
            fact(absorbs(lhs) /\ isPureKnownBooleanValue(rhs, types), op = "||")>>)

\* a && (a || b) and a && (!a || b), and their duals.
foldAbsorption(op, lhs, rhs, types) ==
    LET nestedOp == IF op = "&&" THEN "||" ELSE "&&"
        pure(v) == isPureKnownBooleanValue(v, types)
        nested(v) == v.k = "Binary" /\ v.x = nestedOp
        absorbed(v, kept) == /\ nested(v) /\ pure(kept) /\ pure(v.ops[1]) /\ pure(v.ops[2])
                             /\ kept \in {v.ops[1], v.ops[2]}
        rest(v, kept) ==
            IF ~ nested(v) \/ ~ pure(kept) THEN NoValue
            ELSE first(<<when(negates(v.ops[1], kept, types) /\ pure(v.ops[2]), v.ops[2]),
                         when(negates(v.ops[2], kept, types) /\ pure(v.ops[1]), v.ops[1])>>)
    IN  IF op \notin Logical THEN NoValue
        ELSE first(<<when(absorbed(lhs, rhs), rhs),
                     when(absorbed(rhs, lhs), lhs),
                     when(Some(rest(rhs, lhs)), binaryValue(op, lhs, rest(rhs, lhs))),
                     when(Some(rest(lhs, rhs)), binaryValue(op, rhs, rest(lhs, rhs)))>>)

\* The rules for the values of Int and Boolean, in their order.
foldScalars(op, lhs, rhs, types) ==
    first(<<foldIntegerLiterals(op, lhs, rhs),
            foldBooleanLiterals(op, lhs, rhs),
            foldSameOperands(op, lhs, rhs, types),
            foldArithmeticIdentities(op, lhs, rhs, types),
            canonicalizeOrderedComparisonDirection(op, lhs, rhs, types),
            foldBooleanEquality(op, lhs, rhs, types),
            foldBooleanConnective(op, lhs, rhs, types),
            foldAbsorption(op, lhs, rhs, types)>>)

inverse(op) == [o \in Comparisons \ {"==", "!="} |->
                  CASE o = "<" -> ">=" [] o = ">" -> "<=" [] o = "<=" -> ">" [] o = ">=" -> "<"][op]

foldUnary(op, v, types) ==
    LET known(u) == knownValueType(u, types) = "Boolean"
        binary == v.k = "Binary"
        inverted == LET o == inverse(v.x)
                        turned == canonicalizeOrderedComparisonDirection(o, v.ops[1], v.ops[2], types)
                    IN  IF Some(turned) THEN turned ELSE binaryValue(o, v.ops[1], v.ops[2])
    IN  IF op = "-"
        THEN first(<<when(IsInteger(v), intLiteral(-v.i)),
                     IF v.k = "Unary" /\ v.x = "-" THEN
                         when(knownValueType(v.ops[1], types) = "Int", v.ops[1]) ELSE NoValue>>)
        ELSE IF op = "+" THEN when(knownValueType(v, types) = "Int", v)
        ELSE first(<<
            fact(IsBoolean(v), IsFalse(v)),
            IF binary /\ v.x \in Logical THEN
                when(\A j \in 1..2 : isPureKnownBooleanValue(v.ops[j], types),
                     binaryValue(IF v.x = "&&" THEN "||" ELSE "&&",
                                 unaryValue("!", v.ops[1]), unaryValue("!", v.ops[2])))
                ELSE NoValue,
            IF binary /\ v.x \in {"==", "!="} THEN
                binaryValue(IF v.x = "==" THEN "!=" ELSE "==", v.ops[1], v.ops[2]) ELSE NoValue,
            IF binary /\ v.x \in {"<", ">", "<=", ">="} /\ bothInts(v.ops[1], v.ops[2], types)
                THEN inverted ELSE NoValue,
            IF isNegation(v) /\ known(v.ops[1]) THEN v.ops[1] ELSE NoValue>>)

-----------------------------------------------------------------------------
(* Conditionals. *)

\* booleanValueWhenConditionIs, as a literal.
whenCondition(v, condition, b, types) ==
    LET known(u) == knownValueType(u, types) = "Boolean"
    IN  first(<<when(IsBoolean(v), v),
                fact(v = condition /\ known(condition), b),
                fact(isNegation(v) /\ v.ops = <<condition>> /\ known(condition), ~ b),
                fact(isNegation(condition) /\ condition.ops = <<v>> /\ known(v), ~ b)>>)

\* canonicalizeBooleanIfAsLogical: one branch is a literal.
ifAsLogical(condition, then, else, types) ==
    LET known(u) == knownValueType(u, types) = "Boolean"
    IN  IF ~ known(condition) THEN NoValue
        ELSE first(<<
            when(IsBoolean(else) /\ ~ IsBoolean(then) /\ known(then),
                 binaryValue(IF IsTrue(else) THEN "||" ELSE "&&",
                             booleanWithPolarity(condition, IsFalse(else), types), then)),
            when(IsBoolean(then) /\ ~ IsBoolean(else) /\ known(else),
                 binaryValue(IF IsTrue(then) THEN "||" ELSE "&&",
                             booleanWithPolarity(condition, IsTrue(then), types), else))>>)

foldIf(condition, then, else, types) ==
    LET whenTrue == whenCondition(then, condition, TRUE, types)
        whenFalse == whenCondition(else, condition, FALSE, types)
        both == /\ isPureKnownBooleanValue(condition, types)
                /\ Some(whenTrue) /\ Some(whenFalse)
    IN  first(<<
        when(IsTrue(condition), then),
        when(IsFalse(condition), else),
        when(IsTrue(then) /\ IsFalse(else), condition),
        when(IsFalse(then) /\ IsTrue(else), booleanWithPolarity(condition, FALSE, types)),
        when(both /\ whenTrue = whenFalse, whenTrue),
        when(both /\ whenTrue # whenFalse,
             booleanWithPolarity(condition, IsTrue(whenTrue), types)),
        when(then = else, IF isPureLetValue(condition) THEN then
                          ELSE blockValue(<<condition, then>>)),
        ifAsLogical(condition, then, else, types)>>)

==============================================================================
