--------------------------------- MODULE Nir ---------------------------------
(***************************************************************************)
(* NIR as the optimizer reads and writes it (nir/include, nir/src/Builder, *)
(* tools/interflow): values, instructions, the definitions of a linked     *)
(* program and the questions the passes ask of them.                       *)
(*                                                                         *)
(* A value is a record: its kind k, its type t ("" when the front end left *)
(* it open), its text x, its operands ops, and the number i of an integer  *)
(* literal, which the code keeps in the text.  The types are Int, Boolean, *)
(* Unit, the boxed Object, IntArray (Array [ Int ]) and the class-like     *)
(* definitions; spans are left out.                                        *)
(***************************************************************************)
EXTENDS Integers, Linearization, SequencesExt, FiniteSets

CONSTANT IntWidth  \* the width of an Int in bits

ASSUME IntWidthAssumption == IntWidth \in Nat \ {0, 1}

VARIABLES definitions,  \* name -> definition, for the whole linked program
          linearized    \* class-like definition -> its linearization, computed once

-----------------------------------------------------------------------------
(***************************************************************************)
(* Sequences and functions in the forms TLC evaluates once and in linear   *)
(* time: the elements of s from left to right, f of every element, and a   *)
(* function as a table.                                                    *)
(***************************************************************************)
fold(op(_, _), base, s) ==
    LET f[j \in 0..Len(s)] == IF j = 0 THEN base ELSE op(f[j - 1], s[j]) IN f[Len(s)]

each(s, f(_)) == <<>> \o [j \in DOMAIN s |-> f(s[j])]

table(f) == f @@ <<>>

-----------------------------------------------------------------------------
(* Values (Builder.cpp). *)

value(kind, type, text, operands) ==
    [k |-> kind, t |-> type, x |-> text, i |-> 0, ops |-> operands]

unitValue == value("Unit", "Unit", "unit", <<>>)
localValue(name) == value("Local", "", name, <<>>)
literalValue(text, type) == value("Literal", type, text, <<>>)
intLiteral(n) == [value("Literal", "Int", "", <<>>) EXCEPT !.i = n]
booleanLiteral(b) == literalValue(IF b THEN "true" ELSE "false", "Boolean")
nullLiteral == literalValue("null", "Null")
newValue(type, arguments) == value("New", type, type, arguments)
boxValue(type, v) == value("Box", "Object", type, <<v>>)
unboxValue(type, v) == value("Unbox", type, type, <<v>>)
isInstanceOfValue(type, v) == value("IsInstanceOf", "Boolean", type, <<v>>)
asInstanceOfValue(type, v) == value("AsInstanceOf", type, type, <<v>>)
selectValue(receiver, member) == value("Select", "", member, <<receiver>>)
callValue(callee, arguments) == value("Call", "", "", <<callee>> \o arguments)
unaryValue(op, v) == value("Unary", "", op, <<v>>)
binaryValue(op, lhs, rhs) == value("Binary", "", op, <<lhs, rhs>>)
assignValue(target, assigned) == value("Assign", "Unit", "=", <<target, assigned>>)
throwValue(exception) == value("Throw", "Nothing", "throw", <<exception>>)
catchValue(binding, exceptionType, body, type) ==
    value("Catch", type, "catch", <<[localValue(binding) EXCEPT !.t = exceptionType], body>>)
finallyValue(body) == value("Finally", "Unit", "finally", <<body>>)
tryValue(body, handlers, type) == value("Try", type, "try", <<body>> \o handlers)
ifValue(condition, then, else, type) == value("If", type, "", <<condition, then, else>>)
whileValue(condition, body) == value("While", "", "", <<condition, body>>)
zoneScoped(v) == value("ZoneScoped", v.t, "", <<v>>)
blockValue(values) ==
    value("Block", IF values = <<>> THEN "Unit" ELSE Last(values).t, "", values)
localLetValue(name, type, v) == value("LocalLet", type, name, <<v>>)
localVarValue(name, type, v) == value("LocalVar", type, name, <<v>>)
unknownValue == value("Unknown", "Unknown", "", <<>>)

\* Instructions of a function body.
instruction(kind, name, type, v) == [kind |-> kind, name |-> name, type |-> type, value |-> v]
addParameter(name, type) == instruction("Param", name, type, unitValue)
addLet(name, type, v) == instruction("Let", name, type, v)
addVar(name, type, v) == instruction("Var", name, type, v)
addEval(v) == instruction("Eval", "", "", v)
addReturn(type, v) == instruction("Return", "", type, v)
addThrow(v) == instruction("Throw", "", "Nothing", v)

\* An optional value that is absent.
NoValue == value("None", "", "", <<>>)

Some(v) == v # NoValue

\* The first rule that applies.
first(rules) ==
    LET j == SelectInSeq(rules, Some) IN IF j = 0 THEN NoValue ELSE rules[j]

when(condition, v) == IF condition THEN v ELSE NoValue
fact(condition, b) == IF condition THEN booleanLiteral(b) ELSE NoValue

effects(values, result) == blockValue(Append(values, result))

IsBinding(v) == v.k \in {"LocalLet", "LocalVar"}

-----------------------------------------------------------------------------
(***************************************************************************)
(* definitions: kind, owner, member, direct parents, constructor and other *)
(* fields of a class, parameters (a sequence of names), result type, body. *)
(***************************************************************************)

IsDefined(name) == name \in DOMAIN definitions

KindOf(name) == IF IsDefined(name) THEN definitions[name].kind ELSE "none"

ClassLike == {"Module", "Class", "Trait"}

parentMap ==
    table([c \in {n \in DOMAIN definitions : definitions[n].kind \in ClassLike}
              |-> definitions[c].parents])

linearizations == table([c \in DOMAIN parentMap |-> <<>> \o LinearizedTypeNames(c, parentMap)])

isClassLike(type) == type \in DOMAIN linearized

linearizedTypeNames(type) == IF type \in DOMAIN linearized THEN linearized[type] ELSE <<type>>

\* The fields a class declares in order; those without a body are constructor fields.
constructorFields(type) ==
    IF ~ isClassLike(type) THEN <<>>
    ELSE SelectSeq(definitions[type].fields, LAMBDA f : definitions[f].body = <<>>)

memberOf(type, member) == type \o "." \o member

Array == "IntArray"

\* knownReferenceTypeConformsTo
knownReferenceTypeConformsTo(source, target) ==
    /\ source \notin {"", "Unknown"} /\ target # ""
    /\ \/ source = target
       \/ target = "Object" /\ (source = Array \/ isClassLike(source))
       \/ isClassLike(source) /\ Contains(linearizedTypeNames(source), target)

-----------------------------------------------------------------------------
(* What a pass asks of a value. *)

\* An Int lies between - half and half - 1; arithmetic on it wraps around.
half == 2 ^ (IntWidth - 1)

ints == -half .. half - 1

wrapped(n) == ((n + half) % (2 * half)) - half

\* The operations on single bits, on the bits of an Int, and its shifts by a count that wraps.
connected(op, p, q) ==
    CASE op = "&" -> p /\ q [] op = "|" -> p \/ q [] op = "^" -> ~ (p <=> q)

bitwise(op, m, n) ==
    LET bit(number, j) == (number \div 2 ^ j) % 2 = 1
        weights == [j \in 1..IntWidth |-> IF connected(op, bit(m, j - 1), bit(n, j - 1)) THEN 2 ^ (j - 1) ELSE 0]
    IN  wrapped(fold(LAMBDA sum, weight : sum + weight, 0, weights))

shifted(op, n, count) ==
    LET power == 2 ^ (count % IntWidth)
    IN  CASE op = "<<"  -> wrapped(n * power)
          [] op = ">>"  -> n \div power
          [] op = ">>>" -> wrapped((n % (2 * half)) \div power)

IsInteger(v) == v.k = "Literal" /\ v.t = "Int"
IsBoolean(v) == v.k = "Literal" /\ v.t = "Boolean"
isNullLiteral(v) == v.k = "Literal" /\ v.x = "null"
IsTrue(v) == IsBoolean(v) /\ v.x = "true"
IsFalse(v) == IsBoolean(v) /\ v.x = "false"
isIntegerLiteral(v, n) == IsInteger(v) /\ v.i = n

Comparisons == {"==", "!=", "<", ">", "<=", ">="}
Logical == {"&&", "||"}
BitOps == {"&", "|", "^"}
Shifts == {"<<", ">>", ">>>"}
BoxedAbiTypes == {"Unit", "Boolean", "Int"}

==============================================================================
