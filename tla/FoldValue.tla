------------------------------ MODULE FoldValue ------------------------------
(***************************************************************************)
(* The rules of foldValue on references, calls, members and types, and the *)
(* walk itself: operands first, then the rules of the value's kind.        *)
(***************************************************************************)
EXTENDS Snapshots

VARIABLE summaries  \* function -> the value a call of it can be replaced with, or NoValue

Rules == INSTANCE Folding

-----------------------------------------------------------------------------
(* Comparisons of references. *)

isExactNullValue(v, vals) == isNullLiteral(exactImmutableValue(v, vals))

isPureBox(v) == isExactEvaluatedBoxValue(v) /\ isPureLetValue(v.ops[1])

isExactPureNonNullReferenceValue(v, vals) == isPureBox(exactImmutableValue(v, vals))

knownNonNull(v, vals) ==
    isExactPureNonNullReferenceValue(v, vals) \/ exactImmutableNonNullReferenceRootName(v, vals) # ""

\* foldDirectEvaluatedNonNullNullComparison: both operands are still evaluated.
compareNullWithFresh(op, lhs, rhs, vals) ==
    LET other == IF isExactNullValue(lhs, vals) THEN rhs ELSE lhs
    IN  when(/\ op \in {"==", "!="}
             /\ isExactNullValue(lhs, vals) # isExactNullValue(rhs, vals)
             /\ isExactNonNullReferenceValue(other),
             effects(<<lhs, rhs>>, booleanLiteral(op = "!=")))

\* foldExactNullComparison
compareNull(op, lhs, rhs, vals) ==
    LET lhsNull == isExactNullValue(lhs, vals)
        rhsNull == isExactNullValue(rhs, vals)
    IN  fact(/\ op \in {"==", "!="}
             /\ \/ lhsNull /\ rhsNull
                \/ lhsNull /\ knownNonNull(rhs, vals)
                \/ rhsNull /\ knownNonNull(lhs, vals),
             (op = "==") = (lhsNull /\ rhsNull))

\* foldExactSameReferenceComparison
compareSameReference(op, lhs, rhs, vals) ==
    LET root == exactImmutableNonNullReferenceRootName(lhs, vals)
    IN  fact(/\ op \in {"==", "!="} /\ root # ""
             /\ exactImmutableNonNullReferenceRootName(rhs, vals) = root, op = "==")

\* foldDirectDistinctFreshReferenceComparison
compareTwoNew(op, lhs, rhs) ==
    when(op \in {"==", "!="} /\ lhs.k = "New" /\ rhs.k = "New",
         effects(<<lhs, rhs>>, booleanLiteral(op = "!=")))

\* foldExactDistinctFreshReferenceComparison
compareDistinctFresh(op, lhs, rhs, vals) ==
    LET left == exactImmutableFreshNewRootName(lhs, vals)
        right == exactImmutableFreshNewRootName(rhs, vals)
    IN  fact(op \in {"==", "!="} /\ left # "" /\ right # "" /\ left # right, op = "!=")

foldReferences(op, lhs, rhs, vals) ==
    first(<<compareNullWithFresh(op, lhs, rhs, vals),
            compareNull(op, lhs, rhs, vals),
            compareSameReference(op, lhs, rhs, vals),
            compareTwoNew(op, lhs, rhs),
            compareDistinctFresh(op, lhs, rhs, vals)>>)

foldBinary(v, st) ==
    LET op == v.x  lhs == v.ops[1]  rhs == v.ops[2]
    IN  first(<<foldReferences(op, lhs, rhs, st.vals), Rules!foldScalars(op, lhs, rhs, st.types)>>)

-----------------------------------------------------------------------------
(* Runtime calls: equality of boxes, arrays. *)

\* exactEvaluatedBoxAnyEqualsResult: boxes of two types, or of Unit, are decided unseen.
boxTypesDecide(left, right) ==
    IF isExactEvaluatedBoxValue(left) /\ isExactEvaluatedBoxValue(right)
    THEN fact(left.x # right.x \/ left.x = "Unit", left.x = right.x)
    ELSE NoValue

\* boxedPayloadsEqual: boxes of known literals.
payloadsDecide(left, right) ==
    IF isPureBox(left) /\ isPureBox(right) /\ left.x = right.x
    THEN fact(left.ops[1].k = "Literal" /\ right.ops[1].k = "Literal", left.ops = right.ops)
    ELSE NoValue

foldAnyEquals(lhs, rhs, vals) ==
    LET left == exactImmutableValue(lhs, vals)
        right == exactImmutableValue(rhs, vals)
        direct == boxTypesDecide(lhs, rhs)
    IN  first(<<compareNullWithFresh("==", lhs, rhs, vals),
                when(Some(direct), effects(<<lhs, rhs>>, direct)),
                when(lhs.k = "Local" /\ rhs.k = "Local", boxTypesDecide(left, right)),
                compareTwoNew("==", lhs, rhs),
                compareSameReference("==", lhs, rhs, vals),
                compareDistinctFresh("==", lhs, rhs, vals),
                compareNull("==", lhs, rhs, vals),
                payloadsDecide(left, right)>>)

freshLocalName(base, names) ==
    IF base \notin names THEN base
    ELSE base \o ToString(CHOOSE n \in 1..(Cardinality(names) + 1) :
                            /\ base \o ToString(n) \notin names
                            /\ \A m \in 1..(n - 1) : base \o ToString(m) \in names)

\* The operands in order, the one at the index bound to a local that is the result.
selecting(operands, at, base, type, names) ==
    LET name == freshLocalName(base, names)
    IN  effects(<<>> \o [j \in DOMAIN operands |->
                    IF j = at THEN localLetValue(name, type, operands[j]) ELSE operands[j]],
                [localValue(name) EXCEPT !.t = type])

\* The position an index is known to have in an array of n elements, 0 when it has none.
knownPosition(index, n, vals) ==
    LET at == exactImmutableValue(index, vals)
    IN  IF IsInteger(at) /\ at.i \in 0..(n - 1) THEN at.i + 1 ELSE 0

foldArrayLength(array, vals) ==
    LET exact == exactImmutableValue(array, vals)
    IN  first(<<when(isArrayNew(array), effects(array.ops, intLiteral(Len(array.ops)))),
                when(isArrayNew(exact), intLiteral(Len(exact.ops)))>>)

foldArrayApply(array, index, vals, names) ==
    LET exact == exactImmutableValue(array, vals)
        at == knownPosition(index, Len(exact.ops), vals)
    IN  IF ~ isArrayNew(exact) \/ at = 0 THEN NoValue
        ELSE IF isArrayNew(array) THEN selecting(array.ops, at, "directArrayApplyResult", "Int", names)
        ELSE when(isPureLetValue(exact.ops[at]), exact.ops[at])

foldArrayUpdate(array, index, assigned, vals) ==
    when(isArrayNew(array) /\ knownPosition(index, Len(array.ops), vals) # 0,
         effects(array.ops \o <<index, assigned>>, unitValue))

foldRuntimeCall(v, st, names) ==
    CASE isCallTo(v, anyEquals)   -> foldAnyEquals(v.ops[2], v.ops[3], st.vals)
      [] isCallTo(v, arrayLength) -> foldArrayLength(v.ops[2], st.vals)
      [] isCallTo(v, arrayApply)  -> foldArrayApply(v.ops[2], v.ops[3], st.vals, names)
      [] isCallTo(v, arrayUpdate) -> foldArrayUpdate(v.ops[2], v.ops[3], v.ops[4], st.vals)
      [] OTHER -> NoValue

-----------------------------------------------------------------------------
(* Constructor fields and known receivers. *)

fieldsOwnedBy(type) == {f \in DOMAIN definitions : /\ definitions[f].kind = "Field"
                                                   /\ definitions[f].owner = type}

isTrivialConstructorInitializer(type) ==
    LET body == initializerBody(type)
    IN  Len(body) = 2 /\ body[1].kind = "Param" /\ isUnitReturn(body[2])

hasOnlyFoldableDirectConstructorFieldStorage(type) ==
    /\ constructorFields(type) # <<>>
    /\ \A c \in ToSet(linearizedTypeNames(type)) :
           /\ hasInitializer(c) => isTrivialConstructorInitializer(c)
           /\ fieldsOwnedBy(c) \subseteq (IF c = type THEN ToSet(constructorFields(type)) ELSE {})

\* foldExactConstructorFieldSelect on a new object: its arguments are still evaluated.
selectOfNew(v, names) ==
    LET new == v.ops[1]
        at == fieldSnapshotIndex(new.t, v.x)
    IN  IF /\ isObjectNew(new) /\ KindOf(new.t) = "Class"
           /\ Len(new.ops) = Len(constructorFields(new.t))
           /\ at \in DOMAIN new.ops
           /\ hasOnlyFoldableDirectConstructorFieldStorage(new.t)
        THEN selecting(new.ops, at, "directFieldSelectResult",
                       definitions[fieldSnapshots[new.t][at]].type, names)
        ELSE NoValue

\* foldExactConstructorFieldSelect on a local: the recorded content of the field.
selectOfLocal(v, vals) ==
    LET root == exactLocalObjectRootName(v.ops[1], vals)
        at == fieldSnapshotIndex(vals[root].t, v.x)
    IN  IF root # "" /\ at \in DOMAIN vals[root].ops THEN exactPure(vals[root].ops[at], vals)
        ELSE NoValue

foldExactConstructorFieldSelect(v, st, names) ==
    IF v.k # "Select" THEN NoValue
    ELSE first(<<selectOfNew(v, names), selectOfLocal(v, st.vals)>>)

hasKnownConcreteSubtype(type) ==
    \E c \in DOMAIN linearized \ {type} :
        definitions[c].kind \in {"Class", "Module"} /\ Contains(linearizedTypeNames(c), type)

\* The class of a receiver: that of its allocation, or its static type when nothing extends it.
monomorphicReceiverType(receiver, st) ==
    LET exact == exactImmutableValue(receiver, st.vals)
        static == IF receiver.k = "Local" /\ receiver.x \in DOMAIN st.types
                  THEN st.types[receiver.x] ELSE ""
    IN  IF isObjectNew(exact) THEN exact.t
        ELSE IF KindOf(static) \in {"Class", "Module"} /\ ~ hasKnownConcreteSubtype(static)
        THEN static ELSE ""

\* A direct call of the target, the receiver cast to the owner of the method.
directCall(target, receiver, arguments, types) ==
    LET owner == definitions[target].owner
        cast == IF knownValueType(receiver, types) = owner THEN receiver
                ELSE asInstanceOfValue(owner, receiver)
    IN  IF target # "" /\ Len(definitions[target].params) = Len(arguments) + 1
        THEN callValue(localValue(target), <<cast>> \o arguments) ELSE NoValue

\* devirtualizeExactReceiverCall, of a selection or a call of one.
devirtualized(v, st) ==
    LET callee == IF v.k = "Select" THEN v ELSE v.ops[1]
    IN  IF v.k \notin {"Select", "Call"} \/ callee.k # "Select" THEN NoValue
        ELSE directCall(
                 resolveExactFunctionMember(monomorphicReceiverType(callee.ops[1], st), callee.x),
                 callee.ops[1], IF v.k = "Select" THEN <<>> ELSE Tail(v.ops), st.types)

-----------------------------------------------------------------------------
(* Inlining. *)

\* substituteInlineParameters
RECURSIVE substitute(_, _)
substitute(v, replacements) ==
    IF v.k = "Local" THEN IF v.x \in DOMAIN replacements THEN replacements[v.x] ELSE v
    ELSE [v EXCEPT !.ops = <<>> \o [j \in DOMAIN @ |-> substitute(@[j], replacements)]]

(***************************************************************************)
(* inlineableReturnSummary: the returned value of a function that is       *)
(* parameters, pure lets over them, and a return of a pure value.          *)
(***************************************************************************)
summary(name) ==
    LET body == definitions[name].body
        params == ToSet(definitions[name].params)
        step(st, ins) ==
            IF ~ st.ok \/ ins.kind = "Param" THEN st
            ELSE LET v == substitute(ins.value, st.vals)
                 IN  [ok   |-> /\ ins.kind \in {"Let", "Return"} /\ isPureLetValue(v)
                               /\ localNames(v) \subseteq params,
                      vals |-> With(st.vals, ins.name, v),
                      v    |-> IF ins.kind = "Return" THEN v ELSE NoValue]
        walked == fold(step, [ok |-> TRUE, vals |-> <<>>, v |-> NoValue], body)
    IN  IF KindOf(name) # "FunctionDef" \/ ~ walked.ok THEN NoValue ELSE walked.v

inlineableReturnSummaries ==
    table([name \in {n \in DOMAIN definitions : definitions[n].kind = "FunctionDef"} |-> summary(name)])

summaryOf(name) == IF name \in DOMAIN summaries THEN summaries[name] ELSE NoValue

\* A method of a class or trait is inlined only for a receiver proven non-null.
requiresNonNullReceiverForInlining(name) == KindOf(definitions[name].owner) \in {"Class", "Trait"}

fieldless(type) == \A c \in ToSet(linearizedTypeNames(type)) : fieldsOwnedBy(c) = {}

\* isSimplePureInitializerAllocationDiscardable
pureInitializer(new) ==
    /\ hasInitializer(new.t) /\ isSimpleInitializer(new.t) /\ Some(initialized(new))

(***************************************************************************)
(* isUnusedAllocationDiscardable: a new array or object whose arguments,   *)
(* storage and initializer have no effect.                                 *)
(***************************************************************************)
RECURSIVE isUnusedAllocationDiscardable(_)
isUnusedAllocationDiscardable(v) ==
    /\ v.k = "New"
    /\ \A j \in DOMAIN v.ops : isPureLetValue(v.ops[j]) \/ isUnusedAllocationDiscardable(v.ops[j])
    /\ \/ v.t = Array
       \/ /\ KindOf(v.t) = "Class"
          /\ Len(v.ops) \in {Len(constructorFields(v.t)), Len(fieldSnapshots[v.t])}
          /\ IF \E c \in ToSet(linearizedTypeNames(v.t)) : hasInitializer(c)
             THEN pureInitializer(v)
             ELSE fieldless(v.t) \/ hasOnlyFoldableDirectConstructorFieldStorage(v.t)

(***************************************************************************)
(* inlineCallValue: an argument that is not pure must be forwarded as the  *)
(* result, or be an allocation nobody misses.                              *)
(***************************************************************************)
inlineCallValue(v, vals) ==
    LET name == v.ops[1].x
        inlined == summaryOf(name)
        params == definitions[name].params
        at(p) == v.ops[(CHOOSE j \in DOMAIN params : params[j] = p) + 1]
        used(p) == collectVisibleUses(inlined, p) # 0
        movable(p) == \/ isPureLetValue(at(p))
                      \/ inlined = localValue(p)
                      \/ ~ used(p) /\ isUnusedAllocationDiscardable(at(p))
    IN  IF \/ v.k # "Call" \/ v.ops[1].k # "Local" \/ ~ Some(summaryOf(v.ops[1].x))
           \/ Len(v.ops) # Len(params) + 1
           \/ /\ requiresNonNullReceiverForInlining(name)
              /\ params = <<>> \/ ~ isProvenNonNullReferenceValue(v.ops[2], vals)
           \/ \E p \in ToSet(params) : ~ movable(p)
        THEN NoValue
        ELSE substitute(inlined, table([p \in ToSet(params) |-> at(p)]))

-----------------------------------------------------------------------------
(* Tests and casts. *)

\* exactEvaluatedBoxInstanceOfResult and exactNewInstanceOfResult, as a literal.
instanceOfExact(v, type) ==
    CASE isExactEvaluatedBoxValue(v) ->
           IF type \in {v.x, "Object"} THEN booleanLiteral(TRUE)
           ELSE fact(type \in BoxedAbiTypes, FALSE)
      [] isArrayNew(v) -> fact(type = "Object", TRUE)
      [] isObjectNew(v) /\ isClassLike(v.t) ->
           fact(type = "Object" \/ isClassLike(type), knownReferenceTypeConformsTo(v.t, type))
      [] OTHER -> NoValue

\* A new object or a box that is not pure is still evaluated.
foldIsInstanceOf(type, operand, vals) ==
    LET exact == exactImmutableValue(operand, vals)
        result == instanceOfExact(operand, type)
        decided == \/ isPureBox(operand) /\ type = "Object"
                   \/ isExactEvaluatedBoxValue(operand) /\ type \in BoxedAbiTypes
    IN  first(<<fact(isNullLiteral(operand), FALSE),
                when(decided, result),
                when(Some(result), effects(<<operand>>, result)),
                when(operand.k = "Local", instanceOfExact(exact, type))>>)

foldUnbox(type, operand, vals) ==
    LET exact == exactImmutableValue(operand, vals)
    IN  IF operand.k = "Box" /\ operand.x = type THEN operand.ops[1]
        ELSE IF isPureBox(exact) /\ exact.x = type THEN exact.ops[1] ELSE NoValue

foldAsInstanceOf(type, operand, st) ==
    LET known == knownValueType(operand, st.types)
    IN  first(<<when(isNullLiteral(operand), literalValue("null", type)),
                when(\/ type = "Object" /\ isExactPureNonNullReferenceValue(operand, st.vals)
                     \/ operand.k = "AsInstanceOf" /\ operand.x = type
                     \/ known = type \/ knownReferenceTypeConformsTo(known, type),
                     operand)>>)

-----------------------------------------------------------------------------
(* The walk. *)

(***************************************************************************)
(* Operands that are not folded on their own: the target of an assignment  *)
(* and a callee that is a name or a member.                                *)
(***************************************************************************)
isSkipped(v, j) ==
    j = 1 /\ (v.k = "Assign" \/ (v.k = "Call" /\ v.ops[1].k \in {"Local", "Select"}))

foldLocal(v, st, names) ==
    LET known == IF v.x \in DOMAIN st.vals THEN st.vals[v.x] ELSE NoValue
        typedNull == isNullLiteral(known) /\ v.x \in DOMAIN st.types /\ st.types[v.x] # "Null"
        inlined == IF v.x \in names THEN NoValue ELSE summaryOf(v.x)
    IN  IF isLiteralLikePropagatableValue(known) THEN when(~ typedNull, known)
        ELSE when(Some(inlined) /\ definitions[v.x].params = <<>>, inlined)

\* The rules of the kinds that need no further folding of their result.
foldKind(v, st, names) ==
    CASE v.k = "Call"         -> foldRuntimeCall(v, st, names)
      [] v.k = "Binary"       -> foldBinary(v, st)
      [] v.k = "Unary"        -> Rules!foldUnary(v.x, v.ops[1], st.types)
      [] v.k = "If"           -> Rules!foldIf(v.ops[1], v.ops[2], v.ops[3], st.types)
      [] v.k = "While"        -> when(IsFalse(v.ops[1]), unitValue)
      [] v.k = "IsInstanceOf" -> foldIsInstanceOf(v.x, v.ops[1], st.vals)
      [] v.k = "Unbox"        -> foldUnbox(v.x, v.ops[1], st.vals)
      [] v.k = "AsInstanceOf" -> foldAsInstanceOf(v.x, v.ops[1], st)
      [] OTHER -> NoValue

\* The state after an operand of a block has been folded to v.
afterOperand(v, st) ==
    CASE v.k = "LocalLet" -> bindLet(invalidated(v.ops[1], st), v.x, v.t, v.ops[1])
      [] v.k = "LocalVar" -> bindVar(invalidated(v.ops[1], st), v.x, v.t, v.ops[1])
      [] OTHER            -> invalidated(v, st)

(***************************************************************************)
(* foldValue.  A block is walked with its own copy of the state; every     *)
(* other value has all its operands folded with the state before it.       *)
(***************************************************************************)
RECURSIVE foldValue(_, _, _)
foldValue(v, st, names) ==
    LET step(walk, operand) ==
            LET new == IF IsBinding(operand)
                       THEN [operand EXCEPT !.ops[1] = foldValue(@, walk.st, walk.names)]
                       ELSE foldValue(operand, walk.st, walk.names)
            IN  [ops   |-> Append(walk.ops, new),
                 st    |-> afterOperand(new, walk.st),
                 names |-> IF IsBinding(operand) THEN walk.names \cup {operand.x} ELSE walk.names]
        block == fold(step, [ops |-> <<>>, st |-> st, names |-> names], v.ops)
        inner == [v EXCEPT !.ops = <<>> \o [j \in DOMAIN v.ops |->
                     IF isSkipped(v, j) THEN v.ops[j] ELSE foldValue(v.ops[j], st, names)]]
        again(new) == IF Some(new) THEN foldValue(new, st, names) ELSE NoValue
        rewritten(u) ==
            first(<<foldExactConstructorFieldSelect(u, st, names),
                    again(first(<<devirtualized(u, st), inlineCallValue(u, st.vals)>>)),
                    foldKind(u, st, names), u>>)
    IN  CASE v.k = "Catch" ->
               [v EXCEPT !.ops[2] =
                   foldValue(@, bindParam(st, v.ops[1].x, v.ops[1].t), names \cup {v.ops[1].x})]
          [] v.k = "Block" -> [v EXCEPT !.ops = block.ops]
          [] v.k = "Local" ->
               orElse(IF v.x \in DOMAIN st.vals THEN foldLocal(v, st, names)
                      ELSE again(foldLocal(v, st, names)), v)
          [] OTHER -> rewritten(inner)

\* foldConstants: one round over the instructions of a body.
foldConstants(body) ==
    LET walked(walk, new) ==
            [body  |-> Append(walk.body, new),
             st    |-> afterInstruction(new, walk.st),
             names |-> IF new.name = "" THEN walk.names ELSE walk.names \cup {new.name}]
        step(walk, ins) ==
            walked(walk, IF ins.kind = "Param" THEN ins
                         ELSE [ins EXCEPT !.value = foldValue(@, walk.st, walk.names)])
    IN  fold(step, [body |-> <<>>, st |-> NoLocals, names |-> {}], body).body

==============================================================================
