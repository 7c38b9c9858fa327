------------------------------- MODULE Cleanup -------------------------------
(***************************************************************************)
(* The passes of the optimizer around folding (tools/interflow): the       *)
(* propagation of constants and copies, the elimination of dead bindings,  *)
(* allocations and updates, and the simplification of blocks.              *)
(***************************************************************************)
EXTENDS FoldValue

\* f applied until nothing changes.
RECURSIVE fixpoint(_, _)
fixpoint(f(_), v) == LET new == f(v) IN IF new = v THEN v ELSE fixpoint(f, new)

least(S) == CHOOSE j \in S : \A l \in S : j <= l

removeAt(s, j) == SubSeq(s, 1, j - 1) \o SubSeq(s, j + 1, Len(s))

-----------------------------------------------------------------------------
(* Propagation. *)

\* constants maps lets to literals and to other immutable locals.
isTypedNull(v, type) == isNullLiteral(v) /\ type \notin {"", "Null", "Unknown"}

propagatable(v, type, immutable) == isPropagatableValue(v, immutable) /\ ~ isTypedNull(v, type)

\* What is known after a binding of name to v; only a let keeps it.
afterBinding(st, kind, name, type, v) ==
    IF kind = "let"
    THEN [constants |-> IF propagatable(v, type, st.immutable)
                        THEN With(st.constants, name, v) ELSE Without(st.constants, {name}),
          immutable |-> st.immutable \cup {name}]
    ELSE [constants |-> Without(st.constants, {name}), immutable |-> st.immutable \ {name}]

RECURSIVE propagateValue(_, _)
propagateValue(v, st) ==
    LET step(walk, operand) ==
            LET new == propagateValue(operand, walk.st)
                kind == IF operand.k = "LocalLet" THEN "let" ELSE "var"
            IN  [ops |-> Append(walk.ops, new),
                 st  |-> IF IsBinding(operand)
                         THEN afterBinding(walk.st, kind, operand.x, operand.t, new.ops[1])
                         ELSE walk.st]
    IN  CASE v.k = "Local" -> IF v.x \in DOMAIN st.constants THEN st.constants[v.x] ELSE v
          [] v.k = "Block" -> [v EXCEPT !.ops = fold(step, [ops |-> <<>>, st |-> st], @).ops]
          [] OTHER -> [v EXCEPT !.ops = <<>> \o [j \in DOMAIN @ |-> propagateValue(@[j], st)]]

propagateLocalConstants(body) ==
    LET step(walk, ins) ==
            LET new == [ins EXCEPT !.value = propagateValue(@, walk.st)]
            IN  [body |-> Append(walk.body, new),
                 st   |-> CASE ins.kind = "Param" ->
                                 [walk.st EXCEPT !.constants = Without(@, {ins.name}),
                                                 !.immutable = @ \cup {ins.name}]
                            [] ins.kind = "Let" -> afterBinding(walk.st, "let", ins.name, ins.type, new.value)
                            [] ins.kind = "Var" -> afterBinding(walk.st, "var", ins.name, ins.type, new.value)
                            [] OTHER -> walk.st]
    IN  fold(step, [body |-> <<>>, st |-> [constants |-> <<>>, immutable |-> {}]], body).body

-----------------------------------------------------------------------------
(* Values whose result is not used. *)

isUnitResultValue(v) == v.k = "Unit" \/ v.t = "Unit"

normalizeSimplifiedBlock(v) ==
    IF v.ops = <<>> THEN unitValue
    ELSE IF Len(v.ops) = 1 /\ ~ IsBinding(v.ops[1]) THEN v.ops[1]
    ELSE [v EXCEPT !.t = blockResultType(v.ops)]

RECURSIVE withoutBinding(_)
withoutBinding(v) == IF IsBinding(v) THEN withoutBinding(v.ops[1]) ELSE v

RECURSIVE effectOnlyUnitValue(_)
RECURSIVE discardUnusedValueResult(_)
RECURSIVE discardResultOfBlock(_)

\* The value for its effects alone, with the result unit.
effectOnlyUnitValue(v) ==
    LET effect == discardUnusedValueResult(withoutBinding(v))
    IN  IF isTriviallyDiscardableValue(effect) THEN unitValue
        ELSE IF isUnitResultValue(effect) THEN effect
        ELSE effects(IF effect.k = "Block" THEN effect.ops ELSE <<effect>>, unitValue)

\* The operands of a block whose result is not used: trailing results go.
discardResultOfBlock(operands) ==
    IF operands = <<>> THEN <<>>
    ELSE IF IsBinding(Last(operands))
    THEN discardResultOfBlock(Append(Front(operands), Last(operands).ops[1]))
    ELSE LET result == discardUnusedValueResult(Last(operands))
         IN  IF isTriviallyDiscardableValue(result) THEN discardResultOfBlock(Front(operands))
             ELSE Append(Front(operands), result)

discardUnusedValueResult(v) ==
    CASE v.k \in {"Unary", "Box", "IsInstanceOf"} -> discardUnusedValueResult(v.ops[1])
      [] v.k = "If" /\ \A j \in 2..3 : isTriviallyDiscardableValue(v.ops[j]) ->
           discardUnusedValueResult(v.ops[1])
      [] v.k = "If" /\ \E j \in 2..3 : ~ isUnitResultValue(v.ops[j]) ->
           [v EXCEPT !.t = "Unit", !.ops = <<@[1], effectOnlyUnitValue(@[2]), effectOnlyUnitValue(@[3])>>]
      [] v.k = "While" /\ ~ isUnitResultValue(v.ops[2]) ->
           [v EXCEPT !.t = "Unit", !.ops[2] = effectOnlyUnitValue(@)]
      [] v.k = "ZoneScoped" /\ ~ isUnitResultValue(v.ops[1]) ->
           [v EXCEPT !.t = "Unit", !.ops[1] = effectOnlyUnitValue(@)]
      [] v.k = "Binary" /\ v.x \in Logical ->
           LET rhs == effectOnlyUnitValue(v.ops[2])
           IN  discardUnusedValueResult(
                   IF v.x = "&&" THEN ifValue(v.ops[1], rhs, unitValue, "Unit")
                   ELSE ifValue(v.ops[1], unitValue, rhs, "Unit"))
      [] v.k = "Binary" /\ v.x \in Comparisons -> discardUnusedValueResult(blockValue(v.ops))
      [] v.k = "Block" -> normalizeSimplifiedBlock([v EXCEPT !.ops = discardResultOfBlock(@)])
      [] OTHER -> v

\* Values that may go when nothing uses them.
RECURSIVE isUnusedValueDiscardable(_)
isUnusedValueDiscardable(v) ==
    \/ isPureLetValue(v)
    \/ isUnusedAllocationDiscardable(v)
    \/ /\ v.k = "If" /\ isPureLetValue(v.ops[1])
       /\ isUnusedValueDiscardable(v.ops[2]) /\ isUnusedValueDiscardable(v.ops[3])

(***************************************************************************)
(* isUnusedObjectAllocationShellDiscardable: allocating the object has no  *)
(* effect once its arguments are evaluated.                                *)
(***************************************************************************)
isUnusedObjectAllocationShellDiscardable(v) ==
    LET probe == [v EXCEPT !.ops = [j \in DOMAIN @ |-> localValue("$allocation.arg." \o ToString(j))]]
    IN  /\ isObjectNew(v) /\ KindOf(v.t) = "Class"
        /\ Len(v.ops) \in {Len(constructorFields(v.t)), Len(fieldSnapshots[v.t])}
        /\ \/ hasOnlyFoldableDirectConstructorFieldStorage(v.t)
           \/ IF \E c \in ToSet(linearizedTypeNames(v.t)) : hasInitializer(c)
              THEN pureInitializer(probe) ELSE fieldless(v.t)

\* discardUnusedAllocationEffects: an unused allocation leaves the effects of its arguments.
RECURSIVE discardUnusedAllocationEffects(_)
discardUnusedAllocationEffects(v) ==
    LET shell == isArrayNew(v) \/ isUnusedObjectAllocationShellDiscardable(v)
        left == SelectSeq(v.ops, LAMBDA operand : ~ isUnusedValueDiscardable(operand))
        leftEffects == <<>> \o [j \in DOMAIN left |->
                           effectOnlyUnitValue(discardUnusedAllocationEffects(left[j]))]
        branch(u) == IF isUnusedValueDiscardable(u)
                     THEN IF isUnitResultValue(u) THEN u ELSE unitValue
                     ELSE LET rest == discardUnusedAllocationEffects(u)
                          IN  IF isUnitResultValue(rest) THEN rest ELSE effectOnlyUnitValue(rest)
        discardable == {j \in 2..3 : isUnusedValueDiscardable(v.ops[j])}
    IN  CASE shell /\ ~ isUnusedAllocationDiscardable(v) ->
               IF Len(left) = 1 THEN leftEffects[1]
               ELSE IF left = <<>> THEN unitValue ELSE blockValue(leftEffects)
          [] v.k = "If" /\ discardable = 2..3 -> discardUnusedValueResult(v.ops[1])
          [] v.k = "If" /\ Cardinality(discardable) = 1 ->
               [v EXCEPT !.t = "Unit", !.ops = <<@[1], branch(@[2]), branch(@[3])>>]
          [] OTHER -> v

-----------------------------------------------------------------------------
(* Elimination of dead bindings. *)

replaceFirstChanged(operands, left) ==
    LET changed == {j \in DOMAIN operands : left[j] # <<operands[j]>>}
        at == least(changed)
    IN  IF changed = {} THEN operands
        ELSE SubSeq(operands, 1, at - 1) \o left[at] \o SubSeq(operands, at + 1, Len(operands))

\* One change in a block: the first operand that loses its effects' result, its name, or itself.
eliminateOnce(operands) ==
    LET later(j) == SubSeq(operands, j + 1, Len(operands))
        needed(v) == IF isUnusedValueDiscardable(v) THEN <<>> ELSE <<v>>
        left(j) ==
            IF j = Len(operands) THEN <<operands[j]>>
            ELSE IF ~ IsBinding(operands[j]) THEN needed(discardUnusedAllocationEffects(operands[j]))
            ELSE IF collectVisibleUsesInBlock(later(j), operands[j].x) = 0 THEN needed(operands[j].ops[1])
            ELSE <<operands[j]>>
    IN  replaceFirstChanged(operands, <<>> \o [j \in DOMAIN operands |-> left(j)])

RECURSIVE eliminateDeadLocalLetsInValue(_)
eliminateDeadLocalLetsInValue(v) ==
    LET inner == [v EXCEPT !.ops = each(@, eliminateDeadLocalLetsInValue)]
        withOperands(operands) == [v EXCEPT !.ops = operands, !.t = blockResultType(operands)]
    IN  IF v.k = "Block" THEN withOperands(fixpoint(eliminateOnce, inner.ops)) ELSE inner

instructionsAfter(body, index) == SubSeq(body, index + 1, Len(body))

\* An update of an array that no later instruction names.
isRemovableExactArrayUpdateEval(body, index) ==
    LET v == body[index].value
        array == v.ops[2].x
        dead(vals) ==
            /\ exactLocalArrayRootName(v.ops[2], vals) = array
            /\ isUnusedAllocationDiscardable(vals[array])
            /\ knownPosition(v.ops[3], Len(vals[array].ops), vals) # 0
            /\ Some(exactPure(v.ops[4], vals))
    IN  /\ body[index].kind = "Eval" /\ isCallTo(v, arrayUpdate) /\ v.ops[2].k = "Local"
        /\ localUsesIn(instructionsAfter(body, index), array) = 0
        /\ dead(localStateBeforeInstruction(body, index).vals)

hasExactLocalObjectAlias(root, vals) ==
    \E n \in DOMAIN vals \ {root} : exactLocalObjectRootName(localValue(n), vals) = root

\* An assignment to a field of an object that no later instruction names.
isRemovableExactObjectFieldAssignEval(body, index) ==
    LET v == body[index].value
        target == v.ops[1]
        object == target.ops[1].x
        dead(vals) ==
            /\ exactLocalObjectRootName(target.ops[1], vals) = object
            /\ ~ hasExactLocalObjectAlias(object, vals)
            /\ isUnusedAllocationDiscardable(vals[object])
            /\ Some(exactPure(v.ops[2], vals))
    IN  /\ body[index].kind = "Eval" /\ v.k = "Assign"
        /\ target.k = "Select" /\ target.ops[1].k = "Local"
        /\ localUsesIn(instructionsAfter(body, index), object) = 0
        /\ dead(localStateBeforeInstruction(body, index).vals)

isBindingInstruction(ins) == ins.kind \in {"Let", "Var"}

\* One walk over the instructions, with the uses counted before it.
removeDeadInstructions(body, reduce(_), isDead(_, _)) ==
    LET unused(ins) == isBindingInstruction(ins) /\ localUsesIn(body, ins.name) = 0
        reduced == each(body, LAMBDA ins : IF ins.kind = "Eval"
                                           THEN [ins EXCEPT !.value = reduce(@)] ELSE ins)
        step(kept, j) ==
            IF isDead(reduced, j) /\ (unused(body[j]) \/ body[j].kind = "Eval") THEN kept
            ELSE IF unused(body[j]) THEN Append(kept, addEval(body[j].value))
            ELSE Append(kept, reduced[j])
    IN  fold(step, <<>>, [j \in DOMAIN body |-> j])

eliminateRound(body) ==
    removeDeadInstructions(body, discardUnusedAllocationEffects,
        LAMBDA ins, j : \/ isUnusedValueDiscardable(ins[j].value)
                        \/ isRemovableExactArrayUpdateEval(ins, j)
                        \/ isRemovableExactObjectFieldAssignEval(ins, j))

eliminateDeadLocalLets(body) ==
    fixpoint(eliminateRound,
        each(body, LAMBDA ins : [ins EXCEPT !.value = eliminateDeadLocalLetsInValue(@)]))

==============================================================================
