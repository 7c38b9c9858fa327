------------------------------- MODULE Simplify -------------------------------
(***************************************************************************)
(* The simplification of blocks and of the instructions of a body          *)
(* (simplifyBlocks, tools/interflow): vars never assigned become lets,     *)
(* unused results go, nested blocks are spliced, a binding with one use is *)
(* put in its place.                                                       *)
(***************************************************************************)
EXTENDS Cleanup

after(operands, j) == SubSeq(operands, j + 1, Len(operands))

hasVisibleAssignmentAfter(operands, j) ==
    hasVisibleAssignmentToLocal(blockValue(after(operands, j)), operands[j].x)

promoteUnassignedLocalVarsInBlock(operands) ==
    <<>> \o [j \in DOMAIN operands |->
        IF operands[j].k = "LocalVar" /\ ~ hasVisibleAssignmentAfter(operands, j)
        THEN [operands[j] EXCEPT !.k = "LocalLet"] ELSE operands[j]]

\* The results of operands that are not the last are not used.
discardUnused(operands) ==
    IF operands = <<>> THEN <<>>
    ELSE LET front == each(Front(operands), discardUnusedValueResult)
         IN  Append(SelectSeq(front, LAMBDA v : IsBinding(v) \/ ~ isTriviallyDiscardableValue(v)),
                    Last(operands))

\* A binding in the last place leaves its effect.
RECURSIVE withoutLastBinding(_)
withoutLastBinding(operands) ==
    IF operands = <<>> \/ ~ IsBinding(Last(operands)) THEN operands
    ELSE withoutLastBinding(Append(Front(operands), effectOnlyUnitValue(Last(operands).ops[1])))

\* One nested block is spliced: a last one always, another one when it binds nothing.
splice(operands) ==
    LET n == Len(operands)
        nested == {j \in DOMAIN operands :
                     /\ operands[j].k = "Block"
                     /\ j < n => \A l \in DOMAIN operands[j].ops : ~ IsBinding(operands[j].ops[l])}
        j == least(nested)
    IN  IF nested = {} THEN operands
        ELSE SubSeq(operands, 1, j - 1) \o operands[j].ops \o after(operands, j)

\* operands[l] with operands[j] in the place of its use, and without operands[j].
moved(operands, j, l) ==
    removeAt([operands EXCEPT ![l] = replaceLocalUse(@, operands[j].x, operands[j].ops[1])], j)

\* Fault: the next binding may use the let more than once.
inlineAdjacentOnceOrMore(operands) ==
    LET movable == {j \in 1..(Len(operands) - 1) :
                      LET next == operands[j + 1]
                      IN  /\ operands[j].k = "LocalLet" /\ isPureLetValue(operands[j].ops[1])
                          /\ IsBinding(next) /\ isPureLetValue(next.ops[1])
                          /\ collectVisibleUses(next.ops[1], operands[j].x) >= 1}
    IN  IF movable = {} THEN operands ELSE moved(operands, least(movable), least(movable) + 1)

\* A pure let whose only use in the next binding is replaced; uses after that binding do not count.
inlineAdjacent(operands) ==
    LET movable == {j \in 1..(Len(operands) - 1) :
                      LET next == operands[j + 1]
                      IN  /\ operands[j].k = "LocalLet" /\ isPureLetValue(operands[j].ops[1])
                          /\ IsBinding(next) /\ isPureLetValue(next.ops[1])
                          /\ collectVisibleUses(next.ops[1], operands[j].x) = 1}
    IN  IF movable = {} THEN operands ELSE moved(operands, least(movable), least(movable) + 1)

(***************************************************************************)
(* A let of literals whose one use is replaced.  Literals include their    *)
(* quotients, so what moves may throw.                                     *)
(***************************************************************************)
inlineLiteralIntoOnlyUse(operands) ==
    LET later(j) == after(operands, j)
        movable == {j \in 1..(Len(operands) - 1) :
                      /\ operands[j].k = "LocalLet"
                      /\ isLiteralLikePropagatableValue(operands[j].ops[1])
                      /\ collectVisibleUsesInBlock(later(j), operands[j].x) = 1
                      /\ ~ hasVisibleAssignmentAfter(operands, j)}
        j == least(movable)
        use == least({l \in (j + 1)..Len(operands) : collectVisibleUses(operands[l], operands[j].x) = 1})
    IN  IF movable = {} THEN operands ELSE moved(operands, j, use)

\* What is left of a block of two operands.
collapsed(v) ==
    LET binding == v.ops[1]
        result == v.ops[2]
    IN  IF Len(v.ops) # 2 \/ ~ IsBinding(v.ops[1]) THEN v
        ELSE IF /\ binding.k = "LocalLet" /\ isPureLetValue(binding.ops[1])
                /\ isPureLetValue(result) /\ collectVisibleUses(result, binding.x) = 1
        THEN replaceLocalUse(result, binding.x, binding.ops[1])
        ELSE IF /\ result.k = "Local" /\ result.x = binding.x
                /\ isPureLetValue(binding.ops[1])
        THEN binding.ops[1] ELSE v

RECURSIVE simplifyBlocksInValue(_)
simplifyBlocksInValue(v) ==
    LET inner == each(v.ops, simplifyBlocksInValue)
        flat == fixpoint(splice, withoutLastBinding(discardUnused(promoteUnassignedLocalVarsInBlock(inner))))
        operands == fixpoint(inlineLiteralIntoOnlyUse, fixpoint(inlineAdjacent, flat))
    IN  CASE v.k = "While" /\ ~ isUnitResultValue(inner[2]) ->
               [v EXCEPT !.t = "Unit", !.ops = <<inner[1], effectOnlyUnitValue(inner[2])>>]
          [] v.k = "Block" -> collapsed(normalizeSimplifiedBlock([v EXCEPT !.ops = operands]))
          [] OTHER -> [v EXCEPT !.ops = inner]

-----------------------------------------------------------------------------
(* The instructions of a body; its names are distinct, so nothing hides a use. *)

usesAfter(body, j) == localUsesIn(instructionsAfter(body, j), body[j].name)

assignedAfter(body, j) ==
    \E l \in (j + 1)..Len(body) : hasVisibleAssignmentToLocal(body[l].value, body[j].name)

promoteUnassignedTopLevelVars(body) ==
    <<>> \o [j \in DOMAIN body |-> IF body[j].kind = "Var" /\ ~ assignedAfter(body, j)
                                    THEN [body[j] EXCEPT !.kind = "Let"] ELSE body[j]]

immutableBefore(body, j) ==
    {body[l].name : l \in {l \in 1..(j - 1) : body[l].kind \in {"Param", "Let"}}}

\* The binding stays; without a use it goes with the dead ones.
inlineAdjacentSingleUseTopLevelLets(body) ==
    LET movable == {j \in 1..(Len(body) - 1) :
            LET bound == body[j].value
                next == body[j + 1].value
            IN  /\ body[j].kind = "Let" /\ isPureLetValue(bound) /\ isPureLetValue(next)
                /\ usesAfter(body, j) = 1 /\ collectVisibleUses(next, body[j].name) = 1
                /\ ~ assignedAfter(body, j)
                /\ localNames(bound) \subseteq immutableBefore(body, j)
                /\ ~ containsLocalBindingForAnyName(next, localNames(bound))}
        j == least(movable)
    IN  IF movable = {} THEN body
        ELSE [body EXCEPT ![j + 1].value = replaceLocalUse(@, body[j].name, body[j].value)]

inlineSingleUseLiteralLikeTopLevelLets(body) ==
    LET movable == {j \in 1..(Len(body) - 1) :
                      /\ body[j].kind = "Let" /\ isLiteralLikePropagatableValue(body[j].value)
                      /\ usesAfter(body, j) = 1 /\ ~ assignedAfter(body, j)}
        j == least(movable)
        use == least({l \in (j + 1)..Len(body) : collectVisibleUses(body[l].value, body[j].name) = 1})
    IN  IF movable = {} THEN body
        ELSE [body EXCEPT ![use].value = replaceLocalUse(@, body[j].name, body[j].value)]

removeDeadPureTopLevelInstructions(body) ==
    removeDeadInstructions(body, discardUnusedValueResult,
        LAMBDA ins, j : isTriviallyDiscardableValue(ins[j].value))

simplifyBlocks(body) ==
    LET simple == each(body, LAMBDA ins : [ins EXCEPT !.value = simplifyBlocksInValue(@)])
        adjacent == fixpoint(inlineAdjacentSingleUseTopLevelLets, promoteUnassignedTopLevelVars(simple))
        literal == fixpoint(inlineSingleUseLiteralLikeTopLevelLets, adjacent)
    IN  fixpoint(removeDeadPureTopLevelInstructions, literal)

==============================================================================
