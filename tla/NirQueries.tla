------------------------------ MODULE NirQueries ------------------------------
(***************************************************************************)
(* The questions the passes ask of a whole value: its type, its effects,   *)
(* the locals it uses (tools/interflow).                                   *)
(***************************************************************************)
EXTENDS Nir

RECURSIVE localNames(_)
localNames(v) ==
    (IF v.k = "Local" THEN {v.x} ELSE {}) \cup UNION {localNames(v.ops[j]) : j \in DOMAIN v.ops}

\* types maps the locals in scope to the types known for them.
RECURSIVE knownValueType(_, _)
knownValueType(v, types) ==
    LET operand == IF v.ops = <<>> THEN "Unknown" ELSE knownValueType(v.ops[1], types)
    IN  IF v.t # "" THEN v.t
        ELSE CASE v.k = "Local"  -> IF v.x \in DOMAIN types THEN types[v.x] ELSE "Unknown"
               [] v.k = "Unary"  -> IF v.x = "!" THEN "Boolean" ELSE operand
               [] v.k = "Binary" -> IF v.x \in Comparisons \cup Logical THEN "Boolean" ELSE operand
               [] v.k = "ZoneScoped" -> operand
               [] v.k = "If" ->
                    LET then == knownValueType(v.ops[2], types)
                        else == knownValueType(v.ops[3], types)
                    IN  IF then = "Nothing" THEN else
                        ELSE IF else = "Nothing" \/ then = else THEN then ELSE "Unknown"
               [] v.k = "Block"  ->
                    IF v.ops = <<>> THEN "Unit" ELSE knownValueType(Last(v.ops), types)
               [] OTHER -> "Unknown"

\* Fault: any operation on pure operands is pure.
RECURSIVE isPureIfOperandsAre(_)
isPureIfOperandsAre(v) ==
    \/ v.k \in {"Unit", "Local", "Literal"}
    \/ /\ v.k \in {"Unary", "Binary", "If", "IsInstanceOf", "Box"}
       /\ \A j \in DOMAIN v.ops : isPureIfOperandsAre(v.ops[j])

(***************************************************************************)
(* A Local is taken for pure, whatever it names; a division is not, as it  *)
(* may throw.                                                              *)
(***************************************************************************)
RECURSIVE isPureLetValue(_)
isPureLetValue(v) ==
    \/ v.k \in {"Unit", "Local", "Literal"}
    \/ /\ v.k \in {"Unary", "Binary", "If", "IsInstanceOf", "Box"}
       /\ v.k = "Binary" => v.x \notin {"/", "%"}
       /\ \A j \in DOMAIN v.ops : isPureLetValue(v.ops[j])

\* isTriviallyDiscardableValue distinguishes the same values.
isTriviallyDiscardableValue(v) == isPureLetValue(v)

RECURSIVE isLiteralLikePropagatableValue(_)
isLiteralLikePropagatableValue(v) ==
    \/ v.k \in {"Literal", "Unit"}
    \/ /\ v.k \in {"Unary", "Binary", "If"}
       /\ \A j \in DOMAIN v.ops : isLiteralLikePropagatableValue(v.ops[j])
    \/ v.k \in {"AsInstanceOf", "IsInstanceOf"} /\ isNullLiteral(v.ops[1])

\* immutable: the names of the lets and parameters in scope.
isPropagatableValue(v, immutable) ==
    isLiteralLikePropagatableValue(v) \/ (v.k = "Local" /\ v.x \in immutable)

blockResultType(operands) ==
    IF operands = <<>> \/ IsBinding(Last(operands)) THEN "Unit" ELSE Last(operands).t

-----------------------------------------------------------------------------
(* Uses of a local: a binding of the same name in a block hides what follows. *)

\* The operands of a block before (and with) the first binding of name.
visible(operands, name) ==
    LET hides == {j \in DOMAIN operands : IsBinding(operands[j]) /\ operands[j].x = name}
    IN  IF hides = {} THEN operands
        ELSE SubSeq(operands, 1, CHOOSE j \in hides : \A l \in hides : j <= l)

RECURSIVE collectVisibleUses(_, _)
collectVisibleUses(v, name) ==
    IF v.k = "Local" THEN IF v.x = name THEN 1 ELSE 0
    ELSE LET seen == IF v.k = "Block" THEN visible(v.ops, name) ELSE v.ops
         IN  fold(LAMBDA n, operand : n + collectVisibleUses(operand, name), 0, seen)

collectVisibleUsesInBlock(operands, name) == collectVisibleUses(blockValue(operands), name)

\* The uses of name by the instructions of a body.
localUsesIn(instructions, name) ==
    fold(LAMBDA n, ins : n + collectVisibleUses(ins.value, name), 0, instructions)

\* Whether a visible assignment to name stands in the value.
RECURSIVE hasVisibleAssignmentToLocal(_, _)
hasVisibleAssignmentToLocal(v, name) ==
    \/ v.k = "Assign" /\ v.ops[1].k = "Local" /\ v.ops[1].x = name
    \/ LET seen == IF v.k = "Block" THEN visible(v.ops, name) ELSE v.ops
       IN  \E j \in DOMAIN seen : hasVisibleAssignmentToLocal(seen[j], name)

RECURSIVE containsLocalBindingForAnyName(_, _)
containsLocalBindingForAnyName(v, names) ==
    \/ IsBinding(v) /\ v.x \in names
    \/ \E j \in DOMAIN v.ops : containsLocalBindingForAnyName(v.ops[j], names)

(***************************************************************************)
(* replaceLocalUse: the first use of name that the walk reaches becomes    *)
(* the replacement.                                                        *)
(***************************************************************************)
RECURSIVE replaceLocalUse(_, _, _)
replaceLocalUse(v, name, replacement) ==
    IF v.k = "Local" THEN IF v.x = name THEN replacement ELSE v
    ELSE LET seen  == IF v.k = "Block" THEN visible(v.ops, name) ELSE v.ops
             using == {j \in DOMAIN seen : collectVisibleUses(seen[j], name) > 0}
         IN  IF using = {} THEN v
             ELSE LET j == CHOOSE j \in using : \A l \in using : j <= l
                  IN  [v EXCEPT !.ops[j] = replaceLocalUse(v.ops[j], name, replacement)]

==============================================================================
