------------------------------ MODULE Snapshots ------------------------------
(***************************************************************************)
(* What the optimizer believes of the contents of objects and arrays       *)
(* (tools/interflow).  A pass walks a body with vals, which maps a local   *)
(* let to the value that was bound to it; for an allocation the operands   *)
(* of that value stand for the fields or elements now, and they are        *)
(* updated or forgotten (unknownValue) at every assignment and call the    *)
(* pass sees.                                                              *)
(***************************************************************************)
EXTENDS NirQueries

VARIABLE fieldSnapshots  \* class -> the fields its snapshots list in order, computed once

arrayApply == "array.apply"
arrayUpdate == "array.update"
arrayLength == "array.length"
anyEquals == "scala.any.equals"
Constructor == "$init"

With(f, name, v) == (name :> v) @@ f
Without(f, names) == table([n \in DOMAIN f \ names |-> f[n]])

-----------------------------------------------------------------------------
(* Following a local through the lets that copy it. *)

\* The last name of the chain of locals from name, or "" when it is not in vals.
RECURSIVE rootName(_, _)
rootName(name, vals) ==
    IF name \notin DOMAIN vals THEN ""
    ELSE IF vals[name].k = "Local" THEN rootName(vals[name].x, vals) ELSE name

\* exactImmutableValue: the value a local stands for, or NoValue.
exactImmutableValue(v, vals) ==
    IF v.k # "Local" THEN v
    ELSE LET root == rootName(v.x, vals) IN IF root = "" THEN NoValue ELSE vals[root]

\* exact...RootName: the local whose recorded value satisfies P, or "".
exactRootName(v, vals, P(_)) ==
    LET root == IF v.k = "Local" THEN rootName(v.x, vals) ELSE ""
    IN  IF root # "" /\ P(vals[root]) THEN root ELSE ""

isArrayNew(v) == v.k = "New" /\ v.t = Array
isObjectNew(v) == v.k = "New" /\ v.t # Array
isExactEvaluatedBoxValue(v) == v.k = "Box" /\ v.x \in BoxedAbiTypes
isExactNonNullReferenceValue(v) == v.k = "New" \/ isExactEvaluatedBoxValue(v)

exactLocalArrayRootName(v, vals) == exactRootName(v, vals, isArrayNew)
exactLocalObjectRootName(v, vals) == exactRootName(v, vals, isObjectNew)
exactImmutableNonNullReferenceRootName(v, vals) ==
    exactRootName(v, vals, isExactNonNullReferenceValue)
exactImmutableFreshNewRootName(v, vals) == exactRootName(v, vals, LAMBDA u : u.k = "New")

isProvenNonNullReferenceValue(v, vals) ==
    isExactNonNullReferenceValue(v) \/ exactImmutableNonNullReferenceRootName(v, vals) # ""

\* The value a local stands for when it can be written in its place.
exactPure(v, vals) ==
    LET exact == exactImmutableValue(v, vals)
    IN  IF Some(exact) /\ isPureLetValue(exact) THEN exact ELSE NoValue

-----------------------------------------------------------------------------
(* Class members, fields and initializers. *)

firstDefined(names) ==
    LET found == SelectSeq(names, IsDefined) IN IF found = <<>> THEN "" ELSE Head(found)

\* The first definition of the member along the linearization.
resolveMember(type, member) ==
    IF ~ isClassLike(type) THEN ""
    ELSE firstDefined([j \in DOMAIN linearized[type] |-> memberOf(linearized[type][j], member)])

ofKind(name, kinds) == IF KindOf(name) \in kinds THEN name ELSE ""

resolveExactFunctionMember(type, member) ==
    ofKind(resolveMember(type, member), {"FunctionDef", "FunctionDecl"})

resolveExactFieldMember(type, member) == ofKind(resolveMember(type, member), {"Field"})

\* The field an initializer's assignment writes through `this', or "".
resolveInitializerTargetField(target, type) ==
    IF target.k = "Select" /\ target.ops[1].k = "Local" /\ target.ops[1].x = "this"
    THEN resolveExactFieldMember(type, target.x)
    ELSE ""

isUnitReturn(ins) == ins.kind = "Return" /\ ins.type = "Unit" /\ ins.value.k = "Unit"

initializerBody(type) == definitions[memberOf(type, Constructor)].body
hasInitializer(type) == IsDefined(memberOf(type, Constructor))
isFieldAssignment(ins, type) ==
    /\ ins.kind = "Eval" /\ ins.value.k = "Assign"
    /\ resolveInitializerTargetField(ins.value.ops[1], type) # ""

\* An initializer that only assigns fields between its parameter and its return.
isSimpleInitializer(type) ==
    LET body == initializerBody(type)
    IN  /\ Len(body) >= 2 /\ body[1].kind = "Param" /\ isUnitReturn(Last(body))
        /\ \A j \in 2..(Len(body) - 1) : isFieldAssignment(body[j], type)

initializerAssignments(type) ==
    IF hasInitializer(type) THEN SelectSeq(initializerBody(type), LAMBDA ins : ins.kind = "Eval")
    ELSE <<>>

\* fieldSnapshotMapFor: the constructor fields, then what a simple initializer assigns.
fieldSnapshotMap ==
    LET add(fields, f) == IF Contains(fields, f) THEN fields ELSE Append(fields, f)
        assigned(type) ==
            each(initializerAssignments(type),
                 LAMBDA ins : resolveInitializerTargetField(ins.value.ops[1], type))
    IN  table([c \in DOMAIN linearized |->
            IF definitions[c].kind = "Class" /\ hasInitializer(c) /\ isSimpleInitializer(c)
            THEN fold(add, constructorFields(c), assigned(c))
            ELSE constructorFields(c)])

position(name, names) ==
    IF Contains(names, name) THEN CHOOSE j \in DOMAIN names : names[j] = name ELSE 0

\* The position of a field in the snapshots of a class, 0 when it has none.
fieldSnapshotIndex(type, member) ==
    IF isClassLike(type) THEN position(resolveExactFieldMember(type, member), fieldSnapshots[type]) ELSE 0

contentOr(object, at, other) ==
    IF at \in DOMAIN object.ops /\ isPureLetValue(object.ops[at]) THEN object.ops[at] ELSE other

\* substituteExactSnapshotFields: the reads of this.f become what the object holds in f.
RECURSIVE substituteExactSnapshotFields(_, _)
substituteExactSnapshotFields(v, object) ==
    LET inner == [v EXCEPT !.ops = <<>> \o [j \in DOMAIN @ |-> substituteExactSnapshotFields(@[j], object)]]
    IN  IF v.k = "Select" /\ v.ops[1].k = "Local" /\ v.ops[1].x = "this"
        THEN contentOr(object, fieldSnapshotIndex(object.t, v.x), inner) ELSE inner

(***************************************************************************)
(* extendExactNewFieldSnapshot: the snapshot of a new object after its     *)
(* initializer, when every assigned value is pure and uses only the locals *)
(* of the arguments; otherwise the arguments alone.                        *)
(***************************************************************************)
initialized(new) ==
    LET allowed == UNION {localNames(new.ops[j]) : j \in DOMAIN new.ops}
        padded(operands, n) == operands \o [j \in 1..(n - Len(operands)) |-> unknownValue]
        stored(object, at, assigned) ==
            IF isPureLetValue(assigned) /\ localNames(assigned) \subseteq allowed
            THEN [object EXCEPT !.ops = [padded(@, at) EXCEPT ![at] = assigned]]
            ELSE NoValue
        step(object, ins) ==
            IF ~ Some(object) THEN NoValue
            ELSE stored(object, fieldSnapshotIndex(new.t, ins.value.ops[1].x),
                        substituteExactSnapshotFields(ins.value.ops[2], object))
    IN  fold(step, new, initializerAssignments(new.t))

orElse(v, other) == IF Some(v) THEN v ELSE other

extendExactNewFieldSnapshot(v) ==
    IF /\ isObjectNew(v) /\ isClassLike(v.t)
       /\ Len(v.ops) = Len(constructorFields(v.t))
       /\ Len(fieldSnapshots[v.t]) > Len(v.ops)
    THEN orElse(initialized(v), v) ELSE v

-----------------------------------------------------------------------------
(* Forgetting and updating snapshots. *)

forgetContents(v) == [v EXCEPT !.ops = each(@, LAMBDA u : unknownValue)]

forgetRoots(vals, roots) ==
    table([n \in DOMAIN vals |-> IF n \in roots THEN forgetContents(vals[n]) ELSE vals[n]])

forgetAllArrayLocalContents(vals) == forgetRoots(vals, {n \in DOMAIN vals : isArrayNew(vals[n])})

\* exactLocalObjectRootNamesInValue: the objects a value reaches through recorded fields.
RECURSIVE objectRoots(_, _, _)
objectRoots(v, vals, seen) ==
    IF v.k # "Local" THEN UNION {objectRoots(v.ops[j], vals, seen) : j \in DOMAIN v.ops}
    ELSE LET root == exactLocalObjectRootName(v, vals)
             fields == IF root = "" THEN <<>> ELSE vals[root].ops
         IN  IF v.x \in seen THEN {}
             ELSE IF root # ""
             THEN {root} \cup UNION {objectRoots(fields[j], vals, seen \cup {v.x, root}) :
                                        j \in DOMAIN fields}
             ELSE IF v.x \in DOMAIN vals THEN objectRoots(vals[v.x], vals, seen \cup {v.x}) ELSE {}

rootsIn(v, vals) == objectRoots(v, vals, {})

isKnownArrayValue(v, types, vals) ==
    \/ isArrayNew(v)
    \/ v.k = "Local" /\ Some(exactImmutableValue(v, vals))
    \/ knownValueType(v, types) = Array

isCallTo(v, target) == v.k = "Call" /\ v.ops[1].k = "Local" /\ v.ops[1].x = target

\* updateExactArrayLocalValue: the element known to be written, or everything forgotten.
updateArray(vals, root, index, assigned) ==
    LET at == exactImmutableValue(index, vals)
        new == exactPure(assigned, vals)
    IN  IF IsInteger(at) /\ at.i \in 0..(Len(vals[root].ops) - 1) /\ Some(new)
        THEN [vals EXCEPT ![root].ops[at.i + 1] = new]
        ELSE forgetRoots(vals, {root})

\* invalidateArrayLocalValuesAfterPotentialMutation: operands first, then the value.
RECURSIVE arraysAfter(_, _, _)
arraysAfter(v, types, vals) ==
    LET inner == fold(LAMBDA m, operand : arraysAfter(operand, types, m), vals, v.ops)
        root == exactLocalArrayRootName(v.ops[2], inner)
    IN  IF v.k # "Call" \/ v.ops[1].k # "Local" THEN inner
        ELSE IF v.ops[1].x = arrayUpdate
        THEN IF root # "" THEN updateArray(inner, root, v.ops[3], v.ops[4])
             ELSE IF isKnownArrayValue(v.ops[2], types, inner)
                  THEN forgetAllArrayLocalContents(inner) ELSE inner
        ELSE IF /\ v.ops[1].x \notin {arrayApply, arrayLength}
                /\ \E j \in 2..Len(v.ops) : isKnownArrayValue(v.ops[j], types, inner)
             THEN forgetAllArrayLocalContents(inner) ELSE inner

\* updateExactObjectFieldLocalValue, for an assignment through the object at root.
updateField(vals, root, member, assigned) ==
    LET at == fieldSnapshotIndex(vals[root].t, member)
        new == exactPure(assigned, vals)
    IN  IF at \in DOMAIN vals[root].ops
        THEN [vals EXCEPT ![root].ops[at] = IF Some(new) THEN new ELSE unknownValue]
        ELSE forgetRoots(vals, {root})

\* Fault: a call is taken to change the objects it is given, but not those they hold.
RECURSIVE objectsAfterShallowCalls(_, _)
objectsAfterShallowCalls(v, vals) ==
    LET inner == fold(LAMBDA m, operand : objectsAfterShallowCalls(operand, m), vals, v.ops)
        assigned == rootsIn(v.ops[2], inner)
        root == IF v.ops[1].k = "Select" THEN exactLocalObjectRootName(v.ops[1].ops[1], inner) ELSE ""
    IN  IF v.k = "Assign"
        THEN IF root # "" THEN forgetRoots(updateField(inner, root, v.ops[1].x, v.ops[2]), assigned)
             ELSE forgetRoots(inner, assigned \cup rootsIn(v.ops[1], inner))
        ELSE IF v.k = "Call" THEN forgetRoots(inner, {exactLocalObjectRootName(v.ops[j], inner) : j \in DOMAIN v.ops})
        ELSE inner

(***************************************************************************)
(* invalidateObjectFieldLocalValuesAfterPotentialMutation: an assignment   *)
(* updates the field it is known to write and forgets every object that    *)
(* becomes reachable from elsewhere; a call forgets all it can reach.      *)
(***************************************************************************)
RECURSIVE objectsAfter(_, _)
objectsAfter(v, vals) ==
    LET inner == fold(LAMBDA m, operand : objectsAfter(operand, m), vals, v.ops)
        target == v.ops[1]
        assigned == rootsIn(v.ops[2], inner)
        root == IF target.k = "Select" THEN exactLocalObjectRootName(target.ops[1], inner) ELSE ""
    IN  IF v.k = "Assign"
        THEN IF root # "" THEN forgetRoots(updateField(inner, root, target.x, v.ops[2]), assigned)
             ELSE forgetRoots(inner, assigned \cup rootsIn(target, inner))
        ELSE IF v.k = "Call" THEN forgetRoots(inner, rootsIn(v, inner)) ELSE inner

-----------------------------------------------------------------------------
(* The walk over a body: st has types and vals. *)

NoLocals == [types |-> <<>>, vals |-> <<>>]

\* The snapshots after the value is evaluated.
invalidated(v, st) == [st EXCEPT !.vals = objectsAfter(v, arraysAfter(v, st.types, st.vals))]

bindType(st, name, type) ==
    [st EXCEPT !.types = IF type \in {"", "Unknown"} THEN Without(@, {name}) ELSE With(@, name, type)]

\* A let records the value it binds; a var records nothing, and what it copies may escape.
bindLet(st, name, type, v) ==
    LET known == bindType(st, name, IF type = "" THEN knownValueType(v, st.types) ELSE type)
    IN  [known EXCEPT !.vals = With(@, name, extendExactNewFieldSnapshot(v))]

bindVar(st, name, type, v) ==
    LET known == bindType(st, name, IF type = "" THEN knownValueType(v, st.types) ELSE type)
    IN  [known EXCEPT !.vals = Without(forgetRoots(@, rootsIn(v, @)), {name})]

bindParam(st, name, type) ==
    [bindType(st, name, type) EXCEPT !.vals = Without(@, {name})]

\* The state after an instruction.
afterInstruction(ins, st) ==
    LET bind(s) == CASE ins.kind = "Let" -> bindLet(s, ins.name, ins.type, ins.value)
                     [] ins.kind = "Var" -> bindVar(s, ins.name, ins.type, ins.value)
                     [] OTHER -> s
    IN  IF ins.kind = "Param" THEN bindParam(st, ins.name, ins.type)
        ELSE bind(invalidated(ins.value, st))

localStateBeforeInstruction(body, index) ==
    fold(LAMBDA st, ins : afterInstruction(ins, st), NoLocals, SubSeq(body, 1, index - 1))

==============================================================================
