------------------------------- MODULE Verifier -------------------------------
(***************************************************************************)
(* The NIR verifier (nir/src/Verifier.cpp), which the optimizer asks       *)
(* before and after every pass: a body is accepted when no rule reports an *)
(* error.  A verdict on a value tells that, the type t, and the global g   *)
(* the value names ("" for none).  "Unknown" conforms to every type.       *)
(***************************************************************************)
EXTENDS ZoneEscape

verdict(ok, type, global) == [ok |-> ok, t |-> type, g |-> global]

rejected == verdict(FALSE, "Unknown", "")

\* A scope: the types of the locals, and those that may be assigned.
scope(types, mutable) == [types |-> types, mutable |-> mutable]

declare(c, kind, name, type) ==
    scope(With(c.types, name, type),
          IF kind \in {"Var", "LocalVar"} THEN c.mutable \cup {name} ELSE c.mutable \ {name})

isSubtypeOf(actual, expected) ==
    actual = expected \/ (isClassLike(actual) /\ Contains(linearizedTypeNames(actual), expected))

typesConformTo(expected, actual) ==
    \/ "Unknown" \in {expected, actual} \/ expected = actual \/ actual = "Nothing"
    \/ /\ isReferenceType(expected) /\ isReferenceType(actual)
       /\ \/ expected = "Object" \/ actual = "Null" \/ isSubtypeOf(actual, expected)

isThrowable(type) == type = "Null" \/ isSubtypeOf(type, "Throwable")

verifyReference(name, c) ==
    IF name \in DOMAIN c.types THEN verdict(TRUE, c.types[name], "")
    ELSE IF IsDefined(name) THEN verdict(TRUE, typeOfGlobal(name), name)
    ELSE rejected

allOk(verdicts) == \A j \in DOMAIN verdicts : verdicts[j].ok

\* As many values as types, each of its type.
conformInOrder(types, verdicts) ==
    Len(types) = Len(verdicts) /\ \A j \in DOMAIN types : typesConformTo(types[j], verdicts[j].t)

-----------------------------------------------------------------------------
(* One operator per kind of value; vs are the verdicts on the operands. *)

verifyNew(v, vs) ==
    IF v.x = Array
    THEN verdict(allOk(vs) /\ \A j \in DOMAIN vs : typesConformTo("Int", vs[j].t), Array, "")
    ELSE IF KindOf(v.x) # "Class" THEN rejected
    ELSE LET fields == constructorFields(v.x)
         IN  verdict(allOk(vs) /\ conformInOrder(each(fields, typeOfGlobal), vs), v.x, v.x)

\* A receiver of an unknown type may have any member.
verifySelect(v, receiver) ==
    LET class == IF KindOf(receiver.g) \in ClassLike THEN receiver.g ELSE receiver.t
        member == resolveMember(class, v.x)
    IN  IF ~ receiver.ok THEN rejected
        ELSE IF ~ isClassLike(class) THEN verdict(TRUE, "Unknown", "")
        ELSE IF member = "" THEN rejected
        ELSE verdict(TRUE, typeOfGlobal(member), member)

\* The arguments of a call to something unknown are not looked at.
verifyCall(v, callee, receiver, arguments) ==
    LET target == definitions[callee.g]
        implicit == /\ v.ops[1].k = "Select" /\ target.signature # <<>>
                    /\ KindOf(target.owner) # "Module"
        passed == IF implicit THEN receiver \o arguments ELSE arguments
    IN  IF ~ callee.ok \/ callee.g = "" THEN verdict(callee.ok, "Unknown", "")
        ELSE IF KindOf(callee.g) \notin {"FunctionDef", "FunctionDecl"} THEN rejected
        ELSE verdict(allOk(passed) /\ conformInOrder(target.signature, passed), target.type, callee.g)

verifyUnary(v, operand) ==
    LET type == IF v.x = "!" THEN "Boolean" ELSE "Int"
    IN  verdict(operand.ok /\ operand.t \in {type, "Unknown"},
                IF v.x = "!" THEN "Boolean" ELSE operand.t, "")

\* Any two values may be compared.
verifyBinary(v, lhs, rhs) ==
    LET of(types) == {lhs.t, rhs.t} \subseteq types \cup {"Unknown"}
        same == lhs.t = rhs.t \/ "Unknown" \in {lhs.t, rhs.t}
        fits == CASE v.x \in Logical     -> of({"Boolean"})
                  [] v.x \in Comparisons -> TRUE
                  [] v.x \in BitOps     -> same /\ of({"Boolean", "Int"})
                  [] v.x \in Shifts      -> of({"Int"})
                  [] v.x = "%"           -> same /\ of({"Int"})
                  [] OTHER               -> same
    IN  verdict(lhs.ok /\ rhs.ok /\ fits,
                IF v.x \in Logical \cup Comparisons THEN "Boolean" ELSE lhs.t, "")

verifyAssign(v, c, target, assigned) ==
    LET local == v.ops[1].k = "Local"
        assignable == IF local THEN v.ops[1].x \in DOMAIN c.types /\ v.ops[1].x \in c.mutable
                      ELSE v.ops[1].k = "Select" /\ KindOf(target.g) = "Field"
    IN  verdict(target.ok /\ assigned.ok /\ assignable /\ typesConformTo(target.t, assigned.t),
                "Unit", "")

isCondition(condition) == condition.ok /\ condition.t \in {"Boolean", "Unknown"}

verifyIf(v, condition, then, else) ==
    LET given == {then.t, else.t}
        merged == CASE v.t # "" -> v.t
                    [] v.t = "" /\ Cardinality(given) = 1 -> then.t
                    [] v.t = "" /\ Cardinality(given) = 2 /\ "Unknown" \in given ->
                         CHOOSE t \in given : t # "Unknown"
                    [] v.t = "" /\ Cardinality(given) = 2 /\ "Unknown" \notin given ->
                         IF "Nothing" \in given THEN CHOOSE t \in given : t # "Nothing" ELSE "none"
    IN  verdict(/\ isCondition(condition) /\ then.ok /\ else.ok
                /\ merged # "none"
                /\ \A t \in given : typesConformTo(merged, t),
                merged, "")

-----------------------------------------------------------------------------
(* Handlers: distinct classes of exceptions in order, at most one finalizer. *)

isCatchAll(type) == type = "Object"

isValidCatchType(type) == isCatchAll(type) \/ KindOf(type) = "Trait" \/ isSubtypeOf(type, "Throwable")

catchTypeShadows(earlier, later) ==
    isCatchAll(earlier) \/ isSubtypeOf(later, earlier) \/ isSubtypeOf("Throwable", earlier)

catchType(handler) == handler.ops[1].t

\* No handler stands where an earlier one has caught everything it could.
reachableHandlers(handlers) ==
    \A l \in DOMAIN handlers, j \in DOMAIN handlers :
        l < j => ~ catchTypeShadows(catchType(handlers[l]), catchType(handlers[j]))

verifyTry(v, body, handlers, verdicts) ==
    LET catches == SelectSeq(handlers, LAMBDA h : h.k = "Catch")
        last == Len(handlers)
    IN  verdict(/\ v.t # "" /\ body.ok /\ typesConformTo(v.t, body.t)
                /\ handlers # <<>> /\ allOk(verdicts)
                /\ \A j \in DOMAIN handlers :
                      CASE handlers[j].k = "Catch"   -> typesConformTo(v.t, handlers[j].t)
                        [] handlers[j].k = "Finally" -> j = last
                        [] OTHER -> FALSE
                /\ reachableHandlers(catches),
                v.t, "")

-----------------------------------------------------------------------------
RECURSIVE verifyValue(_, _)

\* The bindings of a block are seen by what follows them in it.
verifyBlock(operands, c) ==
    LET names == {operands[j].x : j \in {j \in DOMAIN operands : IsBinding(operands[j])}}
        bindings == SelectSeq(operands, IsBinding)
        bind(walk, v, initializer) ==
            [c |-> declare(walk.c, v.k, v.x, IF v.t = "" THEN initializer.t ELSE v.t),
             last |-> verdict(/\ walk.last.ok /\ initializer.ok
                              /\ \/ v.t = "" \/ typesConformTo(v.t, initializer.t), "Unit", "")]
        follow(walk, d) == [walk EXCEPT !.last = [d EXCEPT !.ok = @ /\ walk.last.ok]]
        step(walk, v) == IF IsBinding(v) THEN bind(walk, v, verifyValue(v.ops[1], walk.c))
                         ELSE follow(walk, verifyValue(v, walk.c))
        walked == fold(step, [c |-> c, last |-> verdict(TRUE, "Unit", "")], operands)
    IN  IF Cardinality(names) # Len(bindings) THEN rejected ELSE walked.last

verifyCatch(v, c) ==
    LET inside == declare(c, "Let", v.ops[1].x, catchType(v))
        body == verifyValue(v.ops[2], inside)
    IN  verdict(isValidCatchType(catchType(v)) /\ body.ok /\ typesConformTo(v.t, body.t), v.t, "")

verifyHandler(v, c) == IF v.k = "Catch" THEN verifyCatch(v, c) ELSE verifyValue(v.ops[1], c)

verifyCast(v, operand) ==
    CASE v.k = "Box"   -> verdict(/\ operand.ok /\ v.x \in BoxedAbiTypes
                                  /\ typesConformTo(v.x, operand.t), "Object", "")
      [] v.k = "Unbox" -> verdict(/\ operand.ok /\ v.x \in BoxedAbiTypes
                                  /\ isReferenceType(operand.t), v.x, "")
      [] v.k = "IsInstanceOf" ->
           verdict(/\ operand.ok /\ isReferenceType(operand.t)
                   /\ \/ v.x \in BoxedAbiTypes \/ KindOf(v.x) \in ClassLike, "Boolean", "")
      [] v.k = "AsInstanceOf" ->
           verdict(operand.ok /\ KindOf(v.x) \in ClassLike /\ isReferenceType(operand.t), v.x, v.x)

\* The result of a zone outlives it.
verifyZone(v, c, d) == [d EXCEPT !.ok = @ /\ isZoneResultType(d.t) /\ keepsZone(v, c.types)]

verifyValue(v, c) ==
    LET of(j) == verifyValue(v.ops[j], c)
        all(operands) == each(operands, LAMBDA u : verifyValue(u, c))
    IN  CASE v.k \in {"Unit", "Literal", "Unknown"} -> verdict(TRUE, v.t, "")
          [] v.k = "Local"  -> verifyReference(v.x, c)
          [] v.k = "New"    -> verifyNew(v, all(v.ops))
          [] v.k \in {"Box", "Unbox", "IsInstanceOf", "AsInstanceOf"} -> verifyCast(v, of(1))
          [] v.k = "Select" -> verifySelect(v, of(1))
          [] v.k = "Call"   -> verifyCall(v, of(1), all(v.ops[1].ops), all(Tail(v.ops)))
          [] v.k = "Unary"  -> verifyUnary(v, of(1))
          [] v.k = "Binary" -> verifyBinary(v, of(1), of(2))
          [] v.k = "Assign" -> verifyAssign(v, c, of(1), of(2))
          [] v.k = "Throw"  -> verdict(of(1).ok /\ isThrowable(of(1).t), "Nothing", "")
          [] v.k = "If"     -> verifyIf(v, of(1), of(2), of(3))
          [] v.k = "While"  -> verdict(isCondition(of(1)) /\ of(2).ok, "Unit", "")
          [] v.k = "Block"  -> verifyBlock(v.ops, c)
          [] v.k = "ZoneScoped" -> verifyZone(v.ops[1], c, of(1))
          [] v.k = "Try"    -> verifyTry(v, of(1), Tail(v.ops),
                                         each(Tail(v.ops), LAMBDA h : verifyHandler(h, c)))
          [] OTHER          -> rejected

-----------------------------------------------------------------------------
(* Instructions. *)

isTerminator(ins) == ins.kind \in {"Return", "Throw", "Unreachable"}

\* Parameters first, as the signature has them; one terminator, at the end.
wellShaped(body, signature) ==
    LET parameters == SelectSeq(body, LAMBDA ins : ins.kind = "Param")
    IN  /\ body # <<>>
        /\ \A j \in DOMAIN body : /\ (body[j].kind = "Param") = (j <= Len(parameters))
                                  /\ isTerminator(body[j]) = (j = Len(body))
        /\ each(parameters, LAMBDA ins : ins.type) = signature

\* The scope after an instruction, and whether it was accepted.
verifyInstruction(walk, ins, d, returnType) ==
    LET binds == ins.kind \in {"Param", "Let", "Var"}
        fits == CASE ins.kind = "Param"  -> TRUE
                  [] ins.kind \in {"Let", "Var"} -> ins.type = "" \/ typesConformTo(ins.type, d.t)
                  [] ins.kind = "Eval"   -> TRUE
                  [] ins.kind = "Return" -> ins.type = returnType /\ typesConformTo(ins.type, d.t)
                  [] ins.kind = "Throw"  -> ins.type = "Nothing" /\ isThrowable(d.t)
    IN  [ok |-> walk.ok /\ d.ok /\ fits /\ ~ (binds /\ ins.name \in DOMAIN walk.c.types),
         c |-> IF ~ binds THEN walk.c
               ELSE declare(walk.c, ins.kind, ins.name, IF ins.type = "" THEN d.t ELSE ins.type)]

verify(body, signature, returnType) ==
    LET step(walk, ins) == verifyInstruction(walk, ins, verifyValue(ins.value, walk.c), returnType)
    IN  wellShaped(body, signature)
        /\ fold(step, [ok |-> TRUE, c |-> scope(<<>>, {})], body).ok

\* Every function definition of the program.
verifyProgram ==
    \A name \in DOMAIN definitions :
        KindOf(name) = "FunctionDef" =>
            verify(definitions[name].body, definitions[name].signature, definitions[name].type)

==============================================================================
