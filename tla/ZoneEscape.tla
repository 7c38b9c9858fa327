------------------------------ MODULE ZoneEscape ------------------------------
(***************************************************************************)
(* What the verifier lets happen to an object of a scoped zone, which is   *)
(* freed when the zone ends (nir/src/Verifier.cpp).  Two walks over a body *)
(* follow references: within a zone (zone) every allocation is one to      *)
(* follow, and within a method of a class only its receiver is.  st holds  *)
(* which locals may be such a reference (refs), the types of the locals,   *)
(* the locals bound within the zone, whether a reference has escaped, and  *)
(* the functions selected on one (called).                                 *)
(***************************************************************************)
EXTENDS Snapshots

isReferenceType(type) == type \notin {"Unit", "Boolean", "Int", "Nothing"}

isZoneResultType(type) == type \in {"Nothing", "Unit", "Boolean", "Int"}

typeOfGlobal(name) == IF KindOf(name) \in ClassLike THEN name ELSE definitions[name].type

typeOfMember(class, member) ==
    LET name == resolveMember(class, member) IN IF name = "" THEN "Unknown" ELSE typeOfGlobal(name)

typeOfLocal(name, types) ==
    IF name \in DOMAIN types THEN types[name] ELSE IF IsDefined(name) THEN typeOfGlobal(name) ELSE "Unknown"

joined(then, else) == IF then = "Nothing" \/ then = else THEN else
                      ELSE IF else = "Nothing" THEN then ELSE "Unknown"

isTest(v) == v.k \in {"Unary", "Binary"} /\ v.x \in {"!"} \cup Comparisons \cup Logical

\* effectValueType and zoneValueType, which are alike.
RECURSIVE zoneValueType(_, _)

\* The type of a block is that of its last operand, with the bindings before it.
blockType(operands, types) ==
    LET bind(walk, u, type) == [types |-> With(walk.types, u.x, IF u.t # "" THEN u.t ELSE type), last |-> "Unit"]
        next(walk, u, type) == IF IsBinding(u) THEN bind(walk, u, type) ELSE [walk EXCEPT !.last = type]
        step(walk, u) == next(walk, u, zoneValueType(IF IsBinding(u) THEN u.ops[1] ELSE u, walk.types))
    IN  fold(step, [types |-> types, last |-> "Unit"], operands).last

zoneValueType(v, types) ==
    CASE v.k = "Local"  -> typeOfLocal(v.x, types)
      [] v.k = "Select" -> typeOfMember(zoneValueType(v.ops[1], types), v.x)
      [] isTest(v) -> "Boolean"
      [] v.k \in {"Call", "ZoneScoped", "Unary", "Binary"} /\ ~ isTest(v) -> zoneValueType(v.ops[1], types)
      [] v.k = "While"  -> "Unit"
      [] v.k = "Block"  -> blockType(v.ops, types)
      [] v.k = "If" /\ v.t = "" -> joined(zoneValueType(v.ops[2], types), zoneValueType(v.ops[3], types))
      [] OTHER -> v.t

-----------------------------------------------------------------------------
start(types, refs) ==
    [refs |-> refs, types |-> types, locals |-> {}, escaped |-> FALSE, called |-> {}]

bindTracked(st, name, type, held) ==
    [st EXCEPT !.refs = With(@, name, held), !.types = With(@, name, type), !.locals = @ \cup {name}]

\* What is known of locals within a block or a handler ends with it.
leavingScope(outer, st) ==
    [st EXCEPT !.refs = outer.refs, !.types = outer.types, !.locals = outer.locals]

tracked(st, held) == [st |-> st, held |-> held]

escape(st, whether) == [st EXCEPT !.escaped = @ \/ whether]

\* Fault: what a field of a reference holds is not followed.
trackSelectShallow(st, held, class, member) ==
    LET function == held /\ KindOf(resolveMember(class, member)) \in {"FunctionDef", "FunctionDecl"}
    IN  tracked(IF function THEN [st EXCEPT !.called = @ \cup {resolveMember(class, member)}] ELSE st, FALSE)

\* A function selected on a reference is remembered; a field of one may hold another.
trackSelect(st, held, class, member) ==
    LET function == held /\ KindOf(resolveMember(class, member)) \in {"FunctionDef", "FunctionDecl"}
    IN  tracked(IF function THEN [st EXCEPT !.called = @ \cup {resolveMember(class, member)}] ELSE st,
                held /\ isReferenceType(typeOfMember(class, member)))

\* An outer local, which a zone must not assign a reference to, is followed in a method only.
trackAssignLocal(name, st, held, zone) ==
    tracked(IF zone /\ name \notin st.locals THEN escape(st, held)
            ELSE [st EXCEPT !.refs = With(@, name, held)], FALSE)

some(held, from) == \E j \in from..Len(held) : held[j]

\* What follows from the operands, walked in order; held lists which of them may be a reference.
trackOperands(v, outer, st, held, zone) ==
    LET type(u) == zoneValueType(u, st.types)
    IN  CASE v.k = "Block" -> tracked(leavingScope(outer, st), v.ops # <<>> /\ Last(held))
          [] IsBinding(v)  ->
               tracked(bindTracked(st, v.x, IF v.t # "" THEN v.t ELSE type(v.ops[1]), held[1]), FALSE)
          [] v.k = "Select" -> trackSelect(st, held[1], type(v.ops[1]), v.x)
          [] v.k = "Call"   -> tracked(escape(st, some(held, 2)), held[1] /\ isReferenceType(type(v)))
          [] v.k \in {"If", "Try"} -> tracked(st, some(held, 1))
          [] v.k = "AsInstanceOf"   -> tracked(st, held[1])
          [] v.k \in {"New", "Box"} -> tracked(st, zone)
          [] v.k = "Assign" /\ v.ops[1].k = "Local" -> trackAssignLocal(v.ops[1].x, st, held[1], zone)
          [] v.k = "Assign" /\ v.ops[1].k = "Select" -> tracked(escape(st, held[1] /\ ~ held[2]), FALSE)
          [] v.k = "Catch"  -> tracked(leavingScope(outer, st), held[1])
          [] OTHER -> tracked(st, FALSE)

\* The operands a walk enters: an assignment its value, then the receiver of its target.
walkedOperands(v, zone) ==
    CASE v.k = "Assign" -> <<v.ops[2]>> \o v.ops[1].ops
      [] v.k = "Catch"  -> Tail(v.ops)
      [] v.k = "ZoneScoped" /\ zone -> <<>>
      [] OTHER -> v.ops

RECURSIVE track(_, _, _)

trackAll(operands, st, zone) ==
    LET add(walk, r) == [st |-> r.st, held |-> Append(walk.held, r.held)]
        step(walk, operand) == add(walk, track(operand, walk.st, zone))
    IN  fold(step, [st |-> st, held |-> <<>>], operands)

track(v, st, zone) ==
    LET inside == IF v.k = "Catch" THEN bindTracked(st, v.ops[1].x, v.ops[1].t, FALSE) ELSE st
        after(all) == trackOperands(v, st, all.st, all.held, zone)
    IN  IF v.k = "Local" THEN tracked(st, v.x \in DOMAIN st.refs /\ st.refs[v.x])
        ELSE after(trackAll(walkedOperands(v, zone), inside, zone))

-----------------------------------------------------------------------------
(* Methods from which the receiver may escape (computeEscapingReceiverMethods). *)

\* The instructions of a method, from its parameters on.
trackReceiver(name) ==
    LET body == definitions[name].body
        bind(ins, r, type) == bindTracked(r.st, ins.name, IF ins.type = "" THEN type ELSE ins.type, r.held)
        after(ins, r) == IF ins.kind \notin {"Let", "Var"} THEN r.st
                         ELSE bind(ins, r, zoneValueType(ins.value, r.st.types))
        step(st, ins) == IF ins.kind = "Param" THEN bindTracked(st, ins.name, ins.type, ins = body[1])
                         ELSE after(ins, track(ins.value, st, FALSE))
    IN  fold(step, start(<<>>, <<>>), body)

receiverMethods ==
    {m \in DOMAIN definitions :
        /\ KindOf(m) \in {"FunctionDef", "FunctionDecl"}
        /\ KindOf(definitions[m].owner) \in {"Class", "Trait"}
        /\ definitions[m].signature # <<>> /\ Head(definitions[m].signature) = definitions[m].owner}

\* Methods with an overriding member among those that let the receiver escape.
hasEscapingOverride(method, escaping) ==
    \E candidate \in escaping :
        /\ definitions[candidate].member = definitions[method].member
        /\ Contains(linearizedTypeNames(definitions[candidate].owner), definitions[method].owner)

RECURSIVE spreadEscaping(_, _)
spreadEscaping(escaping, called) ==
    LET next == escaping \cup {m \in receiverMethods :
                    \/ hasEscapingOverride(m, escaping)
                    \/ m \in DOMAIN called /\ \E callee \in called[m] :
                           callee \in escaping \/ hasEscapingOverride(callee, escaping)}
    IN  IF next = escaping THEN escaping ELSE spreadEscaping(next, called)

escapingReceiverMethods ==
    LET scanned == table([m \in {m \in receiverMethods : KindOf(m) = "FunctionDef"} |-> trackReceiver(m)])
    IN  spreadEscaping({m \in DOMAIN scanned : scanned[m].escaped},
                       table([m \in DOMAIN scanned |-> scanned[m].called]))

\* verifyZoneEscapeValue: nothing allocated in the zone is left behind or handed out.
keepsZone(v, types) ==
    LET st == track(v, start(types, <<>>), TRUE).st
    IN  ~ st.escaped /\ \A m \in st.called : m \notin escapingReceiverMethods

==============================================================================
