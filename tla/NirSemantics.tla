----------------------------- MODULE NirSemantics -----------------------------
(***************************************************************************)
(* What a NIR body does when it runs, as the code generator lowers it      *)
(* (tools/codegen): operands from left to right, checks of receivers after *)
(* their arguments.  A name, a member, an argument or an object that is    *)
(* not there ends the run as missing.                                      *)
(***************************************************************************)
EXTENDS Machine, Snapshots

defaultOf(type) == IF type = "Int" THEN int(0) ELSE IF type = "Boolean" THEN bool(FALSE) ELSE null

allFields(type) == {f \in DOMAIN definitions : /\ definitions[f].kind = "Field"
                                               /\ Contains(linearizedTypeNames(type), definitions[f].owner)}

RECURSIVE eval(_, _)

\* Operands from left to right: v is the sequence of their results.
evalAll(operands, s) ==
    LET step(r, operand) ==
            then(r, LAMBDA s1, ds :
                then(eval(operand, s1), LAMBDA s2, d : done(s2, Append(ds, d))))
    IN  fold(step, done(s, <<>>), operands)

-----------------------------------------------------------------------------
(* Functions, methods and constructors. *)

bound(s, name, d) == [s EXCEPT !.env = With(@, name, d)]

executed(ins, r) ==
    [s |-> IF ins.kind \in {"Let", "Var"} THEN bound(r.s, ins.name, r.v) ELSE r.s,
     v |-> r.v,
     x |-> IF r.x = none /\ ins.kind = "Throw" THEN r.v ELSE r.x,
     returned |-> ins.kind = "Return"]

\* The instructions of a body, from the machine with its parameters bound.
run(body, s) ==
    LET step(r, ins) == IF r.x # none \/ r.returned \/ ins.kind = "Param" THEN r
                        ELSE executed(ins, eval(ins.value, r.s))
    IN  fold(step, [s |-> s, v |-> unit, x |-> none, returned |-> FALSE], body)

inCaller(r, s) == [s |-> [r.s EXCEPT !.env = s.env], v |-> r.v, x |-> r.x]

\* A function not defined here is external: it is seen in the output.
invoke(name, arguments, s) ==
    LET params == definitions[name].params
        env == table([p \in ToSet(params) |-> arguments[position(p, params)]])
    IN  IF ~ IsDefined(name) \/ (KindOf(name) = "FunctionDef" /\ Len(arguments) # Len(params))
        THEN raised(s, missing)
        ELSE IF KindOf(name) # "FunctionDef"
        THEN done([s EXCEPT !.out = Append(@, <<name, arguments>>)], int(Len(s.out)))
        ELSE inCaller(run(definitions[name].body, [s EXCEPT !.env = env]), s)

isInstanceMember(name) == IsDefined(name) /\ KindOf(definitions[name].owner) \in {"Class", "Trait"}

\* A receiver is checked when all arguments are evaluated.
invokeChecked(name, arguments, s) ==
    IF isInstanceMember(name) /\ arguments[1] = null THEN fail(s, "NullPointerException")
    ELSE invoke(name, arguments, s)

\* The member of the receiver's class, in the order of its linearization.
dispatch(member, arguments, s) ==
    IF arguments[1] = null THEN fail(s, "NullPointerException")
    ELSE invoke(resolveMember(typeOf(s, arguments[1]), member), arguments, s)

arrayCall(name, arguments, s) ==
    LET array == s.heap[arguments[1].n].c
        at == arguments[2].n + 1
    IN  CASE arguments[1] = null -> fail(s, "NullPointerException")
          [] name = arrayLength -> done(s, int(Len(array)))
          [] name # arrayLength /\ at \notin DOMAIN array -> fail(s, "ArrayIndexOutOfBoundsException")
          [] name = arrayApply -> done(s, array[at])
          [] name = arrayUpdate ->
               done([s EXCEPT !.heap[arguments[1].n].c[at] = arguments[3]], unit)

\* Constructor fields as the arguments are evaluated, then the initializer.
construct(v, s) ==
    LET fields == constructorFields(v.t)
        object == table([f \in allFields(v.t) |-> defaultOf(definitions[f].type)])
        fresh == alloc(s, v.t, object)
        store(r, j) ==
            then(r, LAMBDA s1, d :
                then(eval(v.ops[j], s1),
                     LAMBDA s2, e : done([s2 EXCEPT !.heap[d.n].c[fields[j]] = e], d)))
        stored == fold(store, fresh, [j \in DOMAIN v.ops |-> j])
    IN  IF v.t = Array THEN then(evalAll(v.ops, s), LAMBDA s1, ds : alloc(s1, Array, ds))
        ELSE IF Len(v.ops) # Len(fields) THEN raised(s, missing)
        ELSE then(stored, LAMBDA s1, object0 :
                 IF ~ hasInitializer(v.t) THEN done(s1, object0)
                 ELSE then(invoke(memberOf(v.t, Constructor), <<object0>>, s1),
                           LAMBDA s2, u : done(s2, object0)))

-----------------------------------------------------------------------------
(* Assignments, control and the rest. *)

assign(target, assigned, s) ==
    IF target.k = "Local"
    THEN IF target.x \notin DOMAIN s.env THEN raised(s, missing)
         ELSE then(eval(assigned, s), LAMBDA s1, d : done([s1 EXCEPT !.env[target.x] = d], unit))
    ELSE then(evalAll(<<target.ops[1], assigned>>, s), LAMBDA s1, ds :
             IF ds[1] = null THEN fail(s1, "NullPointerException")
             ELSE IF KindOf(resolveMember(typeOf(s1, ds[1]), target.x)) # "Field" THEN raised(s1, missing)
             ELSE done([s1 EXCEPT !.heap[ds[1].n].c[resolveMember(typeOf(s1, ds[1]), target.x)] = ds[2]],
                       unit))

select(v, s) ==
    then(eval(v.ops[1], s), LAMBDA s1, d :
        LET member == resolveMember(typeOf(s1, d), v.x)
        IN  IF d = null THEN fail(s1, "NullPointerException")
            ELSE IF KindOf(member) = "Field" THEN done(s1, s1.heap[d.n].c[member])
            ELSE invoke(member, <<d>>, s1))

RECURSIVE loop(_, _, _)
loop(condition, body, s) ==
    then(eval(condition, s), LAMBDA s1, d :
        IF ~ isTrue(d) THEN done(s1, unit)
        ELSE IF s1.fuel = 0 THEN raised(s1, diverges)
        ELSE then(eval(body, [s1 EXCEPT !.fuel = @ - 1]), LAMBDA s2, u : loop(condition, body, s2)))

\* The locals of a block end with it; those outside it keep what it assigned.
block(v, s) ==
    LET locals == {v.ops[j].x : j \in {j \in DOMAIN v.ops : IsBinding(v.ops[j])}}
        step(r, operand) ==
            then(r, LAMBDA s1, d :
                IF ~ IsBinding(operand) THEN eval(operand, s1)
                ELSE then(eval(operand.ops[1], s1), LAMBDA s2, e : done(bound(s2, operand.x, e), unit)))
        leaving(r) ==
            [r EXCEPT !.s.env = table([n \in DOMAIN s.env |-> IF n \in locals THEN s.env[n] ELSE @[n]])]
    IN  leaving(fold(step, done(s, unit), v.ops))

\* The first handler that matches; a finalizer runs last, but not after a handler that throws.
handle(v, s) ==
    LET handlers(r) == SelectSeq(Tail(v.ops), LAMBDA h : h.k = "Catch" /\ isInstance(r.s, r.x, h.ops[1].t))
        leaving(r, name) == [r EXCEPT !.s.env = Without(@, {name} \ DOMAIN s.env)]
        caught(r, handler) == leaving(eval(handler.ops[2], bound(r.s, handler.ops[1].x, r.x)),
                                      handler.ops[1].x)
        ended(r, last) == IF last.x # none THEN last ELSE [r EXCEPT !.s = last.s]
        finally(r) == IF Last(v.ops).k # "Finally" \/ r.x \in {diverges, missing} THEN r
                      ELSE ended(r, eval(Last(v.ops).ops[1], r.s))
        handled(r) == IF r.x = none \/ handlers(r) = <<>> THEN finally(r)
                      ELSE LET h == caught(r, Head(handlers(r))) IN IF h.x = none THEN finally(h) ELSE h
    IN  handled(eval(v.ops[1], s))

call(v, s) ==
    LET callee == v.ops[1]
    IN  IF callee.k = "Select"
        THEN then(evalAll(callee.ops \o Tail(v.ops), s), LAMBDA s1, ds : dispatch(callee.x, ds, s1))
        ELSE then(evalAll(Tail(v.ops), s), LAMBDA s1, ds :
                 IF callee.x = anyEquals THEN done(s1, bool(anyEqual(ds[1], ds[2], s1)))
                 ELSE IF callee.x \in {arrayApply, arrayLength, arrayUpdate} THEN arrayCall(callee.x, ds, s1)
                 ELSE invokeChecked(callee.x, ds, s1))

cast(v, d, s) ==
    CASE typeOf(s, d) = freed.t -> raised(s, missing)
      [] v.k = "Box" -> alloc(s, v.x, <<d>>)
      [] v.k = "Unbox" -> IF isInstance(s, d, v.x) THEN done(s, s.heap[d.n].c[1])
                          ELSE fail(s, "ClassCastException")
      [] v.k = "IsInstanceOf" -> done(s, bool(isInstance(s, d, v.x)))
      [] v.k = "AsInstanceOf" -> IF d = null \/ isInstance(s, d, v.x) THEN done(s, d)
                                 ELSE fail(s, "ClassCastException")

eval(v, s) ==
    CASE IsScalar(v) -> scalar(v, s, eval)
      [] v.k = "Local" -> IF v.x \in DOMAIN s.env THEN done(s, s.env[v.x]) ELSE invoke(v.x, <<>>, s)
      [] v.k = "New" -> construct(v, s)
      [] v.k \in {"Box", "Unbox", "IsInstanceOf", "AsInstanceOf"} ->
           then(eval(v.ops[1], s), LAMBDA s1, d : cast(v, d, s1))
      [] v.k = "Select" -> select(v, s)
      [] v.k = "Call" -> call(v, s)
      [] v.k = "Assign" -> assign(v.ops[1], v.ops[2], s)
      [] v.k = "Throw" ->
           then(eval(v.ops[1], s),
                LAMBDA s1, d : IF d = null THEN fail(s1, "NullPointerException") ELSE raised(s1, d))
      [] v.k = "ZoneScoped" ->
           LET r == eval(v.ops[1], [s EXCEPT !.zone = @ + 1]) IN [r EXCEPT !.s = endOfZone(@)]
      [] v.k = "While" -> loop(v.ops[1], v.ops[2], s)
      [] v.k = "Block" -> block(v, s)
      [] v.k = "Try" -> handle(v, s)

-----------------------------------------------------------------------------
(***************************************************************************)
(* What can be seen of a run: the output, and the result or exception.  An *)
(* object is seen by its class, a box with its content.                    *)
(***************************************************************************)
seen(s, d) ==
    CASE d.k # "ref" -> <<d.k, d.n>>
      [] d.k = "ref" /\ typeOf(s, d) \in BoxedAbiTypes -> <<typeOf(s, d), s.heap[d.n].c[1].n>>
      [] d.k = "ref" /\ typeOf(s, d) \notin BoxedAbiTypes -> <<typeOf(s, d), 0>>

observed(r) ==
    [out    |-> <<>> \o [j \in DOMAIN r.s.out |->
                    <<r.s.out[j][1], each(r.s.out[j][2], LAMBDA d : seen(r.s, d))>>],
     raised |-> seen(r.s, r.x),
     result |-> IF r.x = none THEN seen(r.s, r.v) ELSE <<"none", 0>>]

behaviour(body, s) == observed(run(body, s))

==============================================================================
