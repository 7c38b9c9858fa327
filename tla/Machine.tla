------------------------------- MODULE Machine -------------------------------
(***************************************************************************)
(* The machine that a NIR body runs on, as the code generator lowers it    *)
(* (tools/codegen), and what the values of arithmetic and control do.      *)
(*                                                                         *)
(* A machine s has the locals (env), the heap, the output so far (out),    *)
(* the zones it is in (zone), and the loop iterations left (fuel), after   *)
(* which a run counts as diverging.  Evaluating gives [s, v, x]: the       *)
(* machine after, the result, and the exception thrown or none.            *)
(***************************************************************************)
EXTENDS Nir

datum(kind, n) == [k |-> kind, n |-> n]
unit == datum("unit", 0)
null == datum("null", 0)
none == datum("none", 0)
diverges == datum("diverges", 0)
missing == datum("missing", 0)
int(n) == datum("int", wrapped(n))
bool(b) == datum("bool", IF b THEN 1 ELSE 0)
ref(address) == datum("ref", address)
isTrue(d) == d.n = 1

machine(env, fuel) == [env |-> env, heap |-> <<>>, out |-> <<>>, zone |-> 0, fuel |-> fuel]

done(s, d) == [s |-> s, v |-> d, x |-> none]
raised(s, exception) == [s |-> s, v |-> unit, x |-> exception]

\* The rest of an evaluation, unless an exception ends it.
then(r, next(_, _)) == IF r.x # none THEN r ELSE next(r.s, r.v)

\* Arrays and exceptions are never allocated in a zone.
alloc(s, type, contents) ==
    LET outlives == type = Array \/ Contains(linearizedTypeNames(type), "Throwable")
        object == [t |-> type, c |-> contents, zone |-> IF outlives THEN 0 ELSE s.zone]
    IN  done([s EXCEPT !.heap = Append(@, object)], ref(Len(s.heap) + 1))

\* A runtime failure is an exception of a class of its own.
fail(s, type) == LET r == alloc(s, type, <<>>) IN raised(r.s, r.v)

\* The end of a zone, reached or left by an exception, frees what it holds.
freed == [t |-> "freed", c |-> <<>>, zone |-> 0]

endOfZone(s) ==
    [s EXCEPT !.heap = <<>> \o [j \in DOMAIN @ |-> IF @[j].zone = s.zone THEN freed ELSE @[j]],
              !.zone = @ - 1]

typeOf(s, d) == IF d.k = "ref" THEN s.heap[d.n].t ELSE ""

\* __scalanative_is_instance_of: boxes are tagged with the type they hold.
isInstance(s, d, type) ==
    d.k = "ref" /\ (type = "Object" \/ Contains(linearizedTypeNames(typeOf(s, d)), type))

-----------------------------------------------------------------------------
(* Arithmetic, comparisons and control. *)

truncated(a, b) ==
    LET q == (IF a < 0 THEN -a ELSE a) \div (IF b < 0 THEN -b ELSE b)
    IN  IF (a < 0) = (b < 0) THEN q ELSE -q

\* __scalanative_any_equals: boxes are compared by what they hold, objects by identity.
anyEqual(a, b, s) ==
    \/ a = b
    \/ /\ a.k = "ref" /\ b.k = "ref" /\ typeOf(s, a) = typeOf(s, b)
       /\ typeOf(s, a) \in BoxedAbiTypes /\ s.heap[a.n].c = s.heap[b.n].c

unary(op, d) ==
    CASE op = "!" -> bool(~ isTrue(d)) [] op = "-" -> int(-d.n) [] op = "+" -> d

binary(op, a, b, s) ==
    CASE op = "==" -> done(s, bool(anyEqual(a, b, s)))
      [] op = "!=" -> done(s, bool(~ anyEqual(a, b, s)))
      [] op = "<"  -> done(s, bool(a.n < b.n))
      [] op = ">"  -> done(s, bool(a.n > b.n))
      [] op = "<=" -> done(s, bool(a.n <= b.n))
      [] op = ">=" -> done(s, bool(a.n >= b.n))
      [] op = "+"  -> done(s, int(a.n + b.n))
      [] op = "-"  -> done(s, int(a.n - b.n))
      [] op = "*"  -> done(s, int(a.n * b.n))
      [] op \in {"/", "%"} /\ b.n = 0 -> fail(s, "ArithmeticException")
      [] op = "/"  /\ b.n # 0 -> done(s, int(truncated(a.n, b.n)))
      [] op = "%"  /\ b.n # 0 -> done(s, int(a.n - b.n * truncated(a.n, b.n)))
      [] op \in BitOps /\ a.k = "bool" -> done(s, bool(connected(op, isTrue(a), isTrue(b))))
      [] op \in BitOps /\ a.k # "bool" -> done(s, int(bitwise(op, a.n, b.n)))
      [] op \in Shifts -> done(s, int(shifted(op, a.n, b.n)))

literal(v) ==
    CASE isNullLiteral(v) -> null [] IsInteger(v) -> int(v.i) [] IsBoolean(v) -> bool(IsTrue(v))

IsScalar(v) == v.k \in {"Unit", "Literal", "Unary", "Binary", "If"}

\* Operands from left to right, && and || short; e evaluates an operand.
scalar(v, s, e(_, _)) ==
    CASE v.k = "Unit" -> done(s, unit)
      [] v.k = "Literal" -> done(s, literal(v))
      [] v.k = "Unary" ->
           then(e(v.ops[1], s),
                LAMBDA s1, d : done(s1, unary(v.x, d)))
      [] v.k = "Binary" /\ v.x \in Logical ->
           then(e(v.ops[1], s),
                LAMBDA s1, d : IF isTrue(d) = (v.x = "||") THEN done(s1, d) ELSE e(v.ops[2], s1))
      [] v.k = "Binary" /\ v.x \notin Logical ->
           then(e(v.ops[1], s), LAMBDA s1, a :
               then(e(v.ops[2], s1), LAMBDA s2, b : binary(v.x, a, b, s2)))
      [] v.k = "If" ->
           then(e(v.ops[1], s), LAMBDA s1, d : e(v.ops[IF isTrue(d) THEN 2 ELSE 3], s1))

==============================================================================
