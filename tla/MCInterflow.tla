----------------------------- MODULE MCInterflow -----------------------------
(***************************************************************************)
(* Instances of Interflow: a small library of classes and functions, and   *)
(* families of bodies over it.  The bodies of the library are left as they *)
(* are by every pass, so its functions are their own optimized forms.      *)
(***************************************************************************)
EXTENDS Interflow

CONSTANT Family

\* An Int has four bits; a loop that runs more than six times counts as endless.
MCIntWidth == 4
MCFuel == 6

local(n) == localValue(n)
lit(n) == intLiteral(n)
this == local("this")
val(name, type, v) == addLet(name, type, v)
var(name, type, v) == addVar(name, type, v)
println(v) == callValue(local("println"), <<v>>)
tick == callValue(local("tick"), <<>>)

class(parents, fields) ==
    [kind |-> "Class", owner |-> "", member |-> "", parents |-> parents, fields |-> fields,
     params |-> <<>>, signature |-> <<>>, type |-> "", body |-> <<>>]
trait(parents) == [class(parents, <<>>) EXCEPT !.kind = "Trait"]
module == [class(<<>>, <<>>) EXCEPT !.kind = "Module"]
field(owner, member, type, code) ==
    [kind |-> "Field", owner |-> owner, member |-> member, parents |-> <<>>, fields |-> <<>>,
     params |-> <<>>, signature |-> <<>>, type |-> type, body |-> code]
function(owner, member, params, type, code) ==
    [field(owner, member, type, code) EXCEPT !.kind = "FunctionDef",
                                             !.params = [j \in DOMAIN params |-> params[j][1]],
                                             !.signature = [j \in DOMAIN params |-> params[j][2]],
                                             !.body = [j \in DOMAIN params |->
                                                          addParameter(params[j][1], params[j][2])] \o code]
declaration(member, types, type) ==
    [field("", member, type, <<>>) EXCEPT !.kind = "FunctionDecl", !.signature = types]

returns(type, v) == <<addReturn(type, v)>>
method(owner, member, type, v) == function(owner, member, <<<<"this", owner>>>>, type, returns(type, v))

thisX == selectValue(this, "x")
setX(object, v) == assignValue(selectValue(object, "x"), v)

\* class C(var x: Int); class H(var c: C, var a: A); class D(var x: Int) { var y = x + 1 }; trait T; class A extends T;
\* class B extends A, which overrides f; a module of functions; two external functions.
MCLibrary ==
    [C |-> class(<<>>, <<"C.x">>),
     D |-> class(<<>>, <<"D.x", "D.y">>), H |-> class(<<>>, <<"H.c", "H.a">>),
     T |-> trait(<<>>), A |-> class(<<"T">>, <<>>), B |-> class(<<"A">>, <<>>),
     M |-> module,
     Throwable |-> class(<<>>, <<>>), ArithmeticException |-> class(<<"Throwable">>, <<>>),
     println |-> declaration("println", <<"Int">>, "Unit"), tick |-> declaration("tick", <<>>, "Int")]
    @@ (arrayApply :> declaration(arrayApply, <<Array, "Int">>, "Int"))
    @@ (arrayUpdate :> declaration(arrayUpdate, <<Array, "Int", "Int">>, "Unit"))
    @@ (anyEquals :> declaration(anyEquals, <<"Object", "Object">>, "Boolean"))
    @@ ("C.x" :> field("C", "x", "Int", <<>>))
    @@ ("C.get" :> method("C", "get", "Int", thisX))
    @@ ("C.bump" :> method("C", "bump", "Unit", setX(this, binaryValue("+", thisX, lit(1)))))
    @@ ("C.keep" :> function("C", "keep", <<<<"this", "C">>, <<"h", "H">>>>, "Unit",
            returns("Unit", assignValue(selectValue(local("h"), "c"), this))))
    @@ ("H.c" :> field("H", "c", "C", <<>>)) @@ ("H.a" :> field("H", "a", "A", <<>>))
    @@ ("A.give" :> function("A", "give", <<<<"this", "A">>, <<"h", "H">>>>, "Unit", returns("Unit", unitValue)))
    @@ ("B.give" :> function("B", "give", <<<<"this", "B">>, <<"h", "H">>>>, "Unit",
            returns("Unit", assignValue(selectValue(local("h"), "a"), this))))
    @@ ("D.x" :> field("D", "x", "Int", <<>>))
    @@ ("D.y" :> field("D", "y", "Int", returns("Int", binaryValue("+", thisX, lit(1)))))
    @@ ("D.$init" :> function("D", "$init", <<<<"this", "D">>>>, "Unit",
            <<addEval(assignValue(selectValue(this, "y"), binaryValue("+", thisX, lit(1)))),
              addReturn("Unit", unitValue)>>))
    @@ ("T.f" :> method("T", "f", "Int", lit(1)))
    @@ ("B.f" :> method("B", "f", "Int", lit(2)))
    @@ ("A.g" :> method("A", "g", "Int", lit(3)))
    @@ ("three" :> function("M", "three", <<>>, "Int", returns("Int", lit(3))))
    @@ ("make" :> function("M", "make", <<>>, "C", returns("C", newValue("C", <<lit(7)>>))))
    @@ ("first" :> function("M", "first", <<<<"a", "Int">>, <<"c", "Int">>>>, "Int",
            returns("Int", local("a"))))
    @@ ("twice" :> function("M", "twice", <<<<"a", "Int">>>>, "Int",
            returns("Int", binaryValue("+", local("a"), local("a")))))
    @@ ("poke" :> function("M", "poke", <<<<"o", "C">>>>, "Unit",
            returns("Unit", setX(local("o"), lit(3)))))
    @@ ("pokeC" :> function("M", "pokeC", <<<<"h", "H">>>>, "Unit",
            returns("Unit", setX(selectValue(local("h"), "c"), lit(4)))))

\* def test(n: Int, b: Boolean, p: C, q: A)
parameters == <<addParameter("n", "Int"), addParameter("b", "Boolean"),
                addParameter("p", "C"), addParameter("q", "A")>>

MCSignature == <<"Int", "Boolean", "C", "A">>

input(n, b, p, q) == [n |-> lit(n), b |-> booleanLiteral(b), p |-> p, q |-> q]

MCInputs ==
    LET c == newValue("C", <<lit(2)>>)
        objectA == newValue("A", <<>>)
        objectB == newValue("B", <<>>)
    IN  {input(-8, TRUE, nullLiteral, objectA), input(0, FALSE, c, objectB),
         input(1, FALSE, c, nullLiteral),
         input(0, TRUE, c, objectA)}

test(instructions) == parameters \o instructions

n == local("n")
b == local("b")
of(o, m) == selectValue(local(o), m)
callOf(name, arguments) == callValue(local(name), arguments)

-----------------------------------------------------------------------------
(* Objects and arrays: two steps between allocations and a result. *)

element(j) == callOf(arrayApply, <<local("r"), j>>)
update(j, v) == callOf(arrayUpdate, <<local("r"), j, v>>)

allocations ==
    <<val("o", "C", newValue("C", <<lit(2)>>)),
      val("d", "D", newValue("D", <<lit(1)>>)),
      val("r", Array, newValue(Array, <<lit(1), n>>)),
      val("a", "C", local("o")),
      var("v", "Int", n)>>

mutations ==
    {addEval(setX(local("o"), lit(1))),
     addEval(setX(local("d"), of("o", "x"))),
     addEval(callValue(of("o", "bump"), <<>>)),
     addEval(callOf("poke", <<local("o")>>)),
     addEval(update(lit(0), lit(5))),
     addEval(update(n, lit(4))),
     addEval(update(lit(1), element(lit(0)))),
     addEval(setX(local("a"), n)),
     addEval(assignValue(local("v"), of("o", "x"))),
     addEval(ifValue(b, assignValue(local("v"), lit(3)), println(local("v")), "Unit")),
     addEval(setX(local("p"), lit(1)))}

results ==
    {binaryValue("+", of("o", "x"), element(lit(0))),
     binaryValue("+", of("d", "y"), element(lit(1))),
     binaryValue("-", local("v"), of("a", "x")),
     ifValue(b, of("d", "x"), of("o", "get"), "Int")}

Objects ==
    {test(allocations \o <<s1, s2>> \o returns("Int", v)) :
        s1 \in mutations, s2 \in mutations, v \in results}

-----------------------------------------------------------------------------
(* Expressions, each in the places where a value may stand. *)

typed(type, values) == {<<type, v>> : v \in values}

atoms == {n, lit(0), lit(1), lit(-1), tick, binaryValue("/", lit(1), n), selectValue(local("p"), "x")}

conditions ==
    {b, unaryValue("!", b), booleanLiteral(TRUE), booleanLiteral(FALSE),
     binaryValue("<", n, lit(1)), binaryValue(">", tick, lit(0))}

arithmetic ==
    {binaryValue(op, v, w) : op \in {"+", "-", "*", "/", "%"}, v \in atoms, w \in {n, lit(0), lit(1), lit(-1)}}
    \cup {binaryValue(op, v, tick) : op \in {"+", "-", "*", "/", "%"}, v \in {n, tick}}
    \cup {binaryValue(op, v, w) : op \in BitOps \cup Shifts, v \in {n, tick, lit(1), lit(-1)}, w \in {n, lit(1), lit(-1)}}
    \cup {unaryValue("-", unaryValue("-", v)) : v \in atoms} \cup {unaryValue("+", v) : v \in atoms}
    \cup {ifValue(c, v, w, "Int") : c \in conditions, v \in {n, tick}, w \in {n, lit(1)}}

comparisons ==
    LET plain == {binaryValue(op, v, w) : op \in {"==", "<", ">="}, v \in atoms, w \in {n, lit(1), tick}}
    IN  plain \cup {unaryValue("!", v) : v \in {u \in plain : u.ops[2] # tick}}

connectives ==
    LET plain == {binaryValue(op, c, d) : op \in Logical \cup {"!="}, c \in conditions, d \in conditions}
        nested == {binaryValue(op, c, d) : op \in Logical, c \in {b, unaryValue("!", b)},
                                           d \in {binaryValue(">", tick, lit(0)), binaryValue("<", n, lit(1))}}
    IN  plain \cup {unaryValue("!", v) : v \in nested}
        \cup {binaryValue(op, b, v) : op \in Logical, v \in nested}
        \cup {binaryValue(op, c, d) : op \in BitOps, c \in conditions, d \in {b, booleanLiteral(TRUE), booleanLiteral(FALSE)}}
        \cup {ifValue(c, b, d, "Boolean") : c \in conditions, d \in conditions}

objects == {local("p"), nullLiteral, newValue("C", <<tick>>), boxValue("Int", n),
            boxValue("Int", lit(1)), boxValue("Boolean", b), local("q")}

referenceTests ==
    {binaryValue("==", v, w) : v \in objects, w \in objects}
    \cup {callOf(anyEquals, <<v, w>>) : v \in objects, w \in objects}
    \cup {isInstanceOfValue(type, v) : type \in {"A", "B", "C", "Int", "Object"}, v \in objects}

casts ==
    {unboxValue("Int", v) : v \in objects}
    \cup {selectValue(asInstanceOfValue("C", v), "x") : v \in objects}
    \cup {callOf("twice", <<v>>) : v \in atoms}
    \cup {callOf("first", <<v, w>>) : v \in {n, tick}, w \in atoms}
    \cup {callValue(selectValue(v, m), <<>>) : m \in {"f", "g"},
              v \in {local("q"), newValue("A", <<>>), newValue("B", <<>>), asInstanceOfValue("B", local("q"))}}
    \cup {callValue(selectValue(v, "get"), <<>>) : v \in {local("p"), newValue("C", <<tick>>)}}
    \cup {callOf(arrayApply, <<newValue(Array, <<tick, v>>), w>>) : v \in {n, tick}, w \in {n, lit(1), lit(-1)}}

expressions == typed("Int", arithmetic \cup casts) \cup typed("Boolean", comparisons \cup connectives \cup referenceTests)

\* v returned, unused, in a block before an effect, in a loop, and guarded.
returned(e) == test(returns(e[1], e[2]))
unusedIn(e) == test(<<val("u", e[1], e[2])>> \o returns("Int", lit(1)))
inBlock(e) ==
    test(returns(e[1], blockValue(<<localLetValue("u", e[1], e[2]), println(n), local("u")>>)))
inLoop(e) ==
    test(<<var("i", "Int", lit(0)),
           addEval(whileValue(binaryValue("<", local("i"), lit(2)),
               blockValue(<<localLetValue("u", e[1], e[2]), println(local("u")),
                            assignValue(local("i"), binaryValue("+", local("i"), lit(1)))>>)))>>
         \o returns("Int", local("i")))
guarded(e) ==
    test(<<val("t", e[1], tryValue(e[2],
               <<catchValue("e", "ArithmeticException", blockValue(<<println(lit(7)), e[2]>>), e[1]),
                 finallyValue(println(lit(3)))>>, e[1]))>>
         \o returns(e[1], local("t")))

Expressions == UNION {{returned(e), unusedIn(e), inBlock(e), inLoop(e), guarded(e)} : e \in expressions}

-----------------------------------------------------------------------------
(* Bindings next to each other.  In a block, what follows the second uses the second *)
(* only; among instructions, it uses the first as well.  Rescoped has the other blocks. *)

adjacent(v, second, others) ==
    blockValue(<<localLetValue("s", "Int", v), second>> \o others)

firsts == {binaryValue("+", n, lit(1)), unaryValue("-", n), tick, binaryValue("/", lit(1), n)}

usesOfFirst ==
    {binaryValue("*", local("s"), lit(2)), binaryValue("-", n, local("s")),
     ifValue(b, local("s"), n, "Int"), binaryValue("+", local("s"), local("s")), tick}

seconds == {localLetValue("t", "Int", v) : v \in usesOfFirst} \cup {localVarValue("t", "Int", v) : v \in usesOfFirst}

rests ==
    {<<local("t")>>, <<println(n), binaryValue("+", local("t"), local("t"))>>,
     <<localLetValue("u", "Int", binaryValue("+", local("t"), lit(1))), local("u")>>}

adjacentBlocks ==
    typed("Int", {adjacent(v, w, others) : v \in firsts, w \in seconds, others \in rests}
        \cup {adjacent(v, localVarValue("t", "Int", w), <<assignValue(local("t"), tick), local("t")>>) :
                v \in firsts, w \in usesOfFirst})

Adjacent ==
    UNION {{returned(e), unusedIn(e), guarded(e)} : e \in adjacentBlocks}
    \cup {test(<<val("s", "Int", v), val("t", "Int", w)>> \o returns("Int", r)) :
            v \in firsts, w \in usesOfFirst, r \in {local("t"), binaryValue("+", local("s"), local("t"))}}

-----------------------------------------------------------------------------
(* Bodies of which most are not well formed, and some only nearly so. *)

let(name, type, v, result) == blockValue(<<localLetValue(name, type, v), result>>)
attempt(body, handlers) == tryValue(body, handlers, "Int")
handler(type, v) == catchValue("e", type, v, "Int")

nearlyTyped ==
    {local("nowhere"), callOf("nowhere", <<n>>), callOf("twice", <<>>), callOf("twice", <<n, n>>),
     callOf("twice", <<b>>), callOf("first", <<n, local("q")>>), callValue(of("p", "get"), <<n>>),
     callValue(of("p", "f"), <<>>), callValue(of("q", "f"), <<>>), of("q", "x"), of("p", "y"),
     selectValue(newValue("C", <<>>), "x"), selectValue(newValue("C", <<b>>), "x"),
     selectValue(newValue("A", <<n>>), "x"), selectValue(newValue("T", <<>>), "f"),
     selectValue(asInstanceOfValue("N", local("p")), "x"), unboxValue("Int", n),
     selectValue(ifValue(b, local("p"), local("q"), "C"), "x"), ifValue(b, n, local("p"), ""),
     ifValue(n, n, n, "Int"), unaryValue("-", b), binaryValue("+", n, b),
     binaryValue("&", n, b), binaryValue("^", local("p"), local("p")), binaryValue("<<", b, n),
     let("u", "C", local("q"), of("u", "x")), let("u", "Int", n, assignValue(local("u"), n)),
     binaryValue("+", let("u", "Int", n, local("u")), local("u")),
     blockValue(<<localLetValue("u", "Int", n), localLetValue("u", "C", local("p")), of("u", "x")>>),
     let("n", "C", local("p"), of("n", "x")), binaryValue("-", let("n", "C", local("p"), of("n", "x")), n),
     assignValue(n, n), assignValue(of("q", "x"), n), assignValue(of("p", "get"), n),
     callOf("poke", <<local("q")>>), throwValue(local("p")), throwValue(nullLiteral),
     throwValue(newValue("ArithmeticException", <<>>)),
     attempt(throwValue(newValue("Throwable", <<>>)), <<handler("ArithmeticException", lit(1))>>),
     attempt(n, <<>>), attempt(n, <<handler("C", lit(1))>>), attempt(n, <<handler("T", lit(1))>>),
     attempt(n, <<handler("Object", n), handler("Throwable", n)>>),
     attempt(n, <<handler("ArithmeticException", n), handler("Throwable", n)>>),
     attempt(n, <<handler("Throwable", n), handler("ArithmeticException", n)>>),
     attempt(n, <<finallyValue(n), handler("Throwable", n)>>),
     binaryValue("+", attempt(n, <<handler("Throwable", of("e", "x"))>>), n),
     binaryValue("+", attempt(n, <<handler("Throwable", n)>>), local("e"))}

NearlyTyped ==
    UNION {{returned(e), unusedIn(e), inLoop(e)} : e \in typed("Int", nearlyTyped) \cup typed("", nearlyTyped)}
    \cup {test(<<val("u", "Int", n)>> \o code) : code \in
            {returns("C", n), returns("Int", b), returns("Int", n) \o returns("Int", n), <<>>,
             <<val("u", "Int", n)>> \o returns("Int", n), <<addEval(n), addParameter("m", "Int")>> \o returns("Int", n),
             <<addThrow(local("p"))>>, <<addThrow(newValue("Throwable", <<>>))>>, <<val("n", "C", local("p"))>> \o returns("Int", of("n", "x"))}}

-----------------------------------------------------------------------------
(* Zones: h and k are outside, c and w within; v is a local outside. *)

zoneC == newValue("C", <<n>>)
newH(c, a) == newValue("H", <<c, a>>)
setC(object, v) == assignValue(selectValue(object, "c"), v)
cOf(o) == of(o, "c")
member(v, m, arguments) == callValue(selectValue(v, m), arguments)

withinZone ==
    {setC(local("h"), local("c")), setC(local("h"), zoneC), setC(local("h"), local("p")),
     setC(local("w"), zoneC), setC(local("w"), cOf("h")), assignValue(local("z"), cOf("h")),
     assignValue(local("z"), zoneC), setC(local("h"), local("z")),
     assignValue(local("k"), local("c")), assignValue(local("v"), of("c", "x")),
     member(local("c"), "keep", <<local("h")>>), member(cOf("w"), "keep", <<local("h")>>),
     callOf("poke", <<local("c")>>), callOf("poke", <<local("p")>>),
     println(member(local("a"), "f", <<>>)), member(local("a"), "give", <<local("h")>>),
     println(selectValue(cOf("w"), "x")), println(binaryValue("/", lit(1), of("c", "x"))),
     zoneScoped(blockValue(<<setC(local("w"), zoneC), lit(1)>>)),
     zoneScoped(println(selectValue(selectValue(newH(local("c"), local("q")), "c"), "x")))}

\* w is an object of the zone, z a variable of it that may hold one.
zoneLocals ==
    <<localLetValue("c", "C", zoneC),
      localLetValue("a", "A", ifValue(b, newValue("A", <<>>), newValue("B", <<>>), "A")),
      localLetValue("w", "H", newH(local("c"), local("a"))), localVarValue("z", "C", local("p"))>>

zone(code) ==
    test(<<val("h", "H", newH(newValue("C", <<lit(2)>>), local("q"))), var("k", "C", newValue("C", <<lit(3)>>)),
           var("v", "Int", lit(1)),
           val("u", "Int", tryValue(zoneScoped(blockValue(zoneLocals \o code)),
                                    <<catchValue("e", "ArithmeticException", lit(0), "Int")>>, "Int"))>>
         \o returns("Int", binaryValue("+", binaryValue("+", selectValue(cOf("h"), "x"), of("k", "x")),
                                       binaryValue("+", local("u"), binaryValue("+", local("v"),
                                                   member(of("h", "a"), "f", <<>>))))))

Zones == {zone(<<s1, s2, v>>) : s1 \in withinZone, s2 \in withinZone,
                                v \in {of("c", "x"), local("c")}}

-----------------------------------------------------------------------------
(* One object known by two names: o, and once it is stored, the field of h. *)

aliasing ==
    {setC(local("h"), local("o")), setX(cOf("h"), lit(5)), callOf("poke", <<local("o")>>),
     callOf("pokeC", <<local("h")>>), member(local("q"), "give", <<local("h")>>), assignValue(local("v"), of("o", "x"))}

aliased(c, code) ==
    test(<<val("o", "C", newValue("C", <<lit(2)>>)), val("h", "H", newH(local(c), local("q"))), var("v", "Int", n)>>
         \o each(code, addEval) \o returns("Int", binaryValue("+", of("o", "x"), local("v"))))

Aliases == {aliased(c, <<s1, s2>>) : c \in {"o", "p"}, s1 \in aliasing, s2 \in aliasing}

-----------------------------------------------------------------------------
(* Bodies that show where the compiler is wrong. *)

\* An object changed in a loop, in a branch or by an operand before another is evaluated,
\* and one that is written by its own name after it was stored.
Stale ==
    LET increment == setX(local("o"), binaryValue("+", of("o", "x"), lit(1)))
        object == <<val("o", "C", newValue("C", <<lit(0)>>))>>
    IN  {aliased("p", <<setC(local("h"), local("o")), setX(local("o"), lit(3)), setX(cOf("h"), lit(5))>>),
         test(object \o <<addEval(whileValue(binaryValue("<", of("o", "x"), lit(3)), increment))>>
                     \o returns("Int", of("o", "x"))),
         test(object \o <<addEval(ifValue(b, increment, unitValue, "Unit"))>> \o returns("Int", of("o", "x"))),
         test(object \o returns("Int", binaryValue("+", blockValue(<<increment, lit(1)>>), of("o", "x"))))}

\* Blocks whose first binding is used in the second and again later; a block that ends
\* in one that binds the same name.
Rescoped ==
    LET doubled(x) == localLetValue("t", "Int", binaryValue("*", local(x), lit(2)))
        sum(x) == binaryValue("+", local(x), local("t"))
        plusOne(x) == localLetValue(x, "Int", binaryValue("+", n, lit(1)))
    IN  {test(returns("Int", blockValue(<<plusOne("s"), doubled("s"), sum("s")>>))),
         test(<<val("m", "Int", blockValue(<<localLetValue("n", "Int", ifValue(b, lit(1), lit(2), "Int")), doubled("n"), sum("n")>>))>>
              \o returns("Int", local("m"))),
         test(<<val("s", "Int", tick)>>
              \o returns("Int", blockValue(<<plusOne("s"), doubled("s"), sum("s")>>))),
         test(returns("Int", blockValue(<<localLetValue("s", "Int", tick), println(local("s")),
                  blockValue(<<localLetValue("s", "Int", tick), println(local("s")), local("s")>>)>>)))}

\* A variable of a zone assigned in one branch only; an object that a function allocates.
Escaping ==
    {zone(<<ifValue(b, assignValue(local("z"), zoneC), assignValue(local("z"), cOf("h")), "Unit"),
            setC(local("h"), local("z")), lit(1)>>),
     zone(<<setC(local("h"), callOf("make", <<>>)), lit(1)>>)}

MCPrograms == CASE Family = "objects"  -> Objects
                [] Family = "stale"    -> Stale
                [] Family = "escaping" -> Escaping
                [] Family = "rescoped" -> Rescoped
                [] Family = "all"      -> Expressions \cup Adjacent \cup Objects \cup Aliases \cup NearlyTyped \cup Zones

==============================================================================
