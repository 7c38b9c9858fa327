------------------------------- MODULE MCLinker -------------------------------
(***************************************************************************)
(* The linker on a family of small programs: a base class or trait A, a    *)
(* trait T, a class C and a class D below them, a module O with the entry  *)
(* point, and a failure class; hierarchies, overrides and the uses of the  *)
(* entry point vary.                                                       *)
(***************************************************************************)
EXTENDS Linker

A == <<"p", "A">>   T == <<"p", "T">>   C == <<"p", "C">>   D == <<"p", "D">>
O == <<"p", "O">>   Npe == <<"npe">>    Cce == <<"cce">>    Div == <<"div">>
Root == <<"object">>  Rt == <<"rt">>
Setter == [m \in {"m", "x", "main", "toString"} |-> IF m = "x" THEN "x_eq" ELSE "none"]

Definition(name, kind) ==
    [name |-> name, kind |-> kind, module |-> <<"p">>, parents |-> <<>>,
     receiver |-> <<>>, params |-> 0, returns |-> Root, type |-> <<>>,
     raises |-> {}, uses |-> {}, hasBody |-> FALSE]

Type(name, kind, parents) == [Definition(name, kind) EXCEPT !.parents = parents]

\* A method m of an owner; `returns' narrows covariantly, `params' is an overload.
Method(owner, kind, returns, params) ==
    [Definition(Append(owner, "m"), kind) EXCEPT
        !.receiver = owner, !.params = params, !.returns = returns]

Use(op, name, member) == [op |-> op, name |-> name, member |-> member]

Main(uses) == [Definition(Append(O, "main"), "def") EXCEPT !.uses = uses]

Helper(name) == Definition(Append(name, "helper"), "def")

Types(cParents, dParents) ==
    <<Type(A, "trait", <<Root>>), Type(T, "trait", <<Root>>),
      Type(C, "class", cParents), Type(D, "class", dParents), Type(O, "module", <<>>)>>

Concrete(owner, present, params) ==
    IF present THEN <<Method(owner, "def", owner, params)>> ELSE <<>>

\* Virtual calls: A.m is abstract, T.m, C.m and D.m may implement it, with D.m
\* possibly an overload, and the entry point calls it through A or through T.
DispatchPrograms ==
    {Types(cParents, dParents)
       \o <<Method(A, "decl", Root, 1), Main({Use("new", new, ""), Use("select", via, "m")})>>
       \o Concrete(T, inT, 1) \o Concrete(C, inC, 1) \o Concrete(D, TRUE, params) :
        cParents \in {<<A>>, <<T>>, <<A, T>>, <<T, A>>}, dParents \in {<<C>>, <<C, T>>},
        new \in {C, D}, via \in {A, T}, inT \in BOOLEAN, inC \in BOOLEAN,
        params \in {1, 2}}

\* The other uses, with the failures they imply: what they name may be missing,
\* relative to the owner or to the module, or defined twice.
Failure(name) == Type(name, "class", <<>>)
Describe == [Method(Npe, "decl", Root, 0) EXCEPT !.name = Append(Npe, "toString")]

UsePrograms ==
    {Types(<<A, Root>>, <<C>>)
       \o <<[Definition(Append(C, "x"), "field") EXCEPT !.type = T],
            [Definition(Append(C, "x_eq"), "decl") EXCEPT !.raises = {Cce}],
            Failure(Cce), Failure(Npe), Describe, Main({use, other})>>
       \o extra :
        use \in {Use("assign", <<"C">>, "x"), Use("name", <<"helper">>, ""),
                 Use("cast", D, ""), Use("type", <<"q">>, "")},
        other \in {Use("throw", Npe, ""), Use("describe", <<"q">>, ""),
                   Use("new", C, ""), Use("unbox", <<>>, ""), Use("divide", <<>>, ""),
                   Use("assign", Append(C, "x"), "")},
        extra \in {<<>>, <<Helper(O), Definition(Append(C, "$init"), "def")>>,
                   <<Helper(<<"p">>), Failure(Div), Type(T, "class", <<>>)>>}}

\* No entry point; a runtime bridge that takes precedence over main; a nameless
\* definition, which is not indexed; a body whose references form a cycle; a
\* function of a class that is used without its class.
Bridge == [Definition(<<"rt">>, "def") EXCEPT !.uses = {Use("name", <<"p", "helper">>, "")}]
EntryPrograms ==
    {<<>>, <<Helper(<<"p">>)>>,
     <<Type(C, "class", <<>>), Helper(C), Main({Use("name", Append(C, "helper"), "")})>>,
     <<Bridge, Helper(<<"p">>), Main({})>>,
     <<Main({Use("name", <<"p", "helper">>, "")}), Definition(<<>>, "def"),
       [Helper(<<"p">>) EXCEPT !.uses = {Use("name", Append(O, "main"), "")}]>>}

\* Every reference graph over an entry point and three functions.
Calls(name, callees) ==
    [Definition(name, "def") EXCEPT !.uses = {Use("name", c, "") : c \in callees}]

GraphPrograms ==
    {<<Calls(<<"main">>, m), Calls(<<"a">>, a), Calls(<<"b">>, b), Calls(<<"c">>, c)>> :
        m, a, b \in SUBSET {<<"a">>, <<"b">>, <<"c">>}, c \in {{}, {<<"a">>}, {<<"main">>}}}

MCPrograms == DispatchPrograms \cup UsePrograms \cup EntryPrograms \cup GraphPrograms

ASSUME WellFormedAssumption == \A p \in MCPrograms : IsWellFormed(p)

==============================================================================
