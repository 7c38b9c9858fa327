-------------------------------- MODULE Linker --------------------------------
(***************************************************************************)
(* The linker's reachability analysis (tools/linker/src/Linker.cpp): the   *)
(* definitions of all NIR modules are indexed by name, the entry points    *)
(* are found, and a worklist marks every definition an entry point needs.  *)
(*                                                                         *)
(* A name is a sequence of atoms: the last one is the member, the ones     *)
(* before it the owner.  The body of a definition is the set of its uses   *)
(* of non-local names, each tagged with the value kind it occurs in; the   *)
(* expression structure around them is abstracted.  The worklist is a set: *)
(* the code's queue receives references in hash-map order and skips a name *)
(* popped twice.                                                           *)
(***************************************************************************)
EXTENDS Linearization

CONSTANTS
    Programs,       \* the linker's inputs: sequences of definitions
    RuntimeMain,    \* the name of the runtime bridge's entry point
    MainAtom,       \* the member name of an explicit entry point
    InitAtom,       \* the member name of a module or class initializer
    ToStringAtom,   \* the member name of toString
    SetterOf,       \* member name -> the member name of its setter
    Object,         \* the name of the root class, which is never followed
    NullPointer, ClassCast, Arithmetic      \* the failures a body may raise

\* A program is a finite sequence of definitions, in the order of the modules.
ASSUME ProgramsAssumption == \A p \in Programs : p \in Seq(ToSet(p))

VARIABLES
    program,        \* the input, chosen once
    phase,          \* "index", "mark" or "done"
    globals,        \* name -> definition
    roots,
    worklist,
    reachable,
    diagnostics,    \* the set of errors reported, <<message, name>>
    ok              \* LinkResult::ok

vars == <<program, phase, globals, roots, worklist, reachable,
          diagnostics, ok>>

------------------------------------------------------------------------------
(* Definitions and names *)

OwnerOf(name) == IF Len(name) > 1 THEN Front(name) ELSE <<>>
MemberOf(name) == IF Len(name) > 1 THEN Last(name) ELSE ""

IsFunction(d) == d.kind \in {"decl", "def"}
IsClassLike(d) == d.kind \in {"module", "class", "trait"}
IsDispatchType(d) == d.kind \in {"class", "trait"}

IsMainCandidate(d) ==
    IsFunction(d) /\ (MemberOf(d.name) = MainAtom \/ d.name = <<MainAtom>>)

\* The parents of every class-like global.
ParentMapOf(g) ==
    [c \in {n \in DOMAIN g : IsClassLike(g[n])} |-> g[c].parents]

IsSubtypeOf(g, actual, expected) ==
    actual = expected \/ expected \in Ancestors(ParentMapOf(g), actual)

\* A function of a class or trait that takes its receiver first.
IsVirtual(g, d) ==
    /\ IsFunction(d)
    /\ OwnerOf(d.name) \in DOMAIN g
    /\ IsDispatchType(g[OwnerOf(d.name)])
    /\ d.receiver = OwnerOf(d.name)

SignaturesMatch(g, expected, candidate) ==
    /\ candidate.params = expected.params
    /\ IsSubtypeOf(g, candidate.returns, expected.returns)

\* The overrides a reference to a virtual method may dispatch to.
OverridesOf(g, name) ==
    IF ~ IsVirtual(g, g[name]) THEN {}
    ELSE {c \in DOMAIN g :
            /\ MemberOf(c) = MemberOf(name) /\ c # name
            /\ IsVirtual(g, g[c])
            /\ IsSubtypeOf(g, OwnerOf(c), OwnerOf(name))
            /\ SignaturesMatch(g, g[name], g[c])}

------------------------------------------------------------------------------
(* Name resolution: {} or a singleton *)

\* A name as written, then relative to the owner, then to the module.
Resolve(g, ctx, name) ==
    LET qualified == SelectSeq(<<name, ctx.owner \o name, ctx.module \o name>>,
                               LAMBDA n : n \in DOMAIN g)
    IN  {n \in DOMAIN g : qualified # <<>> /\ n = Head(qualified)}

\* A member along the linearization of the receiver's type.
ResolveMember(g, type, member) ==
    LET holders == SelectSeq(LinearizedTypeNames(type, ParentMapOf(g)),
                             LAMBDA c : c # Object /\ Append(c, member) \in DOMAIN g)
    IN  {n \in DOMAIN g : holders # <<>> /\ n = Append(Head(holders), member)}

\* A selection from a value whose static type has the given name.
ResolveSelect(g, ctx, receiver, member) ==
    UNION {ResolveMember(g, type, member) :
              type \in {t \in Resolve(g, ctx, receiver) : IsClassLike(g[t])}}

------------------------------------------------------------------------------
(* References *)

Defined(g, names) == {n \in DOMAIN g : n \in names}

\* The fields of a class and of everything above it.
ClassFields(g, class) ==
    LET owners == Upward(ParentMapOf(g), {class}) \ {Object}
    IN  {n \in DOMAIN g : g[n].kind = "field" /\ OwnerOf(n) \in owners}

Initializer(g, class) == Defined(g, {Append(class, InitAtom)})

\* The toString an uncaught exception of this static type would be described by.
ExceptionDescription(g, ctx, type) ==
    LET class    == Resolve(g, ctx, type)
        resolved == UNION {ResolveMember(g, c, ToStringAtom) : c \in class}
    IN  IF resolved # {} THEN resolved
        ELSE {n \in DOMAIN g :
                 /\ MemberOf(n) = ToStringAtom /\ IsVirtual(g, g[n])
                 /\ \A c \in class : IsSubtypeOf(g, OwnerOf(n), c)}

\* Selecting an instance member can fail on a null receiver.
NullCheck(g, members) ==
    IF \E n \in members : OwnerOf(n) \in DOMAIN g /\ g[OwnerOf(n)].kind # "module"
    THEN Defined(g, {NullPointer}) ELSE {}

\* The global an assignment writes: a bare name, or a member of a receiver.
AssignTarget(g, ctx, use) ==
    IF use.member = "" THEN Resolve(g, ctx, use.name)
    ELSE ResolveSelect(g, ctx, use.name, use.member)

Setters(g, targets) ==
    Defined(g, {Append(OwnerOf(n), SetterOf[MemberOf(n)]) : n \in targets})

\* What one use in a body refers to.
UseReferences(g, ctx, use) ==
    LET named  == Resolve(g, ctx, use.name)
        member == ResolveSelect(g, ctx, use.name, use.member)
        target == AssignTarget(g, ctx, use)
    IN  CASE use.op = "new" ->
                 named \cup UNION {ClassFields(g, c) \cup Initializer(g, c) : c \in named}
          [] use.op \in {"name", "type"} -> named
          [] use.op = "cast"     -> named \cup Defined(g, {ClassCast})
          [] use.op = "unbox"    -> Defined(g, {ClassCast})
          [] use.op = "divide"   -> Defined(g, {Arithmetic})
          [] use.op = "throw"    -> Defined(g, {NullPointer})
                                        \cup ExceptionDescription(g, ctx, use.name)
          [] use.op = "describe" -> ExceptionDescription(g, ctx, use.name)
          [] use.op = "select"   -> member \cup NullCheck(g, member)
          [] use.op = "assign"   ->
                 target \cup Setters(g, target)
                     \cup NullCheck(g, IF use.member = "" THEN {} ELSE target)
          [] OTHER -> {}

\* A use that must name a global and does not.  (A selection that resolves to
\* no member is skipped silently.)
IsUnresolved(g, ctx, use) ==
    /\ use.op \in {"name", "type", "cast"} \/ (use.op = "assign" /\ use.member = "")
    /\ Resolve(g, ctx, use.name) = {}

HasBody(d) == d.kind = "def" \/ (d.kind = "field" /\ d.hasBody)
BodyContext(d) == [owner |-> OwnerOf(d.name), module |-> d.module]

\* Fault: a class keeps its parents but not the functions they own.
ClassReferencesWithoutInherited(g, d) ==
    Defined(g, ToSet(d.parents) \ {Object}) \cup ClassFields(g, d.name)

\* A class-like definition needs its parents, every function its parents own,
\* and the fields of the whole hierarchy above it.
ClassReferences(g, d) ==
    LET parents == ToSet(d.parents) \ {Object}
    IN  Defined(g, parents)
            \cup {n \in DOMAIN g : OwnerOf(n) \in parents /\ IsFunction(g[n])}
            \cup ClassFields(g, d.name)

\* Code owned by a module needs the module instance, its fields and initializer.
ModuleReferences(g, d) ==
    LET owner == OwnerOf(d.name)
    IN  IF owner \in DOMAIN g /\ g[owner].kind = "module"
        THEN {owner} \cup ClassFields(g, owner) \cup Initializer(g, owner)
        ELSE {}

BodyReferences(g, d) ==
    IF HasBody(d)
    THEN ModuleReferences(g, d)
             \cup UNION {UseReferences(g, BodyContext(d), u) : u \in d.uses}
    ELSE {}

DirectReferences(g, d) ==
    IF IsClassLike(d) THEN ClassReferences(g, d)
    ELSE Defined(g, {d.type}) \cup Defined(g, d.raises) \cup BodyReferences(g, d)

References(g, d) ==
    LET direct == DirectReferences(g, d)
    IN  direct \cup UNION {OverridesOf(g, n) : n \in direct}

Unresolved(g, d) ==
    IF ~ IsClassLike(d) /\ HasBody(d)
    THEN {u.name : u \in {v \in d.uses : IsUnresolved(g, BodyContext(d), v)}}
    ELSE {}

------------------------------------------------------------------------------
(* Linker::link *)

Phases == {"index", "mark", "done"}

Init ==
    /\ program \in Programs
    /\ phase = "index"
    /\ globals = <<>>
    /\ roots = {}
    /\ worklist = {}
    /\ reachable = {}
    /\ diagnostics = {}
    /\ ok = FALSE

\* The positions of the definitions that are indexed: those with a name, and of
\* several with one name the first.
Indexed(defs) ==
    {i \in DOMAIN defs :
        /\ defs[i].name # <<>>
        /\ \A j \in DOMAIN defs : defs[j].name = defs[i].name => i <= j}

GlobalsOf(defs) ==
    [n \in {defs[i].name : i \in Indexed(defs)} |->
        defs[CHOOSE i \in Indexed(defs) : defs[i].name = n]]

DuplicateNames(defs) ==
    {defs[i].name : i \in {j \in DOMAIN defs : defs[j].name # <<>>} \ Indexed(defs)}

\* Fault: the runtime bridge is taken for granted.
EntryPointsAssumeRuntime(g) == {RuntimeMain}

EntryPoints(g) ==
    IF RuntimeMain \in DOMAIN g THEN {RuntimeMain}
    ELSE {n \in DOMAIN g : IsMainCandidate(g[n])}

\* Index the definitions of all modules and find the entry points.  Without one
\* (a program without modules has none) the link stops.
IndexAndDiscoverRoots ==
    /\ phase = "index"
    /\ globals' = GlobalsOf(program)
    /\ roots' = EntryPoints(globals')
    /\ worklist' = roots'
    /\ phase' = IF roots' = {} THEN "done" ELSE "mark"
    /\ diagnostics' = {<<"duplicate global", n>> : n \in DuplicateNames(program)}
                        \cup (IF roots' = {} THEN {<<"no entry point", <<>> >>} ELSE {})
    /\ UNCHANGED <<program, reachable, ok>>

\* What visiting a name adds to the worklist and to the diagnostics.
Needed(g, name) == IF name \in DOMAIN g THEN References(g, g[name]) ELSE {}

\* Fault: only a missing definition is reported, not what a body fails to name.
ProblemsOfGlobalsOnly(g, name) ==
    IF name \in DOMAIN g THEN {} ELSE {<<"unresolved global", name>>}

Problems(g, name) ==
    IF name \in DOMAIN g
    THEN {<<"unresolved reference", n>> : n \in Unresolved(g, g[name])}
    ELSE {<<"unresolved global", name>>}

\* Fault: a definition with an error is left without following its references.
VisitStopsAtErrors(current) ==
    /\ phase = "mark" /\ current \in worklist
    /\ reachable' = reachable \cup {current}
    /\ diagnostics' = diagnostics \cup Problems(globals, current)
    /\ worklist' = (worklist \cup IF Problems(globals, current) = {}
                                  THEN Needed(globals, current) ELSE {}) \ reachable'
    /\ UNCHANGED <<program, phase, globals, roots, ok>>

\* Fault: visiting a member also queues its owner.
VisitKeepsOwner(current) ==
    /\ phase = "mark" /\ current \in worklist
    /\ reachable' = reachable \cup {current}
    /\ worklist' = (worklist \cup Needed(globals, current)
                             \cup Defined(globals, {OwnerOf(current)})) \ reachable'
    /\ diagnostics' = diagnostics \cup Problems(globals, current)
    /\ UNCHANGED <<program, phase, globals, roots, ok>>

\* Fault: what was visited before is visited again.
VisitForgetsReached(current) ==
    /\ phase = "mark" /\ current \in worklist
    /\ reachable' = reachable \cup {current}
    /\ worklist' = (worklist \ {current}) \cup Needed(globals, current)
    /\ diagnostics' = diagnostics \cup Problems(globals, current)
    /\ UNCHANGED <<program, phase, globals, roots, ok>>

\* Fault: an error is only reported while there is none.
VisitReportsFirst(current) ==
    /\ phase = "mark" /\ current \in worklist
    /\ reachable' = reachable \cup {current}
    /\ worklist' = (worklist \cup Needed(globals, current)) \ reachable'
    /\ diagnostics' = IF diagnostics = {} THEN Problems(globals, current) ELSE diagnostics
    /\ UNCHANGED <<program, phase, globals, roots, ok>>

\* One turn of the worklist loop.
Visit(current) ==
    /\ phase = "mark" /\ current \in worklist
    /\ reachable' = reachable \cup {current}
    /\ worklist' = (worklist \cup Needed(globals, current)) \ reachable'
    /\ diagnostics' = diagnostics \cup Problems(globals, current)
    /\ UNCHANGED <<program, phase, globals, roots, ok>>

Finish ==
    /\ phase = "mark" /\ worklist = {}
    /\ diagnostics' = diagnostics \cup
           {<<"root was not reachable", n>> : n \in roots \ reachable}
    /\ ok' = (diagnostics' = {})
    /\ phase' = "done"
    /\ UNCHANGED <<program, globals, roots, worklist, reachable>>

Next ==
    \/ IndexAndDiscoverRoots
    \/ \E current \in worklist : Visit(current)
    \/ Finish

\* A step as its phase and its marks show it, which TLC can tell to be possible
\* without following references.
Step ==
    \/ phase = "index" /\ phase' \in {"mark", "done"} /\ UNCHANGED reachable
    \/ phase = "mark" /\ UNCHANGED phase /\ \E n \in worklist : reachable' = reachable \cup {n}
    \/ phase = "mark" /\ worklist = {} /\ phase' = "done" /\ UNCHANGED reachable

\* The linker is a sequential loop: it keeps taking steps.
Spec == Init /\ [][Next]_vars /\ WF_<<phase, reachable>>(Step)

------------------------------------------------------------------------------
(* Properties *)

TypeOK ==
    /\ program \in Programs
    /\ phase \in Phases
    /\ \A n \in DOMAIN globals :
           \E i \in DOMAIN program : globals[n] = program[i] /\ n = program[i].name
    /\ roots \subseteq DOMAIN globals
    /\ worklist \subseteq DOMAIN globals
    /\ reachable \subseteq DOMAIN globals
    /\ ok \in BOOLEAN

\* S holds the entry points and everything its members refer to.
IsClosed(S) == roots \subseteq S /\ \A n \in S : Needed(globals, n) \subseteq S

\* A finished link has followed every reference of everything it kept: nothing
\* that reachable code can call, instantiate or raise was left out
\* (Linker.cpp, the worklist loop of Linker::link).
ClosedWhenDone == phase = "done" => IsClosed(reachable)

\* And nothing was kept without a reason: the marked names lie in every closed
\* set, so marking is independent of the order the hash maps impose.
NothingSpurious ==
    LET edges == UNION {{n} \X Needed(globals, n) : n \in DOMAIN globals}
    IN  \A S \in SUBSET DOMAIN globals :
            roots \subseteq S /\ (\A e \in edges : e[1] \in S => e[2] \in S)
                => reachable \cup worklist \subseteq S

\* A link that reports success had an entry point, no two definitions of one
\* name, and kept nothing with a reference that the linker reports when it is
\* unresolved.  A class to instantiate or a member to select that it does not
\* find is skipped without a report (collectValueReferences).
SuccessMeansResolved ==
    ok => /\ roots # {}
          /\ \A i, j \in DOMAIN program :
                 program[i].name = program[j].name => i = j \/ program[i].name = <<>>
          /\ \A n \in reachable : Unresolved(globals, globals[n]) = {}

\* The function a virtual call of `member' runs on an instance of `class': the
\* first concrete one along the linearization, as the vtables are built.
Implementations(class, member) ==
    LET line   == LinearizedTypeNames(class, ParentMapOf(globals))
        owners == {p \in DOMAIN line : /\ Append(line[p], member) \in DOMAIN globals
                                       /\ globals[Append(line[p], member)].kind = "def"}
    IN  {Append(line[p], member) : p \in {q \in owners : \A r \in owners : q <= r}}

\* Whatever method a virtual call through a kept method can land in, on an
\* instance of a kept class, is kept: dispatch never reaches pruned code, even
\* when the implementation comes from a trait unrelated to the method's owner.
DispatchTargetsKept ==
    phase = "done" =>
        \A m \in {n \in reachable : IsVirtual(globals, globals[n])},
           c \in {n \in reachable : globals[n].kind = "class"} :
            IsSubtypeOf(globals, c, OwnerOf(m)) =>
                \A target \in Implementations(c, MemberOf(m)) :
                    SignaturesMatch(globals, globals[m], globals[target])
                        => target \in reachable

\* What the phases before the linker see to: names and parents are proper names,
\* no type is above itself, the root class has neither parents nor functions with
\* a body, the runtime's entry point is no method, and a function of a class or
\* trait that shares its name with a virtual method takes its receiver first.
IsWellFormed(defs) ==
    LET g == GlobalsOf(defs)
        parentMap == ParentMapOf(g)
    IN  /\ \A i \in DOMAIN defs :
               /\ defs[i].name \in Seq(ToSet(defs[i].name))
               /\ defs[i].parents \in Seq(ToSet(defs[i].parents))
               /\ \A p \in ToSet(defs[i].parents) : p \in Seq(ToSet(p)) \ {<<>>}
        /\ IsAcyclic(parentMap)
        /\ ParentsIn(parentMap, Object) = <<>>
        /\ \A n \in DOMAIN g : OwnerOf(n) = Object => g[n].kind # "def"
        /\ RuntimeMain \in DOMAIN g => ~ IsVirtual(g, g[RuntimeMain])
        /\ \A m, n \in DOMAIN g :
               (/\ IsVirtual(g, g[m]) /\ MemberOf(n) = MemberOf(m) /\ g[n].kind = "def"
                /\ OwnerOf(n) \in DOMAIN g /\ IsDispatchType(g[OwnerOf(n)]))
                    => IsVirtual(g, g[n])

\* Marking ends, cyclic references included.
LinkTerminates == <>(phase = "done")

------------------------------------------------------------------------------
(* The promise to the phases after the linker *)

NamesOf(p) == DOMAIN GlobalsOf(p)
RootsOf(p) == EntryPoints(GlobalsOf(p))
NeedsOf(p, name) == Needed(GlobalsOf(p), name)
ProblemsOf(p, name) == Problems(GlobalsOf(p), name)

\* A program without an entry point, or with two definitions of one name.
FaultsOf(p) ==
    {<<"duplicate global", n>> : n \in DuplicateNames(p)}
        \cup (IF RootsOf(p) = {} THEN {<<"no entry point", <<>> >>} ELSE {})

\* What link has returned: the fields of LinkResult once it is over.
Returned ==
    IF phase = "done"
    THEN [reachable |-> reachable, diagnostics |-> diagnostics, ok |-> ok]
    ELSE [reachable |-> {}, diagnostics |-> {}, ok |-> FALSE]

Promise == INSTANCE LinkResult WITH
    Names <- NamesOf, Roots <- RootsOf, Needs <- NeedsOf,
    Faults <- FaultsOf, FaultsOf <- ProblemsOf,
    returned <- (phase = "done"), result <- Returned

\* The result of a link is a function of the program: the least closed set, with
\* all its errors and no others, whatever order the hash maps deliver references in
\* (Linker.cpp, Linker::link; the optimizer and the code generator build on it).
ResultIsDetermined == Promise!Spec

==============================================================================
