------------------------------ MODULE Interflow ------------------------------
(***************************************************************************)
(* The optimizer (InterflowOptimizer::optimize): its passes in their       *)
(* order, over the body of one function of a linked program whose other    *)
(* functions are as definitions has them.  The tier is read where the      *)
(* sequence of passes may end, so it is chosen there.                      *)
(***************************************************************************)
EXTENDS Simplify, Verifier, NirSemantics

CONSTANTS Library,   \* the definitions of the linked program but the function
          Signature, \* the types of the parameters of the function
          Programs,  \* the bodies the function may have
          Inputs,    \* the arguments it may be called with: parameter -> literal value
          Fuel       \* loop iterations after which a run counts as diverging

VARIABLES optimized,  \* the body of the function now
          passed,     \* the passes that have run
          round,      \* rounds of the folding that runs, modulo 2
          ok,         \* whether the verifier accepted what it has been asked about
          meaning     \* input -> what the function did before the first pass

vars == <<definitions, linearized, fieldSnapshots, summaries, optimized, passed, round, ok, meaning>>

passes == <<"begin",
            "propagate", "fold", "eliminate", "simplify",    \* all tiers
            "fold", "eliminate", "simplify",                 \* not Basic
            "propagate", "fold", "eliminate", "simplify">>   \* Aggressive

endOfTier == {5, 8, 12}

Pruned == Len(passes) + 1
Validated == Pruned + 1

\* The arguments as the machine holds them; objects are on the heap.
entered(input) ==
    LET step(s, p) == then(eval(input[p], s), LAMBDA s1, d : bound(s1, p, d))
    IN  fold(step, machine(<<>>, Fuel), SetToSeq(DOMAIN input))

behaviours(instructions) == table([input \in Inputs |-> behaviour(instructions, entered(input))])

Init ==
    /\ definitions = Library
    /\ linearized = linearizations
    /\ fieldSnapshots = fieldSnapshotMap
    /\ summaries = inlineableReturnSummaries
    /\ optimized \in Programs
    /\ passed = 0
    /\ round = 0
    /\ ok = TRUE
    /\ meaning = <<>>

\* validateProgram, with this body for the function.
accepted(body) == verify(body, Signature, Last(body).type)

program == <<definitions, linearized, fieldSnapshots, summaries>>

pending(name) == ok /\ passed < Len(passes) /\ passes[passed + 1] = name

\* A program that the verifier does not accept is given back as it came.
Begin ==
    /\ pending("begin")
    /\ passed' = passed + 1
    /\ ok' = (accepted(optimized) /\ verifyProgram)
    /\ meaning' = IF ok' THEN behaviours(optimized) ELSE meaning
    /\ UNCHANGED <<program, round, optimized>>

ends(new) ==
    /\ optimized' = new
    /\ passed' = passed + 1
    /\ round' = 0
    /\ ok' = accepted(new)
    /\ UNCHANGED <<program, meaning>>

pass(name, new) == pending(name) /\ ends(new)

Propagate == pass("propagate", propagateLocalConstants(optimized))

\* foldConstants goes round until a round changes nothing.
foldRound(new) ==
    IF new = optimized THEN ends(new)
    ELSE /\ optimized' = new
         /\ round' = 1 - round
         /\ UNCHANGED <<program, passed, ok, meaning>>

Fold == pending("fold") /\ foldRound(foldConstants(optimized))

Eliminate == pass("eliminate", eliminateDeadLocalLets(optimized))

Simplify == pass("simplify", simplifyBlocks(optimized))

-----------------------------------------------------------------------------
(* Pruning of functions that nothing refers to any more. *)

canPruneUnreachable(name) == KindOf(name) \in {"FunctionDef", "FunctionDecl"}

isDispatchOwnedFunction(name) ==
    canPruneUnreachable(name) /\ KindOf(definitions[name].owner) \in {"Class", "Trait"}

memberName(name) == definitions[name].member

\* The overriding members of a member of a class or trait.
dispatchTargetsFor(name) ==
    IF ~ isDispatchOwnedFunction(name) THEN {}
    ELSE {n \in DOMAIN definitions :
            /\ canPruneUnreachable(n) /\ memberName(n) = memberName(name)
            /\ Contains(linearizedTypeNames(definitions[n].owner), definitions[name].owner)}

\* Functions that were reachable and stay so: all but declarations and inlined functions.
shouldRetainOriginalReachableDefinition(name) ==
    \/ ~ canPruneUnreachable(name)
    \/ isDispatchOwnedFunction(name)
    \/ KindOf(name) # "FunctionDecl" /\ ~ Some(summaryOf(name))

\* collectDirectValueReferences: names that are not locals, and members of known receivers.
RECURSIVE references(_, _)
references(v, types) ==
    LET step(walk, operand) ==
            [found |-> walk.found \cup references(operand, walk.types),
             types |-> IF IsBinding(operand) THEN With(walk.types, operand.x, operand.t) ELSE walk.types]
        receiver == IF v.ops[1].t # "" THEN v.ops[1].t
                    ELSE IF v.ops[1].k # "Local" THEN ""
                    ELSE IF v.ops[1].x \in DOMAIN types THEN types[v.ops[1].x]
                    ELSE v.ops[1].x
        selected == {memberOf(owner, v.x) : owner \in ToSet(linearizedTypeNames(receiver))}
        handler == With(types, v.ops[1].x, "")
    IN  CASE v.k = "Local"  -> {v.x} \ DOMAIN types
          [] v.k = "Block"  -> fold(step, [found |-> {}, types |-> types], v.ops).found
          [] v.k = "Catch"  -> references(v.ops[2], handler)
          [] v.k = "Select" -> selected \cup references(v.ops[1], types)
          [] OTHER          -> UNION {references(v.ops[j], types) : j \in DOMAIN v.ops}

referencesOf(instructions) ==
    LET step(walk, ins) ==
            [found |-> walk.found \cup references(ins.value, walk.types),
             types |-> IF ins.name = "" THEN walk.types ELSE With(walk.types, ins.name, ins.type)]
    IN  fold(step, [found |-> {}, types |-> <<>>], instructions).found \cap DOMAIN definitions

\* recomputedReachableAfterInlining: from the function, then from what is retained.
RECURSIVE reachableFrom(_)
reachableFrom(names) ==
    LET ownerOf(n) == IF KindOf(definitions[n].owner) = "Module"
                      THEN {definitions[n].owner, memberOf(definitions[n].owner, Constructor)} ELSE {}
        next == names \cup ((UNION {dispatchTargetsFor(n) \cup ownerOf(n)
                                      \cup referencesOf(definitions[n].body) : n \in names})
                            \cap DOMAIN definitions)
    IN  IF next = names THEN names ELSE reachableFrom(next)

Prune ==
    /\ ok /\ passed \in endOfTier
    /\ LET retained == {n \in DOMAIN definitions : shouldRetainOriginalReachableDefinition(n)}
           reachable == reachableFrom(referencesOf(optimized) \cup retained)
       IN  definitions' = Without(definitions,
               {n \in DOMAIN definitions : canPruneUnreachable(n) /\ n \notin reachable})
    /\ passed' = Pruned
    /\ UNCHANGED <<linearized, fieldSnapshots, summaries, round, optimized, ok, meaning>>

\* The last validation sees what the pruning has left.
Validate ==
    /\ passed = Pruned
    /\ ok' = (accepted(optimized) /\ verifyProgram)
    /\ passed' = Validated
    /\ UNCHANGED <<program, round, optimized, meaning>>

Next == Begin \/ Propagate \/ Fold \/ Eliminate \/ Simplify \/ Prune \/ Validate

(***************************************************************************)
(* The optimizer does not stop between two steps.  A step is told from its *)
(* counters, as deciding whether a pass is enabled would compute the pass. *)
(***************************************************************************)
Step ==
    /\ ok /\ passed # Validated
    /\ \/ passed' = passed /\ round' = 1 - round
       \/ passed' \in {passed + 1, Pruned} /\ round' = 0

Spec == Init /\ [][Next]_vars /\ WF_<<passed, round>>(Step)

-----------------------------------------------------------------------------
(* Properties. *)

(***************************************************************************)
(* After every pass, whatever the arguments, the function prints the same, *)
(* returns the same or throws the same as before the optimizer ran, and    *)
(* calls nothing that was pruned.                                          *)
(***************************************************************************)
MeaningPreserved == passed > 0 /\ ok => behaviours(optimized) = meaning

\* The values within v that run by themselves and name nothing but names, where none is bound anew.
RECURSIVE valuesOver(_, _)
valuesOver(v, names) ==
    IF \E j \in DOMAIN v.ops : IsBinding(v.ops[j]) /\ v.ops[j].x \in names THEN {}
    ELSE {w \in {v} : ~ IsBinding(w) /\ w.k \notin {"Catch", "Finally"} /\ localNames(w) \subseteq names}
             \cup UNION {valuesOver(v.ops[j], names) : j \in DOMAIN v.ops}

(***************************************************************************)
(* What the analyses tell the rules is right, for the values of the body   *)
(* that name nothing but its parameters, after every pass: a value taken   *)
(* for pure (isPureLetValue) throws nothing, prints nothing and writes to  *)
(* nothing (a box it makes is new), and one taken for an Int or a Boolean  *)
(* (knownValueType) ends with one.                                         *)
(***************************************************************************)
AnalysesAreRight ==
    passed > 0 /\ ok =>
        LET named(kinds) == {ins \in ToSet(optimized) : ins.kind \in kinds}
            rebound == {ins.name : ins \in named({"Let", "Var"})}
            types == [p \in {ins.name : ins \in named({"Param"})} \ rebound |->
                        (CHOOSE ins \in named({"Param"}) : ins.name = p).type]
            values == UNION {valuesOver(ins.value, DOMAIN types) : ins \in ToSet(optimized)}
        IN  \A input \in Inputs : LET s == entered(input) IN \A v \in values :
                LET r == eval(v, s)
                    type == knownValueType(v, types)
                IN  /\ isPureLetValue(v) => /\ r.x = none
                                           /\ [r.s EXCEPT !.heap = SubSeq(@, 1, Len(s.heap))] = s
                    /\ r.x = none => /\ type = "Int" => r.v.k = "int"
                                     /\ type = "Boolean" => r.v.k = "bool"

(***************************************************************************)
(* The verifier rejects a program as it came or not at all: no pass makes  *)
(* of an accepted body one that the next validation refuses, and pruning   *)
(* leaves nothing undefined.                                               *)
(***************************************************************************)
RejectsOnlyItsInput == ~ ok => passed = 1

(***************************************************************************)
(* A body the verifier accepts never misses a name, a member or an         *)
(* argument when it runs.                                                  *)
(***************************************************************************)
AcceptedNeverStuck == \A input \in DOMAIN meaning : meaning[input].raised[1] # "missing"

\* The rounds of folding come to an end, so the optimizer does.
Terminates == <>(passed = Validated \/ ~ ok)

==============================================================================
