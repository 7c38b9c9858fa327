---------------------------- MODULE NativeRuntime ----------------------------
(***************************************************************************)
(* The runtime of a compiled program: the collector with its shadow stack, *)
(* zones, the handlers of `try', and start-up and shutdown, driven by any  *)
(* program that the code generator emits.                                  *)
(*                                                                         *)
(* `control' is the program's own nesting of calls, zones and tries, which *)
(* the machine stack holds; `shadow', `zone', `handler' and `exception'    *)
(* are the globals of the runtime, which must agree with it.  An item of   *)
(* `control' has the values its scope has bound (`vars'); a call also has  *)
(* the content of its shadow slots (`roots'), where temporaries stay until *)
(* the call returns.                                                       *)
(***************************************************************************)
EXTENDS Heap, Sequences, FiniteSetsExt

CONSTANTS Plain, Exceptions, Arrays,  \* Objects by class
          Uses,                       \* what the programs do, see Idioms
          Tries,                      \* the forms of try they have
          Thresholds,                 \* arguments of gcSetCollectionThreshold
          DefaultThreshold,
          MaxDepth                    \* bound on the nesting

Idioms == {"zone", "array", "throw null", "arena holds gc"}

ASSUME ObjectsByClass ==
    /\ Objects = Plain \cup Exceptions \cup Arrays
    /\ Plain \cap Exceptions = {} /\ Arrays \cap (Plain \cup Exceptions) = {}
ASSUME UsesAreIdioms == Uses \subseteq Idioms

\* The catch clauses of a try take nothing, some exceptions or all of them; a
\* try without clauses has a finalizer.
Clauses == {"none", "some", "all"}
TryForms == {t \in [clauses : Clauses, finalizer : BOOLEAN] :
                t.clauses = "none" => t.finalizer}
ASSUME TriesAreTries == Tries \subseteq TryForms

ASSUME BoundsAreNumbers ==
    /\ Thresholds \subseteq Nat
    /\ DefaultThreshold \in Nat \ {0}
    /\ MaxDepth \in Nat \ {0}

VARIABLES
    status,      \* __scalanative_runtime_state
    owner,       \* whose storage an object is
    zoneOf,      \* the zone that owns it, by its level
    field,       \* the reference an object holds
    module,      \* the reference that a module singleton holds
    control,     \* what the program is in the middle of
    shadow,      \* __scalanative_shadow_stack: the call it belongs to, or 0
    zone,        \* __scalanative_current_zone: how many are linked
    handler,     \* __scalanative_exception_handler: the try, or 0
    exception,   \* __scalanative_current_exception
    threshold,   \* __scalanative_gc_collection_threshold
    misread      \* history: freed objects whose header a collection has read

memory == <<owner, zoneOf, field, module>>
stacks == <<shadow, zone, handler>>
vars == <<status, memory, control, stacks, exception, threshold, misread>>

-----------------------------------------------------------------------------
(* The nesting of the program. *)

Phases == {"body", "raised", "catch", "unmatched", "finally"}

Depth == Len(control)
Top == control[Depth]
Below(c) == SubSeq(c, 1, Len(c) - 1)

\* Where calls, zones and bodies of tries begin, among the first n items.
Calls(c, n) == {i \in 1 .. n : c[i].kind = "call"}
Zones(c, n) == {i \in 1 .. n : c[i].kind = "zone"}
Bodies(c, n) == {i \in 1 .. n : c[i].kind = "try" /\ c[i].phase = "body"}

\* The last of them, or 0.
Innermost(positions) == Max({0} \cup positions)

\* The call that runs, and what it has in scope.
Frame(c) == Innermost(Calls(c, Len(c)))
Visible == UNION {control[i].vars : i \in Frame(control) .. Depth}

\* A value is bound in the innermost scope and in a slot of the frame.
Bind(c, objects) ==
    [c EXCEPT ![Len(c)].vars = @ \cup objects, ![Frame(c)].roots = @ \cup objects]

\* What a try keeps beside the values in scope: its result while the
\* finalizer runs, and the exception that it has caught.
Kept(item) ==
    IF item.kind = "try" THEN References(item.result \cup {item.pending}) ELSE {}

\* The ways in which slots of the frame that held the objects may be
\* overwritten: what is still in scope keeps a slot, the rest may be left in
\* the slot of a temporary.
Released(c, objects) ==
    LET held == UNION {c[i].vars \cup Kept(c[i]) : i \in Frame(c) .. Len(c)}
    IN {c, [c EXCEPT ![Frame(c)].roots = @ \ (objects \ held)]}

\* What a scope may hand to the scope around it: nothing, or one reference.
Results == {{}} \cup {{o} : o \in Visible}

\* The program computes; it is not on its way to a handler.
Executing ==
    /\ status = "running"
    /\ Top.kind = "try" => \/ Top.phase \in {"body", "catch", "finally"}
                           \/ Top.phase = "unmatched" /\ Top.finalizer

-----------------------------------------------------------------------------
(* The collector. *)

\* The frames that are linked from one on: the least set that holds it and, of
\* each of its frames, the one that was linked before.
Linked(top) ==
    {i \in Calls(control, Depth) : \A S \in SUBSET Calls(control, Depth) :
        /\ top # 0 => top \in S
        /\ \A j \in S : control[j].previous # 0 => control[j].previous \in S
        => i \in S}

\* Their slots, the exception on its way and the module singleton.
GcRoots(top, thrown) ==
    References((UNION {control[i].roots : i \in Linked(top)}) \cup {thrown, module})

FreedIn(own) == {o \in Objects : own[o] = "freed"}

\* What a collection leaves, and the freed objects that it looked at.
AfterCollection(own, top, thrown) == Swept(GcRoots(top, thrown), own, field)
MisreadBy(own, top, thrown) ==
    Inspected(GcRoots(top, thrown), own, field) \cap FreedIn(own)

\* Fault: the poll waits for one object more.
PollIsDueLate == Cardinality(Collected(owner)) > threshold

\* Allocations of the collector poll first.
PollIsDue == Cardinality(Collected(owner)) >= threshold
AfterPoll(top) ==
    IF PollIsDue THEN AfterCollection(owner, top, exception) ELSE owner
MisreadByPoll(top) ==
    IF PollIsDue THEN MisreadBy(owner, top, exception) ELSE {}

\* A zone goes with everything in it.
WithoutZones(own, levels) ==
    [o \in Objects |->
        IF own[o] = "zone" /\ zoneOf[o] \in levels THEN "freed" ELSE own[o]]

WithoutArena(own) ==
    [o \in Objects |-> IF own[o] = "program" THEN "freed" ELSE own[o]]

-----------------------------------------------------------------------------
(* Start and end. *)

CallItem(args, caller) ==
    [kind |-> "call", vars |-> args, roots |-> args, previous |-> caller]

Init ==
    /\ status = "running"
    /\ owner = [o \in Objects |-> "unused"]
    /\ zoneOf = [o \in Objects |-> 0]
    /\ field = [o \in Objects |-> None]
    /\ module = None
    /\ control = <<CallItem({}, 0)>>
    /\ shadow = 1 /\ zone = 0 /\ handler = 0
    /\ exception = None
    /\ threshold = DefaultThreshold
    /\ misread = {}

\* __scalanative_runtime_shutdown: zones go before the last collection, the
\* program arena after it.  `seen' is `misread' so far.
Shutdown(own, top, thrown, seen) ==
    LET zoneless == WithoutZones(own, 1 .. zone) IN
    /\ status' = "stopped"
    /\ owner' = WithoutArena(AfterCollection(zoneless, top, thrown))
    /\ misread' = seen \cup MisreadBy(zoneless, top, thrown)
    /\ control' = <<>>
    /\ shadow' = 0 /\ zone' = 0 /\ handler' = 0
    /\ exception' = None
    /\ UNCHANGED <<zoneOf, module, threshold>>

-----------------------------------------------------------------------------
(* Calls. *)

Call(args) ==
    /\ Executing
    /\ Depth < MaxDepth
    /\ control' = Append(control, CallItem(args, shadow))
    /\ shadow' = Depth + 1
    /\ UNCHANGED <<status, memory, zone, handler, exception, threshold, misread>>

Return(result) ==
    /\ Executing
    /\ Top.kind = "call"
    /\ Depth > 1
    /\ control' = Bind(Below(control), result)
    /\ shadow' = Top.previous
    /\ UNCHANGED <<status, memory, zone, handler, exception, threshold, misread>>

MainReturn ==
    /\ Executing
    /\ Depth = 1
    /\ Shutdown(owner, Top.previous, exception, misread)
    /\ UNCHANGED field

-----------------------------------------------------------------------------
(* Objects. *)

\* __scalanative_gc_object_alloc: the poll comes before the allocation.
Allocated(o, top) == [AfterPoll(top) EXCEPT ![o] = "gc"]

NewOnHeap(o) ==
    /\ owner' = Allocated(o, shadow)
    /\ misread' = misread \cup MisreadByPoll(shadow)
    /\ control' = Bind(control, {o})
    /\ UNCHANGED <<status, zoneOf, field, module, stacks, exception, threshold>>

NewInArena(o, arena, level) ==
    /\ owner' = [owner EXCEPT ![o] = arena]
    /\ zoneOf' = [zoneOf EXCEPT ![o] = level]
    /\ control' = Bind(control, {o})
    /\ UNCHANGED <<status, field, module, stacks, exception, threshold, misread>>

\* The zone that is entered takes plain objects, the collector exceptions,
\* the program arena arrays.
New(o) ==
    /\ Executing
    /\ owner[o] = "unused"
    /\ \/ o \in Plain /\ zone > 0 /\ NewInArena(o, "zone", zone)
       \/ o \in Plain /\ zone = 0 /\ NewOnHeap(o)
       \/ o \in Exceptions /\ NewOnHeap(o)
       \/ "array" \in Uses /\ o \in Arrays /\ NewInArena(o, "program", 0)

\* What the type checker lets an object hold: a reference into a zone stays
\* in that zone and in those inside it.
MayHold(x, y) ==
    y # None =>
        CASE owner[y] = "zone" -> owner[x] = "zone" /\ zoneOf[x] >= zoneOf[y]
          [] owner[y] = "gc" -> owner[x] = "gc" \/ "arena holds gc" \in Uses
          [] OTHER -> TRUE

Store(x, y) ==
    /\ Executing
    /\ MayHold(x, y)
    /\ field' = [field EXCEPT ![x] = y]
    /\ UNCHANGED <<status, owner, zoneOf, module, control, stacks, exception,
                   threshold, misread>>

Load(x) ==
    /\ Executing
    /\ field[x] # None
    /\ control' = Bind(control, {field[x]})
    /\ UNCHANGED <<status, memory, stacks, exception, threshold, misread>>

StoreModule(y) ==
    /\ Executing
    /\ y # None => owner[y] # "zone"
    /\ module' = y
    /\ UNCHANGED <<status, owner, zoneOf, field, control, stacks, exception,
                   threshold, misread>>

LoadModule ==
    /\ Executing
    /\ module # None
    /\ control' = Bind(control, {module})
    /\ UNCHANGED <<status, memory, stacks, exception, threshold, misread>>

\* A variable is assigned, or not used again.
Forget(o) ==
    /\ Executing
    /\ control' \in Released([control EXCEPT ![Depth].vars = @ \ {o}], {o})
    /\ UNCHANGED <<status, memory, stacks, exception, threshold, misread>>

GcCollect ==
    /\ Executing
    /\ owner' = AfterCollection(owner, shadow, exception)
    /\ misread' = misread \cup MisreadBy(owner, shadow, exception)
    /\ UNCHANGED <<status, zoneOf, field, module, control, stacks, exception,
                   threshold>>

\* Fault: zero is taken for a threshold.
SetThresholdUnclamped(n) ==
    /\ Executing
    /\ threshold' = n
    /\ UNCHANGED <<status, memory, control, stacks, exception, misread>>

\* gcSetCollectionThreshold.
SetThreshold(n) ==
    /\ Executing
    /\ threshold' = IF n > 0 THEN n ELSE 1
    /\ UNCHANGED <<status, memory, control, stacks, exception, misread>>

-----------------------------------------------------------------------------
(* Zones.  The result of a zone is no reference. *)

EnterZone ==
    /\ "zone" \in Uses
    /\ Executing
    /\ Depth < MaxDepth
    /\ control' = Append(control, [kind |-> "zone", vars |-> {}, previous |-> zone])
    /\ zone' = zone + 1
    /\ UNCHANGED <<status, memory, shadow, handler, exception, threshold, misread>>

\* Fault: the end of a zone ends the zones around it.
LeaveAllZones ==
    /\ Executing
    /\ Top.kind = "zone"
    /\ owner' = WithoutZones(owner, 1 .. zone)
    /\ zone' = Top.previous
    /\ control' = Below(control)
    /\ UNCHANGED <<status, zoneOf, field, module, shadow, handler, exception,
                   threshold, misread>>

LeaveZone ==
    /\ Executing
    /\ Top.kind = "zone"
    /\ owner' = WithoutZones(owner, {zone})
    /\ zone' = Top.previous
    /\ control' = Below(control)
    /\ UNCHANGED <<status, zoneOf, field, module, shadow, handler, exception,
                   threshold, misread>>

-----------------------------------------------------------------------------
(* Exceptions. *)

\* The nesting that longjmp leaves: everything inside the try is abandoned.
Unwound(c, try) ==
    [SubSeq(c, 1, try) EXCEPT ![try] = [@ EXCEPT !.phase = "raised", !.vars = {}]]

\* Fault: the shadow stack keeps the frames between throw and handler.
RaiseKeepingFrames(thrown, own, top, seen) ==
    IF handler > 0
    THEN LET saved == control[handler]
         IN /\ control' = Unwound(control, handler)
            /\ handler' = saved.handler
            /\ shadow' = top
            /\ zone' = saved.zone
            /\ owner' = WithoutZones(own, saved.zone + 1 .. zone)
            /\ exception' = thrown
            /\ misread' = seen
            /\ UNCHANGED <<status, zoneOf, module, threshold>>
    ELSE Shutdown(own, top, thrown, seen)

\* __scalanative_throw, with storage `own' and the frames from `top' linked:
\* what the handler saved is restored, the rest of the nesting is abandoned.
Raise(thrown, own, top, seen) ==
    IF handler > 0
    THEN LET saved == control[handler]
             target == IF saved.zone <= zone THEN saved.zone ELSE 0
         IN /\ control' = Unwound(control, handler)
            /\ handler' = saved.handler
            /\ shadow' = saved.shadow
            /\ zone' = target
            /\ owner' = WithoutZones(own, target + 1 .. zone)
            /\ exception' = thrown
            /\ misread' = seen
            /\ UNCHANGED <<status, zoneOf, module, threshold>>
    ELSE Shutdown(own, top, thrown, seen)

\* The frames that are linked once the frame of the throw is popped.
Popped == control[Frame(control)].previous

Throw(thrown) ==
    /\ Executing
    /\ thrown \in Exceptions
    /\ Raise(thrown, owner, Popped, misread)
    /\ UNCHANGED field

\* The exceptions that the runtime makes are their own cause.
RaiseFailure(o, top) ==
    /\ owner[o] = "unused"
    /\ field' = [field EXCEPT ![o] = o]
    /\ Raise(o, Allocated(o, top), top, misread \cup MisreadByPoll(top))

\* Fault: the frame is popped before the exception is made.
FailPopped(o) ==
    /\ Executing
    /\ RaiseFailure(o, Popped)

\* An operation on null, an index or a size that is out of range.
Fail(o) ==
    /\ Executing
    /\ RaiseFailure(o, shadow)

\* The frame is popped before the operand is tested for null.
ThrowNull(o) ==
    /\ "throw null" \in Uses
    /\ Executing
    /\ RaiseFailure(o, Popped)

OpenTry(form) ==
    /\ Executing
    /\ Depth < MaxDepth
    /\ control' = Append(control,
          [kind |-> "try", vars |-> {}, phase |-> "body",
           clauses |-> form.clauses, finalizer |-> form.finalizer,
           result |-> {}, pending |-> None,
           handler |-> handler, shadow |-> shadow, zone |-> zone])
    /\ UNCHANGED <<status, memory, shadow, zone, exception, threshold, misread>>

\* Fault: only a try with clauses installs a handler.
EnterTryToCatch(form) ==
    /\ OpenTry(form)
    /\ handler' = IF form.clauses = "none" THEN handler ELSE Depth + 1

EnterTry(form) ==
    /\ OpenTry(form)
    /\ handler' = Depth + 1

\* The end of a body, of the clause that was taken, or of the finalizer: the
\* finalizer comes next, or the try has its result and its slot is cleared.
AfterTry(result) == Released(Bind(Below(control), result), {Top.pending})
BeforeFinalizer(result) ==
    [control EXCEPT ![Depth] =
        [@ EXCEPT !.phase = "finally", !.vars = {}, !.result = result]]

Ends(phase) == Executing /\ Top.kind = "try" /\ Top.phase = phase

Proceed(result) ==
    IF Top.finalizer
    THEN control' = BeforeFinalizer(result)
    ELSE control' \in AfterTry(result)

LeaveBody(result) ==
    /\ Ends("body")
    /\ handler' = Top.handler
    /\ Proceed(result)
    /\ UNCHANGED <<status, memory, shadow, zone, exception, threshold, misread>>

LeaveCatch(result) ==
    /\ Ends("catch")
    /\ Proceed(result)
    /\ UNCHANGED <<status, memory, stacks, exception, threshold, misread>>

LeaveFinally ==
    /\ Ends("finally")
    /\ control' \in AfterTry(Top.result)
    /\ UNCHANGED <<status, memory, stacks, exception, threshold, misread>>

\* After longjmp: the exception is taken into the slot of the try and its
\* clauses are tested.
Dispatch(phase) ==
    /\ status = "running"
    /\ Top.kind = "try" /\ Top.phase = "raised"
    /\ phase = "catch" => Top.clauses # "none"
    /\ phase = "unmatched" => Top.clauses # "all"
    /\ LET bound == IF phase = "catch" THEN {exception} ELSE {}
       IN control' = [control EXCEPT
             ![Depth] = [@ EXCEPT !.phase = phase, !.vars = bound,
                                  !.pending = exception],
             ![Frame(control)].roots = @ \cup {exception}]
    /\ exception' = None
    /\ UNCHANGED <<status, memory, stacks, threshold, misread>>

\* No clause has matched, and the finalizer, if there is one, has run.
Rethrow ==
    /\ status = "running"
    /\ Top.kind = "try" /\ Top.phase = "unmatched"
    /\ Raise(Top.pending, owner, Popped, misread)
    /\ UNCHANGED field

-----------------------------------------------------------------------------
Step ==
    \/ \E args \in Results : Call(args)
    \/ \E result \in Results :
          Return(result) \/ LeaveBody(result) \/ LeaveCatch(result)
    \/ MainReturn
    \/ \E o \in Objects : New(o)
    \/ \E x \in Visible, y \in Visible \cup {None} : Store(x, y)
    \/ \E x \in Visible : Load(x) \/ Throw(x)
    \/ \E y \in Visible \cup {None} : StoreModule(y)
    \/ LoadModule
    \/ \E o \in Top.vars : Forget(o)
    \/ GcCollect
    \/ \E n \in Thresholds : SetThreshold(n)
    \/ EnterZone \/ LeaveZone
    \/ \E o \in Exceptions : Fail(o) \/ ThrowNull(o)
    \/ \E form \in Tries : EnterTry(form)
    \/ LeaveFinally
    \/ Dispatch("catch") \/ Dispatch("unmatched")
    \/ Rethrow

\* A program that has stopped does nothing.
Next == status = "running" /\ Step

Spec == Init /\ [][Next]_vars

-----------------------------------------------------------------------------
(* Properties. *)

Running == status = "running"

TryItems(phases, thrown) ==
    [kind : {"try"}, vars : SUBSET Objects, phase : phases, clauses : Clauses,
     finalizer : BOOLEAN, result : SUBSET Objects, pending : thrown,
     handler : Nat, shadow : Nat, zone : Nat]

\* What no clause took is there to be thrown again.
Items ==
    [kind : {"call"}, vars : SUBSET Objects, roots : SUBSET Objects, previous : Nat]
    \cup [kind : {"zone"}, vars : SUBSET Objects, previous : Nat]
    \cup TryItems(Phases \ {"unmatched"}, Objects \cup {None})
    \cup TryItems({"unmatched"}, Objects)

\* Every variable has its type.
TypeOK ==
    /\ status \in {"running", "stopped"}
    /\ owner \in [Objects -> Owners]
    /\ zoneOf \in [Objects -> Nat]
    /\ field \in [Objects -> Objects \cup {None}]
    /\ module \in Objects \cup {None}
    /\ control \in Seq(Items)
    /\ shadow \in Nat /\ zone \in Nat /\ handler \in Nat
    /\ exception \in Objects \cup {None}
    /\ threshold \in Nat \ {0}
    /\ misread \subseteq Objects

\* However a program winds and unwinds, the head of the shadow stack is the
\* frame of the call that runs, the zone is the innermost that is open, and
\* the handler is that of the innermost try whose body runs: the saved and
\* restored globals of lowerTry, __scalanative_throw and the frames agree.
RuntimeMatchesProgram ==
    Running => /\ shadow = Frame(control)
               /\ zone = Cardinality(Zones(control, Depth))
               /\ handler = Innermost(Bodies(control, Depth))

\* Nothing that the program can still get at has been given back, by the
\* collector or with a zone.
LiveRoots ==
    (UNION {control[i].vars \cup Kept(control[i]) : i \in DOMAIN control})
    \cup {exception, module}
NothingLiveFreed ==
    Running => Reachable(LiveRoots, field) \cap FreedIn(owner) = {}

\* No collection follows a slot or a field into storage that is gone.
CollectorReadsLiveMemory == misread = {}

\* The heap of the collector outgrows the threshold only with objects that
\* were reachable from a root: there is a poll before every allocation.
HeapBounded ==
    [][ (Running' /\ Collected(owner') \ Collected(owner) # {})
        => \/ Cardinality(Collected(owner')) <= threshold
           \/ Collected(owner') \cap Collected(owner)
                 \subseteq Marked(GcRoots(shadow, exception), owner, field) ]_vars

\* Tries with a finalizer that a step leaves for good, by the phase.
Left(phases) ==
    \E i \in DOMAIN control : /\ i \notin DOMAIN control'
                             /\ control[i].kind = "try"
                             /\ control[i].finalizer
                             /\ control[i].phase \in phases

\* An exception out of the body of a try, or one that no clause takes, does
\* not get past its finalizer.
BodyFinalizersRun == [][~Left({"body", "raised"})]_vars

\* A try is not left before its finalizer, however it is left.
FinalizersRun == [][~Left({"body", "raised", "catch"})]_vars

=============================================================================
