# A TLA+ model of scalanative

`scalanative` is a C++ compiler for a subset of Scala 3: it parses and checks
one source file, lowers it to NIR, marks what the program needs, optimizes, emits
LLVM IR and drives Clang to an object or an executable. This directory holds
TLA+ modules translated from that code, the TLC configurations that check them
on small instances, and TLAPS proofs for any instance. Paths are relative to
the repository, which the map in `PROJECT.json` calls `src/`.

## The system

| part | source | state | operations | talks to |
|---|---|---|---|---|
| support | `support/` | source texts, diagnostics, arenas | add a file, offset to line, report, allocate | everything |
| lexer, parser | `frontend/src/Lexer.cpp`, `Parser.cpp`, `AstValidator.cpp` | position, indentation stack, syntax tree | next token, parse, validate | typechecker |
| typechecker | `frontend/src/Typechecker.cpp` | scopes, symbols, types | check a unit | NIR emitter |
| NIR emitter | `nscplugin/src/NirEmitter.cpp` | the module under construction | lower typed trees | checker |
| NIR model | `nir/src/Nir.cpp`, `Builder.cpp` | definitions, values; caches of a linearization | text format, **builders**, **linearization** | verifier, linker, optimizer, codegen |
| verifier, checker | `nir/src/Verifier.cpp`, `tools/checker/` | scopes, parent maps | **verify a body**, **zone analysis** | build driver, optimizer |
| linker | `tools/linker/src/Linker.cpp` | index of globals, worklist, reachable set | index, find roots, **mark** | optimizer, codegen |
| optimizer | `tools/interflow/src/InterflowOptimizer.cpp` | the linked program; locals, snapshots of objects | **propagate, fold, eliminate, simplify, prune** | verifier, codegen |
| code generator | `tools/codegen/src/LlvmCodegen.cpp` | LLVM text, vtable layouts, shadow-root slots | lower definitions | build driver |
| native runtime | emitted by `LlvmCodegen.cpp`; `tools/codegen/resources/runtime/*.ll` | object list, zones, arenas, shadow stack, handler stack, life-cycle state | allocate, collect, enter and leave zones, throw, try, start up, shut down | the compiled program |
| build cache | `tools/build/src/BuildCache.cpp` | a directory per key | **load, store** | build driver, other processes |
| build driver | `tools/build/src/BuildDriver.cpp` | output and intermediate files | **build** in one of seven actions | all phases, build cache, toolchain |
| native toolchain | `tools/build/src/Toolchain.cpp` | log files in the temporary directory | discover, probe, compile, link, plan | Clang, linker |
| configuration, CLI | `tools/build/src/BuildConfig.cpp`, `driver/src/main.cpp`, `runtime/` | options | parse, merge, dispatch | build driver |

The phases of one build run one after the other in one thread and hand over
whole values. What is hard in this code is therefore of four kinds:

- *fixpoints and orders over graphs* inside a phase: which definitions are
  kept, and what a virtual call resolves to, computed with hash maps in an
  arbitrary order (linker, pruning, linearization, vtables);
- *rewriting under knowledge that goes stale*: the optimizer replaces reads of
  objects and arrays by what it believes they hold, moves and drops values that
  it takes to be pure, and is asked for the same program at the end of a dozen
  passes (optimizer, verifier);
- *processes that share files*: several compilers over one cache directory and
  one temporary directory, each of which may fail or be killed at any call
  (build cache, build driver, tool logs);
- *the runtime's protocols*: the order in which compiled code pushes roots,
  enters zones, installs handlers and allocates, and what an exception, a
  collection or the shutdown finds then.

What makes each part correct: the linker keeps what the entry points need under
every reference and under virtual dispatch, and nothing else, and its success
means that no reference it reports when unresolved is in what it kept. The optimizer changes neither what a function
prints, returns or throws, nor whether the verifier accepts it, and the
verifier accepts nothing that gets stuck. A linearization is a C3 order of the ancestors. A
cache hit is an artifact and a report that were stored under the very key, whatever
other processes do, and the two are of one entry unless stores of the key
overlapped or died. A build that succeeds leaves the program of its source and puts nothing in the
cache that does not belong to its key. The collector frees nothing that the
program can still reach. `hazards` in `PROJECT.json` lists the places where
these could go wrong.

## The modules

| module | extends | models |
|---|---|---|
| `Linearization` | | the C3 linearization of `nir/src/Nir.cpp`, as pure operators |
| `MCLinearization` | `Linearization` | the recursion with its cache, over all hierarchies of a size |
| `LinearizationLemmas` | `Linearization`, `TLAPS` | least numbers; what the merge, the climb to the ancestors and the recursion compute |
| `LinearizationProofs` | `MCLinearization`, `LinearizationLemmas` | theorems about linearizations and their cache |
| `LinkResult` | | what a link promises: the abstract specification |
| `Linker` | `Linearization` | `Linker::link`: index, roots, worklist; every kind of reference; implements `LinkResult` |
| `MCLinker` | `Linker` | families of small programs |
| `LinkerProofs` | `Linker`, `LinearizationLemmas` | theorems about marking, dispatch and the refinement |
| `Nir` | `Linearization` | values, bodies and definitions |
| `NirQueries` | `Nir` | the questions passes ask of a whole value: type, effects, uses |
| `Snapshots` | `NirQueries` | what the optimizer believes objects and arrays hold |
| `Folding` | `Nir` | the rules of `foldValue` for operators and conditionals, with its analyses as parameters |
| `FoldValue` | `Snapshots`, an instance of `Folding` | `foldValue`: references, objects, arrays, calls, inlining; the walk |
| `Cleanup`, `Simplify` | `FoldValue` | propagation, dead bindings, blocks |
| `ZoneEscape`, `Verifier` | `Snapshots` | the zone analysis and the body rules of the NIR verifier |
| `Machine` | `Nir` | the state a body runs on; what arithmetic and conditionals do |
| `NirSemantics` | `Machine`, `Snapshots` | what a body does when it runs, by its lowering |
| `FoldingProofs` | `Folding`, `Machine`, `LinearizationLemmas` | theorems about the rules for operators and conditionals |
| `Interflow` | `Simplify`, `Verifier`, `NirSemantics` | the sequence of passes, with the verifier after each |
| `MCInterflow` | `Interflow` | a library of definitions and families of bodies |
| `ArtifactCache` | | what a build cache promises: the abstract specification |
| `BuildCache` | | the cache directory, one file-system call per step; implements `ArtifactCache` |
| `MCBuildCache` | `BuildCache` | keys and entries of the checked instance |
| `BuildCacheProofs` | `BuildCache`, `TLAPS` | theorems about the cache and its refinement |
| `CachedBuild` | | native builds of several processes over shared files, a library and the cache's promise |
| `MCCachedBuild` | `CachedBuild` | output paths and actions of the checked instances |
| `CachedBuildProofs` | `CachedBuild`, `TLAPS` | theorems about builds whose files are apart |
| `Heap` | | objects, what is reachable, mark and sweep |
| `NativeRuntime` | `Heap` | the emitted runtime, driven by any program of its kind |
| `MCNativeRuntime` | `NativeRuntime` | forms of `try` of the checked instances |
| `NativeRuntimeProofs` | `NativeRuntime`, `TLAPS` | theorems about winding and unwinding |
| `CollectorProofs` | `NativeRuntimeProofs` | theorems about the collector and the zones |

Operators named after a fault (`...Fault:` comments) are wrong variants of the
definition that follows them. No specification uses them: `PROJECT.json` names,
for every property, the variant under which TLC finds that property violated,
which shows that the property depends on the code.

### Linearization

`checkedLinearizedParentNames` merges the linearizations of the direct parents,
last parent first, followed by the parents themselves. `MergeTurn` is one turn
of its loop, `Merge` the loop (its turns bounded by the number of members), `Linearizations` the recursion as a recursive function over the
types of an acyclic parent map. `MCLinearization` builds a hierarchy type by
type and keeps `cache` as the C++ code does; `CacheIsTransparent` says that the
uncached recursion computes the same, also where a merge fails and an empty
ancestor list stays in the cache. The reference notions (`Ancestors`, the pairs
a linearization must respect) are written without the algorithm. `Merge` is the
sequence of its turns (`MergeStates`), `Ancestors` climbs from the parents link by
link (`Climb`), both as recursive functions, so that they can be proved about.
Cyclic hierarchies are not modelled: the verifier refuses them before any phase
linearizes, and the `visiting` set only serves their report.

### Linker

`program` is the input, chosen from the constant `Programs` and never changed;
`globals`, `roots`, `worklist`, `reachable`, `ok` are the locals and results of
`Linker::link`; `diagnostics` is the set of its errors. A definition is a
record of what the linker reads of it. A body is the set of its *uses*: each
names what it refers to and the kind of value it occurs in, and
`UseReferences` is the `switch` of `collectValueReferences` over them. The
scoping of locals is abstracted (only non-local names are uses), and the static
type of a receiver or an exception is part of the use; `valueSimpleType`, which
computes it, is not modelled. Lists of names for runtime operations that may
fail are the set `raises` of a definition.

`IndexAndDiscoverRoots`, `Visit` and `Finish` are the three stages of `link`.
The worklist is a set from which any member is taken: the queue is filled in
the order of hash maps, so every order is possible, and a name queued twice is
skipped at its second turn, which leaves the state alone.

`LinkResult` is what the phases after it may rely on: one step returns the least set
of names that holds the roots and is closed under needs, with the errors of the
program and of that set, and `ok` if there are none. `Promise` instantiates it
with the roots, needs and problems as functions of a program; until marking ends,
nothing has been returned.

### Nir, NirQueries, Snapshots, Folding, FoldValue, Cleanup, Simplify

A value is a record of kind, type, text and operands, as `nir::Value` is; an
instruction and a definition likewise. The program that has been linked is the
variable `definitions`; `linearized`, `fieldSnapshots` and `summaries` are
tables that the code computes once and caches. The types are `Int` of
`IntWidth` bits, `Boolean`, `Unit`, boxes, arrays of `Int` and class-like
definitions: constants of other types have rules of the same shape.

Every pass is a recursive operator over values with the guards of its C++
function, in its order. `Snapshots` is the walk that the passes share: a local
let is mapped to the value bound to it, whose operands stand for the fields or
elements now. An assignment updates them, a call or an escape forgets them.
`foldValue` folds the operands first, with the snapshots known *before* the
value, and then tries its rules one after the other; `first` is that order.
`Folding` has the rules for operators and conditionals: arithmetic, bit operations and
shifts (by a count that wraps at `IntWidth`) of `Int`, connectives of `Boolean`. It looks at a value and its
operands only and takes the analyses that walk whole values (`knownValueType`,
`isPureLetValue`) as parameters, so that it holds no recursion and can be proved about;
`FoldValue` instantiates it with those of `NirQueries`.
`Cleanup` has `propagateLocalConstants` and `eliminateDeadLocalLets`,
`Simplify` has `simplifyBlocks`. A pass that the code repeats until nothing
changes is a `fixpoint`, except folding, whose rounds are steps of `Interflow`,
so that its termination is a property and not an assumption.

### ZoneEscape, Verifier, Machine, NirSemantics

`Verifier` is the part of `nir/src/Verifier.cpp` that judges a body: scopes,
types of operands, assignments, casts, handlers. A verdict is a Boolean, a type
and the global that the value names. `ZoneEscape` is its analysis of references
into a scoped zone. The code has two walks for it, one over the body of a zone
and one over the methods that are called on a zone object; they differ in what
they follow, so that one operator with the parameter `zone` stands for both.

`Machine` and `NirSemantics` evaluate a body as the code generator lowers it: operands from
left to right, short circuits, the null check of a receiver after the
arguments, division by zero, casts, virtual dispatch by the class of the object,
zones that free what was allocated in them. What the machine would do with a
name, a member, an argument or a freed object that is not there is the outcome
`missing`. Loops have a number of iterations (`Fuel`), after which a run
`diverges`, and what it printed is compared up to there. `scalar` in `Machine` is the part for
literals, operators and conditionals, for any way to evaluate their operands;
`eval` in `NirSemantics` uses it with itself.

### Interflow

One step is one pass over the body of one function, or one round of folding.
`passes` is the sequence for the most aggressive tier; a lower tier is a prefix,
so that a step may end it (`endOfTier`) or go on. `Begin` asks the verifier
about the program as it came and records in `meaning` what the function does for
each of `Inputs`. Each pass ends with the verifier's answer (`ok`); a pass whose
result it refuses ends the run, as `optimize` does. `Prune` recomputes what is
reachable after inlining and drops the functions that are not, and `Validate` is
the last question. The functions of the library are their own optimized forms:
the code optimizes all bodies pass by pass, and a body is only ever inlined from
a summary that the code takes before the passes.

### ArtifactCache, BuildCache

`ArtifactCache` is the promise: entries are offered under keys, a lookup is
answered by a miss or by an artifact and a report that were offered under its key,
and every lookup ends.
`BuildCache` is `load` and `store`. Any number of `Clients` (processes) run
calls at the same time; a step is one call of the file system that another
process can see. `Remove` and `Rename` are the two halves of `writeAtomically`
(the code removes the old file first, so that the rename succeeds on every
platform); writing the temporary file is not a step, as its name is unique to
the process. `WriteFails` and `RenameFails` are its error exits, `Crash` ends a
process in the middle of a call, and another takes its place. `SilentLoss`
chooses whether the flush at the close of a stream may fail unnoticed, which the
code does not test.

Keys stand for hashes, which are taken to be injective. `Offers` says what may
be stored under a key, and entries of one key may differ in everything: the report
of an optimized build holds the times its passes took, and the key names the
version of the compiler and not the compiler. What `OffersAssumption` does say is
that entries have a report exactly under the keys of optimized builds, since the
level of optimization is part of the key.

The files of an entry are published one by one, so that after two stores of one key
that overlap, or one that dies half way, the artifact of one may lie next to the
report of another, and a reader may get one file from each even where both stores
succeed. `HitPartsWereOffered` is what holds through all of it: what a hit
returns, `Mixtures` of the entries offered. `EntriesAreWhole` is what holds of
the files once stores have ended: they are one entry, unless stores of the key met
(`overlapped`) or ended half way (`cutShort`, `mixed`); a store that then
runs alone puts them right. These three are history variables, which no action's
guard looks at. As in the driver, a process stores only after a lookup that missed;
by then another may have stored an entry.

### CachedBuild

One process per `Builder` walks through `buildLoadedSource` and
`runCachedNativeToolchain`; `stage` is where it is. The file system is `disk`,
from paths to contents, contents being terms (`Ir(s)`, `Object(ir)`,
`Binary(object, v)`); a path is a directory and a file name, a name is the sequence of
the parts it is put together from, and `IntermediatePath` is the rule of
`nativeIntermediateLlvmPath`: the temporary directory when the output has no
directory, and the output's name with one more part, the extension. An output may
itself end in such a part (`x/app.ll`), and then it is the intermediate file
of another. (The name `a.out` for an output without a file name is left out.) The cache is used through its
promise, by what `ArtifactCache` allows: a lookup misses or finds any entry of
its key (`cached`), a store may fail. Writing an output truncates the file in
one step and fills it in another; if another process wrote in between, the
texts may mix (`Partial`). Clang and the linker are external and read their
inputs in one step and write their outputs in another. `UpdateLibrary` replaces
the library that binaries link by a newer one; a library that is put back to an older
version is not modelled. `Abort` covers failing tools, failing output
and killed processes.

### Heap, NativeRuntime

The runtime is LLVM IR that the compiler emits into every program, and so is the
code that calls it; the model has both. `control` is the nesting of calls,
zones and tries that the machine stack of the program holds; `shadow`, `zone`,
`handler`, `exception` and `threshold` are the runtime's globals
`__scalanative_shadow_stack` and so on. A pointer to a frame, a zone or a handler
record is the position of its item in `control` (of a zone: its level), so that
"the two agree" can be said at all. Each item has what the code saves in
it: a frame its predecessor, a zone its parent, a handler the frame, the zone
and the handler of `lowerTry`.

An action is what one source construct is lowered to, with every call to the
runtime that it makes: `New` is `lowerNew` with the choice of the arena and, for
the collector, the poll; `LeaveZone` frees the blocks of the zone; `Raise` is
`__scalanative_throw` with the zones it unwinds, or the shutdown when no handler
is left; `LeaveBody`, `Dispatch`, `LeaveCatch`, `LeaveFinally` and `Rethrow` are
the blocks that `lowerTry` emits. What a program has in scope is `vars`; what its
frame holds is `roots`. The two differ: a slot of a temporary is not cleared
until the function returns, while the slot of a local is overwritten. `Released`
allows both for what is dropped, as long as nothing in scope loses its slot.

Programs are arbitrary within what the type checker accepts. `MayHold` applies
its rule for zones (`analyzeZoneExpression`, assignments) to the running
program: a reference into a zone is stored only in that zone or in those inside
it. Whether the static analysis enforces as much is a question of its own
(see the plan). `Uses` names four idioms, which the runs switch on separately:
zones, arrays (which live in the program arena), `throw null`, and objects of
an arena that refer to objects of the collector.

An object has one reference, its class decides where it is allocated (plain
objects in the current zone or on the heap, exceptions on the heap, arrays in the
program arena), and a freed address is not used again, so that a stale
reference is visible for ever. Every function has a shadow frame; the ones that
the code generator emits without are those that hold no reference. The report
of an uncaught exception, which calls its `toString`, is left out.

## The runs

| run | instance | states | shows |
|---|---|---|---|
| `linearization` | 5 types, up to 3 parents | 7 thousand | every ancestor once, parents' orders inherited, refusal exactly where no order exists, caching transparent |
| `linker` | 5 types with 1 to 4 methods, 1 to 3 uses; all graphs of 4 functions | 30 thousand | what is kept is closed under references and dispatch, and needed; after success nothing reportable is unresolved; marking ends; the result does not depend on the order of marking |
| `build_cache` | 2 processes, 2 keys, 3 entries | 455 thousand | hits have artifacts and reports stored under their key, which are of one entry unless stores overlapped or died; manifests vouch, stores endure, the promise is kept |
| `cached_build` | a binary build, twice; an object build and a binary build without the cache, once each; library of 2 versions | 2.9 million | objects and binaries in the cache belong to their keys; successful builds are right |
| `cached_build_bare` | two builds with one bare output name | | expected violation of `ObjectsMatchKeys` |
| `native_runtime` | 1 plain object, 1 exception, 1 array, depth 2, thresholds 1 and 2 | 589 thousand | nothing reachable is freed, collections read live objects, the heap is bounded |
| `native_unwinding` | 1 plain object, 1 exception, zones, depth 3 | 333 thousand | globals follow the program, finalizers of bodies run, nothing reachable goes with a zone |
| `native_arenas` | arrays that hold collected objects | | expected violation of `NothingLiveFreed` |
| `native_finally` | clauses that throw | | expected violation of `FinalizersRun` |
| `optimizer` | 6 thousand bodies, 4 inputs each, all tiers | 51 thousand | every pass keeps the meaning and what the verifier accepts; values taken for pure have no effect, and known types are those of the data; accepted bodies never get stuck; folding ends |
| `optimizer_stale` | objects changed inside the value that reads them, or after they were stored | | expected violation of `MeaningPreserved` |
| `zone_escape` | zones with branches and calls that allocate | | expected violation of `AcceptedNeverStuck` |

Why the bounds are enough: an inconsistent hierarchy needs two types that order
two others differently and one below them, so five types show every way a
merge can fail with a type above or below the failure. Dispatch involves a
method's owner, an unrelated trait, a class and a subclass. Every race of the
cache is between one store and another call of the same key, and a second key
shows that keys do not mix; two processes with crashes (a dead process leaves
its half-done work behind) show every race between two steps, and the theorems
hold for any number of processes. One update of the library is enough to come
between fingerprint and link, or between two builds; the theorems hold for any number. A collection frees a live
object if one root, or one field on the way, is overlooked: one object that
refers to another shows it, as `Marked` is a closure and knows no length.
`native_unwinding` runs at depth three (a scope between a try and the throw, inside or outside the
function), and the nesting is proved for any depth and form of try; its
programs collect only where they say so, because polls after `throw null` are
unsound (below). The bodies of `optimizer` are families: each puts all values of
one kind (arithmetic, comparisons and connectives, loops, handlers, objects and
their aliases, arrays, casts, calls that can be inlined or resolved, zones, blocks
in blocks) in the places where a rule for it could apply, with an output,
an exception or an assignment before and after. Integers of four bits have
a least number without an inverse and overflow; two values per parameter decide
every branch; a loop that ends does so within three iterations, and six are
allowed. Adjacent bindings are used once or several times in the next one, and there
only, when they are in a block (what the code does otherwise is below). No run
uses symmetry. An object build without the cache is in the module but in no run: its
steps are those of the other builds, and it stores nothing.

Deadlock is checked in the cache runs, where calls can always be made. The
linker, a linearization, the optimizer, the builds and compiled programs end, so
their runs say `CHECK_DEADLOCK FALSE`.

**Fairness.** `Linker` and `Interflow` assume that their loops go on: each is one
sequential thread that nothing can hold up. Both state it of a `Step` that tells a
step of `Next` by the counters it changes, since deciding whether a pass is
enabled would mean computing it. `BuildCache` assumes that a call that is under way takes
its next step or its process dies; nothing is assumed about calls being made.
Under it, `CacheKeepsPromise` includes that every lookup ends.
`CachedBuild` assumes the same of builds; no liveness property is stated there.

### What the runs found

- `cached_build_bare`: two builds in different directories whose outputs have
  the same bare name share `<tmp>/<name>.ll` and `<tmp>/<name>.link.o`. One
  compiles or reads back the file of the other and stores it under its own
  object key, so that later builds restore the wrong object.
- `native_arenas`: marking stops at objects that the collector does not own. An
  object that only an array or a zone object refers to is freed.
- `native_finally`: an exception out of a `catch` clause does not run the
  `finally` of the same `try`.
- `optimizer_stale`: `foldValue` forgets what a value changes only once the value
  has been folded. A field that a loop, a branch or an earlier operand changes is
  replaced by what it held before (`while (o.x < 3) o.x = o.x + 1` never ends).
  An assignment through a local also records the field again when the object has
  been stored where other names change it.
- `zone_escape`: the zone analysis walks the branches of an `if` one after the
  other with one state, and takes the result of a call for no reference into the
  zone. Both let an object of a zone be stored outside it.

`native_runtime`, `native_unwinding` and `optimizer` leave these idioms out, each
by `Uses`, by a threshold that is not reached, by their bodies, or because
`FinalizersRun` is not asked, and hold of what remains. More disagreements are
known but have no run of their own:

- `throw e` pops the shadow frame, then tests `e`; for null the test allocates a
  `NullPointerException` and may collect. The function may resume in its own
  `catch` with locals whose objects are freed, against `NothingLiveFreed`
  (`native_runtime` has no `throw null`).
- The end of a zone leaves the slots of the function that entered it, and the
  next collection reads headers in freed blocks, against
  `CollectorReadsLiveMemory` (`native_runtime` has no zones).
- The artifact of one store may be returned with the report of another, which differs
  from its own in the times of the passes at least, when two stores of a key overlap or
  one dies. `EntriesAreWhole` says when this cannot be; that no hit is ever
  mixed does not hold.
- An output may be named as an intermediate file of another (`x/app.ll` next to
  `x/app`). With the outputs `NestedNames` of `MCCachedBuild`, `ObjectsMatchKeys`
  fails as in `cached_build_bare` (the outputs of `cached_build` are not named so).
- An artifact whose last bytes were lost when the stream was closed is renamed
  into place and announced by a manifest, and `load`, which has nothing to compare
  it with, takes it for a hit, against `HitPartsWereOffered` (`SilentLoss` is off).
- A block at the end of a block is spliced with its bindings; if both bind one
  name the verifier refuses the result, against `RejectsOnlyItsInput` (names
  are distinct in the bodies; the family `rescoped` of `MCInterflow` has one where
  they are not).
- In a block, a pure binding that the next binding uses once is moved there and
  erased even if it is used again further on, which the variant for bindings of a
  function looks for. Of `{ val a = n + 1; val b = a * 2; a + b }` the last
  value loses its `a`, and the verifier refuses what it had accepted, against
  `RejectsOnlyItsInput`; if another `a` is in scope outside, that one is
  read, against `MeaningPreserved`. The family `rescoped` has both (in the bodies
  of `optimizer` such a binding is used in the next binding only).
- A method call on an object of a zone becomes a direct call with the object as
  an argument, which the zone analysis refuses, against `RejectsOnlyItsInput`
  (the bodies call no method on such objects that can be resolved).
- A bare name counts as pure although it may call a parameterless function, and a
  division of two literals counts as a literal and moves past effects, both against
  `MeaningPreserved` (parameterless functions are pure, and no literal is divided
  by zero before an effect).
- Sums, differences and products of literals are folded in 64 bits, so that one
  that overflows an `Int` becomes a literal no `Int` has (no two literals of the
  bodies overflow).

## The proofs

`LinkerProofs` (for every program, any size). The inductive invariant adds to
`TypeOK` that the roots are marked or queued and that everything a marked name
needs is marked or queued; when the worklist is empty this is
`ClosedWhenDone` (theorem `ReachableIsClosed`). `ReachableIsLeast` shows that
what is marked lies in every closed set. Together: marking computes the least
closed set, in whatever order. `SuccessIsSound` needs that the diagnostics
hold the problems of everything marked so far and the duplicate names.
Assumption: programs are finite sequences of definitions. `ResultIsAFunction`
is the refinement of `LinkResult` (`ResultIsDetermined`): a worklist run in any order ends
with the least closed set, whose errors, all of them and no others, are the
diagnostics. It combines `ReachableIsClosed`, `ReachableIsLeast` and the invariant of
`SuccessIsSound` once the worklist is empty.

`DispatchIsKept` (`DispatchTargetsKept`) goes beyond closure. That a call through
a kept method lands in kept code cannot be read off the linker's rules: what is
marked with a virtual method are the overrides of the method *referred to*, and
what is marked with a class are the functions of its *direct* parents. The invariant
`KeptInv` says that what is marked has a reason: it is a root or a marked name
needs it. A target that the class has itself (`OverrideIsKept`): the method was marked
because it is a root, and then the target is one too, as both are `main`; because
it was referred to, and then its overrides were marked; or because it overrides
what was, and then subtyping and signatures compose, so that the target overrides
it as well. A target that the class inherits (`InheritedIsKept`): its owner is in
the linearization, hence an ancestor (`LinearizationMembers`), and ancestors are
marked with their functions, because the set of types for which that holds
is closed under parents. Hypothesis `IsWellFormed`: what the phases before see to. The
verifier refuses cyclic hierarchies; the emitter gives every function of a class
its receiver; `java.lang.Object`, which every walk over a hierarchy in the code
skips, has no parents and no phase emits functions of it; the runtime's entry
point has no receiver; names and parents are sequences. `MCLinker` assumes it of all programs it checks, so
that TLC evaluates it, and the checked programs show that it is not empty.

`LinearizationLemmas` and `LinearizationProofs` (any number of types and parents,
any hierarchy). The heart is the merge. Its invariant `MergeInv` relates a state
to the sequences it began with: what is left of each is what the result does
not have yet, in the order it had (`Remains`); the result repeats nothing and
puts nothing before what precedes it in some sequence; and every turn adds one
member, so that the bound on turns, the number of members, is never what ends
the loop. When no head is acceptable, each head has another one before it, so that a
set of members has no first one and no order of them exists (`Circular`): the
greedy choice refuses nothing that an order could satisfy. With the converse
(`KeptOrdersAreNotCircular`) this is `RefusedOnlyIfUnorderable`. Ancestors: each
step of the climb that adds nothing ends it, and the sets are within the finite
set of mentioned types, so `Upward` is the least set closed under parents
(`UpwardIsLeast`). The recursion over types is well-founded by the number of
ancestors (`ParentsRankLower`), and the five theorems hold since the cache of
`MCLinearization` satisfies the same equation (`CacheInv`): two solutions cannot
differ at a type of least rank.

`BuildCacheProofs` (any number of keys, entries and processes, from
`OffersAssumption` and `ValuesAssumption`, neither of which says that entries of a key
are alike). `TypeCorrect` is the type invariant, with the facts that bind a
call's phase to its key and entry. The other theorems assume that no write error is
silent (`~ SilentLoss`; with silent losses `HitPartsWereOffered` is false). Their
invariant says that every file of a key holds a part of an entry offered under it,
that a store writes an entry that was offered, and that a reader holds parts of
offered entries only; `HitsHaveOfferedParts` follows, and `HitsAreEntries` for
keys whose entries have one artifact, where no mixture is anything but an entry.
`EntriesStayWhole` is about the files. Its invariant `WholenessInv` adds `LoneInv`: a
store that has met no other is the only one of its key, and what it has written so far
is still there, so that all files are of its entry when it publishes the manifest.
`PublicationIsSound` adds which files a store has already written when it removes
or renames the next, and `StoresEndure` what a later store of the same key leaves of
an earlier one. `CacheRefinesPromise` shows that initial states are initial states of
`ArtifactCache` and that every step is one of its steps or a stutter. It is
the safety half of `CacheKeepsPromise`.

`CachedBuildProofs` (any number of builders, sources, updates of the library and
builds, from `BoundsAssumption` and `NamesAssumption`). `TypeCorrect` needs no hypothesis. The others
assume `FilesApart`: no builder writes a file that another one writes.
`cached_build_bare` shows that they are false without it, and
`DistinctOutputsAreApart` that it holds of distinct outputs with a directory if
none is named as an intermediate file of another: `x/app` and `x/app.ll` have it not.
The code leaves this to its users. (Two names that go on with an extension are equal
only if what they go on from is.) The invariant `BuildsInv` says at which stage which of a builder's files and what it holds in memory belong to its source
(`DiskFits`, `HeldFits`), that the library's versions at the beginning, at
the fingerprint and now are in this order (`VersionsOrdered`), and that every
entry is what its key says (`CacheFits`). It is needed because an object and a binary are
stored from files, several steps after they were written, and because a restored
object takes the same way as a compiled one. From it follow
`StoredObjectsAreRight`, `StoredBinariesAreRight` and `FinishedBuildsHold`.

`NativeRuntimeProofs` (any objects, forms of try, thresholds and depth). That the
three globals match the program (`RuntimeMatchesProgram`) is not inductive: what
an exit or a throw restores is what an item deep in the stack saved. The
invariant `NestingInv` therefore says of *every* item that it saved what was the
case below it (`Nested`), besides that the globals are those of the whole stack
(`Matches`), that only the top may be raising, and that it then has an exception.
The lemmas `GoodPush`, `GoodPop`, `GoodCut` and `GoodPhase` say what becomes of
a good stack when a scope begins, ends, is cut back to the handler, or goes on to
another phase; `GoodBind` and `GoodReleased` that values do not matter. Each action
is then one lemma. From the invariant follow `TypeCorrect`,
`RuntimeFollowsProgram` (the maximum in `Innermost` is determined) and
`BodyFinalizersAlwaysRun` (above the handler there is no body of a try).

`CollectorProofs` (the same constants) is about storage. `NothingLiveFreed`
speaks of what the program has in scope, the collector of slots and links; the
invariant `StorageInv` is what holds them together. Every value of every item of
the stack is in a slot of the frame around it, is in use, and is in no zone inside the
item (`ItemsFit`); what an object refers to lives as long as the object
(`FieldsFit`); objects of zones are in open zones, and what is thrown or pending is
collected. With `NestingInv` every call has its frame linked
(`EveryCallIsLinked`: otherwise the outermost linked frame would have no
predecessor), so that a collection marks from all slots. `LiveObjectsStay` assumes
`CarefulPrograms`, without `throw null` and without references from the program
arena to the collector's heap: the code compiles both, `native_arenas` shows what
the second does, and the first is listed above. `CollectorReadsLive` assumes
besides that there are no zones, whose end leaves slots dangling (above).
`HeapStaysBounded` needs no hypothesis: a poll leaves at most what the linked frames
reach, whether or not the frame of the function has just been popped, and the heap
is finite at every step.

`FoldingProofs` (integers of any width, any operands, any machine) is about the
rules that `foldValue` applies to an operator or a conditional: literals, the same
operand twice, arithmetic identities, the direction of comparisons, equality
and connectives of Booleans, absorption, De Morgan, negated comparisons,
conditionals that are a branch or a connective, bit operations and shifts. `BinaryRulesKeepMeaning`,
`UnaryRulesKeepMeaning` and `IfRulesKeepMeaning` say that what a rule gives evaluates,
on every machine, to the same result or exception and leaves the same machine
as the original: nothing is evaluated that was not, nothing that has an
effect is lost, doubled or moved. `MeaningPreserved` is where TLC checks it on bodies;
there the operands are those of the families, here they are arbitrary. For bit
operations and shifts the rule and the machine are defined by the same operators of
`Nir` (`bitwise`, `shifted`), so that of these the theorem says only where the rule
applies, and that the literal is one of the type.
What operands do is the unknown `eval`. The premises are what the rules
themselves rely on:

- `Evaluates`: the equation by which `NirSemantics` defines `eval` for scalar values.
- `Scope`: operands of the values are among the values; literals are in the range of
  their type; evaluation ends in a machine of the set; a value of known type `Int` or
  `Boolean` gives such data; a pure value ends and leaves the machine as it was.
- For a conditional, that its condition gives a Boolean and that a block of two values
  runs them one after the other.

`AnalysesAreRight` has TLC check of the real analyses, after every pass, what the
premises say of types and purity. It does so for values that name only
parameters. Two things that the code takes for pure are not covered by the premise:
the name of a parameterless function, which is a hazard (above), and a box, whose allocation
adds to the heap (`AnalysesAreRight` allows for it). A sum of two literals
that leaves the range of its type is kept by the rule, but its result is
a literal no longer in `Scope`: that is the 64-bit folding listed above. `Float` and
`Double`, where a comparison with itself may be false, are not modelled.

**What the proofs do without.** The theorems of induction in the library take an
operator as a parameter, which the provers cannot instantiate. Where a fact needs
induction it is proved by the least counterexample (on the library's
theorem that `Nat` is well-founded): the equation of a recursive function from its
definition, the turns of the merge, the steps of the climb, the uniqueness of
the recursion over types.

Left to TLC: liveness (`LinkTerminates`, `Terminates` of the optimizer, the fairness half of
`CacheKeepsPromise`) and everything about `ENABLED`; and the four invariants of
`Interflow`, whose passes, semantics and verifier are `RECURSIVE` operators over
values, which the provers do not take. Of `MeaningPreserved` the rules of `Folding`
are proved; the rest of `foldValue`, the other passes, `AnalysesAreRight`,
`RejectsOnlyItsInput` and `AcceptedNeverStuck` are model-checked only. None of the four could be
proved of all bodies: the hazards above and the runs `optimizer_stale` and
`zone_escape` are bodies for which an analysis, a pass or the verifier goes wrong. That
the proofs cover more than the runs does not make the runs idle: the invariants
above were first checked by TLC, and the runs with an expected violation show
that the hypotheses are needed.

## Not modelled

- Source frames and stack traces, suppressed exceptions, boxes, strings, buffers
  and array intrinsics of the runtime; the C runtime library; the size of the
  machine stack.
- Lexer, parser, typechecker, NIR emitter: recursive translations of one tree into
  another, whose correctness would need the semantics of both languages. Of the
  typechecker, `NativeRuntime` has the rule for zones.
- The rules of the verifier about definitions (duplicate names, parents,
  overrides): the checked programs obey them.
- Constants of the optimizer that are neither `Int` nor `Boolean`, its folds of strings,
  hashes and formats, and its report. (`~` is no gap: the verifier refuses it and no
  pass folds it.)
- NIR text, diagnostics, JSON reports: formatting only.
- Toolchain discovery, preflight probes and link-plan parsing: their answer is
  an external choice. Their log files are a hazard of their own (below).
- Hash collisions of keys.

## Plan

1. `LinkPrune`: the vtable layouts on top of `Linker` and `Prune`: no vtable slot
   of a kept class names a pruned function.
2. `ToolLog`: the log files that builds share in the temporary directory, and
   the toolchain fingerprints and link plans read from them.
3. The rules of the verifier about definitions, next to `Linearization`.
4. The indentation regions of the lexer and the error recovery of the parser; the
   arena and the source manager of `support/`; the merge of options of
   `BuildConfig`.
   Small algorithms share a run per module, and the existing runs are merged
   where one instance answers both questions, so that the whole set stays quick
   enough to be run on every change.
5. Proofs for another part of the optimizer that can be written without recursive
   operators: that the tables of snapshots forget what an effect may change.
