----------------------------- MODULE CachedBuild -----------------------------
(***************************************************************************)
(* Native builds by processes that share a file system and a build cache   *)
(* (buildLoadedSource and runCachedNativeToolchain of                      *)
(* tools/build/src/BuildDriver.cpp, the paths of the actions build-object  *)
(* and build-binary).  The cache is used through its promise, module       *)
(* ArtifactCache: a lookup misses or finds an entry stored under the key.  *)
(*                                                                         *)
(* Contents are terms: the IR of a source, the object compiled from some   *)
(* contents, the binary linked from an object with a version of the        *)
(* external library.  A key names the contents whose hash it covers.       *)
(* Compiler and linker are external: they read their inputs in one step    *)
(* and put their output in place in another.                               *)
(***************************************************************************)
EXTENDS Naturals, Sequences

CONSTANTS
    Builders,
    Sources,        \* builder -> the texts its source file may have
    ActionOf,       \* builder -> "object" or "binary"
    NameParts,      \* the stems and extensions that file names are made of
    OutputOf,       \* builder -> [directory, file, bare]: file is a name, the
                    \* sequence of its parts; bare: the output path as given has
                    \* no directory
    CachesIn,       \* the builders started with a cache directory
    TemporaryDirectory,
    Absent, Partial,    \* no file; one that holds no whole contents
    MaxLibrary,     \* bound on the updates of the external library
    MaxBuilds       \* builder -> bound on its builds

\* A builder builds at least once, and there is a library to begin with.
ASSUME BoundsAssumption ==
    MaxLibrary \in Nat \ {0} /\ \A b \in Builders : MaxBuilds[b] \in Nat \ {0}

\* Outputs name files.  What a name is cut into is determined by the name, so that
\* equal names are equal sequences.
ASSUME NamesAssumption ==
    /\ {".ll", ".link.o"} \subseteq NameParts
    /\ \A b \in Builders : OutputOf[b].file \in Seq(NameParts)

VARIABLES
    disk,       \* path -> contents
    library,    \* the version of the library that binaries link
    cached,     \* the entries [key, contents] stored so far
    source,     \* builder -> the source it builds
    stage,      \* builder -> its next step, or how its build ended
    llvmIr,     \* builder -> result.llvmIr
    held,       \* builder -> contents read or produced, not yet written
    plan,       \* builder -> the library version its fingerprint covers, 0 for none
    began,      \* builder -> the library version when its build began
    builds      \* builder -> the builds begun

vars == <<disk, library, cached, source, stage, llvmIr, held, plan, began, builds>>

\* What a step that only moves files around leaves alone.
request == <<library, source, llvmIr, began, builds>>

------------------------------------------------------------------------------
(* Paths, contents and keys *)

Texts == UNION {Sources[b] : b \in Builders}

OutputPath(b) == <<OutputOf[b].directory, OutputOf[b].file>>

\* Fault: intermediate files have fixed names in the temporary directory.
IntermediatePathFixed(b, extension) == <<TemporaryDirectory, <<"native", extension>>>>

\* nativeIntermediateLlvmPath and nativeIntermediateObjectPath: the name of the
\* output goes on with the extension.
IntermediatePath(b, extension) ==
    <<IF OutputOf[b].bare THEN TemporaryDirectory ELSE OutputOf[b].directory,
      Append(OutputOf[b].file, extension)>>

LlvmPath(b) == IntermediatePath(b, ".ll")

ObjectPath(b) ==
    IF ActionOf[b] = "object" THEN OutputPath(b) ELSE IntermediatePath(b, ".link.o")

Paths == UNION {{OutputPath(b), LlvmPath(b), ObjectPath(b)} : b \in Builders}

Ir(s) == [kind |-> "ir", of |-> s]
Object(contents) == [kind |-> "object", of |-> contents]
Binary(object, version) == [kind |-> "binary", of |-> object, library |-> version]

LlvmKey(s) == [artifact |-> "llvm", of |-> s]

ObjectKey(b) == [artifact |-> "object", of |-> llvmIr[b]]

\* Fault: the fingerprint leaves the contents of the link inputs out.
LinkFingerprintByName(b, version) == [artifact |-> "binary", of |-> llvmIr[b], library |-> 1]

LinkFingerprint(b, version) ==
    [artifact |-> "binary", of |-> llvmIr[b], library |-> version]

Cached(key) == {e.contents : e \in {f \in cached : f.key = key}}

\* A store may fail, which is logged and otherwise ignored.
MayStore(key, contents) ==
    \E stored \in SUBSET {[key |-> key, contents |-> contents]} :
        cached' = cached \cup stored

------------------------------------------------------------------------------
Init ==
    /\ disk = [p \in Paths |-> Absent]
    /\ library = 1
    /\ cached = {}
    /\ source \in {f \in [Builders -> Texts] : \A b \in Builders : f[b] \in Sources[b]}
    /\ stage = [b \in Builders |-> "frontend"]
    /\ llvmIr = [b \in Builders |-> Absent]
    /\ held = [b \in Builders |-> Absent]
    /\ plan = [b \in Builders |-> 0]
    /\ began = [b \in Builders |-> 1]
    /\ builds = [b \in Builders |-> 1]

GoTo(b, next) == stage' = [stage EXCEPT ![b] = next]

\* The front half: the LLVM IR comes from the cache or is compiled and stored.
Frontend(b) ==
    /\ stage[b] = "frontend"
    /\ \/ /\ b \in CachesIn
          /\ \E ir \in Cached(LlvmKey(source[b])) : llvmIr' = [llvmIr EXCEPT ![b] = ir]
          /\ UNCHANGED cached
       \/ /\ llvmIr' = [llvmIr EXCEPT ![b] = Ir(source[b])]
          /\ IF b \in CachesIn THEN MayStore(LlvmKey(source[b]), Ir(source[b]))
             ELSE UNCHANGED cached
    /\ GoTo(b, IF b \in CachesIn THEN "loadObject" ELSE "openLlvm")
    /\ UNCHANGED <<disk, library, source, held, plan, began, builds>>

LoadObject(b) ==
    /\ stage[b] = "loadObject"
    /\ \/ \E object \in Cached(ObjectKey(b)) :
              held' = [held EXCEPT ![b] = object] /\ GoTo(b, "openObject")
       \/ GoTo(b, "openLlvm") /\ UNCHANGED held
    /\ UNCHANGED <<disk, cached, plan, request>>

(***************************************************************************)
(* writeTextOutput: the stream truncates the file, then fills it.  If      *)
(* another process filled it in between, the two texts may mix.            *)
(***************************************************************************)
Open(b, path) == disk' = [disk EXCEPT ![path] = Partial]

Fill(b, path, contents) ==
    \E outcome \in {contents} \cup (IF disk[path] = Partial THEN {} ELSE {Partial}) :
        disk' = [disk EXCEPT ![path] = outcome]

OpenLlvm(b) ==
    /\ stage[b] = "openLlvm"
    /\ Open(b, LlvmPath(b))
    /\ GoTo(b, "fillLlvm")
    /\ UNCHANGED <<cached, held, plan, request>>

FillLlvm(b) ==
    /\ stage[b] = "fillLlvm"
    /\ Fill(b, LlvmPath(b), llvmIr[b])
    /\ GoTo(b, IF b \in CachesIn \/ ActionOf[b] = "object" THEN "compile" ELSE "linkLlvm")
    /\ UNCHANGED <<cached, held, plan, request>>

\* compileLlvmToObject: clang reads the IR file.  Broken IR is an error, or,
\* where the file is still empty, an object without definitions.
Compile(b) ==
    /\ stage[b] = "compile"
    /\ \/ /\ disk[LlvmPath(b)] # Absent
          /\ held' = [held EXCEPT ![b] = Object(disk[LlvmPath(b)])]
          /\ GoTo(b, "emitObject")
       \/ /\ disk[LlvmPath(b)] \in {Absent, Partial}
          /\ GoTo(b, "failed") /\ UNCHANGED held
    /\ UNCHANGED <<disk, cached, plan, request>>

EmitObject(b) ==
    /\ stage[b] = "emitObject"
    /\ disk' = [disk EXCEPT ![ObjectPath(b)] = held[b]]
    /\ GoTo(b, IF b \in CachesIn THEN "storeObject" ELSE "done")
    /\ UNCHANGED <<cached, held, plan, request>>

\* The object is read back from its file to be stored.
StoreObject(b) ==
    /\ stage[b] = "storeObject"
    /\ IF disk[ObjectPath(b)] = Absent THEN UNCHANGED cached
       ELSE MayStore(ObjectKey(b), disk[ObjectPath(b)])
    /\ GoTo(b, IF ActionOf[b] = "object" THEN "done" ELSE "planLink")
    /\ UNCHANGED <<disk, held, plan, request>>

\* A cached object is written to its path instead.
OpenObject(b) ==
    /\ stage[b] = "openObject"
    /\ Open(b, ObjectPath(b))
    /\ GoTo(b, "fillObject")
    /\ UNCHANGED <<cached, held, plan, request>>

FillObject(b) ==
    /\ stage[b] = "fillObject"
    /\ Fill(b, ObjectPath(b), held[b])
    /\ GoTo(b, IF ActionOf[b] = "object" THEN "done" ELSE "planLink")
    /\ UNCHANGED <<cached, held, plan, request>>

\* Fault: the binary cache is consulted without a complete fingerprint.
PlanLinkUnresolved(b) ==
    /\ stage[b] = "planLink"
    /\ \E covered \in {0, library} : plan' = [plan EXCEPT ![b] = covered]
    /\ GoTo(b, "loadBinary")
    /\ UNCHANGED <<disk, cached, held, request>>

\* inspectNativeLinkPlan and the complete fingerprint, which hashes the library
\* as it is now; a plan that cannot be resolved disables the binary cache.
PlanLink(b) ==
    /\ stage[b] = "planLink"
    /\ \/ plan' = [plan EXCEPT ![b] = library] /\ GoTo(b, "loadBinary")
       \/ plan' = [plan EXCEPT ![b] = 0] /\ GoTo(b, "link")
    /\ UNCHANGED <<disk, cached, held, request>>

LoadBinary(b) ==
    /\ stage[b] = "loadBinary"
    /\ \/ \E binary \in Cached(LinkFingerprint(b, plan[b])) :
              held' = [held EXCEPT ![b] = binary] /\ GoTo(b, "openBinary")
       \/ GoTo(b, "link") /\ UNCHANGED held
    /\ UNCHANGED <<disk, cached, plan, request>>

OpenBinary(b) ==
    /\ stage[b] = "openBinary"
    /\ Open(b, OutputPath(b))
    /\ GoTo(b, "fillBinary")
    /\ UNCHANGED <<cached, held, plan, request>>

FillBinary(b) ==
    /\ stage[b] = "fillBinary"
    /\ Fill(b, OutputPath(b), held[b])
    /\ GoTo(b, "done")
    /\ UNCHANGED <<cached, held, plan, request>>

\* linkObjectToBinary: an object without an entry point does not link.
Link(b) ==
    LET object == disk[ObjectPath(b)]
    IN  /\ stage[b] = "link"
        /\ IF \E s \in Texts : object = Object(Ir(s))
           THEN held' = [held EXCEPT ![b] = Binary(object, library)]
                    /\ GoTo(b, "emitBinary")
           ELSE GoTo(b, "failed") /\ UNCHANGED held
        /\ UNCHANGED <<disk, cached, plan, request>>

\* linkLlvmToBinary, the build without a cache (runNativeToolchain).
LinkLlvm(b) ==
    LET ir == disk[LlvmPath(b)]
    IN  /\ stage[b] = "linkLlvm"
        /\ IF \E s \in Texts : ir = Ir(s)
           THEN held' = [held EXCEPT ![b] = Binary(Object(ir), library)]
                    /\ GoTo(b, "emitBinary")
           ELSE GoTo(b, "failed") /\ UNCHANGED held
        /\ UNCHANGED <<disk, cached, plan, request>>

EmitBinary(b) ==
    /\ stage[b] = "emitBinary"
    /\ disk' = [disk EXCEPT ![OutputPath(b)] = held[b]]
    /\ GoTo(b, IF plan[b] # 0 THEN "storeBinary" ELSE "done")
    /\ UNCHANGED <<cached, held, plan, request>>

\* Fault: the fingerprint is taken again after the link.
StoreBinaryRefingerprinted(b) ==
    /\ stage[b] = "storeBinary"
    /\ IF disk[OutputPath(b)] = Absent THEN UNCHANGED cached
       ELSE MayStore(LinkFingerprint(b, library), disk[OutputPath(b)])
    /\ GoTo(b, "done")
    /\ UNCHANGED <<disk, held, plan, request>>

\* The binary is read back and stored under the fingerprint taken before it was
\* linked.
StoreBinary(b) ==
    /\ stage[b] = "storeBinary"
    /\ IF disk[OutputPath(b)] = Absent THEN UNCHANGED cached
       ELSE MayStore(LinkFingerprint(b, plan[b]), disk[OutputPath(b)])
    /\ GoTo(b, "done")
    /\ UNCHANGED <<disk, held, plan, request>>

Step(b) ==
    \/ Frontend(b) \/ LoadObject(b) \/ OpenLlvm(b) \/ FillLlvm(b)
    \/ Compile(b) \/ EmitObject(b) \/ StoreObject(b) \/ OpenObject(b) \/ FillObject(b)
    \/ PlanLink(b) \/ LoadBinary(b) \/ OpenBinary(b) \/ FillBinary(b)
    \/ Link(b) \/ LinkLlvm(b) \/ EmitBinary(b) \/ StoreBinary(b)

Ended == {"done", "failed"}

\* A build that is killed, or whose output or tool fails, leaves its files as
\* they are.
Abort(b) ==
    /\ stage[b] \notin Ended
    /\ GoTo(b, "failed")
    /\ UNCHANGED <<disk, cached, held, plan, request>>

\* The next build of a builder, of a source that may have been edited.
Rebuild(b) ==
    /\ stage[b] \in Ended
    /\ builds[b] < MaxBuilds[b]
    /\ \E s \in Sources[b] : source' = [source EXCEPT ![b] = s]
    /\ GoTo(b, "frontend")
    /\ llvmIr' = [llvmIr EXCEPT ![b] = Absent]
    /\ held' = [held EXCEPT ![b] = Absent]
    /\ plan' = [plan EXCEPT ![b] = 0]
    /\ began' = [began EXCEPT ![b] = library]
    /\ builds' = [builds EXCEPT ![b] = @ + 1]
    /\ UNCHANGED <<disk, library, cached>>

\* Someone installs another version of the library.  A fingerprint covers size,
\* modification time and contents, so no two versions look alike.
UpdateLibrary ==
    /\ library < MaxLibrary
    /\ library' = library + 1
    /\ UNCHANGED <<disk, cached, source, stage, llvmIr, held, plan, began, builds>>

Next ==
    \/ \E b \in Builders : Step(b) \/ Abort(b) \/ Rebuild(b)
    \/ UpdateLibrary

\* A build that is under way takes its next step or is ended.
Spec == Init /\ [][Next]_vars /\ \A b \in Builders : WF_vars(Step(b) \/ Abort(b))

------------------------------------------------------------------------------
(* Properties *)

Stages ==
    {"frontend", "loadObject", "openLlvm", "fillLlvm", "compile", "emitObject",
     "storeObject", "openObject", "fillObject", "planLink", "loadBinary",
     "openBinary", "fillBinary", "link", "linkLlvm", "emitBinary", "storeBinary"}
        \cup Ended

\* The variables keep their shapes; a binary is stored only by a build that has
\* a fingerprint for it.
TypeOK ==
    /\ DOMAIN disk = Paths
    /\ library \in 1..MaxLibrary
    /\ \A e \in cached : e.key.artifact \in {"llvm", "object", "binary"}
    /\ source \in [Builders -> Texts]
    /\ stage \in [Builders -> Stages]
    /\ plan \in [Builders -> 0..MaxLibrary]
    /\ \A b \in Builders : stage[b] \in {"loadBinary", "storeBinary"} => plan[b] > 0
    /\ began \in [Builders -> 1..MaxLibrary]
    /\ \A b \in Builders : builds[b] \in 1..MaxBuilds[b]

\* An object restored from the cache is the one compiled from the LLVM IR its
\* key hashes, although its bytes were read back from a file that other
\* processes may have written (runCachedNativeToolchain).
ObjectsMatchKeys ==
    \A e \in cached : e.key.artifact = "object" => e.contents = Object(e.key.of)

\* A cached binary links the object of its key with a library that is never
\* older than the fingerprint says, although the fingerprint is taken first and
\* the library may change before the link.
BinariesMatchKeys ==
    \A e \in cached : e.key.artifact = "binary" =>
        \E v \in e.key.library..library : e.contents = Binary(Object(e.key.of), v)

\* A build that succeeds leaves the program of its own source, linked with a
\* library at least as new as when the build began, whatever was cached, edited
\* or left behind by builds that were killed.
FinishedBuildsAreRight ==
    \A b \in Builders : stage[b] = "done" =>
        IF ActionOf[b] = "object"
        THEN disk[OutputPath(b)] = Object(Ir(source[b]))
        ELSE \E v \in began[b]..library :
                 disk[OutputPath(b)] = Binary(Object(Ir(source[b])), v)

==============================================================================
