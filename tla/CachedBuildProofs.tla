--------------------------- MODULE CachedBuildProofs ---------------------------
(***************************************************************************)
(* Proofs about builds that share a cache, for any number of builders,     *)
(* sources, library updates and builds: builders whose files are apart     *)
(* store and leave behind only what belongs to their keys and sources.     *)
(***************************************************************************)
EXTENDS CachedBuild, SequenceTheorems, TLAPS

Files(b) == {OutputPath(b), LlvmPath(b), ObjectPath(b)}

\* No two builders write the same file.  The code does not see to it: bare output
\* names put intermediate files in one directory (cached_build_bare).
FilesApart == \A b, c \in Builders : b # c => Files(b) \cap Files(c) = {}

-----------------------------------------------------------------------------
(* The inductive invariant *)

\* The program of a builder's source, linked with a library from some version on.
ObjectOf(b) == Object(Ir(source[b]))

BinarySince(b, version, contents) ==
    \E v \in version..library : contents = Binary(ObjectOf(b), v)

\* The library that the build of b may rely on: the one that its fingerprint
\* covers, if it has one.
Since(b) == IF plan[b] = 0 THEN began[b] ELSE plan[b]

\* Only builds that restore or make an object for a binary get to these stages.
OnlyBinary ==
    {"planLink", "loadBinary", "openBinary", "fillBinary", "link", "linkLlvm",
     "emitBinary", "storeBinary"}

OnlyCached ==
    {"loadObject", "storeObject", "openObject", "fillObject", "planLink",
     "loadBinary", "openBinary", "fillBinary", "link", "storeBinary"}

\* A stage is reached only by the builds it is for.
StageFits(b) ==
    /\ stage[b] \in OnlyBinary => ActionOf[b] # "object"
    /\ stage[b] \in OnlyCached => b \in CachesIn
    /\ stage[b] \in {"compile", "emitObject"} => b \in CachesIn \/ ActionOf[b] = "object"
    /\ stage[b] \in {"loadBinary", "openBinary", "fillBinary", "storeBinary"} => plan[b] # 0
    /\ plan[b] # 0 => b \in CachesIn

\* Versions are taken in order: the build begins, the fingerprint is taken, now.
VersionsOrdered(b) ==
    /\ began[b] <= library
    /\ plan[b] # 0 => began[b] <= plan[b] /\ plan[b] <= library

\* What the build of b holds in memory.
HeldFits(b) ==
    /\ stage[b] \notin {"frontend", "failed"} => llvmIr[b] = Ir(source[b])
    /\ stage[b] \in {"emitObject", "openObject", "fillObject"} => held[b] = ObjectOf(b)
    /\ stage[b] \in {"openBinary", "fillBinary", "emitBinary"} =>
           BinarySince(b, Since(b), held[b])

\* What the files of b hold.
DiskFits(b) ==
    /\ stage[b] = "fillLlvm" => disk[LlvmPath(b)] = Partial
    /\ stage[b] \in {"compile", "linkLlvm"} => disk[LlvmPath(b)] = Ir(source[b])
    /\ stage[b] = "fillObject" => disk[ObjectPath(b)] = Partial
    /\ stage[b] \in {"storeObject", "planLink", "loadBinary", "link"} =>
           disk[ObjectPath(b)] = ObjectOf(b)
    /\ stage[b] = "fillBinary" => disk[OutputPath(b)] = Partial
    /\ stage[b] = "storeBinary" => BinarySince(b, plan[b], disk[OutputPath(b)])
    /\ stage[b] = "done" =>
           IF ActionOf[b] = "object" THEN disk[OutputPath(b)] = ObjectOf(b)
           ELSE BinarySince(b, began[b], disk[OutputPath(b)])

\* An entry is what its key says, with a library no older than the key's.
EntryFits(e) ==
    /\ e.key.artifact \in {"llvm", "object", "binary"}
    /\ e.key.artifact = "llvm" => e.contents = Ir(e.key.of)
    /\ e.key.artifact = "object" => e.contents = Object(e.key.of)
    /\ e.key.artifact = "binary" =>
           /\ e.key.library \in Nat
           /\ \E v \in e.key.library..library : e.contents = Binary(Object(e.key.of), v)

CacheFits == \A e \in cached : EntryFits(e)

\* These have no one range, but they are functions of the paths or the builders.
Shapes ==
    /\ disk = [p \in Paths |-> disk[p]]
    /\ llvmIr = [b \in Builders |-> llvmIr[b]]
    /\ held = [b \in Builders |-> held[b]]
    /\ builds = [b \in Builders |-> builds[b]]

\* The shapes of all variables but the cache.
ShapesOK ==
    /\ DOMAIN disk = Paths /\ library \in 1..MaxLibrary
    /\ source \in [Builders -> Texts] /\ stage \in [Builders -> Stages]
    /\ plan \in [Builders -> 0..MaxLibrary] /\ began \in [Builders -> 1..MaxLibrary]
    /\ \A c \in Builders : builds[c] \in 1..MaxBuilds[c]
    /\ Shapes

BuildFits(b) == StageFits(b) /\ VersionsOrdered(b) /\ HeldFits(b) /\ DiskFits(b)

BuildsInv == ShapesOK /\ CacheFits /\ \A b \in Builders : BuildFits(b)

-----------------------------------------------------------------------------
(* Frames *)

\* A step of b changes what is its own only.
Touches(b) ==
    /\ UNCHANGED library
    /\ \A c \in Builders \ {b} :
           /\ source'[c] = source[c] /\ stage'[c] = stage[c] /\ llvmIr'[c] = llvmIr[c]
           /\ held'[c] = held[c] /\ plan'[c] = plan[c] /\ began'[c] = began[c]
    /\ \A p \in Paths \ Files(b) : disk'[p] = disk[p]

\* The names of intermediate files: longer than the output's, and different for
\* different outputs or extensions.
LEMMA IntermediateNames ==
    ASSUME NEW b \in Builders
    PROVE  /\ \A ext \in {".ll", ".link.o"} :
                  Append(OutputOf[b].file, ext) # OutputOf[b].file
           /\ \A c \in Builders : \A ext, other \in {".ll", ".link.o"} :
                  Append(OutputOf[b].file, ext) = Append(OutputOf[c].file, other) =>
                      OutputOf[b].file = OutputOf[c].file /\ ext = other
<1>1. OutputOf[b].file \in Seq(NameParts) /\ {".ll", ".link.o"} \subseteq NameParts
  BY NamesAssumption
<1>2. ASSUME NEW ext \in {".ll", ".link.o"}
      PROVE  Append(OutputOf[b].file, ext) # OutputOf[b].file
  <2>1. Len(Append(OutputOf[b].file, ext)) = Len(OutputOf[b].file) + 1
    BY <1>1, AppendProperties
  <2>2. Len(OutputOf[b].file) \in Nat
    BY <1>1, LenProperties
  <2> QED BY <2>1, <2>2
<1>3. ASSUME NEW c \in Builders, NEW ext \in {".ll", ".link.o"},
             NEW other \in {".ll", ".link.o"},
             Append(OutputOf[b].file, ext) = Append(OutputOf[c].file, other)
      PROVE  OutputOf[b].file = OutputOf[c].file /\ ext = other
  <2>1. OutputOf[c].file \in Seq(NameParts)
    BY NamesAssumption
  <2>2. ext \in NameParts /\ other \in NameParts
    BY <1>1
  <2> DEFINE s == OutputOf[b].file
             t == OutputOf[c].file
  <2>3. s \in Seq(NameParts) /\ t \in Seq(NameParts) /\ Append(s, ext) = Append(t, other)
    BY <1>1, <1>3, <2>1
  <2> HIDE DEF s, t
  <2>4. Append(s, ext) = Append(t, other) <=> s = t /\ ext = other
    BY <2>2, <2>3, AppendInjective
  <2> QED BY <2>3, <2>4 DEF s, t
<1> QED BY <1>2, <1>3

\* The files of a builder are among the paths, and the ones it uses are apart.
LEMMA FilesOfBuilder ==
    ASSUME NEW b \in Builders
    PROVE  /\ OutputPath(b) \in Paths /\ LlvmPath(b) \in Paths /\ ObjectPath(b) \in Paths
           /\ LlvmPath(b) # OutputPath(b) /\ LlvmPath(b) # ObjectPath(b)
           /\ ActionOf[b] = "object" => ObjectPath(b) = OutputPath(b)
           /\ ActionOf[b] # "object" => ObjectPath(b) # OutputPath(b)
<1>1. {OutputPath(b), LlvmPath(b), ObjectPath(b)} \subseteq Paths
  BY DEF Paths
<1>2. /\ LlvmPath(b) # OutputPath(b) /\ IntermediatePath(b, ".link.o") # OutputPath(b)
      /\ LlvmPath(b) # IntermediatePath(b, ".link.o")
  BY IntermediateNames DEF LlvmPath, IntermediatePath, OutputPath
<1>3. ObjectPath(b) = IF ActionOf[b] = "object" THEN OutputPath(b) ELSE IntermediatePath(b, ".link.o")
  BY DEF ObjectPath
<1> QED BY <1>1, <1>2, <1>3

\* What is right of another builder stays so.
LEMMA OthersFit ==
    ASSUME FilesApart, NEW b \in Builders, NEW c \in Builders \ {b}, BuildFits(c), Touches(b)
    PROVE  BuildFits(c)'
<1>1. /\ source'[c] = source[c] /\ stage'[c] = stage[c] /\ llvmIr'[c] = llvmIr[c]
      /\ held'[c] = held[c] /\ plan'[c] = plan[c] /\ began'[c] = began[c] /\ library' = library
  BY DEF Touches
<1>2. Files(c) \cap Files(b) = {}
  BY DEF FilesApart
<1>3. disk'[OutputPath(c)] = disk[OutputPath(c)] /\ disk'[LlvmPath(c)] = disk[LlvmPath(c)]
      /\ disk'[ObjectPath(c)] = disk[ObjectPath(c)]
  BY <1>2, FilesOfBuilder DEF Touches, Files
<1>4. StageFits(c)' /\ VersionsOrdered(c)'
  BY <1>1 DEF BuildFits, StageFits, VersionsOrdered
<1>5. ObjectOf(c)' = ObjectOf(c) /\ Since(c)' = Since(c)
  BY <1>1 DEF ObjectOf, Since, Object, Ir
<1>6. HeldFits(c)'
  <2>1. BinarySince(c, Since(c), held[c]) => BinarySince(c, Since(c), held[c])'
    BY <1>1, <1>5 DEF BinarySince
  <2> QED BY <1>1, <1>5, <2>1 DEF BuildFits, HeldFits, Ir
<1>7. DiskFits(c)'
  <2>1. BinarySince(c, plan[c], disk[OutputPath(c)]) => BinarySince(c, plan[c], disk[OutputPath(c)])'
    BY <1>1, <1>3, <1>5 DEF BinarySince, OutputPath
  <2>2. BinarySince(c, began[c], disk[OutputPath(c)]) => BinarySince(c, began[c], disk[OutputPath(c)])'
    BY <1>1, <1>3, <1>5 DEF BinarySince, OutputPath
  <2> QED BY <1>1, <1>3, <1>5, <2>1, <2>2 DEF BuildFits, DiskFits, Ir, OutputPath, LlvmPath,
       ObjectPath, IntermediatePath
<1> QED BY <1>4, <1>6, <1>7 DEF BuildFits

\* What a step of a build changes.
Assigns(b) ==
    /\ UNCHANGED <<library, source, began, builds>>
    /\ \E next \in Stages : stage' = [stage EXCEPT ![b] = next]
    /\ UNCHANGED llvmIr \/ \E ir : llvmIr' = [llvmIr EXCEPT ![b] = ir]
    /\ UNCHANGED held \/ \E contents : held' = [held EXCEPT ![b] = contents]
    /\ UNCHANGED plan \/ plan' = [plan EXCEPT ![b] = 0] \/ plan' = [plan EXCEPT ![b] = library]
    /\ UNCHANGED disk \/ \E p \in Files(b) : \E contents : disk' = [disk EXCEPT ![p] = contents]

LEMMA StepAssigns ==
    ASSUME NEW b \in Builders, Step(b) \/ Abort(b)
    PROVE  Assigns(b)
<1> USE DEF Assigns, Files, Stages, Ended, GoTo, request
<1>1. CASE Frontend(b)
  BY <1>1 DEF Frontend
<1>2. CASE LoadObject(b)
  BY <1>2 DEF LoadObject
<1>3. CASE OpenLlvm(b)
  BY <1>3 DEF OpenLlvm, Open
<1>4. CASE FillLlvm(b)
  BY <1>4 DEF FillLlvm, Fill
<1>5. CASE Compile(b)
  BY <1>5 DEF Compile
<1>6. CASE EmitObject(b)
  BY <1>6 DEF EmitObject
<1>7. CASE StoreObject(b)
  BY <1>7 DEF StoreObject
<1>8. CASE OpenObject(b)
  BY <1>8 DEF OpenObject, Open
<1>9. CASE FillObject(b)
  BY <1>9 DEF FillObject, Fill
<1>10. CASE PlanLink(b)
  BY <1>10 DEF PlanLink
<1>11. CASE LoadBinary(b)
  BY <1>11 DEF LoadBinary
<1>12. CASE OpenBinary(b)
  BY <1>12 DEF OpenBinary, Open
<1>13. CASE FillBinary(b)
  BY <1>13 DEF FillBinary, Fill
<1>14. CASE Link(b)
  BY <1>14 DEF Link
<1>15. CASE LinkLlvm(b)
  BY <1>15 DEF LinkLlvm
<1>16. CASE EmitBinary(b)
  BY <1>16 DEF EmitBinary
<1>17. CASE StoreBinary(b)
  BY <1>17 DEF StoreBinary
<1>18. CASE Abort(b)
  BY <1>18 DEF Abort
<1> QED BY <1>1, <1>2, <1>3, <1>4, <1>5, <1>6, <1>7, <1>8, <1>9, <1>10, <1>11, <1>12, <1>13, <1>14, <1>15, <1>16, <1>17, <1>18 DEF Step

\* A step of a build keeps the shapes and leaves alone what is not its own.
LEMMA StepTouches ==
    ASSUME ShapesOK, NEW b \in Builders, Step(b) \/ Abort(b)
    PROVE  ShapesOK' /\ Touches(b)
<1>1. Assigns(b)
  BY StepAssigns
<1>2. UNCHANGED <<library, source, began, builds>>
  BY <1>1 DEF Assigns
<1>3. /\ stage' \in [Builders -> Stages]
      /\ \A c \in Builders \ {b} : stage'[c] = stage[c]
  BY <1>1 DEF Assigns, ShapesOK
<1>4. /\ llvmIr' = [c \in Builders |-> llvmIr'[c]]
      /\ \A c \in Builders \ {b} : llvmIr'[c] = llvmIr[c]
  BY <1>1 DEF Assigns, ShapesOK, Shapes
<1>5. /\ held' = [c \in Builders |-> held'[c]]
      /\ \A c \in Builders \ {b} : held'[c] = held[c]
  BY <1>1 DEF Assigns, ShapesOK, Shapes
<1>6. /\ plan' \in [Builders -> 0..MaxLibrary]
      /\ \A c \in Builders \ {b} : plan'[c] = plan[c]
  <2>1. library \in 0..MaxLibrary /\ 0 \in 0..MaxLibrary
    BY BoundsAssumption DEF ShapesOK
  <2>2. PICK v \in 0..MaxLibrary : plan' = plan \/ plan' = [plan EXCEPT ![b] = v]
    BY <1>1, <2>1 DEF Assigns
  <2> QED BY <2>2 DEF ShapesOK
<1>7. /\ disk' = [p \in Paths |-> disk'[p]] /\ DOMAIN disk' = Paths
      /\ \A p \in Paths \ Files(b) : disk'[p] = disk[p]
  BY <1>1 DEF Assigns, ShapesOK, Shapes
<1>8. ShapesOK'
  BY <1>2, <1>3, <1>4, <1>5, <1>6, <1>7 DEF ShapesOK, Shapes
<1> QED BY <1>2, <1>3, <1>4, <1>5, <1>6, <1>7, <1>8 DEF Touches

\* So does a build that begins again.
LEMMA RebuildTouches ==
    ASSUME ShapesOK, NEW b \in Builders, Rebuild(b)
    PROVE  ShapesOK' /\ Touches(b)
<1>1. PICK s \in Sources[b] : source' = [source EXCEPT ![b] = s]
  BY DEF Rebuild
<1>2. s \in Texts
  BY DEF Texts
<1>3. /\ stage' = [stage EXCEPT ![b] = "frontend"]
      /\ llvmIr' = [llvmIr EXCEPT ![b] = Absent]
      /\ held' = [held EXCEPT ![b] = Absent]
      /\ plan' = [plan EXCEPT ![b] = 0]
      /\ began' = [began EXCEPT ![b] = library]
      /\ builds' = [builds EXCEPT ![b] = builds[b] + 1]
      /\ builds[b] < MaxBuilds[b]
      /\ UNCHANGED <<disk, library, cached>>
  BY DEF Rebuild, GoTo
<1>4. /\ \A c \in Builders : builds'[c] \in 1..MaxBuilds[c]
      /\ builds' = [c \in Builders |-> builds'[c]]
  <2>1. builds' = [builds EXCEPT ![b] = builds[b] + 1] /\ builds = [c \in Builders |-> builds[c]]
    BY <1>3 DEF ShapesOK, Shapes
  <2>2. builds'[b] = builds[b] + 1 /\ \A c \in Builders \ {b} : builds'[c] = builds[c]
    BY <2>1
  <2>3. builds[b] + 1 \in 1..MaxBuilds[b]
    BY <1>3, BoundsAssumption DEF ShapesOK
  <2> QED BY <2>1, <2>2, <2>3 DEF ShapesOK
<1>5. source' \in [Builders -> Texts] /\ stage' \in [Builders -> Stages]
  BY <1>1, <1>2, <1>3 DEF ShapesOK, Stages
<1>6. plan' \in [Builders -> 0..MaxLibrary] /\ began' \in [Builders -> 1..MaxLibrary]
  BY <1>3, BoundsAssumption DEF ShapesOK
<1>7. llvmIr' = [c \in Builders |-> llvmIr'[c]] /\ held' = [c \in Builders |-> held'[c]]
  BY <1>3 DEF ShapesOK, Shapes
<1>8. ShapesOK'
  BY <1>3, <1>4, <1>5, <1>6, <1>7 DEF ShapesOK, Shapes
<1>9. Touches(b)
  BY <1>1, <1>3 DEF Touches, ShapesOK, Shapes
<1> QED BY <1>8, <1>9

-----------------------------------------------------------------------------
(* The cache *)

\* What a lookup finds is what its key says.
LEMMA LookupsFit ==
    ASSUME CacheFits, NEW key, NEW found \in Cached(key)
    PROVE  /\ key.artifact = "llvm" => found = Ir(key.of)
           /\ key.artifact = "object" => found = Object(key.of)
           /\ key.artifact = "binary" =>
                  \E v \in key.library..library : found = Binary(Object(key.of), v)
<1>1. PICK e \in cached : e.key = key /\ e.contents = found
  BY DEF Cached
<1>2. EntryFits(e)
  BY DEF CacheFits
<1> QED BY <1>1, <1>2 DEF EntryFits

\* The cache stays right when an entry that is right is stored, or none.
LEMMA StoresFit ==
    ASSUME CacheFits, UNCHANGED library, NEW key, NEW contents,
           EntryFits([key |-> key, contents |-> contents]),
           UNCHANGED cached \/ MayStore(key, contents)
    PROVE  CacheFits'
<1>1. \A e \in cached' : e \in cached \/ e = [key |-> key, contents |-> contents]
  BY DEF MayStore
<1>2. \A e \in cached' : EntryFits(e)
  BY <1>1 DEF CacheFits
<1> QED BY <1>2 DEF CacheFits, EntryFits

LEMMA KeptCacheFits ==
    ASSUME CacheFits, UNCHANGED <<library, cached>>
    PROVE  CacheFits'
BY DEF CacheFits, EntryFits

-----------------------------------------------------------------------------
(* Steps *)

\* The library of a build is never older than the build, nor than its fingerprint.
LEMMA Versions ==
    ASSUME ShapesOK, NEW b \in Builders, BuildFits(b)
    PROVE  /\ library \in Nat /\ plan[b] \in Nat /\ began[b] \in Nat /\ library # 0
           /\ began[b] <= library /\ (plan[b] # 0 => began[b] <= plan[b] /\ plan[b] <= library)
<1>1. library \in Nat /\ plan[b] \in Nat /\ began[b] \in Nat /\ library # 0
  BY BoundsAssumption DEF ShapesOK
<1> QED BY <1>1 DEF BuildFits, VersionsOrdered

\* The LLVM IR that a lookup finds is that of the source.
LEMMA FrontendFits ==
    ASSUME ShapesOK, CacheFits, NEW b \in Builders, BuildFits(b), Frontend(b)
    PROVE  BuildFits(b)'
<1>1. llvmIr' = [llvmIr EXCEPT ![b] = Ir(source[b])] /\ llvmIr'[b] = Ir(source[b])
  <2>1. ASSUME NEW ir \in Cached(LlvmKey(source[b])) PROVE ir = Ir(source[b])
    BY <2>1, LookupsFit DEF LlvmKey
  <2> QED BY <2>1 DEF Frontend, ShapesOK, Shapes
<1>2. stage'[b] \in {"loadObject", "openLlvm"} /\ (stage'[b] = "loadObject" => b \in CachesIn)
  BY DEF Frontend, GoTo, ShapesOK
<1>3. UNCHANGED <<disk, library, source, held, plan, began, builds>>
  BY DEF Frontend, request
<1> QED BY <1>1, <1>2, <1>3 DEF BuildFits,
      StageFits, VersionsOrdered, HeldFits, DiskFits, OnlyBinary, OnlyCached, ObjectOf, Since, BinarySince

\* The object that a lookup finds is that of the source.
LEMMA LoadObjectFits ==
    ASSUME ShapesOK, CacheFits, NEW b \in Builders, BuildFits(b), LoadObject(b)
    PROVE  BuildFits(b)'
<1>1. stage[b] = "loadObject" /\ b \in CachesIn /\ llvmIr[b] = Ir(source[b])
  BY DEF LoadObject,
      BuildFits, StageFits, HeldFits, DiskFits, VersionsOrdered, OnlyBinary, OnlyCached
<1>2. ASSUME NEW object \in Cached(ObjectKey(b)) PROVE object = ObjectOf(b)
  <2>1. ObjectKey(b).artifact = "object" /\ ObjectKey(b).of = Ir(source[b])
    BY <1>1 DEF ObjectKey
  <2> QED BY <1>2, <2>1, LookupsFit DEF ObjectOf
<1>3. UNCHANGED <<disk, plan, library, source, llvmIr, began, builds>>
  BY DEF LoadObject, request
<1>4. \/ held'[b] = ObjectOf(b) /\ stage'[b] = "openObject"
      \/ stage'[b] = "openLlvm"
  BY <1>2 DEF LoadObject, GoTo, ShapesOK, Shapes
<1> QED BY <1>1, <1>3, <1>4 DEF BuildFits,
      StageFits, VersionsOrdered, HeldFits, DiskFits, OnlyBinary, OnlyCached, ObjectOf, Since, BinarySince

\* The fingerprint covers the library as it is.
LEMMA PlanLinkFits ==
    ASSUME ShapesOK, CacheFits, NEW b \in Builders, BuildFits(b), PlanLink(b)
    PROVE  BuildFits(b)'
<1>0. /\ library \in Nat /\ plan[b] \in Nat /\ began[b] \in Nat /\ library # 0
      /\ began[b] <= library /\ (plan[b] # 0 => began[b] <= plan[b] /\ plan[b] <= library)
  BY Versions
<1>1. stage[b] = "planLink" /\ ActionOf[b] # "object" /\ b \in CachesIn
      /\ llvmIr[b] = Ir(source[b]) /\ disk[ObjectPath(b)] = ObjectOf(b)
  BY DEF PlanLink,
      BuildFits, StageFits, HeldFits, DiskFits, VersionsOrdered, OnlyBinary, OnlyCached
<1>2. UNCHANGED <<disk, held, library, source, llvmIr, began, builds>>
  BY DEF PlanLink, request
<1>3. \/ plan'[b] = library /\ stage'[b] = "loadBinary"
      \/ plan'[b] = 0 /\ stage'[b] = "link"
  BY DEF PlanLink, GoTo, ShapesOK
<1>4. library # 0 /\ began[b] <= library
  BY <1>0
<1>5. StageFits(b)' /\ VersionsOrdered(b)'
  BY <1>1, <1>2, <1>3, <1>4, <1>0 DEF BuildFits, StageFits, VersionsOrdered, OnlyBinary, OnlyCached
<1>6. HeldFits(b)'
  BY <1>1, <1>2, <1>3, <1>4, <1>0 DEF BuildFits, HeldFits, ObjectOf, BinarySince, Since
<1>7. DiskFits(b)'
  BY <1>1, <1>2, <1>3, <1>4, <1>0 DEF BuildFits, DiskFits, ObjectOf, BinarySince, ObjectPath, OutputPath,
      IntermediatePath
<1> QED BY <1>5, <1>6, <1>7 DEF BuildFits

\* The binary that a lookup finds links what the fingerprint covers.
LEMMA LoadBinaryFits ==
    ASSUME ShapesOK, CacheFits, NEW b \in Builders, BuildFits(b), LoadBinary(b)
    PROVE  BuildFits(b)'
<1>0. /\ library \in Nat /\ plan[b] \in Nat /\ began[b] \in Nat /\ library # 0
      /\ began[b] <= library /\ (plan[b] # 0 => began[b] <= plan[b] /\ plan[b] <= library)
  BY Versions
<1>1. stage[b] = "loadBinary" /\ ActionOf[b] # "object" /\ b \in CachesIn /\ plan[b] # 0
      /\ llvmIr[b] = Ir(source[b]) /\ disk[ObjectPath(b)] = ObjectOf(b)
  BY DEF LoadBinary,
      BuildFits, StageFits, HeldFits, DiskFits, VersionsOrdered, OnlyBinary, OnlyCached
<1>2. UNCHANGED <<disk, plan, library, source, llvmIr, began, builds>>
  BY DEF LoadBinary, request
<1>3. ASSUME NEW binary \in Cached(LinkFingerprint(b, plan[b]))
      PROVE  \E v \in plan[b]..library : binary = Binary(ObjectOf(b), v)
  <2>1. LinkFingerprint(b, plan[b]).artifact = "binary" /\ LinkFingerprint(b, plan[b]).of = Ir(source[b])
        /\ LinkFingerprint(b, plan[b]).library = plan[b]
    BY <1>1 DEF LinkFingerprint
  <2> QED BY <1>3, <2>1, LookupsFit DEF ObjectOf
<1>4. \/ stage'[b] = "openBinary" /\ \E v \in plan[b]..library : held'[b] = Binary(ObjectOf(b), v)
      \/ stage'[b] = "link"
  BY <1>3 DEF LoadBinary, GoTo, ShapesOK, Shapes
<1>5. StageFits(b)' /\ VersionsOrdered(b)'
  BY <1>1, <1>2, <1>4, <1>0 DEF BuildFits, StageFits, VersionsOrdered, OnlyBinary, OnlyCached
<1>6. HeldFits(b)'
  BY <1>1, <1>2, <1>4, <1>0 DEF BuildFits, HeldFits, ObjectOf, BinarySince, Since
<1>7. DiskFits(b)'
  BY <1>1, <1>2, <1>4, <1>0 DEF BuildFits, DiskFits, ObjectOf, BinarySince, ObjectPath, OutputPath,
      IntermediatePath
<1> QED BY <1>5, <1>6, <1>7 DEF BuildFits

\* The binary that was found is in place.
LEMMA FillBinaryFits ==
    ASSUME ShapesOK, CacheFits, NEW b \in Builders, BuildFits(b), FillBinary(b)
    PROVE  BuildFits(b)'
<1>0. /\ library \in Nat /\ plan[b] \in Nat /\ began[b] \in Nat /\ library # 0
      /\ began[b] <= library /\ (plan[b] # 0 => began[b] <= plan[b] /\ plan[b] <= library)
  BY Versions
<1>1. stage[b] = "fillBinary" /\ ActionOf[b] # "object" /\ plan[b] # 0
      /\ llvmIr[b] = Ir(source[b]) /\ disk[OutputPath(b)] = Partial
  BY DEF FillBinary,
      BuildFits, StageFits, HeldFits, DiskFits, VersionsOrdered, OnlyBinary, OnlyCached
<1>2. PICK v \in plan[b]..library : held[b] = Binary(ObjectOf(b), v)
  <2>1. Since(b) = plan[b]
    BY <1>0, <1>1 DEF BuildFits, Since
  <2> QED BY <1>1, <2>1 DEF FillBinary, BuildFits, HeldFits, BinarySince
<1>3. v \in began[b]..library
  BY <1>1, <1>2, <1>0
<1>4. disk' = [disk EXCEPT ![OutputPath(b)] = held[b]] /\ stage'[b] = "done"
      /\ UNCHANGED <<held, plan, library, source, llvmIr, began, builds>>
  BY <1>1 DEF FillBinary, Fill, GoTo, request, ShapesOK
<1>5. disk'[OutputPath(b)] = held[b]
  BY <1>4, FilesOfBuilder DEF ShapesOK
<1> QED BY <1>1, <1>2, <1>3, <1>4, <1>5, <1>0 DEF BuildFits,
      StageFits, VersionsOrdered, HeldFits, DiskFits, OnlyBinary, OnlyCached, ObjectOf, Since, BinarySince, OutputPath

\* The object that was restored or made is linked.
LEMMA LinkFits ==
    ASSUME ShapesOK, CacheFits, NEW b \in Builders, BuildFits(b), Link(b)
    PROVE  BuildFits(b)'
<1>0. /\ library \in Nat /\ plan[b] \in Nat /\ began[b] \in Nat /\ library # 0
      /\ began[b] <= library /\ (plan[b] # 0 => began[b] <= plan[b] /\ plan[b] <= library)
  BY Versions
<1>1. stage[b] = "link" /\ ActionOf[b] # "object" /\ b \in CachesIn
      /\ llvmIr[b] = Ir(source[b]) /\ disk[ObjectPath(b)] = ObjectOf(b)
  BY DEF Link,
      BuildFits, StageFits, HeldFits, DiskFits, VersionsOrdered, OnlyBinary, OnlyCached
<1>2. UNCHANGED <<disk, plan, library, source, llvmIr, began, builds>>
  BY DEF Link, request
<1>3. library \in Since(b)..library
  BY <1>0 DEF Since
<1>4. \/ held'[b] = Binary(ObjectOf(b), library) /\ stage'[b] = "emitBinary"
      \/ stage'[b] = "failed"
  BY <1>1 DEF Link, GoTo, ShapesOK, Shapes
<1> QED BY <1>1, <1>2, <1>3, <1>4, <1>0 DEF BuildFits,
      StageFits, VersionsOrdered, HeldFits, DiskFits, OnlyBinary, OnlyCached, ObjectOf, Since, BinarySince

\* The LLVM IR of the source is linked.
LEMMA LinkLlvmFits ==
    ASSUME ShapesOK, CacheFits, NEW b \in Builders, BuildFits(b), LinkLlvm(b)
    PROVE  BuildFits(b)'
<1>0. /\ library \in Nat /\ plan[b] \in Nat /\ began[b] \in Nat /\ library # 0
      /\ began[b] <= library /\ (plan[b] # 0 => began[b] <= plan[b] /\ plan[b] <= library)
  BY Versions
<1>1. stage[b] = "linkLlvm" /\ ActionOf[b] # "object"
      /\ llvmIr[b] = Ir(source[b]) /\ disk[LlvmPath(b)] = Ir(source[b])
  BY DEF LinkLlvm,
      BuildFits, StageFits, HeldFits, DiskFits, VersionsOrdered, OnlyBinary, OnlyCached
<1>2. UNCHANGED <<disk, plan, library, source, llvmIr, began, builds>>
  BY DEF LinkLlvm, request
<1>3. library \in Since(b)..library
  BY <1>0 DEF Since
<1>4. \/ held'[b] = Binary(ObjectOf(b), library) /\ stage'[b] = "emitBinary"
      \/ stage'[b] = "failed"
  BY <1>1 DEF LinkLlvm, GoTo, ShapesOK, Shapes, ObjectOf
<1> QED BY <1>1, <1>2, <1>3, <1>4, <1>0 DEF BuildFits,
      StageFits, VersionsOrdered, HeldFits, DiskFits, OnlyBinary, OnlyCached, ObjectOf, Since, BinarySince

\* The binary that was linked is in place.
LEMMA EmitBinaryFits ==
    ASSUME ShapesOK, CacheFits, NEW b \in Builders, BuildFits(b), EmitBinary(b)
    PROVE  BuildFits(b)'
<1>0. /\ library \in Nat /\ plan[b] \in Nat /\ began[b] \in Nat /\ library # 0
      /\ began[b] <= library /\ (plan[b] # 0 => began[b] <= plan[b] /\ plan[b] <= library)
  BY Versions
<1>1. stage[b] = "emitBinary" /\ ActionOf[b] # "object" /\ llvmIr[b] = Ir(source[b])
  BY DEF EmitBinary,
      BuildFits, StageFits, HeldFits, DiskFits, VersionsOrdered, OnlyBinary, OnlyCached
<1>2. PICK v \in Since(b)..library : held[b] = Binary(ObjectOf(b), v)
  BY <1>1 DEF BuildFits, HeldFits, BinarySince
<1>3. v \in began[b]..library /\ (plan[b] # 0 => v \in plan[b]..library)
  BY <1>0, <1>2 DEF Since
<1>4. disk' = [disk EXCEPT ![OutputPath(b)] = held[b]]
      /\ UNCHANGED <<held, plan, library, source, llvmIr, began, builds>>
  BY DEF EmitBinary, request
<1>5. stage'[b] = IF plan[b] # 0 THEN "storeBinary" ELSE "done"
  BY DEF EmitBinary, GoTo, ShapesOK
<1>6. disk'[OutputPath(b)] = Binary(ObjectOf(b), v)
  BY <1>2, <1>4, FilesOfBuilder DEF ShapesOK
<1>7. plan[b] # 0 => plan[b] # 0
  BY <1>0 DEF BuildFits
<1>8. StageFits(b)' /\ VersionsOrdered(b)'
  BY <1>1, <1>3, <1>4, <1>5, <1>6, <1>7, <1>0 DEF BuildFits, StageFits, VersionsOrdered, OnlyBinary, OnlyCached
<1>9. HeldFits(b)'
  BY <1>1, <1>3, <1>4, <1>5, <1>6, <1>7, <1>0 DEF BuildFits, HeldFits, ObjectOf, BinarySince, Since
<1>10. DiskFits(b)'
  BY <1>1, <1>3, <1>4, <1>5, <1>6, <1>7, <1>0 DEF BuildFits, DiskFits, ObjectOf, BinarySince, ObjectPath, OutputPath,
      IntermediatePath
<1> QED BY <1>8, <1>9, <1>10 DEF BuildFits

\* It stays in place when it is stored.
LEMMA StoreBinaryFits ==
    ASSUME ShapesOK, CacheFits, NEW b \in Builders, BuildFits(b), StoreBinary(b)
    PROVE  BuildFits(b)'
<1>0. /\ library \in Nat /\ plan[b] \in Nat /\ began[b] \in Nat /\ library # 0
      /\ began[b] <= library /\ (plan[b] # 0 => began[b] <= plan[b] /\ plan[b] <= library)
  BY Versions
<1>1. stage[b] = "storeBinary" /\ ActionOf[b] # "object" /\ llvmIr[b] = Ir(source[b])
      /\ plan[b] # 0 /\ began[b] <= plan[b]
  BY <1>0 DEF StoreBinary,
      BuildFits, StageFits, HeldFits, DiskFits, VersionsOrdered, OnlyBinary, OnlyCached
<1>2. PICK v \in plan[b]..library : disk[OutputPath(b)] = Binary(ObjectOf(b), v)
  BY <1>1 DEF BuildFits, DiskFits, BinarySince
<1>3. v \in began[b]..library
  BY <1>1, <1>2, <1>0
<1>4. stage'[b] = "done" /\ UNCHANGED <<disk, held, plan, library, source, llvmIr, began, builds>>
  BY DEF StoreBinary, GoTo, request, ShapesOK
<1> QED BY <1>1, <1>3, <1>4, <1>2, <1>0 DEF BuildFits,
      StageFits, VersionsOrdered, HeldFits, DiskFits, OnlyBinary, OnlyCached, ObjectOf, Since, BinarySince, OutputPath

\* Every step of a build keeps what is right of it.
LEMMA StepFits ==
    ASSUME ShapesOK, CacheFits, NEW b \in Builders, BuildFits(b), Step(b) \/ Abort(b)
    PROVE  BuildFits(b)'
<1> USE DEF BuildFits, StageFits, VersionsOrdered, HeldFits, DiskFits, GoTo, request,
        OnlyBinary, OnlyCached, ShapesOK, Shapes, Ended, ObjectOf, Since, BinarySince
<1>1. CASE Frontend(b)
  BY <1>1, FrontendFits
<1>2. CASE LoadObject(b)
  BY <1>2, LoadObjectFits
<1>3. CASE OpenLlvm(b)
  BY <1>3, FilesOfBuilder DEF OpenLlvm, Open
<1>4. CASE FillLlvm(b)
  BY <1>4, FilesOfBuilder DEF FillLlvm, Fill
<1>5. CASE Compile(b)
  BY <1>5, FilesOfBuilder DEF Compile
<1>6. CASE EmitObject(b)
  BY <1>6, FilesOfBuilder DEF EmitObject
<1>7. CASE StoreObject(b)
  BY <1>7, FilesOfBuilder DEF StoreObject
<1>8. CASE OpenObject(b)
  BY <1>8, FilesOfBuilder DEF OpenObject, Open
<1>9. CASE FillObject(b)
  BY <1>9, FilesOfBuilder DEF FillObject, Fill
<1>10. CASE PlanLink(b)
  BY <1>10, PlanLinkFits
<1>11. CASE LoadBinary(b)
  BY <1>11, LoadBinaryFits
<1>12. CASE OpenBinary(b)
  BY <1>12, FilesOfBuilder DEF OpenBinary, Open
<1>13. CASE FillBinary(b)
  BY <1>13, FillBinaryFits
<1>14. CASE Link(b)
  BY <1>14, LinkFits
<1>15. CASE LinkLlvm(b)
  BY <1>15, LinkLlvmFits
<1>16. CASE EmitBinary(b)
  BY <1>16, EmitBinaryFits
<1>17. CASE StoreBinary(b)
  BY <1>17, StoreBinaryFits
<1>18. CASE Abort(b)
  BY <1>18, FilesOfBuilder DEF Abort
<1> QED BY <1>1, <1>2, <1>3, <1>4, <1>5, <1>6, <1>7, <1>8, <1>9, <1>10, <1>11, <1>12, <1>13, <1>14, <1>15, <1>16, <1>17, <1>18 DEF Step

\* Every step of a build stores what is right, if anything.
LEMMA StepStoresRight ==
    ASSUME ShapesOK, CacheFits, NEW b \in Builders, BuildFits(b), Step(b) \/ Abort(b)
    PROVE  CacheFits'
<1>1. UNCHANGED library
  BY StepAssigns DEF Assigns
<1>2. CASE Frontend(b)
  <2>1. EntryFits([key |-> LlvmKey(source[b]), contents |-> Ir(source[b])])
    BY DEF EntryFits, LlvmKey
  <2> QED BY <1>1, <1>2, <2>1, StoresFit DEF Frontend
<1>3. CASE StoreObject(b)
  <2>1. disk[ObjectPath(b)] = Object(llvmIr[b])
    BY <1>3 DEF StoreObject, BuildFits, DiskFits, HeldFits, ObjectOf
  <2>2. EntryFits([key |-> ObjectKey(b), contents |-> disk[ObjectPath(b)]])
    BY <2>1 DEF EntryFits, ObjectKey
  <2> QED BY <1>1, <1>3, <2>2, StoresFit DEF StoreObject
<1>4. CASE StoreBinary(b)
  <2>1. /\ llvmIr[b] = Ir(source[b]) /\ plan[b] \in Nat
        /\ \E v \in plan[b]..library : disk[OutputPath(b)] = Binary(Object(llvmIr[b]), v)
    <3>1. plan[b] \in Nat
      BY BoundsAssumption DEF ShapesOK
    <3>2. stage[b] = "storeBinary"
      BY <1>4 DEF StoreBinary
    <3> QED BY <3>1, <3>2 DEF BuildFits, DiskFits, HeldFits, ObjectOf, BinarySince
  <2>2. EntryFits([key |-> LinkFingerprint(b, plan[b]), contents |-> disk[OutputPath(b)]])
    BY <2>1 DEF EntryFits, LinkFingerprint
  <2> QED BY <1>1, <1>4, <2>2, StoresFit DEF StoreBinary
<1>5. CASE UNCHANGED cached
  BY <1>1, <1>5, KeptCacheFits
<1>6. Frontend(b) \/ StoreObject(b) \/ StoreBinary(b) \/ UNCHANGED cached
  BY DEF Step, Abort, LoadObject, OpenLlvm, FillLlvm, Compile, EmitObject, OpenObject, FillObject,
      PlanLink, LoadBinary, OpenBinary, FillBinary, Link, LinkLlvm, EmitBinary
<1> QED BY <1>2, <1>3, <1>4, <1>5, <1>6

\* A build that begins again has nothing that could be wrong yet.
LEMMA RebuildFits ==
    ASSUME ShapesOK, NEW b \in Builders, Rebuild(b)
    PROVE  BuildFits(b)'
<1>1. /\ stage'[b] = "frontend" /\ plan'[b] = 0 /\ began'[b] = library /\ library' = library
      /\ library \in Nat
  BY BoundsAssumption DEF Rebuild, GoTo, ShapesOK
<1> QED BY <1>1 DEF BuildFits, StageFits, VersionsOrdered, HeldFits, DiskFits, OnlyBinary, OnlyCached

\* A newer library makes nothing wrong: a key vouches for no upper bound.
LEMMA UpdateFits ==
    ASSUME BuildsInv, UpdateLibrary
    PROVE  BuildsInv'
<1>1. /\ library' = library + 1 /\ library \in Nat /\ library' \in 1..MaxLibrary
      /\ UNCHANGED <<disk, cached, source, stage, llvmIr, held, plan, began, builds>>
  BY BoundsAssumption DEF UpdateLibrary, BuildsInv, ShapesOK
<1>2. ShapesOK'
  BY <1>1 DEF BuildsInv, ShapesOK, Shapes
<1>3. CacheFits'
  <2> SUFFICES ASSUME NEW e \in cached PROVE EntryFits(e)'
    BY <1>1 DEF CacheFits
  <2>1. EntryFits(e)
    BY DEF BuildsInv, CacheFits
  <2> QED BY <1>1, <2>1 DEF EntryFits
<1>4. ASSUME NEW b \in Builders PROVE BuildFits(b)'
  <2>1. /\ BuildFits(b) /\ plan[b] \in Nat /\ began[b] \in Nat
    BY BoundsAssumption DEF BuildsInv, ShapesOK
  <2>2. /\ stage'[b] = stage[b] /\ plan'[b] = plan[b] /\ began'[b] = began[b]
        /\ held'[b] = held[b] /\ llvmIr'[b] = llvmIr[b] /\ UNCHANGED <<disk, source>>
    BY <1>1
  <2>3. StageFits(b)' /\ VersionsOrdered(b)'
    BY <1>1, <2>1, <2>2 DEF BuildFits, StageFits, VersionsOrdered
  <2>4. HeldFits(b)'
    BY <1>1, <2>1, <2>2 DEF BuildFits, HeldFits, BinarySince, ObjectOf, Since
  <2>5. DiskFits(b)'
    BY <1>1, <2>1, <2>2 DEF BuildFits, DiskFits, BinarySince, ObjectOf
  <2> QED BY <2>3, <2>4, <2>5 DEF BuildFits
<1> QED BY <1>2, <1>3, <1>4 DEF BuildsInv

-----------------------------------------------------------------------------
(* The theorems *)

\* The variables keep their shapes, and a build that looks up or stores a binary
\* has a fingerprint, whatever files the builders share (PlanLink and what
\* follows it).
THEOREM TypeCorrect == Spec => []TypeOK
<1> DEFINE Fingerprinted(b) ==
        stage[b] \in {"loadBinary", "openBinary", "fillBinary", "storeBinary"} => plan[b] # 0
<1> DEFINE Kinds == \A e \in cached : e.key.artifact \in {"llvm", "object", "binary"}
<1> DEFINE TypeInv == ShapesOK /\ Kinds /\ \A b \in Builders : Fingerprinted(b)
<1>1. Init => TypeInv
  BY BoundsAssumption DEF Init, ShapesOK, Shapes, Stages
<1>2. TypeInv /\ [Next]_vars => TypeInv'
  <2> SUFFICES ASSUME TypeInv, [Next]_vars PROVE TypeInv'
    OBVIOUS
  <2>1. ASSUME NEW b \in Builders, Step(b) \/ Abort(b) \/ Rebuild(b) PROVE TypeInv'
    <3>1. ShapesOK' /\ Touches(b)
      BY <2>1, StepTouches, RebuildTouches
    <3>2. Kinds'
      <4>1. UNCHANGED cached \/ Frontend(b) \/ StoreObject(b) \/ StoreBinary(b)
        BY <2>1 DEF Step, Abort, Rebuild, LoadObject, OpenLlvm, FillLlvm, Compile, EmitObject,
            OpenObject, FillObject, PlanLink, LoadBinary, OpenBinary, FillBinary, Link, LinkLlvm,
            EmitBinary
      <4>2. \E key, contents : /\ key.artifact \in {"llvm", "object", "binary"}
                               /\ UNCHANGED cached \/ MayStore(key, contents)
        BY <4>1 DEF Frontend, StoreObject, StoreBinary, LlvmKey, ObjectKey, LinkFingerprint
      <4> QED BY <4>2 DEF MayStore
    <3>3. Fingerprinted(b)'
      <4> USE DEF GoTo, request, ShapesOK, Shapes
      <4>1. CASE PlanLink(b)
        BY <4>1, BoundsAssumption DEF PlanLink
      <4>2. CASE LoadBinary(b)
        BY <4>2 DEF LoadBinary
      <4>3. CASE OpenBinary(b)
        BY <4>3 DEF OpenBinary
      <4>4. CASE EmitBinary(b)
        BY <4>4 DEF EmitBinary
      <4>5. CASE ~ (PlanLink(b) \/ LoadBinary(b) \/ OpenBinary(b) \/ EmitBinary(b))
        <5>1. stage'[b] \notin {"loadBinary", "openBinary", "fillBinary", "storeBinary"}
          BY <2>1, <4>5 DEF Step, Abort, Rebuild, Frontend, LoadObject, OpenLlvm, FillLlvm, Compile,
              EmitObject, StoreObject, OpenObject, FillObject, FillBinary, Link, LinkLlvm, StoreBinary
        <5> QED BY <5>1
      <4> QED BY <4>1, <4>2, <4>3, <4>4, <4>5
    <3>4. \A c \in Builders \ {b} : Fingerprinted(c)'
      BY <3>1 DEF Touches
    <3> QED BY <3>1, <3>2, <3>3, <3>4
  <2>2. CASE UpdateLibrary
    BY <2>2, BoundsAssumption DEF UpdateLibrary, ShapesOK, Shapes
  <2>3. CASE UNCHANGED vars
    BY <2>3 DEF vars, ShapesOK, Shapes
  <2> QED BY <2>1, <2>2, <2>3 DEF Next
<1>3. TypeInv => TypeOK
  <2> SUFFICES ASSUME TypeInv, NEW b \in Builders, stage[b] \in {"loadBinary", "storeBinary"}
               PROVE  plan[b] > 0
    BY DEF TypeOK, ShapesOK
  <2>1. plan[b] \in Nat
    BY BoundsAssumption DEF ShapesOK
  <2> QED BY <2>1
<1> HIDE DEF TypeInv
<1> QED BY <1>1, <1>2, <1>3, PTL DEF Spec

\* Builders whose files are apart keep everything that the builds rely on.
THEOREM BuildsInvHolds == ASSUME FilesApart PROVE Spec => []BuildsInv
<1>1. Init => BuildsInv
  <2> SUFFICES ASSUME Init PROVE BuildsInv
    OBVIOUS
  <2>1. ShapesOK
    BY BoundsAssumption DEF Init, ShapesOK, Shapes, Stages
  <2>2. CacheFits
    BY DEF Init, CacheFits
  <2>3. ASSUME NEW b \in Builders PROVE BuildFits(b)
    <3>1. stage[b] = "frontend" /\ plan[b] = 0 /\ began[b] = 1 /\ library = 1
      BY DEF Init
    <3> QED BY <3>1 DEF BuildFits, StageFits, VersionsOrdered, HeldFits, DiskFits, OnlyBinary,
           OnlyCached
  <2> QED BY <2>1, <2>2, <2>3 DEF BuildsInv
<1>2. BuildsInv /\ [Next]_vars => BuildsInv'
  <2> SUFFICES ASSUME BuildsInv, [Next]_vars PROVE BuildsInv'
    OBVIOUS
  <2>1. ASSUME NEW b \in Builders, Step(b) \/ Abort(b) PROVE BuildsInv'
    <3>1. ShapesOK' /\ Touches(b)
      BY <2>1, StepTouches DEF BuildsInv
    <3>2. CacheFits' /\ BuildFits(b)'
      BY <2>1, StepStoresRight, StepFits DEF BuildsInv
    <3>3. \A c \in Builders \ {b} : BuildFits(c)'
      BY <3>1, OthersFit DEF BuildsInv
    <3> QED BY <3>1, <3>2, <3>3 DEF BuildsInv
  <2>2. ASSUME NEW b \in Builders, Rebuild(b) PROVE BuildsInv'
    <3>1. ShapesOK' /\ Touches(b)
      BY <2>2, RebuildTouches DEF BuildsInv
    <3>2. CacheFits' /\ BuildFits(b)'
      BY <2>2, RebuildFits, KeptCacheFits DEF BuildsInv, Rebuild
    <3>3. \A c \in Builders \ {b} : BuildFits(c)'
      BY <3>1, OthersFit DEF BuildsInv
    <3> QED BY <3>1, <3>2, <3>3 DEF BuildsInv
  <2>3. CASE UpdateLibrary
    BY <2>3, UpdateFits
  <2>4. CASE UNCHANGED vars
    BY <2>4 DEF vars, BuildsInv, ShapesOK, Shapes, CacheFits, EntryFits, BuildFits, StageFits,
        VersionsOrdered, HeldFits, DiskFits, BinarySince, ObjectOf, Since
  <2> QED BY <2>1, <2>2, <2>3, <2>4 DEF Next
<1> QED BY <1>1, <1>2, PTL DEF Spec


\* An object that is restored is the one compiled from the LLVM IR of its key,
\* although it was read back from a file before it was stored (StoreObject).
THEOREM StoredObjectsAreRight == ASSUME FilesApart PROVE Spec => []ObjectsMatchKeys
<1>1. BuildsInv => ObjectsMatchKeys
  BY DEF BuildsInv, CacheFits, EntryFits, ObjectsMatchKeys
<1> QED BY <1>1, BuildsInvHolds, PTL

\* A binary that is restored links the object of its key with a library that is
\* no older than its fingerprint, although the library may change between the
\* fingerprint and the link (PlanLink, Link, StoreBinary).
THEOREM StoredBinariesAreRight == ASSUME FilesApart PROVE Spec => []BinariesMatchKeys
<1>1. BuildsInv => BinariesMatchKeys
  BY DEF BuildsInv, CacheFits, EntryFits, BinariesMatchKeys
<1> QED BY <1>1, BuildsInvHolds, PTL

\* A build that succeeds leaves the program of its source, whatever was cached,
\* edited or left behind, and however builds were killed.
THEOREM FinishedBuildsHold == ASSUME FilesApart PROVE Spec => []FinishedBuildsAreRight
<1>1. BuildsInv => FinishedBuildsAreRight
  BY DEF BuildsInv, BuildFits, DiskFits, BinarySince, ObjectOf, FinishedBuildsAreRight
<1> QED BY <1>1, BuildsInvHolds, PTL

\* Files are apart where outputs are given with a directory and none is, or is
\* named as, a file of another build: intermediate files lie next to their
\* outputs, and those of different outputs have different names
\* (nativeIntermediateLlvmPath, nativeIntermediateObjectPath).
THEOREM DistinctOutputsAreApart ==
    ASSUME \A b \in Builders : ~ OutputOf[b].bare,
           \A b, c \in Builders : b # c =>
               /\ OutputPath(b) # OutputPath(c)
               /\ \A ext \in {".ll", ".link.o"} :
                      OutputPath(b) # <<OutputOf[c].directory, Append(OutputOf[c].file, ext)>>
    PROVE  FilesApart
<1> SUFFICES ASSUME NEW b \in Builders, NEW c \in Builders, b # c,
                    NEW p \in Files(b), p \in Files(c)
             PROVE  FALSE
  BY DEF FilesApart
<1>1. ASSUME NEW a \in Builders, p \in Files(a)
      PROVE  \/ p = OutputPath(a)
             \/ \E ext \in {".ll", ".link.o"} :
                    p = <<OutputOf[a].directory, Append(OutputOf[a].file, ext)>>
  BY <1>1, Zenon DEF Files, LlvmPath, ObjectPath, IntermediatePath
<1>2. CASE p = OutputPath(b) \/ p = OutputPath(c)
  BY <1>1, <1>2
<1>3. CASE /\ \E ext \in {".ll", ".link.o"} :
                  p = <<OutputOf[b].directory, Append(OutputOf[b].file, ext)>>
           /\ \E ext \in {".ll", ".link.o"} :
                  p = <<OutputOf[c].directory, Append(OutputOf[c].file, ext)>>
  <2>1. OutputOf[b].directory = OutputOf[c].directory
    BY <1>3
  <2>2. OutputOf[b].file = OutputOf[c].file
    BY <1>3, IntermediateNames
  <2> QED BY <2>1, <2>2 DEF OutputPath
<1> QED BY <1>1, <1>2, <1>3

==============================================================================
