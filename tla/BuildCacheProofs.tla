--------------------------- MODULE BuildCacheProofs ---------------------------
(***************************************************************************)
(* Proofs about the build cache, for any number of processes and keys: a   *)
(* hit has parts that were stored under the key, entries are whole where   *)
(* stores did not overlap or die, a manifest vouches for the files it      *)
(* announces, stored entries stay, and every step of the cache is a step   *)
(* of the promise.                                                         *)
(***************************************************************************)
EXTENDS BuildCache, TLAPS

\* An entry offered under a key is well formed.
LEMMA OfferedEntries ==
    ASSUME TypeOK, NEW k \in Keys, NEW e \in offered[k]
    PROVE  /\ e \in Offers[k]
           /\ e = [artifact |-> e.artifact, report |-> e.report]
           /\ e.artifact # Absent /\ e.report # Absent
           /\ e.report = NoReport <=> k \notin Optimized
           /\ e.artifact \in Parts("artifact") /\ e.report \in Parts("report")
           /\ e \in Entries
<1>1. e \in Offers[k]
  BY DEF TypeOK
<1>2. e.artifact \in Parts("artifact") /\ e.report \in Parts("report")
  BY <1>1 DEF Parts
<1>3. e = [artifact |-> e.artifact, report |-> e.report]
  BY <1>1, OffersAssumption
<1>4. e \in Entries
  BY <1>2, <1>3 DEF Entries, FileContents
<1> QED BY <1>1, <1>2, <1>4, OffersAssumption

-----------------------------------------------------------------------------
(* Type correctness *)

\* A call that returns, or reads on, keeps the types.
LEMMA ReadsKeepTypes ==
    ASSUME TypeOK, NEW c \in Clients, op[c] = "load", NEW got \in Entries \cup {Miss},
           Return(c, got) \/ (got # Miss /\ \E f \in Files : ReadNext(c, f, got))
    PROVE  TypeOK'
<1> USE ValuesAssumption DEF TypeOK, disk
<1>1. UNCHANGED <<files, offered, succeeded, cutShort, overlapped, mixed>>
  BY DEF Return, ReadNext
<1>2. CASE Return(c, got)
  BY <1>1, <1>2 DEF Return, Files
<1>3. CASE got # Miss /\ \E f \in Files : ReadNext(c, f, got)
  BY <1>1, <1>3 DEF ReadNext
<1> QED BY <1>2, <1>3

LEMMA StoreReturnKeepsTypes ==
    ASSUME TypeOK, NEW c \in Clients, StoreReturns(c),
           files' \in [Keys -> [Files -> FileContents]],
           succeeded' \subseteq Keys, cutShort' \subseteq Keys, mixed' \subseteq Keys
    PROVE  TypeOK'
BY ValuesAssumption DEF TypeOK, StoreReturns, Files

\* A step of a call keeps the types.
LEMMA CallsKeepTypes ==
    ASSUME TypeOK, NEW c \in Clients, Step(c) \/ Crash(c)
    PROVE  TypeOK'
<1> USE DEF Files
<1>0. \A k \in Keys, f \in Files : files[k][f] \in FileContents
  BY DEF TypeOK
<1>1. ASSUME ReadManifest(c) PROVE TypeOK'
  <2> DEFINE got == [artifact |-> Absent,
                     report |-> IF files[key[c]].manifest = "yes" THEN Absent ELSE NoReport]
  <2>1. got \in Entries /\ got # Miss
    BY ValuesAssumption DEF Entries, FileContents
  <2> HIDE DEF got
  <2>2. op[c] = "load" /\ (Return(c, Miss) \/ ReadNext(c, "artifact", got))
    BY <1>1 DEF ReadManifest, Reading, got
  <2> QED BY <2>1, <2>2, ReadsKeepTypes
<1>2. ASSUME ReadArtifact(c) PROVE TypeOK'
  <2> DEFINE got == [entry[c] EXCEPT !.artifact = files[key[c]].artifact]
  <2>1. op[c] = "load" /\ key[c] \in Keys /\ entry[c] \in Entries
    BY <1>2 DEF ReadArtifact, Reading, TypeOK
  <2>2. got \in Entries /\ got # Miss
    BY <1>0, <2>1, ValuesAssumption DEF Entries
  <2> HIDE DEF got
  <2>3. Return(c, Miss) \/ Return(c, got) \/ ReadNext(c, "report", got)
    BY <1>2 DEF ReadArtifact, got
  <2> QED BY <2>1, <2>2, <2>3, ReadsKeepTypes
<1>3. ASSUME ReadReport(c) PROVE TypeOK'
  <2> DEFINE got == [entry[c] EXCEPT !.report = files[key[c]].report]
  <2>1. op[c] = "load" /\ key[c] \in Keys /\ entry[c] \in Entries
    BY <1>3 DEF ReadReport, Reading, TypeOK
  <2>2. got \in Entries
    BY <1>0, <2>1 DEF Entries
  <2> HIDE DEF got
  <2>3. Return(c, Miss) \/ Return(c, got)
    BY <1>3 DEF ReadReport, got
  <2> QED BY <2>1, <2>2, <2>3, ReadsKeepTypes
<1>4. ASSUME Remove(c) PROVE TypeOK'
  BY <1>4, ValuesAssumption DEF Remove, FileContents, TypeOK
<1>5. ASSUME Rename(c) PROVE TypeOK'
  <2>1. key[c] \in Keys /\ at[c] \in Files /\ entry[c] \in offered[key[c]]
    BY <1>5, ValuesAssumption DEF Rename, TypeOK
  <2>2. Contents(at[c], entry[c]) \in FileContents
    BY <2>1, OfferedEntries DEF Contents, FileContents
  <2>3. Torn \in FileContents
    BY DEF FileContents
  <2>4. PICK text \in FileContents : files' = [files EXCEPT ![key[c]][at[c]] = text]
    BY <1>5, <2>2, <2>3 DEF Rename
  <2>5. files' \in [Keys -> [Files -> FileContents]]
    BY <2>1, <2>4 DEF TypeOK
  <2>6. CASE at[c] = "manifest"
    BY <1>5, <2>1, <2>5, <2>6, StoreReturnKeepsTypes DEF Rename, Completes, TypeOK
  <2>7. CASE at[c] # "manifest"
    <3>1. PICK f \in Files : at' = [at EXCEPT ![c] = f]
      BY <1>5, <2>7 DEF Rename, FileAfter
    <3>2. /\ op' = [op EXCEPT ![c] = "remove"] /\ op[c] = "rename"
          /\ UNCHANGED <<key, entry, answer, offered, succeeded, cutShort, overlapped, mixed>>
      BY <1>5, <2>7 DEF Rename
    <3> QED BY <2>1, <2>5, <3>1, <3>2, ValuesAssumption DEF TypeOK
  <2> QED BY <2>6, <2>7
<1>6. ASSUME EndsEarly(c), UNCHANGED files, op[c] # "idle",
             cutShort' = cutShort \/ cutShort' = cutShort \cup {key[c]}
      PROVE  TypeOK'
  <2>1. key[c] \in Keys
    BY <1>6 DEF TypeOK
  <2>2. /\ StoreReturns(c) /\ succeeded' \subseteq Keys /\ cutShort' \subseteq Keys
        /\ mixed' \subseteq Keys /\ files' \in [Keys -> [Files -> FileContents]]
    BY <1>6, <2>1 DEF EndsEarly, TypeOK
  <2> QED BY <2>2, StoreReturnKeepsTypes
<1>7. ASSUME WriteFails(c) \/ RenameFails(c) \/ Crash(c) PROVE TypeOK'
  BY <1>6, <1>7 DEF WriteFails, RenameFails, Crash
<1> QED BY <1>1, <1>2, <1>3, <1>4, <1>5, <1>7 DEF Step

\* The variables keep their types; a client that stores holds an entry offered
\* under its key (every handler of the model).
THEOREM TypeCorrect == Spec => []TypeOK
<1>1. Init => TypeOK
  BY DEF Init, TypeOK, Files, FileContents
<1>2. TypeOK /\ [Next]_vars => TypeOK'
  <2> SUFFICES ASSUME TypeOK, [Next]_vars PROVE TypeOK'
    OBVIOUS
  <2>1. ASSUME NEW c \in Clients, NEW k \in Keys, Load(c, k) PROVE TypeOK'
    BY <2>1, ValuesAssumption DEF TypeOK, Files, Load, disk
  <2>2. ASSUME NEW c \in Clients, NEW k \in Keys, NEW e \in Offers[k], Store(c, k, e)
        PROVE TypeOK'
    <3>1. /\ op' = [op EXCEPT ![c] = "remove"]
          /\ at' = [at EXCEPT ![c] = "artifact"]
          /\ key' = [key EXCEPT ![c] = k]
          /\ entry' = [entry EXCEPT ![c] = e]
          /\ overlapped' \subseteq overlapped \cup Clients
          /\ UNCHANGED <<answer, files, succeeded, cutShort, mixed>>
      BY <2>2 DEF Store, Meets
    <3>2. /\ offered' \in [Keys -> SUBSET UNION {Offers[l] : l \in Keys}]
          /\ \A l \in Keys :
              /\ offered[l] \subseteq offered'[l] /\ offered'[l] \subseteq Offers[l]
              /\ l = k => e \in offered'[l]
      BY <2>2 DEF Store, TypeOK
    <3>3. e \in Entries
      <4>1. e \in (offered[k] \cup {e}) /\ e = [artifact |-> e.artifact, report |-> e.report]
        BY OffersAssumption
      <4>2. e.artifact \in Parts("artifact") /\ e.report \in Parts("report")
        BY DEF Parts
      <4> QED BY <4>1, <4>2 DEF Entries, FileContents
    <3> QED BY <3>1, <3>2, <3>3, ValuesAssumption DEF TypeOK, Files
  <2>3. CASE UNCHANGED vars
    BY <2>3 DEF TypeOK, vars
  <2> QED BY <2>1, <2>2, <2>3, CallsKeepTypes DEF Next
<1> QED BY <1>1, <1>2, PTL DEF Spec

-----------------------------------------------------------------------------
(* Integrity: what is on disk and what a load has read so far stem from    *)
(* entries offered under the key, each part from an entry of its own.      *)

Mark(k) == IF k \in Optimized THEN "yes" ELSE "no"

DiskInv ==
    \A k \in Keys :
        /\ files[k].artifact = Absent \/ \E e \in offered[k] : files[k].artifact = e.artifact
        /\ files[k].report = Absent \/ \E e \in offered[k] : files[k].report = e.report
        /\ files[k].manifest \in {Absent, Mark(k)}

LoadInv ==
    \A c \in Clients : op[c] = "load" =>
        /\ at[c] = "artifact" =>
              entry[c] = [artifact |-> Absent,
                          report |-> IF key[c] \in Optimized THEN Absent ELSE NoReport]
        /\ at[c] = "report" =>
              /\ key[c] \in Optimized
              /\ \E e \in offered[key[c]] :
                     entry[c] = [artifact |-> e.artifact, report |-> Absent]

IntegrityInv == DiskInv /\ LoadInv

\* A step of one client leaves the calls of the others alone.
OthersUnchanged(c) ==
    \A d \in Clients \ {c} :
        op'[d] = op[d] /\ at'[d] = at[d] /\ key'[d] = key[d] /\ entry'[d] = entry[d]

LEMMA StoreFrame ==
    ASSUME TypeOK, NEW c \in Clients,
           \/ Remove(c) \/ Rename(c) \/ WriteFails(c) \/ RenameFails(c) \/ Crash(c)
           \/ \E k \in Keys : \E e \in Offers[k] : Store(c, k, e)
    PROVE  /\ op'[c] # "load" /\ OthersUnchanged(c)
           /\ \A k \in Keys : offered[k] \subseteq offered'[k]
<1>1. CASE Remove(c)
  BY <1>1 DEF Remove, OthersUnchanged, TypeOK
<1>2. CASE StoreReturns(c)
  BY <1>2 DEF StoreReturns, OthersUnchanged, TypeOK
<1>3. CASE Rename(c) /\ at[c] # "manifest"
  BY <1>3 DEF Rename, OthersUnchanged, TypeOK
<1>4. CASE \E k \in Keys : \E e \in Offers[k] : Store(c, k, e)
  <2>1. PICK k \in Keys : \E e \in Offers[k] : Store(c, k, e)
    BY <1>4
  <2>2. PICK e \in Offers[k] : Store(c, k, e)
    BY <2>1
  <2> QED BY <2>2 DEF Store, OthersUnchanged, TypeOK
<1> QED BY <1>1, <1>2, <1>3, <1>4
       DEF WriteFails, RenameFails, Crash, EndsEarly, Rename, Completes

LEMMA ReturnFrame ==
    ASSUME TypeOK, NEW c \in Clients, NEW got, Return(c, got)
    PROVE  op'[c] = "idle" /\ OthersUnchanged(c)
BY DEF Return, OthersUnchanged, TypeOK

LEMMA ReadNextFrame ==
    ASSUME TypeOK, NEW c \in Clients, NEW f \in Files, NEW got, ReadNext(c, f, got)
    PROVE  /\ OthersUnchanged(c)
           /\ key'[c] = key[c] /\ at'[c] = f /\ entry'[c] = got
BY DEF ReadNext, OthersUnchanged, TypeOK

LEMMA LoadsKeepIntegrity ==
    ASSUME TypeOK, IntegrityInv, NEW c \in Clients,
           \/ ReadManifest(c) \/ ReadArtifact(c) \/ ReadReport(c)
           \/ \E k \in Keys : Load(c, k)
    PROVE  IntegrityInv'
<1>1. UNCHANGED <<files, offered>>
  BY DEF ReadManifest, ReadArtifact, ReadReport, Load, Return, ReadNext, disk
<1>2. DiskInv'
  BY <1>1 DEF IntegrityInv, DiskInv
<1>7. ASSUME NEW r, Return(c, r) PROVE LoadInv'
  BY <1>1, <1>7, ReturnFrame DEF IntegrityInv, LoadInv, OthersUnchanged, TypeOK
<1>3. ASSUME NEW k \in Keys, Load(c, k) PROVE LoadInv'
  BY <1>1, <1>3 DEF IntegrityInv, LoadInv, TypeOK, Load
<1>4. ASSUME ReadManifest(c) PROVE LoadInv'
  <2>1. op[c] = "load" /\ key[c] \in Keys
    BY <1>4 DEF ReadManifest, Reading, TypeOK
  <2>2. files[key[c]].manifest \in {Absent, Mark(key[c])}
    BY <2>1 DEF IntegrityInv, DiskInv
  <2>3. CASE Return(c, Miss)
    BY <1>1, <1>7, <2>3
  <2>4. CASE ReadNext(c, "artifact",
                 [artifact |-> Absent,
                  report |-> IF files[key[c]].manifest = "yes" THEN Absent ELSE NoReport])
             /\ files[key[c]].manifest \in {"yes", "no"}
    <3> DEFINE got == [artifact |-> Absent,
                       report |-> IF key[c] \in Optimized THEN Absent ELSE NoReport]
    <3>1. ReadNext(c, "artifact", got)
      BY <2>2, <2>4, ValuesAssumption DEF Mark
    <3>2. /\ OthersUnchanged(c) /\ key'[c] = key[c]
          /\ at'[c] = "artifact" /\ entry'[c] = got
      BY <3>1, ReadNextFrame DEF Files
    <3> QED BY <1>1, <2>1, <3>2 DEF IntegrityInv, LoadInv, OthersUnchanged, TypeOK
  <2> QED BY <1>4, <2>3, <2>4 DEF ReadManifest
<1>5. ASSUME ReadArtifact(c) PROVE LoadInv'
  <2> DEFINE stored == files[key[c]].artifact
             got    == [entry[c] EXCEPT !.artifact = stored]
  <2>1. op[c] = "load" /\ at[c] = "artifact" /\ key[c] \in Keys
    BY <1>5 DEF ReadArtifact, Reading, TypeOK
  <2>2. CASE \E r : Return(c, r)
    BY <1>7, <2>2
  <2>3. CASE ReadNext(c, "report", got) /\ stored # Absent /\ got.report # NoReport
    <3>1. entry[c] = [artifact |-> Absent,
                      report |-> IF key[c] \in Optimized THEN Absent ELSE NoReport]
      BY <2>1 DEF IntegrityInv, LoadInv
    <3>2. got = [artifact |-> stored,
                 report |-> IF key[c] \in Optimized THEN Absent ELSE NoReport]
      BY <3>1
    <3>3. key[c] \in Optimized /\ got = [artifact |-> stored, report |-> Absent]
      BY <2>3, <3>2
    <3>4. PICK e \in offered[key[c]] : stored = e.artifact
      BY <2>1, <2>3 DEF IntegrityInv, DiskInv
    <3> HIDE DEF got
    <3>5. /\ OthersUnchanged(c) /\ key'[c] = key[c]
          /\ at'[c] = "report" /\ entry'[c] = got
      BY <2>3, ReadNextFrame DEF Files
    <3>6. offered' = offered
      BY <1>1
    <3>7. entry'[c] = [artifact |-> e.artifact, report |-> Absent]
      BY <3>3, <3>4, <3>5
    <3>8. \A d \in Clients \ {c} : op'[d] = op[d] /\ at'[d] = at[d]
                                   /\ key'[d] = key[d] /\ entry'[d] = entry[d]
      BY <3>5 DEF OthersUnchanged
    <3> QED
      BY <2>1, <3>3, <3>5, <3>6, <3>7, <3>8 DEF IntegrityInv, LoadInv
  <2> QED BY <1>5, <2>2, <2>3 DEF ReadArtifact
<1>6. ASSUME ReadReport(c) PROVE LoadInv'
  <2>1. PICK r : Return(c, r)
    BY <1>6 DEF ReadReport
  <2> QED BY <1>7, <2>1
<1> QED BY <1>2, <1>3, <1>4, <1>5, <1>6 DEF IntegrityInv

LEMMA StoresKeepIntegrity ==
    ASSUME ~ SilentLoss, TypeOK, IntegrityInv, NEW c \in Clients,
           \/ Remove(c) \/ Rename(c) \/ WriteFails(c) \/ RenameFails(c) \/ Crash(c)
           \/ \E k \in Keys : \E e \in Offers[k] : Store(c, k, e)
    PROVE  IntegrityInv'
<1>1. \A k \in Keys : offered[k] \subseteq offered'[k]
  BY StoreFrame
<1>2. op'[c] # "load" /\ OthersUnchanged(c)
  BY StoreFrame
<1>3. LoadInv'
  <2> SUFFICES ASSUME NEW d \in Clients, (op[d] = "load")'
               PROVE  (/\ at[d] = "artifact" =>
                            entry[d] = [artifact |-> Absent,
                                report |-> IF key[d] \in Optimized THEN Absent ELSE NoReport]
                       /\ at[d] = "report" =>
                            /\ key[d] \in Optimized
                            /\ \E e \in offered[key[d]] :
                                   entry[d] = [artifact |-> e.artifact, report |-> Absent])'
    BY DEF LoadInv
  <2>1. d # c /\ key[d] \in Keys
    BY <1>2 DEF TypeOK, OthersUnchanged
  <2> QED BY <1>1, <1>2, <2>1 DEF IntegrityInv, LoadInv, OthersUnchanged
<1>4. ASSUME UNCHANGED files PROVE DiskInv'
  BY <1>1, <1>4 DEF IntegrityInv, DiskInv, Mark
<1>5. ASSUME Remove(c) PROVE DiskInv'
  BY <1>1, <1>5 DEF Remove, IntegrityInv, DiskInv, Mark, TypeOK, Files
<1>6. ASSUME Rename(c) PROVE DiskInv'
  <2> DEFINE text == Contents(at[c], entry[c])
  <2>1. key[c] \in Keys /\ entry[c] \in offered[key[c]] /\ at[c] \in Files
    BY <1>6, ValuesAssumption DEF Rename, TypeOK
  <2>2. files' = [files EXCEPT ![key[c]][at[c]] = text]
    BY <1>6 DEF Rename
  <2>3. /\ at[c] = "artifact" => text = entry[c].artifact
        /\ at[c] = "report" => text = entry[c].report
        /\ at[c] = "manifest" => text = Mark(key[c])
    BY <2>1, OfferedEntries DEF Contents, Mark
  <2>4. /\ \A k \in Keys \ {key[c]} : files'[k] = files[k]
        /\ \A f \in Files \ {at[c]} : files'[key[c]][f] = files[key[c]][f]
        /\ files'[key[c]][at[c]] = text
    BY <2>1, <2>2 DEF TypeOK
  <2> HIDE DEF text
  <2> QED BY <1>1, <2>1, <2>3, <2>4 DEF IntegrityInv, DiskInv, Files
<1>7. WriteFails(c) \/ RenameFails(c) \/ Crash(c)
          \/ (\E k \in Keys : \E e \in Offers[k] : Store(c, k, e)) => UNCHANGED files
  BY DEF WriteFails, RenameFails, Crash, Store
<1> QED BY <1>3, <1>4, <1>5, <1>6, <1>7 DEF IntegrityInv

LEMMA IntegrityInvHolds ==
    ASSUME ~ SilentLoss PROVE Spec => []IntegrityInv
<1>1. Init => IntegrityInv
  BY DEF Init, IntegrityInv, DiskInv, LoadInv, Files
<1>2. TypeOK /\ IntegrityInv /\ [Next]_vars => IntegrityInv'
  <2>1. ASSUME IntegrityInv, UNCHANGED vars PROVE IntegrityInv'
    BY <2>1 DEF vars, IntegrityInv, DiskInv, LoadInv, Mark
  <2> QED BY <2>1, LoadsKeepIntegrity, StoresKeepIntegrity DEF Next, Step
<1> QED BY <1>1, <1>2, TypeCorrect, PTL DEF Spec

LEMMA MixtureOf ==
    ASSUME NEW k, NEW e \in offered[k], NEW f \in offered[k]
    PROVE  [artifact |-> e.artifact, report |-> f.report] \in Mixtures(k)
BY DEF Mixtures

\* What a load returns at its last step.
LEMMA ReturnsAMixture ==
    ASSUME TypeOK, IntegrityInv, NEW c \in Clients,
           ReadManifest(c) \/ ReadArtifact(c) \/ ReadReport(c)
    PROVE  \/ UNCHANGED answer
           \/ \E a \in Mixtures(key[c]) \cup {Miss} : Return(c, a)
<1>1. op[c] = "load" /\ key[c] \in Keys
  BY DEF ReadManifest, ReadArtifact, ReadReport, Reading, TypeOK
<1>2. ASSUME ReadManifest(c)
      PROVE UNCHANGED answer \/ Return(c, Miss)
  BY <1>2 DEF ReadManifest, ReadNext
<1>3. ASSUME ReadArtifact(c)
      PROVE UNCHANGED answer \/ \E a \in Mixtures(key[c]) \cup {Miss} : Return(c, a)
  <2> DEFINE stored == files[key[c]].artifact
             got    == [entry[c] EXCEPT !.artifact = stored]
  <2>1. got = [artifact |-> stored,
               report |-> IF key[c] \in Optimized THEN Absent ELSE NoReport]
    <3>1. entry[c] = [artifact |-> Absent,
                      report |-> IF key[c] \in Optimized THEN Absent ELSE NoReport]
      BY <1>3 DEF ReadArtifact, Reading, IntegrityInv, LoadInv
    <3> QED BY <3>1
  <2>2. stored = Absent \/ \E e \in offered[key[c]] : stored = e.artifact
    BY <1>1 DEF IntegrityInv, DiskInv
  <2>3. ASSUME stored # Absent, got.report = NoReport PROVE got \in Mixtures(key[c])
    <3>1. got = [artifact |-> stored, report |-> NoReport] /\ key[c] \notin Optimized
      BY <2>1, <2>3, ValuesAssumption
    <3>2. PICK e \in offered[key[c]] : stored = e.artifact
      BY <2>2, <2>3
    <3>3. e.report = NoReport
      BY <1>1, <3>1, OfferedEntries
    <3> HIDE DEF got, stored
    <3> QED BY <3>1, <3>2, <3>3 DEF Mixtures
  <2> QED BY <1>3, <2>3 DEF ReadArtifact, ReadNext
<1>4. ASSUME ReadReport(c)
      PROVE \E a \in Mixtures(key[c]) \cup {Miss} : Return(c, a)
  <2> DEFINE stored == files[key[c]].report
             got    == [entry[c] EXCEPT !.report = stored]
  <2>1. PICK e \in offered[key[c]] :
            key[c] \in Optimized /\ entry[c] = [artifact |-> e.artifact, report |-> Absent]
    BY <1>4 DEF ReadReport, Reading, IntegrityInv, LoadInv
  <2>2. stored = Absent \/ \E f \in offered[key[c]] : stored = f.report
    BY <1>1 DEF IntegrityInv, DiskInv
  <2>3. ASSUME stored # Absent PROVE got \in Mixtures(key[c])
    <3>1. PICK f \in offered[key[c]] : stored = f.report
      BY <2>2, <2>3
    <3>2. got = [artifact |-> e.artifact, report |-> f.report]
      BY <2>1, <3>1
    <3> HIDE DEF got, stored
    <3> QED BY <3>2, MixtureOf
  <2> QED BY <1>4, <2>3 DEF ReadReport
<1> QED BY <1>2, <1>3, <1>4

\* When writes that are not reported as failed are complete, a load returns
\* nothing but an artifact and a report that were stored under its key, for any
\* number of processes (BuildCache::load, BuildCache::store).
THEOREM HitsHaveOfferedParts ==
    ASSUME ~ SilentLoss PROVE Spec => HitPartsWereOffered
<1>1. ASSUME TypeOK, IntegrityInv, [Next]_vars, NEW c \in Clients,
             answer'[c] \notin {answer[c], Miss}
      PROVE  answer'[c] \in Mixtures(key[c])
  <2>1. ASSUME NEW d \in Clients, NEW k \in Keys, Load(d, k) PROVE FALSE
    BY <1>1, <2>1 DEF Load
  <2>2. ASSUME NEW d \in Clients, NEW k \in Keys, NEW e \in Offers[k], Store(d, k, e)
        PROVE FALSE
    BY <1>1, <2>2 DEF Store
  <2>3. ASSUME NEW d \in Clients,
               \/ Remove(d) \/ Rename(d) \/ WriteFails(d) \/ RenameFails(d) \/ Crash(d)
        PROVE FALSE
    BY <1>1, <2>3 DEF Remove, Rename, Completes, WriteFails, RenameFails, Crash,
                      EndsEarly, StoreReturns
  <2>4. ASSUME UNCHANGED vars PROVE FALSE
    BY <1>1, <2>4 DEF vars
  <2>5. ASSUME NEW d \in Clients, ReadManifest(d) \/ ReadArtifact(d) \/ ReadReport(d)
        PROVE answer'[c] \in Mixtures(key[c])
    <3>1. PICK a \in Mixtures(key[d]) \cup {Miss} : Return(d, a)
      BY <1>1, <2>5, ReturnsAMixture
    <3> QED BY <1>1, <3>1 DEF Return
  <2> QED BY <1>1, <2>1, <2>2, <2>3, <2>4, <2>5 DEF Next, Step
<1>2. TypeOK /\ IntegrityInv /\ [Next]_vars =>
        [\A c \in Clients :
            answer'[c] \notin {answer[c], Miss} => answer'[c] \in Mixtures(key[c])]_vars
  BY <1>1
<1> QED BY <1>2, TypeCorrect, IntegrityInvHolds, PTL DEF Spec, HitPartsWereOffered

HitIsAnEntry ==
    [][\A c \in Clients :
          answer'[c] \notin {answer[c], Miss} => answer'[c] \in offered[key[c]]]_vars

\* Where the artifact is the same in all entries of a key and only reports
\* differ, a hit is an entry that was stored (a compiler whose output depends
\* on nothing but what BuildCache::key covers).
COROLLARY HitsAreEntries ==
    ASSUME ~ SilentLoss,
           \A k \in Keys : \A e, f \in Offers[k] : e.artifact = f.artifact
    PROVE  Spec => HitIsAnEntry
<1>1. ASSUME TypeOK, NEW k \in Keys, NEW a \in Mixtures(k) PROVE a \in offered[k]
  <2>1. PICK e \in offered[k], f \in offered[k] :
            a = [artifact |-> e.artifact, report |-> f.report]
    BY DEF Mixtures
  <2>2. e \in Offers[k] /\ f \in Offers[k]
    BY <1>1 DEF TypeOK
  <2>3. f = [artifact |-> f.artifact, report |-> f.report]
    BY <1>1, OfferedEntries
  <2> QED BY <2>1, <2>2, <2>3
<1>2. TypeOK => \A k \in Keys : Mixtures(k) \subseteq offered[k]
  BY <1>1
<1>3. ASSUME TypeOK, [Next]_vars, NEW c \in Clients,
             answer'[c] \notin {answer[c], Miss}, answer'[c] \in Mixtures(key[c])
      PROVE  key[c] \in Keys
  <2>1. ASSUME NEW d \in Clients, NEW k \in Keys, Load(d, k) PROVE FALSE
    BY <1>3, <2>1 DEF Load
  <2>2. ASSUME NEW d \in Clients, UNCHANGED answer PROVE FALSE
    BY <1>3, <2>2
  <2>3. ASSUME NEW d \in Clients, ReadManifest(d) \/ ReadArtifact(d) \/ ReadReport(d)
        PROVE  key[c] \in Keys
    <3>1. op[d] = "load" /\ key[d] \in Keys
      BY <1>3, <2>3 DEF ReadManifest, ReadArtifact, ReadReport, Reading, TypeOK
    <3>2. \E got : Return(d, got) \/ \E f \in Files : ReadNext(d, f, got)
      BY <2>3 DEF ReadManifest, ReadArtifact, ReadReport, Files
    <3>3. c = d
      BY <1>3, <3>2 DEF Return, ReadNext, TypeOK
    <3> QED BY <3>1, <3>3
  <2> QED
    BY <1>3, <2>1, <2>2, <2>3
    DEF Next, Step, Store, Remove, Rename, Completes, WriteFails, RenameFails, Crash,
        EndsEarly, StoreReturns, vars
<1> DEFINE Parted == \A c \in Clients :
               answer'[c] \notin {answer[c], Miss} => answer'[c] \in Mixtures(key[c])
           Whole == \A c \in Clients :
               answer'[c] \notin {answer[c], Miss} => answer'[c] \in offered[key[c]]
<1>4. TypeOK /\ [Next]_vars /\ [Parted]_vars => [Whole]_vars
  BY <1>2, <1>3
<1>5. Spec => [][Parted]_vars
  BY HitsHaveOfferedParts DEF HitPartsWereOffered
<1> HIDE DEF Parted, Whole
<1>6. Spec => [][Whole]_vars
  BY <1>4, <1>5, TypeCorrect, PTL DEF Spec
<1> QED BY <1>6 DEF Whole, HitIsAnEntry

-----------------------------------------------------------------------------
(* Publication.  A file of a key may be missing although a manifest, a     *)
(* store that reported success, or a store that has already written the    *)
(* file counts on it; but then another store is about to put it back, or   *)
(* was cut short before it could.  The last premise is what makes the      *)
(* invariant inductive: when the manifest is renamed into place, the store *)
(* that does it has written every other file.                              *)

Announced(k) ==
    {"artifact", "manifest"} \cup (IF k \in Optimized THEN {"report"} ELSE {})

Window(k, f) == \E c \in Clients : op[c] = "rename" /\ key[c] = k /\ at[c] = f

\* Client c is storing under k and has written f.
HasWritten(c, k, f) ==
    /\ op[c] \in {"remove", "rename"} /\ key[c] = k
    /\ \/ at[c] = "manifest" /\ f # "manifest"
       \/ at[c] = "report" /\ f = "artifact"

CountedOn(k, f) ==
    \/ k \in succeeded
    \/ f # "manifest" /\ HasManifest(k)
    \/ \E c \in Clients : HasWritten(c, k, f)

Accounted(k, f) ==
    CountedOn(k, f) => files[k][f] # Absent \/ k \in cutShort \/ Window(k, f)

PublicationInv == \A k \in Keys : \A f \in Announced(k) : Accounted(k, f)

\* Steps that touch no file and neither enter nor leave the window.
LEMMA QuietSteps ==
    ASSUME TypeOK, PublicationInv, NEW c \in Clients,
           op[c] # "rename", op'[c] # "rename", OthersUnchanged(c),
           \A k \in Keys : \A f \in Files : ~ HasWritten(c, k, f)',
           UNCHANGED <<files, succeeded, cutShort>>
    PROVE  PublicationInv'
<1> SUFFICES ASSUME NEW k \in Keys, NEW f \in Announced(k), CountedOn(k, f)'
             PROVE  (files[k][f] # Absent \/ k \in cutShort \/ Window(k, f))'
  BY DEF PublicationInv, Accounted, Announced
<1>1. f \in Files
  BY DEF Announced, Files
<1>2. CountedOn(k, f)
  <2>1. \A d \in Clients : HasWritten(d, k, f)' => HasWritten(d, k, f)
    BY <1>1 DEF HasWritten, OthersUnchanged
  <2>2. HasManifest(k)' => HasManifest(k)
    BY DEF HasManifest
  <2> QED BY <2>1, <2>2 DEF CountedOn
<1>3. Window(k, f) => Window(k, f)'
  BY DEF Window, OthersUnchanged
<1> QED BY <1>2, <1>3 DEF PublicationInv, Accounted

LEMMA RemoveKeepsPublication ==
    ASSUME TypeOK, PublicationInv, NEW c \in Clients, Remove(c)
    PROVE  PublicationInv'
<1>1. key[c] \in Keys /\ at[c] \in Files
  BY ValuesAssumption DEF Remove, TypeOK
<1>2. /\ op[c] = "remove" /\ op'[c] = "rename"
      /\ \A d \in Clients \ {c} : op'[d] = op[d]
      /\ UNCHANGED <<at, key, succeeded, cutShort>>
  BY DEF Remove, TypeOK
<1>3. /\ \A k \in Keys \ {key[c]} : files'[k] = files[k]
      /\ \A f \in Files \ {at[c]} : files'[key[c]][f] = files[key[c]][f]
      /\ files'[key[c]][at[c]] = Absent
  BY <1>1 DEF Remove, TypeOK
<1> SUFFICES ASSUME NEW k \in Keys, NEW f \in Announced(k), CountedOn(k, f)'
             PROVE  (files[k][f] # Absent \/ k \in cutShort \/ Window(k, f))'
  BY DEF PublicationInv, Accounted, Announced
<1>4. f \in Files
  BY DEF Announced, Files
<1>5. CountedOn(k, f)
  <2>1. \A d \in Clients : HasWritten(d, k, f)' => HasWritten(d, k, f)
    BY <1>2 DEF HasWritten
  <2>2. HasManifest(k)' => HasManifest(k)
    BY <1>1, <1>3, ValuesAssumption DEF HasManifest, Files
  <2> QED BY <1>2, <2>1, <2>2 DEF CountedOn
<1>6. Window(k, f) => Window(k, f)'
  BY <1>2 DEF Window
<1>7. CASE k = key[c] /\ f = at[c]
  BY <1>2, <1>7 DEF Window
<1>8. CASE k # key[c] \/ f # at[c]
  BY <1>2, <1>3, <1>4, <1>5, <1>6, <1>8 DEF PublicationInv, Accounted
<1> QED BY <1>7, <1>8

LEMMA RenameKeepsPublication ==
    ASSUME ~ SilentLoss, TypeOK, PublicationInv, NEW c \in Clients, Rename(c)
    PROVE  PublicationInv'
<1>1. key[c] \in Keys /\ at[c] \in Files /\ entry[c] \in offered[key[c]]
  BY ValuesAssumption DEF Rename, TypeOK
<1>2. Contents(at[c], entry[c]) # Absent
  BY <1>1, OfferedEntries, ValuesAssumption DEF Contents, Files
<1>3. files' = [files EXCEPT ![key[c]][at[c]] = Contents(at[c], entry[c])]
  BY DEF Rename
<1>4. /\ \A k \in Keys \ {key[c]} : files'[k] = files[k]
      /\ \A f \in Files \ {at[c]} : files'[key[c]][f] = files[key[c]][f]
      /\ files'[key[c]][at[c]] # Absent
  BY <1>1, <1>2, <1>3 DEF TypeOK
<1>5. op[c] = "rename" /\ OthersUnchanged(c) /\ cutShort' = cutShort
  BY StoreFrame DEF Rename
<1>6. /\ at[c] = "manifest" => op'[c] = "idle" /\ succeeded' = succeeded \cup {key[c]}
      /\ at[c] # "manifest" =>
            /\ op'[c] = "remove" /\ key'[c] = key[c] /\ succeeded' = succeeded
            /\ at'[c] = FileAfter(at[c], entry[c])
  BY DEF Rename, Completes, StoreReturns, TypeOK
<1>7. entry[c].report = NoReport <=> key[c] \notin Optimized
  BY <1>1, OfferedEntries
<1> SUFFICES ASSUME NEW k \in Keys, NEW f \in Announced(k), CountedOn(k, f)'
             PROVE  (files[k][f] # Absent \/ k \in cutShort \/ Window(k, f))'
  BY DEF PublicationInv, Accounted, Announced
<1>8. f \in Files
  BY DEF Announced, Files
<1>9. CASE k = key[c] /\ f = at[c]
  BY <1>4, <1>9
<1>10. CASE k # key[c] \/ f # at[c]
  <2>1. Window(k, f) => Window(k, f)'
    BY <1>5, <1>10 DEF Window, OthersUnchanged
  <2>2. HasWritten(c, k, f)' => HasWritten(c, k, f)
    <3>1. CASE at[c] = "manifest"
      BY <1>6, <3>1 DEF HasWritten
    <3>2. CASE at[c] = "report"
      BY <1>5, <1>6, <1>8, <1>10, <3>2 DEF HasWritten, FileAfter, Files
    <3>3. CASE at[c] = "artifact"
      <4>1. SUFFICES ASSUME HasWritten(c, k, f)' PROVE FALSE
        OBVIOUS
      <4>2. k = key[c] /\ f # "artifact"
        BY <1>6, <1>10, <3>3, <4>1 DEF HasWritten
      <4>3. at'[c] = IF k \in Optimized THEN "report" ELSE "manifest"
        BY <1>6, <1>7, <3>3, <4>2 DEF FileAfter
      <4> QED BY <4>1, <4>2, <4>3 DEF HasWritten, Announced
    <3> QED BY <1>1, <3>1, <3>2, <3>3 DEF Files
  <2>3. \A d \in Clients : HasWritten(d, k, f)' => HasWritten(d, k, f)
    BY <1>5, <2>2 DEF HasWritten, OthersUnchanged
  <2>4. k \in succeeded' => k \in succeeded \/ HasWritten(c, k, f)
    BY <1>5, <1>6, <1>10 DEF HasWritten
  <2>5. f # "manifest" /\ HasManifest(k)' => HasManifest(k) \/ HasWritten(c, k, f)
    BY <1>4, <1>5, <1>10 DEF HasManifest, HasWritten, Files
  <2>6. CountedOn(k, f)
    BY <2>3, <2>4, <2>5 DEF CountedOn
  <2> QED BY <1>4, <1>5, <1>8, <1>10, <2>1, <2>6 DEF PublicationInv, Accounted
<1> QED BY <1>9, <1>10

\* A call that ends in the window leaves its mark.
LEMMA CutShortKeepsPublication ==
    ASSUME TypeOK, PublicationInv, NEW c \in Clients,
           op[c] = "rename", StoreReturns(c), cutShort' = cutShort \cup {key[c]},
           UNCHANGED <<files, succeeded>>
    PROVE  PublicationInv'
<1>1. op'[c] = "idle" /\ OthersUnchanged(c)
  BY DEF StoreReturns, OthersUnchanged, TypeOK
<1> SUFFICES ASSUME NEW k \in Keys, k # key[c], NEW f \in Announced(k), CountedOn(k, f)'
             PROVE  (files[k][f] # Absent \/ k \in cutShort \/ Window(k, f))'
  BY DEF PublicationInv, Accounted, Announced
<1>2. CountedOn(k, f)
  <2>1. \A d \in Clients : HasWritten(d, k, f)' => HasWritten(d, k, f)
    BY <1>1 DEF HasWritten, OthersUnchanged
  <2> QED BY <2>1 DEF CountedOn, HasManifest
<1>3. Window(k, f) => Window(k, f)'
  BY <1>1 DEF Window, OthersUnchanged
<1> QED BY <1>2, <1>3 DEF PublicationInv, Accounted

LEMMA PublicationInvHolds ==
    ASSUME ~ SilentLoss PROVE Spec => []PublicationInv
<1>1. Init => PublicationInv
  BY ValuesAssumption
     DEF Init, PublicationInv, Accounted, CountedOn, HasManifest, HasWritten, Files
<1>2. ASSUME TypeOK, PublicationInv, [Next]_vars PROVE PublicationInv'
  <2>1. ASSUME NEW c \in Clients, NEW k \in Keys, Load(c, k) PROVE PublicationInv'
    <3>1. /\ op[c] = "idle" /\ op'[c] = "load" /\ OthersUnchanged(c)
          /\ UNCHANGED <<files, succeeded, cutShort>>
      BY <1>2, <2>1 DEF Load, OthersUnchanged, TypeOK, disk
    <3> QED BY <1>2, <3>1, QuietSteps DEF HasWritten
  <2>2. ASSUME NEW c \in Clients, NEW k \in Keys, NEW e \in Offers[k], Store(c, k, e)
        PROVE PublicationInv'
    <3>1. /\ op[c] = "idle" /\ op'[c] = "remove" /\ at'[c] = "artifact"
          /\ OthersUnchanged(c) /\ UNCHANGED <<files, succeeded, cutShort>>
      BY <1>2, <2>2 DEF Store, OthersUnchanged, TypeOK
    <3> QED BY <1>2, <3>1, QuietSteps DEF HasWritten
  <2>3. ASSUME NEW c \in Clients, ReadManifest(c) \/ ReadArtifact(c) \/ ReadReport(c)
        PROVE PublicationInv'
    <3>1. op[c] = "load"
      BY <2>3 DEF ReadManifest, ReadArtifact, ReadReport, Reading
    <3>2. \E got : Return(c, got) \/ \E f \in Files : ReadNext(c, f, got)
      BY <2>3 DEF ReadManifest, ReadArtifact, ReadReport, Files
    <3>3. /\ op'[c] \in {"idle", "load"} /\ OthersUnchanged(c)
          /\ UNCHANGED <<files, succeeded, cutShort>>
      BY <1>2, <3>1, <3>2 DEF Return, ReadNext, OthersUnchanged, TypeOK, disk
    <3> QED BY <1>2, <3>1, <3>3, QuietSteps DEF HasWritten
  <2>4. ASSUME NEW c \in Clients, StoreReturns(c), op[c] # "rename",
               UNCHANGED <<files, succeeded, cutShort>>
        PROVE PublicationInv'
    <3>1. op'[c] = "idle" /\ OthersUnchanged(c)
      BY <1>2, <2>4 DEF StoreReturns, OthersUnchanged, TypeOK
    <3> QED BY <1>2, <2>4, <3>1, QuietSteps DEF HasWritten
  <2>5. ASSUME NEW c \in Clients, WriteFails(c) PROVE PublicationInv'
    BY <2>4, <2>5 DEF WriteFails, EndsEarly
  <2>6. ASSUME NEW c \in Clients, Crash(c) PROVE PublicationInv'
    BY <1>2, <2>4, <2>6, CutShortKeepsPublication DEF Crash, EndsEarly
  <2>7. ASSUME NEW c \in Clients, RenameFails(c) PROVE PublicationInv'
    BY <1>2, <2>7, CutShortKeepsPublication DEF RenameFails, EndsEarly
  <2>8. CASE UNCHANGED vars
    BY <1>2, <2>8 DEF vars, PublicationInv, Accounted, CountedOn, HasManifest,
                      HasWritten, Window
  <2> QED
    BY <1>2, <2>1, <2>2, <2>3, <2>5, <2>6, <2>7, <2>8,
       RemoveKeepsPublication, RenameKeepsPublication DEF Next, Step
<1> QED BY <1>1, <1>2, TypeCorrect, PTL DEF Spec

LEMMA AccountedFor ==
    ASSUME IntegrityInv, PublicationInv, NEW k \in Keys, Undisturbed(k)
    PROVE  /\ HasManifest(k) => IsLoadable(k)
           /\ k \in succeeded => IsLoadable(k)
<1>1. \A f : ~ Window(k, f)
  BY DEF Undisturbed, Window
<1>2. \A f \in Announced(k) : CountedOn(k, f) => files[k][f] # Absent
  BY <1>1 DEF PublicationInv, Accounted, Undisturbed
<1>3. files[k].manifest # Absent => HasManifest(k)
  BY DEF IntegrityInv, DiskInv, Mark, HasManifest
<1>4. k \in succeeded => HasManifest(k)
  BY <1>2, <1>3 DEF Announced, CountedOn
<1>5. HasManifest(k) => IsLoadable(k)
  BY <1>2 DEF Announced, CountedOn, IsLoadable
<1> QED BY <1>4, <1>5

\* A manifest on disk vouches for the files it announces, whatever overlaps with
\* it; only a store that died or failed between the removal of a file and its
\* replacement can spoil an entry (BuildCache::store, writeAtomically).
THEOREM PublicationIsSound ==
    ASSUME ~ SilentLoss PROVE Spec => []ManifestVouches
<1>1. TypeOK /\ IntegrityInv /\ PublicationInv => ManifestVouches
  BY AccountedFor DEF ManifestVouches, TypeOK
<1> QED BY <1>1, TypeCorrect, IntegrityInvHolds, PublicationInvHolds, PTL

\* What a store reported as stored stays loadable through any number of later
\* stores of the key that overlap or give up early (BuildCache::store).
THEOREM StoresEndure ==
    ASSUME ~ SilentLoss PROVE Spec => []StoresAreDurable
<1>1. TypeOK /\ IntegrityInv /\ PublicationInv => StoresAreDurable
  BY AccountedFor DEF StoresAreDurable, TypeOK
<1> QED BY <1>1, TypeCorrect, IntegrityInvHolds, PublicationInvHolds, PTL

-----------------------------------------------------------------------------
(* Whole entries.  A store that has met no other of its key is the only    *)
(* one, and what it has written is still there: when it renames the        *)
(* manifest into place, all files are of its entry.                        *)

LoneInv ==
    \A c \in Clients \ overlapped : \A k \in Keys : IsStoring(c, k) =>
        /\ \A d \in Clients : IsStoring(d, k) => d = c
        /\ at[c] # "artifact" => files[k].artifact = entry[c].artifact
        /\ at[c] = "manifest" /\ k \in Optimized => files[k].report = entry[c].report

WholenessInv == LoneInv /\ EntriesAreWhole

\* A store of c is in the middle of its files.
IsHalfway(c) == op[c] = "rename" \/ (op[c] = "remove" /\ at[c] # "artifact")

\* The calls of the others, and what they met, are as before.
LEMMA OthersStoreOn ==
    ASSUME NEW c \in Clients, OthersUnchanged(c)
    PROVE  \A d \in Clients \ {c} : \A k \in Keys :
               /\ IsStoring(d, k)' <=> IsStoring(d, k)
               /\ at'[d] = at[d] /\ entry'[d] = entry[d] /\ op'[d] = op[d]
BY DEF OthersUnchanged, IsStoring

\* A call ends, or goes on reading: a store of it may have been halfway only
\* if its key is taken for mixed.
LEMMA EndsKeepWholeness ==
    ASSUME TypeOK, WholenessInv, NEW c \in Clients, OthersUnchanged(c),
           op'[c] \notin {"remove", "rename"}, UNCHANGED <<files, offered>>,
           overlapped \subseteq overlapped' \cup {c},
           mixed \subseteq mixed', IsHalfway(c) => key[c] \in mixed'
    PROVE  WholenessInv'
<1>1. \A k \in Keys : ~ IsStoring(c, k)'
  BY DEF IsStoring
<1>2. \A d \in Clients \ {c} : \A k \in Keys :
          /\ IsStoring(d, k)' <=> IsStoring(d, k)
          /\ at'[d] = at[d] /\ entry'[d] = entry[d] /\ op'[d] = op[d]
  BY OthersStoreOn
<1>3. LoneInv'
  BY <1>1, <1>2 DEF WholenessInv, LoneInv
<1>4. ASSUME NEW k \in Keys \ mixed', IsChanging(k) PROVE IsChanging(k)'
  <2>1. PICK d \in Clients : IsStoring(d, k) /\ (op[d] = "remove" => at[d] # "artifact")
    BY <1>4 DEF IsChanging
  <2>2. d # c
    BY <1>4, <2>1 DEF IsHalfway, IsStoring
  <2> QED BY <1>2, <2>1, <2>2 DEF IsChanging
<1>5. EntriesAreWhole'
  <2> SUFFICES ASSUME NEW k \in Keys \ mixed', HasManifest(k)', ~ IsChanging(k)'
               PROVE  (\E e \in offered[k] : HoldsEntry(k, e))'
    BY DEF EntriesAreWhole
  <2>1. HasManifest(k) /\ k \in Keys \ mixed
    BY DEF HasManifest
  <2>2. \E e \in offered[k] : HoldsEntry(k, e)
    BY <1>4, <2>1 DEF WholenessInv, EntriesAreWhole
  <2> QED BY <2>2 DEF HoldsEntry
<1> QED BY <1>3, <1>5 DEF WholenessInv

LEMMA StoreKeepsWholeness ==
    ASSUME TypeOK, WholenessInv, NEW c \in Clients, NEW k \in Keys,
           NEW e \in Offers[k], Store(c, k, e)
    PROVE  WholenessInv'
<1>1. /\ op[c] = "idle" /\ op'[c] = "remove" /\ at'[c] = "artifact" /\ key'[c] = k
      /\ OthersUnchanged(c) /\ UNCHANGED <<files, mixed>>
      /\ \A l \in Keys : offered[l] \subseteq offered'[l]
  BY DEF Store, OthersUnchanged, TypeOK
<1>2. \A d \in Clients \ {c} : \A l \in Keys :
          /\ IsStoring(d, l)' <=> IsStoring(d, l)
          /\ at'[d] = at[d] /\ entry'[d] = entry[d] /\ op'[d] = op[d]
  BY <1>1, OthersStoreOn
<1>3. \A l \in Keys : ~ IsStoring(c, l) /\ (IsStoring(c, l)' <=> l = k)
  BY <1>1 DEF IsStoring
<1>4. /\ overlapped \subseteq overlapped'
      /\ \A d \in Clients : IsStoring(d, k) => d \in overlapped' /\ c \in overlapped'
  BY DEF Store, Meets
<1>5. LoneInv'
  <2> SUFFICES ASSUME NEW d \in Clients \ overlapped', NEW l \in Keys, IsStoring(d, l)'
               PROVE  (/\ \A x \in Clients : IsStoring(x, l) => x = d
                       /\ at[d] # "artifact" => files[l].artifact = entry[d].artifact
                       /\ at[d] = "manifest" /\ l \in Optimized =>
                              files[l].report = entry[d].report)'
    BY DEF LoneInv
  <2>1. CASE d = c
    BY <1>1, <1>2, <1>3, <1>4, <2>1
  <2>2. CASE d # c
    <3>1. IsStoring(d, l) /\ d \notin overlapped /\ l # k
      BY <1>2, <1>4, <2>2
    <3> QED BY <1>1, <1>2, <1>3, <2>2, <3>1 DEF WholenessInv, LoneInv
  <2> QED BY <2>1, <2>2
<1>6. \A l \in Keys : IsChanging(l)' <=> IsChanging(l)
  BY <1>1, <1>2, <1>3 DEF IsChanging
<1>7. EntriesAreWhole'
  <2> SUFFICES ASSUME NEW l \in Keys \ mixed', HasManifest(l)', ~ IsChanging(l)'
               PROVE  (\E x \in offered[l] : HoldsEntry(l, x))'
    BY DEF EntriesAreWhole
  <2>1. \E x \in offered[l] : HoldsEntry(l, x)
    BY <1>1, <1>6 DEF WholenessInv, EntriesAreWhole, HasManifest
  <2> QED BY <1>1, <2>1 DEF HoldsEntry
<1> QED BY <1>5, <1>7 DEF WholenessInv

\* A store changes one file and is halfway after it.
LEMMA ChangesKeepWholeness ==
    ASSUME TypeOK, WholenessInv, NEW c \in Clients, NEW k \in Keys, IsStoring(c, k),
           IsStoring(c, k)', op'[c] = "remove" => at'[c] # "artifact",
           OthersUnchanged(c), entry' = entry, UNCHANGED <<offered, overlapped, mixed>>,
           \A l \in Keys \ {k} : files'[l] = files[l],
           c \notin overlapped =>
               /\ at'[c] # "artifact" => files'[k].artifact = entry[c].artifact
               /\ at'[c] = "manifest" /\ k \in Optimized =>
                      files'[k].report = entry[c].report
    PROVE  WholenessInv'
<1>1. \A d \in Clients \ {c} : \A l \in Keys :
          /\ IsStoring(d, l)' <=> IsStoring(d, l)
          /\ at'[d] = at[d] /\ entry'[d] = entry[d] /\ op'[d] = op[d]
  BY OthersStoreOn
<1>2. \A l \in Keys : IsStoring(c, l)' => l = k
  BY DEF IsStoring
<1>3. LoneInv'
  <2> SUFFICES ASSUME NEW d \in Clients \ overlapped, NEW l \in Keys, IsStoring(d, l)'
               PROVE  (/\ \A x \in Clients : IsStoring(x, l) => x = d
                       /\ at[d] # "artifact" => files[l].artifact = entry[d].artifact
                       /\ at[d] = "manifest" /\ l \in Optimized =>
                              files[l].report = entry[d].report)'
    BY DEF LoneInv
  <2>1. CASE d = c
    <3>1. l = k
      BY <1>2, <2>1
    <3>2. \A x \in Clients : IsStoring(x, k) => x = c
      BY <2>1 DEF WholenessInv, LoneInv
    <3> QED BY <1>1, <2>1, <3>1, <3>2
  <2>2. CASE d # c
    <3>1. IsStoring(d, l)
      BY <1>1, <2>2
    <3>2. l # k
      BY <2>2, <3>1 DEF WholenessInv, LoneInv
    <3> QED BY <1>1, <1>2, <2>2, <3>1, <3>2 DEF WholenessInv, LoneInv
  <2> QED BY <2>1, <2>2
<1>4. IsChanging(k)'
  BY DEF IsChanging
<1>5. ASSUME NEW l \in Keys \ {k}, IsChanging(l) PROVE IsChanging(l)'
  <2>1. PICK d \in Clients : IsStoring(d, l) /\ (op[d] = "remove" => at[d] # "artifact")
    BY <1>5 DEF IsChanging
  <2>2. d # c
    BY <2>1 DEF IsStoring
  <2> QED BY <1>1, <2>1, <2>2 DEF IsChanging
<1>6. EntriesAreWhole'
  <2> SUFFICES ASSUME NEW l \in Keys \ mixed', HasManifest(l)', ~ IsChanging(l)'
               PROVE  (\E x \in offered[l] : HoldsEntry(l, x))'
    BY DEF EntriesAreWhole
  <2>1. l # k
    BY <1>4
  <2>2. \E x \in offered[l] : HoldsEntry(l, x)
    BY <1>5, <2>1 DEF WholenessInv, EntriesAreWhole, HasManifest
  <2> QED BY <2>1, <2>2 DEF HoldsEntry
<1> QED BY <1>3, <1>6 DEF WholenessInv

LEMMA RemoveKeepsWholeness ==
    ASSUME TypeOK, WholenessInv, NEW c \in Clients, Remove(c)
    PROVE  WholenessInv'
<1>1. key[c] \in Keys /\ at[c] \in Files /\ IsStoring(c, key[c])
  BY ValuesAssumption DEF Remove, TypeOK, IsStoring
<1>2. /\ op'[c] = "rename" /\ OthersUnchanged(c)
      /\ UNCHANGED <<at, key, entry, offered, overlapped, mixed>>
  BY DEF Remove, OthersUnchanged, TypeOK
<1>3. /\ \A l \in Keys \ {key[c]} : files'[l] = files[l]
      /\ \A f \in Files \ {at[c]} : files'[key[c]][f] = files[key[c]][f]
  BY <1>1 DEF Remove, TypeOK
<1>4. IsStoring(c, key[c])'
  BY <1>2 DEF IsStoring
<1>5. c \notin overlapped =>
        /\ at[c] # "artifact" => files[key[c]].artifact = entry[c].artifact
        /\ at[c] = "manifest" /\ key[c] \in Optimized =>
               files[key[c]].report = entry[c].report
  BY <1>1 DEF WholenessInv, LoneInv
<1>6. c \notin overlapped =>
        /\ at'[c] # "artifact" => files'[key[c]].artifact = entry[c].artifact
        /\ at'[c] = "manifest" /\ key[c] \in Optimized =>
               files'[key[c]].report = entry[c].report
  BY <1>1, <1>2, <1>3, <1>5 DEF Files
<1> QED BY <1>1, <1>2, <1>3, <1>4, <1>6, ChangesKeepWholeness

LEMMA RenameKeepsWholeness ==
    ASSUME ~ SilentLoss, TypeOK, WholenessInv, NEW c \in Clients, Rename(c)
    PROVE  WholenessInv'
<1>0. PICK k \in Keys : k = key[c]
  BY ValuesAssumption DEF Rename, TypeOK
<1>1. k \in Keys /\ at[c] \in Files /\ entry[c] \in offered[k] /\ IsStoring(c, k)
  BY <1>0, ValuesAssumption DEF Rename, TypeOK, IsStoring
<1>2. files' = [files EXCEPT ![k][at[c]] = Contents(at[c], entry[c])]
  BY <1>0 DEF Rename
<1>3. /\ \A l \in Keys \ {k} : files'[l] = files[l]
      /\ \A f \in Files \ {at[c]} : files'[k][f] = files[k][f]
      /\ files'[k][at[c]] = Contents(at[c], entry[c])
  BY <1>1, <1>2 DEF TypeOK
<1>4. /\ at[c] = "artifact" => files'[k].artifact = entry[c].artifact
      /\ at[c] = "report" => files'[k].report = entry[c].report
  BY <1>3 DEF Contents
<1>5. OthersUnchanged(c)
  BY StoreFrame
<1>6. entry[c].report = NoReport <=> k \notin Optimized
  BY <1>1, OfferedEntries
<1>7. c \notin overlapped =>
        /\ \A d \in Clients : IsStoring(d, k) => d = c
        /\ at[c] # "artifact" => files[k].artifact = entry[c].artifact
        /\ at[c] = "manifest" /\ k \in Optimized => files[k].report = entry[c].report
  BY <1>1 DEF WholenessInv, LoneInv
<1>8. CASE at[c] # "manifest"
  <2>1. /\ at'[c] = FileAfter(at[c], entry[c]) /\ op'[c] = "remove"
        /\ UNCHANGED <<key, entry, offered, overlapped, mixed>>
    BY <1>8 DEF Rename, TypeOK
  <2>2. /\ at'[c] # "artifact" /\ IsStoring(c, k)'
        /\ at[c] = "artifact" /\ k \in Optimized => at'[c] = "report"
    BY <1>0, <1>6, <2>1 DEF FileAfter, IsStoring
  <2>3. c \notin overlapped =>
          /\ at'[c] # "artifact" => files'[k].artifact = entry[c].artifact
          /\ at'[c] = "manifest" /\ k \in Optimized => files'[k].report = entry[c].report
    BY <1>1, <1>3, <1>4, <1>7, <1>8, <2>2 DEF Files
  <2> QED BY <1>1, <1>3, <1>5, <2>1, <2>2, <2>3, ChangesKeepWholeness
<1>9. CASE at[c] = "manifest"
  <2>1. /\ op'[c] = "idle" /\ UNCHANGED offered /\ overlapped' = overlapped \ {c}
        /\ mixed' = IF c \in overlapped THEN mixed \cup {k} ELSE mixed \ {k}
    BY <1>0, <1>9 DEF Rename, Completes, StoreReturns, TypeOK
  <2>2. /\ files'[k].artifact = files[k].artifact /\ files'[k].report = files[k].report
    BY <1>3, <1>9 DEF Files
  <2>3. \A d \in Clients \ {c} : \A l \in Keys :
            /\ IsStoring(d, l)' <=> IsStoring(d, l)
            /\ at'[d] = at[d] /\ entry'[d] = entry[d] /\ op'[d] = op[d]
    BY <1>5, OthersStoreOn
  <2>4. \A l \in Keys : ~ IsStoring(c, l)'
    BY <2>1 DEF IsStoring
  <2>5. LoneInv'
    <3> SUFFICES ASSUME NEW d \in Clients \ overlapped', NEW l \in Keys, IsStoring(d, l)'
                 PROVE  (/\ \A x \in Clients : IsStoring(x, l) => x = d
                         /\ at[d] # "artifact" => files[l].artifact = entry[d].artifact
                         /\ at[d] = "manifest" /\ l \in Optimized =>
                                files[l].report = entry[d].report)'
      BY DEF LoneInv
    <3>1. d # c /\ d \notin overlapped /\ IsStoring(d, l)
      BY <2>1, <2>3, <2>4
    <3>2. l # k
      BY <1>1, <3>1 DEF WholenessInv, LoneInv
    <3> QED BY <1>3, <2>3, <2>4, <3>1, <3>2 DEF WholenessInv, LoneInv
  <2>6. ASSUME NEW l \in Keys \ {k}, IsChanging(l) PROVE IsChanging(l)'
    <3>1. PICK d \in Clients : IsStoring(d, l) /\ (op[d] = "remove" => at[d] # "artifact")
      BY <2>6 DEF IsChanging
    <3>2. d # c
      BY <1>1, <3>1 DEF IsStoring
    <3> QED BY <2>3, <3>1, <3>2 DEF IsChanging
  <2>7. EntriesAreWhole'
    <3> SUFFICES ASSUME NEW l \in Keys \ mixed', HasManifest(l)', ~ IsChanging(l)'
                 PROVE  (\E x \in offered[l] : HoldsEntry(l, x))'
      BY DEF EntriesAreWhole
    <3>1. CASE l = k
      <4>1. c \notin overlapped
        BY <2>1, <3>1
      <4> QED BY <1>1, <1>7, <1>9, <2>1, <2>2, <3>1, <4>1 DEF HoldsEntry
    <3>2. CASE l # k
      <4>1. \E x \in offered[l] : HoldsEntry(l, x)
        BY <1>3, <2>1, <2>6, <3>2 DEF WholenessInv, EntriesAreWhole, HasManifest
      <4> QED BY <1>3, <2>1, <3>2, <4>1 DEF HoldsEntry
    <3> QED BY <3>1, <3>2
  <2> QED BY <2>5, <2>7 DEF WholenessInv
<1> QED BY <1>8, <1>9

\* Artifact and report of a key are of one entry, unless stores of the key
\* overlapped or ended half way and none has run alone since, for any number of
\* processes and any entries (BuildCache::store).
THEOREM EntriesStayWhole ==
    ASSUME ~ SilentLoss PROVE Spec => []EntriesAreWhole
<1>1. Init => WholenessInv
  BY ValuesAssumption DEF Init, WholenessInv, LoneInv, EntriesAreWhole, HasManifest,
                          IsStoring, Files
<1>2. ASSUME TypeOK, WholenessInv, [Next]_vars PROVE WholenessInv'
  <2>1. ASSUME NEW c \in Clients, NEW k \in Keys, Load(c, k) PROVE WholenessInv'
    <3>1. /\ op[c] = "idle" /\ op'[c] = "load" /\ OthersUnchanged(c)
          /\ UNCHANGED <<files, offered, overlapped, mixed>>
      BY <1>2, <2>1 DEF Load, OthersUnchanged, TypeOK, disk
    <3> QED BY <1>2, <3>1, EndsKeepWholeness DEF IsHalfway
  <2>2. ASSUME NEW c \in Clients, ReadManifest(c) \/ ReadArtifact(c) \/ ReadReport(c)
        PROVE WholenessInv'
    <3>1. op[c] = "load"
      BY <2>2 DEF ReadManifest, ReadArtifact, ReadReport, Reading
    <3>2. \E got : Return(c, got) \/ \E f \in Files : ReadNext(c, f, got)
      BY <2>2 DEF ReadManifest, ReadArtifact, ReadReport, Files
    <3>3. /\ op'[c] \in {"idle", "load"} /\ OthersUnchanged(c)
          /\ UNCHANGED <<files, offered, overlapped, mixed>>
      BY <1>2, <3>1, <3>2 DEF Return, ReadNext, OthersUnchanged, TypeOK, disk
    <3> QED BY <1>2, <3>1, <3>3, EndsKeepWholeness DEF IsHalfway
  <2>3. ASSUME NEW c \in Clients, op[c] # "idle", EndsEarly(c), UNCHANGED files
        PROVE WholenessInv'
    <3>1. /\ op'[c] = "idle" /\ OthersUnchanged(c) /\ UNCHANGED offered
          /\ overlapped' = overlapped \ {c}
      BY <1>2, <2>3 DEF EndsEarly, StoreReturns, OthersUnchanged, TypeOK
    <3>2. mixed \subseteq mixed' /\ (IsHalfway(c) => key[c] \in mixed')
      BY <2>3 DEF EndsEarly, IsHalfway
    <3> QED BY <1>2, <2>3, <3>1, <3>2, EndsKeepWholeness
  <2>4. ASSUME NEW c \in Clients, WriteFails(c) \/ RenameFails(c) \/ Crash(c)
        PROVE WholenessInv'
    BY <2>3, <2>4 DEF WriteFails, RenameFails, Crash
  <2>5. CASE UNCHANGED vars
    BY <1>2, <2>5 DEF vars, WholenessInv, LoneInv, EntriesAreWhole, HasManifest,
                      IsStoring, IsChanging, HoldsEntry
  <2> QED
    BY <1>2, <2>1, <2>2, <2>4, <2>5, StoreKeepsWholeness, RemoveKeepsWholeness,
       RenameKeepsWholeness DEF Next, Step
<1>3. WholenessInv => EntriesAreWhole
  BY DEF WholenessInv
<1> QED BY <1>1, <1>2, <1>3, TypeCorrect, PTL DEF Spec

-----------------------------------------------------------------------------
(* The safety part of the refinement: a step of the cache is a step of the *)
(* promise, or changes nothing it can see.                                 *)

AnswerInv == \A c \in Clients : op[c] = "load" => answer[c] = Miss

LEMMA AnswerInvHolds == Spec => []AnswerInv
<1>1. Init => AnswerInv
  BY DEF Init, AnswerInv
<1>2. ASSUME TypeOK, AnswerInv, [Next]_vars PROVE AnswerInv'
  <2>1. ASSUME NEW c \in Clients, NEW k \in Keys, Load(c, k) PROVE AnswerInv'
    BY <1>2, <2>1 DEF Load, AnswerInv, TypeOK
  <2>2. ASSUME NEW c \in Clients, ReadManifest(c) \/ ReadArtifact(c) \/ ReadReport(c)
        PROVE AnswerInv'
    <3>1. \E got : Return(c, got) \/ \E f \in Files : ReadNext(c, f, got)
      BY <2>2 DEF ReadManifest, ReadArtifact, ReadReport, Files
    <3> QED BY <1>2, <3>1 DEF Return, ReadNext, AnswerInv, TypeOK
  <2>3. ASSUME NEW c \in Clients,
               \/ Remove(c) \/ Rename(c) \/ WriteFails(c) \/ RenameFails(c) \/ Crash(c)
               \/ \E k \in Keys : \E e \in Offers[k] : Store(c, k, e)
        PROVE AnswerInv'
    <3>1. op'[c] # "load" /\ OthersUnchanged(c)
      BY <1>2, <2>3, StoreFrame
    <3>2. answer' = answer
      BY <2>3 DEF Remove, Rename, Completes, WriteFails, RenameFails, Crash, EndsEarly,
                  Store, StoreReturns
    <3> QED BY <1>2, <3>1, <3>2 DEF AnswerInv, OthersUnchanged
  <2>4. CASE UNCHANGED vars
    BY <1>2, <2>4 DEF vars, AnswerInv
  <2> QED BY <1>2, <2>1, <2>2, <2>3, <2>4 DEF Next, Step
<1> QED BY <1>1, <1>2, TypeCorrect, PTL DEF Spec

\* A client's lookups change only with its own steps.
LEMMA AskedFrame ==
    ASSUME NEW c \in Clients, OthersUnchanged(c),
           NEW k, k = (IF op[c] = "load" THEN key[c] ELSE NoKey)'
    PROVE  asked' = [asked EXCEPT ![c] = k]
BY DEF asked, OthersUnchanged

LEMMA StepsRefine ==
    ASSUME ~ SilentLoss, TypeOK, IntegrityInv, AnswerInv, [Next]_vars
    PROVE  [Promise!Next]_(Promise!vars)
<1> USE DEF Promise!Next, Promise!vars
<1>1. ASSUME NEW c \in Clients, NEW k \in Keys, Load(c, k) PROVE Promise!Ask(c, k)
  <2>1. /\ op[c] = "idle" /\ op'[c] = "load" /\ key'[c] = k /\ OthersUnchanged(c)
        /\ answer' = [answer EXCEPT ![c] = Miss] /\ offered' = offered
    BY <1>1 DEF Load, OthersUnchanged, TypeOK, disk
  <2>2. asked[c] = NoKey
    BY <2>1 DEF asked
  <2>3. asked' = [asked EXCEPT ![c] = k]
    BY <2>1, AskedFrame
  <2> QED BY <2>1, <2>2, <2>3 DEF Promise!Ask
<1>2. ASSUME NEW c \in Clients, NEW k \in Keys, NEW e \in Offers[k], Store(c, k, e)
      PROVE Promise!Offer(k, e)
  <2>1. op[c] = "idle" /\ op'[c] = "remove" /\ OthersUnchanged(c)
    BY <1>2 DEF Store, OthersUnchanged, TypeOK
  <2>2. asked' = asked
    BY <2>1 DEF asked, OthersUnchanged
  <2> QED BY <1>2, <2>2 DEF Store, Promise!Offer
<1>3. ASSUME NEW c \in Clients, NEW a \in Mixtures(key[c]) \cup {Miss},
             op[c] = "load", op'[c] = "idle", OthersUnchanged(c),
             answer' = [answer EXCEPT ![c] = a], offered' = offered
      PROVE Promise!Answer(c)
  <2>1. asked[c] = key[c] /\ key[c] # NoKey
    BY <1>3 DEF asked, TypeOK
  <2>2. asked' = [asked EXCEPT ![c] = NoKey]
    BY <1>3, AskedFrame
  <2>3. a \in Promise!Hits(asked[c]) \cup {Miss}
    BY <1>3, <2>1 DEF Promise!Hits, Mixtures
  <2> QED BY <1>3, <2>1, <2>2, <2>3 DEF Promise!Answer
<1>4. ASSUME NEW c \in Clients, ReadManifest(c) \/ ReadArtifact(c) \/ ReadReport(c)
      PROVE Promise!Answer(c) \/ UNCHANGED Promise!vars
  <2>1. op[c] = "load"
    BY <1>4 DEF ReadManifest, ReadArtifact, ReadReport, Reading
  <2>2. ASSUME NEW a \in Mixtures(key[c]) \cup {Miss}, Return(c, a)
        PROVE Promise!Answer(c)
    <3>1. op'[c] = "idle" /\ OthersUnchanged(c)
      BY <2>2, ReturnFrame
    <3>2. answer' = [answer EXCEPT ![c] = a] /\ offered' = offered
      BY <2>2 DEF Return, disk
    <3> QED BY <1>3, <2>1, <3>1, <3>2
  <2>3. ASSUME NEW got, NEW f \in Files, ReadNext(c, f, got)
        PROVE UNCHANGED Promise!vars
    BY <2>3 DEF ReadNext, disk, asked
  <2>4. ASSUME NEW got, Return(c, got), UNCHANGED answer
        PROVE Promise!Answer(c)
    <3>1. op'[c] = "idle" /\ OthersUnchanged(c)
      BY <2>4, ReturnFrame
    <3>2. answer[c] = Miss
      BY <2>1 DEF AnswerInv
    <3>3. answer' = [answer EXCEPT ![c] = Miss] /\ offered' = offered
      BY <2>4, <3>2 DEF Return, disk, TypeOK
    <3> QED BY <1>3, <2>1, <3>1, <3>3
  <2>5. \E got : Return(c, got) \/ \E f \in Files : ReadNext(c, f, got)
    BY <1>4 DEF ReadManifest, ReadArtifact, ReadReport, Files
  <2> QED BY <1>4, <2>2, <2>3, <2>4, <2>5, ReturnsAMixture
<1>5. ASSUME NEW c \in Clients, op[c] # "load", op'[c] # "load", OthersUnchanged(c),
             UNCHANGED <<answer, offered>>
      PROVE UNCHANGED Promise!vars
  <2>1. asked' = asked
    BY <1>5 DEF asked, OthersUnchanged
  <2> QED BY <1>5, <2>1
<1>6. ASSUME NEW c \in Clients, Remove(c) \/ Rename(c) \/ WriteFails(c) \/ RenameFails(c)
      PROVE UNCHANGED Promise!vars
  <2>1. op[c] # "load" /\ UNCHANGED <<answer, offered>>
    BY <1>6 DEF Remove, Rename, Completes, WriteFails, RenameFails, EndsEarly, StoreReturns
  <2>2. op'[c] # "load" /\ OthersUnchanged(c)
    BY <1>6, StoreFrame
  <2> QED BY <1>5, <2>1, <2>2
<1>7. ASSUME NEW c \in Clients, Crash(c)
      PROVE Promise!Answer(c) \/ UNCHANGED Promise!vars
  <2>1. /\ op'[c] = "idle" /\ OthersUnchanged(c) /\ UNCHANGED <<answer, offered>>
    BY <1>7 DEF Crash, EndsEarly, StoreReturns, OthersUnchanged, TypeOK
  <2>2. CASE op[c] = "load"
    <3>1. answer' = [answer EXCEPT ![c] = Miss]
      BY <2>1, <2>2 DEF AnswerInv, TypeOK
    <3> QED BY <1>3, <2>1, <2>2, <3>1
  <2>3. CASE op[c] # "load"
    BY <1>5, <2>1, <2>3
  <2> QED BY <2>2, <2>3
<1>8. CASE UNCHANGED vars
  BY <1>8 DEF vars, asked
<1> QED BY <1>1, <1>2, <1>4, <1>6, <1>7, <1>8 DEF Next, Step

\* Every step of the cache is a step of the promise ArtifactCache makes, for any
\* number of processes and keys: the safety half of CacheKeepsPromise (the
\* whole of BuildCache::load and BuildCache::store).
THEOREM CacheRefinesPromise ==
    ASSUME ~ SilentLoss
    PROVE  Spec => Promise!Init /\ [][Promise!Next]_(Promise!vars)
<1>1. Init => Promise!Init
  BY DEF Init, Promise!Init, asked
<1>2. TypeOK /\ IntegrityInv /\ AnswerInv /\ [Next]_vars => [Promise!Next]_(Promise!vars)
  BY StepsRefine
<1> QED
  BY <1>1, <1>2, TypeCorrect, IntegrityInvHolds, AnswerInvHolds, PTL DEF Spec

==============================================================================
