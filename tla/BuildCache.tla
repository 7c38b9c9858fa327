------------------------------ MODULE BuildCache ------------------------------
(***************************************************************************)
(* The incremental build cache (tools/build/src/BuildCache.cpp): one       *)
(* directory per key holding an artifact, an optional optimization report  *)
(* and a manifest, read and written by build processes that share no lock. *)
(*                                                                         *)
(* A step of a client is one file-system call another process can see: the *)
(* reads of load, and in writeAtomically the removal of the old file and   *)
(* the rename of the new one.  The temporary file has a name of its own,   *)
(* so what happens to it is seen only through the rename.  A client dies   *)
(* at any step; a later process takes its place.                           *)
(***************************************************************************)
EXTENDS Naturals

CONSTANTS
    Keys,
    Clients,
    Offers,     \* key -> the entries [artifact, report] that may be stored under it
    Optimized,  \* the keys of optimized builds, whose entries have a report
    NoReport,   \* the empty report
    Absent,     \* a file that does not exist
    Torn,       \* a file that holds a part of what was written to it
    NoKey, Miss,
    SilentLoss  \* may an error at the close of a written file go unnoticed?

\* The optimization level is part of the key and decides on a report.  Entries of
\* one key may differ in everything: a report holds the time its passes took, and
\* the key names the version of the compiler, not the compiler.
ASSUME OffersAssumption ==
    /\ Optimized \subseteq Keys
    /\ \A k \in Keys : \A e \in Offers[k] :
           /\ e = [artifact |-> e.artifact, report |-> e.report]
           /\ e.artifact # Absent /\ e.report # Absent
           /\ e.report = NoReport <=> k \notin Optimized

Parts(part) == {e[part] : e \in UNION {Offers[k] : k \in Keys}}

FileContents ==
    Parts("artifact") \cup Parts("report") \cup {"yes", "no", Absent, Torn}

\* What a call may hold: an entry, perhaps in part.
Entries == [artifact : FileContents, report : FileContents \cup {NoReport}]

ASSUME ValuesAssumption ==
    /\ NoKey \notin Keys
    /\ NoReport # Absent
    /\ Miss \notin Entries
    /\ Absent \notin {"yes", "no"} /\ Torn \notin {"yes", "no"}
    /\ SilentLoss \in BOOLEAN

VARIABLES
    files,      \* key -> file -> contents
    op,         \* client -> "idle", "load", "remove" or "rename"
    at,         \* client -> the file it is about to read, remove or rename
    key,        \* client -> the key of its call
    entry,      \* client -> what it has read so far, or what it stores
    answer,     \* client -> the result of its last load
    offered,    \* key -> the entries whose store was begun
    succeeded,  \* the keys some store returned true for
    cutShort,   \* the keys whose store died or failed with a file removed
    overlapped, \* the clients whose store met another store of its key
    mixed       \* the keys that stores may have left with parts of several entries

vars == <<files, op, at, key, entry, answer, offered,
          succeeded, cutShort, overlapped, mixed>>

disk == <<files, offered, succeeded, cutShort, overlapped, mixed>>

Files == {"artifact", "report", "manifest"}

Init ==
    /\ files = [k \in Keys |-> [f \in Files |-> Absent]]
    /\ op = [c \in Clients |-> "idle"]
    /\ at = [c \in Clients |-> "manifest"]
    /\ key = [c \in Clients |-> NoKey]
    /\ entry = [c \in Clients |-> Miss]
    /\ answer = [c \in Clients |-> Miss]
    /\ offered = [k \in Keys |-> {}]
    /\ succeeded = {}
    /\ cutShort = {}
    /\ overlapped = {}
    /\ mixed = {}

------------------------------------------------------------------------------
(* BuildCache::load.  The driver requires a report iff the build optimizes. *)

Load(c, k) ==
    /\ op[c] = "idle"
    /\ op' = [op EXCEPT ![c] = "load"]
    /\ at' = [at EXCEPT ![c] = "manifest"]
    /\ key' = [key EXCEPT ![c] = k]
    /\ entry' = [entry EXCEPT ![c] = Miss]
    /\ answer' = [answer EXCEPT ![c] = Miss]
    /\ UNCHANGED disk

Reading(c, file) == op[c] = "load" /\ at[c] = file

\* The call returns: no entry, or the one read.
Return(c, result) ==
    /\ op' = [op EXCEPT ![c] = "idle"]
    /\ key' = [key EXCEPT ![c] = NoKey]
    /\ entry' = [entry EXCEPT ![c] = Miss]
    /\ answer' = [answer EXCEPT ![c] = result]
    /\ at' = [at EXCEPT ![c] = "manifest"]
    /\ UNCHANGED disk

\* The call goes on to another file.
ReadNext(c, file, got) ==
    /\ at' = [at EXCEPT ![c] = file]
    /\ entry' = [entry EXCEPT ![c] = got]
    /\ UNCHANGED <<op, key, answer, disk>>

ReadManifest(c) ==
    LET stored == files[key[c]].manifest
    IN  /\ Reading(c, "manifest")
        /\ IF stored \in {"yes", "no"} /\ (key[c] \in Optimized => stored = "yes")
           THEN ReadNext(c, "artifact",
                    [artifact |-> Absent,
                     report |-> IF stored = "yes" THEN Absent ELSE NoReport])
           ELSE Return(c, Miss)

ReadArtifact(c) ==
    LET stored == files[key[c]].artifact
        got    == [entry[c] EXCEPT !.artifact = stored]
    IN  /\ Reading(c, "artifact")
        /\ IF stored = Absent THEN Return(c, Miss)
           ELSE IF got.report = NoReport THEN Return(c, got)
           ELSE ReadNext(c, "report", got)

\* Fault: a missing report is taken for an empty one.
ReadReportLeniently(c) ==
    LET stored == files[key[c]].report
    IN  /\ Reading(c, "report")
        /\ Return(c, [entry[c] EXCEPT !.report = IF stored = Absent THEN NoReport ELSE stored])

ReadReport(c) ==
    LET stored == files[key[c]].report
    IN  /\ Reading(c, "report")
        /\ Return(c, IF stored = Absent THEN Miss
                     ELSE [entry[c] EXCEPT !.report = stored])

------------------------------------------------------------------------------
(* BuildCache::store *)

\* Fault: the report is forgotten.
FileAfterWithoutReport(file, e) == "manifest"

\* The file written after a given one: the manifest comes last.
FileAfter(file, e) ==
    IF file = "artifact" /\ e.report # NoReport THEN "report" ELSE "manifest"

Contents(file, e) ==
    CASE file = "artifact" -> e.artifact
      [] file = "report"   -> e.report
      [] file = "manifest" -> IF e.report = NoReport THEN "no" ELSE "yes"

IsStoring(c, k) == op[c] \in {"remove", "rename"} /\ key[c] = k

\* A store of the key by client c meets those that are under way.
Meets(c, k) ==
    LET others == {d \in Clients : IsStoring(d, k)}
    IN  overlapped' = IF others = {} THEN overlapped ELSE overlapped \cup others \cup {c}

\* Fault: an artifact that is there is kept.
StoreKeepingArtifact(c, k, e) ==
    /\ op[c] = "idle" /\ answer[c] = Miss
    /\ op' = [op EXCEPT ![c] = "remove"]
    /\ at' = [at EXCEPT ![c] = IF files[k].artifact = Absent THEN "artifact"
                                ELSE FileAfter("artifact", e)]
    /\ key' = [key EXCEPT ![c] = k]
    /\ entry' = [entry EXCEPT ![c] = e]
    /\ offered' = [offered EXCEPT ![k] = @ \cup {e}]
    /\ Meets(c, k)
    /\ UNCHANGED <<answer, files, succeeded, cutShort, mixed>>

\* The driver stores what it had to make, after a lookup that missed.
Store(c, k, e) ==
    /\ op[c] = "idle" /\ answer[c] = Miss
    /\ op' = [op EXCEPT ![c] = "remove"]
    /\ at' = [at EXCEPT ![c] = "artifact"]
    /\ key' = [key EXCEPT ![c] = k]
    /\ entry' = [entry EXCEPT ![c] = e]
    /\ offered' = [offered EXCEPT ![k] = @ \cup {e}]
    /\ Meets(c, k)
    /\ UNCHANGED <<answer, files, succeeded, cutShort, mixed>>

\* Fault: the file is truncated in place instead of replaced.
RemoveInPlace(c) ==
    /\ op[c] = "remove"
    /\ files' = [files EXCEPT ![key[c]][at[c]] = Torn]
    /\ op' = [op EXCEPT ![c] = "rename"]
    /\ UNCHANGED <<at, key, entry, answer, offered, succeeded, cutShort, overlapped, mixed>>

\* writeAtomically, with the temporary file written: remove(path).
Remove(c) ==
    /\ op[c] = "remove"
    /\ files' = [files EXCEPT ![key[c]][at[c]] = Absent]
    /\ op' = [op EXCEPT ![c] = "rename"]
    /\ UNCHANGED <<at, key, entry, answer, offered, succeeded, cutShort, overlapped, mixed>>

\* Fault: a returning store leaves its client with the key.
StoreReturnsWithKey(c) ==
    /\ op' = [op EXCEPT ![c] = "idle"]
    /\ entry' = [entry EXCEPT ![c] = Miss]
    /\ at' = [at EXCEPT ![c] = "manifest"]
    /\ overlapped' = overlapped \ {c}
    /\ UNCHANGED <<key, answer, offered>>

StoreReturns(c) ==
    /\ op' = [op EXCEPT ![c] = "idle"]
    /\ key' = [key EXCEPT ![c] = NoKey]
    /\ entry' = [entry EXCEPT ![c] = Miss]
    /\ at' = [at EXCEPT ![c] = "manifest"]
    /\ overlapped' = overlapped \ {c}
    /\ UNCHANGED <<answer, offered>>

\* A store that was alone from its first step to its last leaves its own entry.
Completes(c) ==
    /\ StoreReturns(c)
    /\ succeeded' = succeeded \cup {key[c]}
    /\ mixed' = IF c \in overlapped THEN mixed \cup {key[c]} ELSE mixed \ {key[c]}

\* One that gives up, or dies, may leave some files of its entry among others.
EndsEarly(c) ==
    /\ StoreReturns(c)
    /\ mixed' = IF op[c] = "rename" \/ (op[c] = "remove" /\ at[c] # "artifact")
                 THEN mixed \cup {key[c]} ELSE mixed
    /\ UNCHANGED succeeded

\* rename(temporary, path), and on to the next file.  The stream was tested
\* before it was closed, so a loss at the close publishes a part of the text.
Rename(c) ==
    /\ op[c] = "rename"
    /\ \E text \in {Contents(at[c], entry[c])} \cup (IF SilentLoss THEN {Torn} ELSE {}) :
           files' = [files EXCEPT ![key[c]][at[c]] = text]
    /\ IF at[c] = "manifest"
       THEN Completes(c)
       ELSE /\ at' = [at EXCEPT ![c] = FileAfter(at[c], entry[c])]
            /\ op' = [op EXCEPT ![c] = "remove"]
            /\ UNCHANGED <<key, entry, answer, offered, succeeded, overlapped, mixed>>
    /\ UNCHANGED cutShort

\* Fault: the error path deletes the published file instead of the temporary one.
WriteFailsDeletingFile(c) ==
    /\ op[c] = "remove"
    /\ EndsEarly(c)
    /\ files' = [files EXCEPT ![key[c]][at[c]] = Absent]
    /\ UNCHANGED cutShort

\* The directory or the temporary file cannot be created or written: the store
\* gives up before it touches the file.
WriteFails(c) ==
    /\ op[c] = "remove"
    /\ EndsEarly(c)
    /\ UNCHANGED <<files, cutShort>>

\* The old file is gone and the rename fails.
RenameFails(c) ==
    /\ op[c] = "rename"
    /\ EndsEarly(c)
    /\ cutShort' = cutShort \cup {key[c]}
    /\ UNCHANGED files

Crash(c) ==
    /\ op[c] # "idle"
    /\ EndsEarly(c)
    /\ cutShort' = IF op[c] = "rename" THEN cutShort \cup {key[c]} ELSE cutShort
    /\ UNCHANGED files

------------------------------------------------------------------------------
Step(c) ==
    \/ ReadManifest(c) \/ ReadArtifact(c) \/ ReadReport(c)
    \/ Remove(c) \/ Rename(c) \/ WriteFails(c) \/ RenameFails(c)

Next ==
    \E c \in Clients :
        \/ \E k \in Keys : Load(c, k) \/ \E e \in Offers[k] : Store(c, k, e)
        \/ Step(c)
        \/ Crash(c)

\* A call that is under way takes its next step or dies: calls do not block.
Spec == Init /\ [][Next]_vars /\ \A c \in Clients : WF_vars(Step(c) \/ Crash(c))

------------------------------------------------------------------------------
(* Properties *)

TypeOK ==
    /\ files \in [Keys -> [Files -> FileContents]]
    /\ op \in [Clients -> {"idle", "load", "remove", "rename"}]
    /\ at \in [Clients -> Files]
    /\ key \in [Clients -> Keys \cup {NoKey}]
    /\ \A c \in Clients : op[c] = "idle" <=> key[c] = NoKey
    /\ \A c \in Clients : op[c] \in {"remove", "rename"} => entry[c] \in offered[key[c]]
    /\ \A c \in Clients : op[c] = "load" /\ at[c] # "manifest" => entry[c] # Miss
    /\ entry \in [Clients -> Entries \cup {Miss}]
    /\ answer \in [Clients -> Entries \cup {Miss}]
    /\ offered \in [Keys -> SUBSET UNION {Offers[k] : k \in Keys}]
    /\ \A k \in Keys : offered[k] \subseteq Offers[k]
    /\ succeeded \subseteq Keys /\ cutShort \subseteq Keys /\ mixed \subseteq Keys
    /\ overlapped \subseteq Clients

\* What may be put together from the entries that stores of the key were given.
Mixtures(k) == [artifact : {e.artifact : e \in offered[k]}, report : {e.report : e \in offered[k]}]

\* A load returns an artifact and a report, neither in part, that stores of the
\* very key were given, however these overlap, fail or die meanwhile.  The two
\* may stem from different stores (BuildCache::load against BuildCache::store).
HitPartsWereOffered ==
    [][\A c \in Clients :
          answer'[c] \notin {answer[c], Miss} => answer'[c] \in Mixtures(key[c])]_vars

HasManifest(k) ==
    files[k].manifest \in {"yes", "no"} /\ (k \in Optimized => files[k].manifest = "yes")

\* A load that starts now and is alone would hit.
IsLoadable(k) ==
    /\ HasManifest(k)
    /\ files[k].artifact # Absent
    /\ k \in Optimized => files[k].report # Absent

\* No file of the key is between its removal and its replacement, or was left so.
Undisturbed(k) ==
    k \notin cutShort /\ ~ \E c \in Clients : op[c] = "rename" /\ key[c] = k

\* Publication is manifest-last: a manifest on disk vouches for the files it
\* announces, unless a store of the same key is replacing one of them or died
\* doing so.  A store that gives up before it removes a file takes nothing away.
ManifestVouches == \A k \in Keys : HasManifest(k) /\ Undisturbed(k) => IsLoadable(k)

\* What a store reported as stored stays loadable, whatever later stores of the
\* key do short of dying, or failing to rename, with a file removed.
StoresAreDurable == \A k \in succeeded : Undisturbed(k) => IsLoadable(k)

\* Some store of the key has begun to change its files and has not ended.
IsChanging(k) ==
    \E c \in Clients : IsStoring(c, k) /\ (op[c] = "remove" => at[c] # "artifact")

HoldsEntry(k, e) ==
    /\ files[k].artifact = e.artifact
    /\ k \in Optimized => files[k].report = e.report

\* Artifact and report are of one entry unless stores of the key overlapped or
\* ended half way, and a store that is alone puts right what others mixed up.
EntriesAreWhole ==
    \A k \in Keys \ mixed :
        HasManifest(k) /\ ~ IsChanging(k) => \E e \in offered[k] : HoldsEntry(k, e)

\* Lookups and what they returned, as the promise sees them.
asked == [c \in Clients |-> IF op[c] = "load" THEN key[c] ELSE NoKey]

Promise == INSTANCE ArtifactCache WITH offered <- offered, asked <- asked, answer <- answer

\* The cache keeps its promise through races, failures and crashes.
CacheKeepsPromise == Promise!Spec

==============================================================================
