----------------------------- MODULE MCBuildCache -----------------------------
(***************************************************************************)
(* Two keys: one of an optimized LLVM build, with two entries that differ  *)
(* in artifact and report, so that every mixture of them can be told from  *)
(* an entry, and one of a native object.                                   *)
(***************************************************************************)
EXTENDS BuildCache, TLC

CONSTANTS LlvmKey, ObjectKey

Entry(artifact, rep) == [artifact |-> artifact, report |-> rep]

MCOffers ==
    (LlvmKey :> {Entry("ll1", "json1"), Entry("ll2", "json2")})
        @@ (ObjectKey :> {Entry("o", NoReport)})
MCKeys == {LlvmKey, ObjectKey}

==============================================================================
