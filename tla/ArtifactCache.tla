---------------------------- MODULE ArtifactCache ----------------------------
(***************************************************************************)
(* What the build cache promises the processes that share it, whatever     *)
(* happens inside: a lookup is answered, by a miss or by an artifact and   *)
(* a report that were offered under the key asked for, whole each but not  *)
(* always by the same process.  A miss is always allowed, so a process     *)
(* that dies while it looks up is one that missed.                         *)
(***************************************************************************)
CONSTANTS
    Keys,
    Clients,    \* the processes that share the cache directory
    Offers,     \* key -> the entries [artifact, report] that may be stored under it
    NoKey,      \* no lookup
    Miss        \* no entry

VARIABLES
    offered,    \* key -> the entries offered so far
    asked,      \* client -> the key it is looking up
    answer      \* client -> what its last lookup returned

vars == <<offered, asked, answer>>

Init ==
    /\ offered = [k \in Keys |-> {}]
    /\ asked = [c \in Clients |-> NoKey]
    /\ answer = [c \in Clients |-> Miss]

Offer(k, e) ==
    /\ offered' = [offered EXCEPT ![k] = @ \cup {e}]
    /\ UNCHANGED <<asked, answer>>

Ask(c, k) ==
    /\ asked[c] = NoKey
    /\ asked' = [asked EXCEPT ![c] = k]
    /\ answer' = [answer EXCEPT ![c] = Miss]
    /\ UNCHANGED offered

Hits(k) == [artifact : {e.artifact : e \in offered[k]}, report : {e.report : e \in offered[k]}]

Answer(c) ==
    /\ asked[c] # NoKey
    /\ \E a \in Hits(asked[c]) \cup {Miss} : answer' = [answer EXCEPT ![c] = a]
    /\ asked' = [asked EXCEPT ![c] = NoKey]
    /\ UNCHANGED offered

Next ==
    \/ \E k \in Keys : \E e \in Offers[k] : Offer(k, e)
    \/ \E c \in Clients : Answer(c) \/ \E k \in Keys : Ask(c, k)

Spec == Init /\ [][Next]_vars /\ \A c \in Clients : WF_vars(Answer(c))

==============================================================================
