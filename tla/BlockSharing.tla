----------------------------- MODULE BlockSharing -----------------------------
(***************************************************************************)
(* What the KV cache promises its callers, without queues, reference       *)
(* counts, hash maps or block tables: a set of blocks, who holds each, and  *)
(* the content each one is published under.                                 *)
(***************************************************************************)
CONSTANTS Owners, Pages, NoContent

VARIABLES
    holders,  \* [Pages -> SUBSET Owners]
    content   \* [Pages -> content or NoContent]

sharingVars == <<holders, content>>

Unused(p) == holders[p] = {}

Init ==
    /\ holders = [p \in Pages |-> {}]
    /\ content = [p \in Pages |-> NoContent]

\* An owner joins pages that are published, takes pages nobody holds, and may
\* publish what it holds and had not published.  Every other page is untouched.
Acquire(o, shared, fresh) ==
    /\ \A p \in shared : content[p] # NoContent /\ o \notin holders[p]
    /\ \A p \in fresh : Unused(p)
    /\ shared \cap fresh = {}
    /\ holders' = [p \in Pages |-> IF p \in shared \cup fresh
                                   THEN holders[p] \cup {o} ELSE holders[p]]
    /\ DOMAIN content' = Pages
    /\ \A p \in Pages :
         content'[p] # content[p] =>
             p \in fresh \/ (holders[p] = {o} /\ content[p] = NoContent)

\* An owner gives everything back.  What it published stays published.
Release(o) ==
    /\ holders' = [p \in Pages |-> holders[p] \ {o}]
    /\ UNCHANGED content

\* Forgetting the published content is possible only while nobody holds a page.
Forget ==
    /\ \A p \in Pages : Unused(p)
    /\ content' = [p \in Pages |-> NoContent]
    /\ UNCHANGED holders

Next ==
    \/ \E o \in Owners : \/ \E shared, fresh \in SUBSET Pages : Acquire(o, shared, fresh)
                         \/ Release(o)
    \/ Forget

Spec == Init /\ [][Next]_sharingVars

==============================================================================
