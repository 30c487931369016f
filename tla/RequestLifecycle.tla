--------------------------- MODULE RequestLifecycle ---------------------------
(***************************************************************************)
(* What the engine promises about one request, whatever the batch, the     *)
(* block pool and the other requests do: it is queued, it is active, it may *)
(* be suspended without losing a token, and it ends once.                   *)
(***************************************************************************)
EXTENDS Naturals, Sequences

CONSTANTS
    Ids,       \* request ids
    Words,     \* tokens
    Openings,  \* prompts
    Endings,   \* words that end the text
    Limit,     \* no request that goes on saying something is as long as this
    Minimum,   \* how many words a request may say before an ending counts
    Allowance  \* how many words a request may say in all, beyond the minimum

VARIABLES
    stage,       \* [Ids -> {"absent", "queued", "active"}]
    text,        \* [Ids -> Seq(Words)]: prompt and output so far
    opening_len  \* [Ids -> Nat]: how much of the text is the prompt

lifecycleVars == <<stage, text, opening_len>>

Init ==
    /\ stage = [i \in Ids |-> "absent"]
    /\ text = [i \in Ids |-> <<>>]
    /\ opening_len = [i \in Ids |-> 0]

Submit(i, opening) ==
    /\ stage[i] = "absent"
    /\ stage' = [stage EXCEPT ![i] = "queued"]
    /\ text' = [text EXCEPT ![i] = opening]
    /\ opening_len' = [opening_len EXCEPT ![i] = Len(opening)]

Activate(i) ==
    /\ stage[i] = "queued"
    /\ stage' = [stage EXCEPT ![i] = "active"]
    /\ UNCHANGED <<text, opening_len>>

\* Preemption: by recompute, so nothing that was said is taken back.
Suspend(i) ==
    /\ stage[i] = "active"
    /\ stage' = [stage EXCEPT ![i] = "queued"]
    /\ UNCHANGED <<text, opening_len>>

\* An active request says at least one more word and can still go on: after its
\* minimum none of them ends the text or uses up what it may say.
Emit(i) ==
    LET said     == Len(text'[i])
        due(n)   == n >= opening_len[i] + Minimum
    IN  /\ stage[i] = "active"
        /\ said > Len(text[i]) /\ said < Limit
        /\ due(said) => said < opening_len[i] + Allowance
        /\ SubSeq(text'[i], 1, Len(text[i])) = text[i]
        /\ \A k \in Len(text[i]) + 1 .. said :
             /\ text'[i][k] \in Words
             /\ due(k) => text'[i][k] \notin Endings
        /\ text' = [text EXCEPT ![i] = text'[i]]
        /\ UNCHANGED <<stage, opening_len>>

\* Completion, abort and failure: the request is forgotten.
End(S) ==
    /\ \A i \in S : stage[i] # "absent"
    /\ stage' = [i \in Ids |-> IF i \in S THEN "absent" ELSE stage[i]]
    /\ text' = [i \in Ids |-> IF i \in S THEN <<>> ELSE text[i]]
    /\ opening_len' = [i \in Ids |-> IF i \in S THEN 0 ELSE opening_len[i]]

Next ==
    \/ \E i \in Ids : \/ \E opening \in Openings : Submit(i, opening)
                      \/ Activate(i) \/ Suspend(i) \/ Emit(i)
    \/ \E S \in SUBSET Ids : End(S)

Spec == Init /\ [][Next]_lifecycleVars

==============================================================================
