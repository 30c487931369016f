----------------------------- MODULE Completion ------------------------------
(***************************************************************************)
(* One completion from its parameters to the client's text: validation      *)
(* (sampling_params.py, v1/engine/input_processor.py), the compile step      *)
(* (sim/structured_output.py), the token generator (sim/model.py), the stop  *)
(* check (v1/core/sched/utils.py) and the output processor's text           *)
(* (v1/engine/output_processor.py).                                         *)
(*                                                                         *)
(* The core and the front end are separate: steps queue on the wire, so the *)
(* core may be ahead of the front end when a stop string ends the request.  *)
(* How many tokens one step yields is open, from one to one more than the   *)
(* drafts it verifies.                                                      *)
(***************************************************************************)
EXTENDS Grammar, Detokenizer

CONSTANTS
    Cases,              \* the completions asked for, a sequence of parameter records
    max_model_len,
    num_spec_tokens,
    MaxLag              \* bound: how many steps the front end may be behind

NoLimit == -1
None == "none"
ASSUME CompletionAssumption ==
    /\ max_model_len \in Nat \ {0}
    /\ num_spec_tokens \in Nat /\ MaxLag \in Nat \ {0}
    /\ \A i \in DOMAIN Cases : Cases[i].content # <<>>

VARIABLES
    p,          \* the completion's sampling parameters and prompt, fixed
    drawn,      \* what generate_for_constraint yields for this request's generator
    phase,      \* "new", "rejected", "compiling", "running", "finished" or "aborted"
    output,     \* Request._output_token_ids
    drafts,     \* how many drafts the request carries
    wire,       \* EngineCoreOutputs on their way to the front end
    detok,      \* RequestState.detokenizer
    client,     \* what the caller has been given
    aborting,   \* the front end has told the core to abort
    expected    \* history: the text that one token at a time would produce
cvars == <<p, drawn, phase, output, drafts, wire, detok, client, aborting, expected>>

Constrained == p.constraint # Unconstrained
Remaining == max_model_len - Len(p.prompt)
\* The resolved max_tokens, which is also what the worker passes to the model.
Limit == IF p.max_tokens = NoLimit THEN Remaining ELSE p.max_tokens

CompletionInit ==
    /\ \E i \in DOMAIN Cases : p = Cases[i]
    /\ drawn \in GenerateForConstraint(p.constraint)
    /\ phase = "new" /\ output = <<>> /\ drafts = 0 /\ wire = <<>> /\ detok = <<>> /\ aborting = FALSE /\ expected = <<>>
    /\ client = [text |-> <<>>, reason |-> None, stop_reason |-> <<>>]

------------------------------------------------------------------------------
(* Validation.                                                              *)

\* Parameters that only steer the draw are in range or not.
VerifyArgs ==
    /\ p.in_range
    /\ p.max_tokens # NoLimit => p.max_tokens >= 1 /\ p.min_tokens <= p.max_tokens
    /\ p.stop # <<>> => p.detokenize
ValidatePromptLength ==
    Len(p.prompt) \in 1..(max_model_len - 1) /\ Limit <= Remaining
eos_token_id == IF p.ignore_eos THEN <<>> ELSE EOS

------------------------------------------------------------------------------
(* The token generator.                                                     *)

\* set_constraint: the same generator draws the same text.
ConstrainedPlan == Encode(drawn[2])
PlannedOutputLength ==
    IF Constrained THEN Least(Len(ConstrainedPlan) + 1, Limit) ELSE Most(1, Least(p.policy_length, Limit))

\* Mutant: the end comes at the planned length, plan or no plan.
SampleTokenEarlyEos(position) ==
    IF position + 1 >= Len(ConstrainedPlan) /\ Constrained THEN EOS
    ELSE IF Constrained THEN ConstrainedPlan[position + 1]
    ELSE IF PlannedOutputLength < Limit /\ position + 1 >= PlannedOutputLength THEN EOS
    ELSE p.content[(position % Len(p.content)) + 1]

\* One token for one position, a function of the position alone.
SampleToken(position) ==
    IF Constrained THEN IF position >= Len(ConstrainedPlan) THEN EOS ELSE ConstrainedPlan[position + 1]
    ELSE IF PlannedOutputLength < Limit /\ position + 1 >= PlannedOutputLength THEN EOS
    ELSE p.content[(position % Len(p.content)) + 1]
Sampled(from, n) == [i \in 1..n |-> SampleToken(from + i - 1)]
\* Drafts that continue an output of n tokens.
ProposeDrafts(n) == Cardinality({k \in 1..num_spec_tokens : n - 1 + k < PlannedOutputLength})

\* check_stop: what ends a request whose output is ids, min_tokens first.
StopsOn(id) == id = eos_token_id \/ id \in p.stop_token_ids
CheckStop(ids) ==
    IF Len(ids) < p.min_tokens THEN None
    ELSE IF StopsOn(Last(ids)) THEN "stop"
    ELSE IF Len(p.prompt) + Len(ids) >= max_model_len \/ Len(ids) >= Limit THEN "length"
    ELSE None

------------------------------------------------------------------------------
(* The text that appending one token at a time produces, defined over the   *)
(* whole text at once.                                                      *)

\* The model's tokens, up to the one that ends the request.
Stream ==
    LET ends == {n \in 1..Remaining : CheckStop(Sampled(0, n)) # None} IN
    Sampled(0, IF ends = {} THEN Remaining ELSE Min(ends))
\* Whole characters only: the bytes of one that is not complete are no text.
WholeText(ids) ==
    LET text == ConvertTokensToString(ConvertIdsToTokens(ids, p.skip_special_tokens)) IN
    IF text # <<>> /\ Last(text) = Replacement THEN Front(text) ELSE text
\* The text up to the first stop string that ends after min_tokens; the list
\* decides between two that end together.
ReferenceText ==
    LET stream == Stream
        body == IF CheckStop(stream) = "stop" /\ ~p.include_stop_str_in_output THEN Front(stream) ELSE stream
        whole == WholeText(body)
        exempt == Len(WholeText(SubSeq(body, 1, Least(p.min_tokens, Len(body)))))
        cuts == {<<end, k>> \in ((exempt + 1)..Len(whole)) \X (DOMAIN p.stop) :
                    end >= Len(p.stop[k]) /\ SubSeq(whole, end - Len(p.stop[k]) + 1, end) = p.stop[k]}
        cut == CHOOSE c \in cuts : \A o \in cuts : c[1] < o[1] \/ (c[1] = o[1] /\ c[2] <= o[2])
    IN IF cuts = {} THEN whole
       ELSE SubSeq(whole, 1, cut[1] - (IF p.include_stop_str_in_output THEN 0 ELSE Len(p.stop[cut[2]])))

------------------------------------------------------------------------------
(* Submission, the core's steps, and the front end.                          *)

Submit ==
    /\ phase = "new"
    /\ phase' = IF ~(VerifyArgs /\ ValidatePromptLength) THEN "rejected"
                ELSE IF Constrained THEN "compiling" ELSE "running"
    /\ detok' = IF phase' = "rejected" THEN detok ELSE NewDetokenizer(p.prompt, p)
    /\ expected' = IF phase' = "rejected" \/ drawn = Refused THEN expected ELSE ReferenceText
    /\ UNCHANGED <<p, drawn, output, drafts, wire, client, aborting>>

\* The compile proves the constraint by generating with the request's own
\* generator; what it raises ends this request alone.
CompileGrammar ==
    /\ phase = "compiling"
    /\ IF drawn = Refused
       THEN /\ phase' = "finished"
            /\ wire' = Append(wire, [ids |-> <<>>, reason |-> "error", stop_reason |-> <<"compile">>])
       ELSE phase' = "running" /\ UNCHANGED wire
    /\ UNCHANGED <<p, drawn, output, drafts, detok, client, aborting, expected>>

\* One step: the accepted drafts and one more token, cut at the first that
\* ends the request.
Step ==
    /\ phase = "running" /\ Len(wire) < MaxLag
    /\ \E accepted \in 0..drafts :
        LET room == Remaining - Len(output)
            all == output \o Sampled(Len(output), accepted + 1)
            ending == {n \in (Len(output) + 1)..Len(all) : CheckStop(SubSeq(all, 1, n)) # None}
            kept == SubSeq(all, 1, IF ending = {} THEN Len(all) ELSE Min(ending))
            reason == CheckStop(kept)
        IN /\ accepted < room
           /\ output' = kept
           /\ phase' = IF reason = None THEN "running" ELSE "finished"
           /\ drafts' = IF reason = None THEN ProposeDrafts(Len(all)) ELSE 0
           /\ wire' = Append(wire, [ids |-> SubSeq(kept, Len(output) + 1, Len(kept)), reason |-> reason,
                                    stop_reason |-> IF reason = "stop" /\ Last(kept) # eos_token_id
                                                    THEN Last(kept) ELSE <<>>])
    /\ UNCHANGED <<p, drawn, detok, client, aborting, expected>>

\* process_outputs for one frame.  A stop string ends the request here, and
\* the core is told to abort it.
ProcessOutput ==
    /\ wire # <<>> /\ client.reason = None
    /\ \E frame \in {Head(wire)}, update \in {Update(detok, Head(wire).ids, Head(wire).reason = "stop", p)} :
       LET by_string == update.stop # <<>> /\ frame.reason = None
           reason == IF by_string THEN "stop" ELSE frame.reason
           text == NextOutputText(update.d, reason # None, p)
       IN /\ detok' = HandedOut(update.d, reason # None, p)
          /\ client' = [text |-> IF p.delta THEN client.text \o text ELSE text, reason |-> reason,
                        stop_reason |-> IF update.stop # <<>> THEN update.stop ELSE frame.stop_reason]
          /\ aborting' = by_string
    /\ wire' = Tail(wire)
    /\ UNCHANGED <<p, drawn, phase, output, drafts, expected>>

\* Output of a request the front end has retired is dropped.
DropOutput ==
    /\ wire # <<>> /\ client.reason # None
    /\ wire' = Tail(wire)
    /\ UNCHANGED <<p, drawn, phase, output, drafts, detok, client, aborting, expected>>

Abort ==
    /\ aborting
    /\ aborting' = FALSE
    /\ phase' = IF phase = "running" THEN "aborted" ELSE phase
    /\ UNCHANGED <<p, drawn, output, drafts, wire, detok, client, expected>>

CompletionNext == Submit \/ CompileGrammar \/ Step \/ ProcessOutput \/ DropOutput \/ Abort
CompletionSpec == CompletionInit /\ [][CompletionNext]_cvars

------------------------------------------------------------------------------
(* Properties.                                                              *)

\* However the tokens are split into steps, wherever characters are split into
\* tokens, and however far the core runs ahead, nothing sent is ever taken
\* back, and what has been sent at the end is the text that appending one token
\* at a time produces, cut at the first stop string past min_tokens
\* (BaseIncrementalDetokenizer.update, check_stop_strings, get_next_output_text).
StreamIsTheText ==
    /\ IsPrefix(client.text, expected)
    /\ client.reason \in {"stop", "length"} => client.text = expected

\* A constrained completion that ends by itself is a text the constraint
\* admits; one the backend cannot satisfy is refused, cut short or stopped by
\* something the caller named, and says so (generate_for_constraint,
\* compile_grammar, sample_token).
ConformsOrSaysSo ==
    (Constrained /\ p.skip_special_tokens /\ client.reason = "stop" /\ client.stop_reason = <<>>)
        => Satisfies(client.text, p.constraint)

\* A completion whose text a stop string cut ended because of it: "stop", not
\* "length", however the tokens arrived (v1/engine/output_processor.py sets the
\* reason only when the core has given none).
CutMeansStop == client.reason = "length" => client.stop_reason = <<>>
==============================================================================
