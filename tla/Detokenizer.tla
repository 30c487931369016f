----------------------------- MODULE Detokenizer -----------------------------
(***************************************************************************)
(* Incremental detokenization (tokenizers/detokenizer_utils.py) and stop    *)
(* strings (v1/engine/detokenizer.py), as operators on the state of one     *)
(* request's detokenizer.  p is the request's sampling parameters.          *)
(***************************************************************************)
EXTENDS Tokenizer

INITIAL_OFFSET == 5

\* convert_prompt_ids_to_tokens: only the tail of the prompt is context.
NewDetokenizer(prompt, p) ==
    LET tail == SubSeq(prompt, Most(1, Len(prompt) - INITIAL_OFFSET - 1), Len(prompt))
        tokens == ConvertIdsToTokens(tail, p.skip_special_tokens)
    IN [token_ids |-> <<>>, tokens |-> tokens, read_offset |-> Len(tokens),
        prefix_offset |-> Most(Len(tokens) - INITIAL_OFFSET, 0), output_text |-> <<>>, last_offset |-> 0]

\* Decode the newest token in context: the window is decoded with and without
\* it, and the offsets advance only when text comes out.
WindowText(tokens, from, to) == ConvertTokensToString(SubSeq(tokens, from + 1, to))
Advance(d, prefix_text, new_text) ==
    IF Len(new_text) <= Len(prefix_text) \/ Last(new_text) = Replacement THEN d
    ELSE [d EXCEPT !.output_text = @ \o SubSeq(new_text, Len(prefix_text) + 1, Len(new_text)),
                   !.prefix_offset = d.read_offset, !.read_offset = Len(d.tokens)]
DecodeNext(d, id, p) ==
    LET read == [d EXCEPT !.token_ids = Append(@, id),
                          !.tokens = @ \o ConvertIdsToTokens(<<id>>, p.skip_special_tokens)]
    IN Advance(read, WindowText(read.tokens, d.prefix_offset, d.read_offset),
                     WindowText(read.tokens, d.prefix_offset, Len(read.tokens)))

------------------------------------------------------------------------------
(* Stop strings.                                                            *)

\* Where a stop string starts, searching from an offset.
Occurrences(text, s, from) ==
    {i \in Most(0, from)..(Len(text) - Len(s)) : SubSeq(text, i + 1, i + Len(s)) = s}

\* Mutant: the search begins at the first new character.
SearchFromNew(text, new_char_count, s) == Len(text) - new_char_count

\* Far enough back for a stop string that straddles old and new text.
SearchFrom(text, new_char_count, s) == Len(text) - new_char_count - Len(s) + 1

\* The match that ends first, ties broken by the order of the list, as
\* <<place in the list, start>>; <<>> when there is none.
EndsFirst(matches, stop) ==
    LET End(m) == m[2] + Len(stop[m[1]])
    IN CHOOSE m \in matches : \A o \in matches : End(m) < End(o) \/ (End(m) = End(o) /\ m[1] <= o[1])
CheckStopStrings(text, new_char_count, stop) ==
    LET At(k) == Occurrences(text, stop[k], SearchFrom(text, new_char_count, stop[k]))
        found == {k \in DOMAIN stop : At(k) # {}}
    IN IF new_char_count = 0 \/ found = {} THEN <<>>
       ELSE EndsFirst({<<k, Min(At(k))>> : k \in found}, stop)

\* Absorb new tokens; text up to min_tokens is outside the search.
Absorb(d, ids, p) ==
    LET Take(acc, id) ==
            LET next == DecodeNext(acc.d, id, p) IN
            [d |-> next, from |-> IF Len(next.token_ids) <= p.min_tokens THEN Len(next.output_text) ELSE acc.from]
    IN FoldLeft(Take, [d |-> d, from |-> Len(d.output_text)], ids)
CutAt(d, match, p) ==
    IF match = <<>> THEN [d |-> d, stop |-> <<>>]
    ELSE [d |-> [d EXCEPT !.output_text =
                    SubSeq(@, 1, match[2] + (IF p.include_stop_str_in_output THEN Len(p.stop[match[1]]) ELSE 0))],
          stop |-> p.stop[match[1]]]
Searched(d, from, p) ==
    CutAt(d, IF Len(d.token_ids) <= p.min_tokens THEN <<>>
             ELSE CheckStopStrings(d.output_text, Len(d.output_text) - from, p.stop), p)

\* One frame's tokens.  The token that stopped the request is recorded but not
\* rendered.
Update(d, new_token_ids, stop_terminated, p) ==
    IF new_token_ids = <<>> THEN [d |-> d, stop |-> <<>>]
    ELSE IF stop_terminated /\ ~p.include_stop_str_in_output
    THEN LET read == Absorb(d, Front(new_token_ids), p)
         IN Searched([read.d EXCEPT !.token_ids = Append(@, Last(new_token_ids))], read.from, p)
    ELSE LET read == Absorb(d, new_token_ids, p) IN Searched(read.d, read.from, p)

\* Characters that might still become a stop string and so are not sent.
StopBufferLength(p) ==
    IF p.stop = <<>> \/ p.include_stop_str_in_output THEN 0
    ELSE Max({Len(p.stop[k]) : k \in DOMAIN p.stop}) - 1
Sendable(d, finished, p) ==
    Most(0, Len(d.output_text) - (IF finished THEN 0 ELSE StopBufferLength(p)))
NextOutputText(d, finished, p) ==
    SubSeq(d.output_text, IF p.delta THEN d.last_offset + 1 ELSE 1, Sendable(d, finished, p))
\* What has been handed out, for a stream of deltas.
HandedOut(d, finished, p) ==
    IF p.delta THEN [d EXCEPT !.last_offset = Most(@, Sendable(d, finished, p))] ELSE d
==============================================================================
