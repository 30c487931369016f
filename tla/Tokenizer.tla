------------------------------ MODULE Tokenizer ------------------------------
(***************************************************************************)
(* The default tokenizer (tokenizers/mock.py).  A text is a sequence of     *)
(* characters.  A token is <<"byte", c, k>>, the k-th byte of character c,  *)
(* where k is 0 when c takes one byte only; <<"word", text>>, an id above   *)
(* the byte range; or <<"special", name>>.                                  *)
(***************************************************************************)
EXTENDS Integers, SequencesExt

CONSTANT Wide       \* the characters that take two bytes

EOS == <<"special", "</s>">>
BOS == <<"special", "<s>">>
Replacement == "U+FFFD"
Least(a, b) == IF a < b THEN a ELSE b
Most(a, b) == IF a < b THEN b ELSE a

Bytes(c) == IF c \in Wide THEN <<<<"byte", c, 1>>, <<"byte", c, 2>>>> ELSE <<<<"byte", c, 0>>>>
Encode(text) == FlattenSeq([i \in DOMAIN text |-> Bytes(text[i])])

\* tokenizer.encode of a prompt, which opens with BOS.
EncodePrompt(text) == <<BOS>> \o Encode(text)

\* Special tokens drop out when they are to be skipped.
ConvertIdsToTokens(ids, skip) == SelectSeq(ids, LAMBDA t : ~(skip /\ t[1] = "special"))

\* Bytes decode together; one that completes no character becomes the
\* replacement character.  The state is the text so far and the byte it holds.
Flushed(d) == IF d.held = <<>> THEN d.text ELSE Append(d.text, Replacement)
Rendering(t) == IF t[1] = "word" THEN t[2] ELSE <<t[2]>>
Decoded(d, t) ==
    IF t[1] = "byte" /\ t[3] = 1 THEN [text |-> Flushed(d), held |-> t]
    ELSE [held |-> <<>>,
          text |-> IF t[1] # "byte" \/ t[3] = 0 THEN Flushed(d) \o Rendering(t)
                   ELSE Append(d.text, IF d.held = <<"byte", t[2], 1>> THEN t[2] ELSE Replacement)]
ConvertTokensToString(tokens) == Flushed(FoldLeft(Decoded, [text |-> <<>>, held |-> <<>>], tokens))
==============================================================================
