---------------------------- MODULE MCCompletion ----------------------------
(* Instances of Completion for TLC: free text with stop strings, and          *)
(* constrained completions over schemas, choices and patterns.                *)
EXTENDS Completion

MCWords == {<<"o", "k">>, <<"y", "e", "s">>}
MCLetters == {"a", "b"}
MCDigits == {"0", "1"}
MCWide == {"e'"}

------------------------------------------------------------------------------
(* Free text: pseudo-words that repeat, so that stop strings overlap tokens. *)

Ba == <<"word", <<"b", "a">>>>
Na == <<"word", <<"n", "a">>>>
Plain ==
    [prompt |-> EncodePrompt(<<"h", "i">>), constraint |-> Unconstrained, content |-> <<Ba, Na, Na>>,
     policy_length |-> 9, max_tokens |-> 6, min_tokens |-> 0, stop |-> <<>>, stop_token_ids |-> {},
     include_stop_str_in_output |-> FALSE, ignore_eos |-> FALSE, skip_special_tokens |-> TRUE,
     delta |-> TRUE, detokenize |-> TRUE, in_range |-> TRUE]
StopLists == <<<<<<"a", "n">>>>, <<<<"n", "a", "b">>, <<"a", "n">>>>, <<<<"n", "a", "n">>, <<"a">>>>,
               <<<<"z">>>>, <<<<"a", "b", "a", "n", "a", "n">>>>, <<<<"a", "b", "a", "n">>, <<"n", "a", "n", "a">>>>>>
Variants(stop) ==
    LET With(delta, m, include) == [Plain EXCEPT !.stop = stop, !.delta = delta, !.min_tokens = m,
                                                !.include_stop_str_in_output = include]
    IN <<With(TRUE, 0, FALSE), With(TRUE, 2, FALSE), With(TRUE, 0, TRUE), With(TRUE, 2, TRUE), With(FALSE, 2, FALSE)>>
Stopped == FlattenSeq([i \in DOMAIN StopLists |-> Variants(StopLists[i])])
Others ==
    <<Plain,
      [Plain EXCEPT !.policy_length = 4],
      [Plain EXCEPT !.policy_length = 2, !.min_tokens = 4],
      [Plain EXCEPT !.policy_length = 2, !.min_tokens = 4, !.skip_special_tokens = FALSE, !.stop = <<<<"</s>", "</s>">>>>],
      [Plain EXCEPT !.policy_length = 3, !.ignore_eos = TRUE],
      [Plain EXCEPT !.stop_token_ids = {Na}, !.min_tokens = 3],
      [Plain EXCEPT !.stop_token_ids = {Na}, !.include_stop_str_in_output = TRUE, !.delta = FALSE],
      [Plain EXCEPT !.max_tokens = NoLimit, !.stop = <<<<"n", "a", "n">>>>],
      \* Refused before they reach the engine.
      [Plain EXCEPT !.max_tokens = 0], [Plain EXCEPT !.min_tokens = 7], [Plain EXCEPT !.max_tokens = 40],
      [Plain EXCEPT !.prompt = <<>>], [Plain EXCEPT !.stop = <<<<"a">>>>, !.detokenize = FALSE],
      [Plain EXCEPT !.in_range = FALSE],
      \* A prompt of token ids that ends inside a character.
      [Plain EXCEPT !.prompt = Append(Encode(<<"a", "b", "a", "b", "a", "b", "a">>), <<"byte", "e'", 1>>)]>>

------------------------------------------------------------------------------
(* Constraints.                                                             *)

Of(type) == [type |-> <<type>>]
Property(name, s) == <<name, s>>
Object(properties, required) == [type |-> <<"object">>, properties |-> properties, required |-> required]
Number(n) == <<"integer", n>>
Loop == [ref |-> "node",
         defs |-> [node |-> Object(<<Property("next", [ref |-> "node"])>>, {"next"})]]
Schemas ==
    <<AnyObject,
      Object(<<Property("name", Of("string")), Property("n", Of("integer"))>>, {"name"}),
      Object(<<Property("n", Of("null"))>>, {"m"}),
      [ref |-> "item", defs |-> [item |-> Of("boolean")]],
      [ref |-> "gone", defs |-> [item |-> Of("boolean")]],
      Loop,
      [const |-> String(<<"e'">>)],
      [enum |-> <<String(<<"a">>), Number(3)>>], [enum |-> <<>>],
      [anyOf |-> <<Of("integer"), Of("null")>>], [oneOf |-> <<Of("null"), Of("integer")>>], [anyOf |-> <<>>],
      [allOf |-> <<Object(<<Property("a", Of("null"))>>, {"a"}), Object(<<Property("b", Of("null"))>>, {"b"})>>],
      [allOf |-> <<Object(<<Property("a", Of("null"))>>, {"a"}), Of("null")>>],
      [type |-> <<"integer">>, multipleOf |-> 10], [type |-> <<"null", "string">>], [type |-> <<"thing">>],
      [type |-> <<"array">>], [type |-> <<"array">>, maxItems |-> 0],
      [type |-> <<"array">>, items |-> Of("boolean"), minItems |-> 0, maxItems |-> 2],
      [type |-> <<"integer">>, maximum |-> -5000], [type |-> <<"integer">>, minimum |-> 1500],
      [type |-> <<"integer">>, exclusiveMinimum |-> 0, exclusiveMaximum |-> 2000],
      [type |-> <<"integer">>, minimum |-> 2000, maximum |-> 1000],
      [type |-> <<"number">>, exclusiveMinimum |-> 0, maximum |-> 500],
      [type |-> <<"string">>, minLength |-> 4, maxLength |-> 5],
      [type |-> <<"string">>, maxLength |-> 1], [type |-> <<"string">>, minLength |-> 2, maxLength |-> 1],
      [type |-> <<"string">>, format |-> "date"], [type |-> <<"string">>, format |-> "uuid", maxLength |-> 1],
      [type |-> <<"string">>, minLength |-> 2, pattern |-> <<"*", <<"char", "a">>>>]>>
Patterns ==
    <<<<"seq", <<<<"char", "e'">>, <<"+", <<"escape", "d">>>>>>>>,
      <<"alt", <<<<"?", <<"char", "a">>>>, <<"{}", <<"class", {"a", "b"}>>, 2, 2>>>>>>,
      <<"seq", <<<<"not in", {"a"}>>, <<"dot">>, <<"escape", "W">>, <<"{,}", <<"char", "b">>, 1>>>>>>,
      <<"not in", {"a", "b", "0", "1"}>>, <<"{}", <<"char", "a">>, 2, 1>>,
      <<"seq", <<<<"char", "a">>, <<"unsupported">>>>>>>>
Constraints ==
    [i \in DOMAIN Schemas |-> <<"json", Schemas[i]>>]
    \o [i \in DOMAIN Patterns |-> <<"regex", Patterns[i]>>]
    \o <<<<"json_object">>, <<"choice", <<<<"a", "e'">>, <<"e'", "e'", "b">>>>>>, <<"choice", <<>>>>,
         <<"grammar">>, <<"structural_tag">>>>
Bound(c) == [Plain EXCEPT !.constraint = c, !.max_tokens = 20]
Wides == <<"choice", <<<<"a", "e'", "b", "e'">>>>>>
ConstrainedCases ==
    [i \in DOMAIN Constraints |-> Bound(Constraints[i])]
    \o <<[Bound(Wides) EXCEPT !.max_tokens = 2], [Bound(Wides) EXCEPT !.max_tokens = 6, !.delta = FALSE],
         [Bound(Wides) EXCEPT !.min_tokens = 8], [Bound(Wides) EXCEPT !.stop = <<<<"e'", "b">>>>],
         [Bound(Wides) EXCEPT !.stop_token_ids = {<<"byte", "b", 0>>}], [Bound(Wides) EXCEPT !.ignore_eos = TRUE, !.max_tokens = 9],
         [Bound(<<"choice", <<<<"b", "a">>>>>>) EXCEPT
            !.prompt = Append(Encode(<<"a", "b", "a", "b", "a", "b", "a">>), <<"byte", "e'", 1>>)]>>
MCCases == Stopped \o Others \o ConstrainedCases

------------------------------------------------------------------------------
(* Schemas whose keywords the generator lets one another hide.              *)

Divergent ==
    <<[type |-> <<"object">>, additionalProperties |-> FALSE],
      [type |-> <<"string">>, enum |-> <<Number(3)>>],
      [oneOf |-> <<Of("integer"), Of("number")>>],
      [allOf |-> <<Object(<<Property("a", Of("null"))>>, {"a"}), Object(<<Property("a", Of("boolean"))>>, {"a"})>>]>>
MCDivergent == [i \in DOMAIN Divergent |-> Bound(<<"json", Divergent[i]>>)]
==============================================================================
