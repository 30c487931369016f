CONSTANTS
    Words <- MCWords
    Letters <- MCLetters
    Digits <- MCDigits
    Wide <- MCWide
    Cases <- MCDivergent
    max_model_len = 24
    num_spec_tokens = 2
    MaxLag = 3
SPECIFICATION CompletionSpec
INVARIANT
    ConformsOrSaysSo
CHECK_DEADLOCK FALSE
