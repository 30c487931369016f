CONSTANTS
    Words <- MCWords
    Letters <- MCLetters
    Digits <- MCDigits
    Wide <- MCWide
    Cases <- MCCases
    max_model_len = 24
    num_spec_tokens = 2
    MaxLag = 3
SPECIFICATION CompletionSpec
INVARIANTS
    StreamIsTheText
    ConformsOrSaysSo
CHECK_DEADLOCK FALSE
