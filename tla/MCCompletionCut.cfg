CONSTANTS
    Words <- MCWords
    Letters <- MCLetters
    Digits <- MCDigits
    Wide <- MCWide
    Cases <- MCCases
    max_model_len = 24
    num_spec_tokens = 2
    MaxLag = 3
SPECIFICATION CompletionSpec
INVARIANT
    CutMeansStop
CHECK_DEADLOCK FALSE
