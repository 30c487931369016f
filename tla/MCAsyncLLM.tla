------------------------------ MODULE MCAsyncLLM ------------------------------
(* Instances of AsyncLLM for TLC: c1 and its retry c2 use one id, c3 another. *)
EXTENDS AsyncLLM, TLC

CONSTANTS c1, c2, c3

MCIdOf == [c \in Calls |-> IF c = c3 THEN "Y" ELSE "X"]
MCFanout == [c \in Calls |-> IF c = c3 THEN 2 ELSE 1]
MCTwoOutputs == [c \in Calls |-> IF c = c3 THEN 1 ELSE 2]
MCOneOutput == [c \in Calls |-> 1]

==============================================================================
