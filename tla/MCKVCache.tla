------------------------------ MODULE MCKVCache ------------------------------
(* Instances of KVCache for TLC.                                            *)
EXTENDS KVCache, TLC

CONSTANTS r1, r2, a, b

MCOneTenant == [r \in Requests |-> <<NoKey, NoKey>>]

\* A block and a bit.  Equal prompts share the first block and may go on differently,
\* unequal ones compete for the pool.
MCPrompts == {<<a, a, a>>, <<b, a, a>>}

MCSymmetry == Permutations(Requests)

==============================================================================
