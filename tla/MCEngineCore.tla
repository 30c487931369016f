----------------------------- MODULE MCEngineCore -----------------------------
(* Instances of EngineCore for TLC.                                         *)
EXTENDS EngineCore, TLC

CONSTANTS r1, r2, r3, a, e

MCExtraKeys == [r \in Requests |-> <<NoKey, NoKey>>]
\* The second one is only for a pooling request: it leaves no room for a token.
MCPooledPrompts == {<<a>>, <<a, a, a, a>>}
MCMixedPrompts == {<<a>>, <<e, a, a>>}
MCRoomyPrompts == {<<a>>, <<e, a>>}
MCShortPrompts == {<<a>>}
MCNoPriority == [r \in Requests |-> 0]
MCPriority == [r \in Requests |-> IF r = r1 THEN 1 ELSE IF r = r2 THEN 2 ELSE 3]
MCNoLora == [r \in Requests |-> NoLora]
MCLora == [r \in Requests |-> IF r = r1 THEN "A" ELSE "B"]
\* r1 is another tenant's: its cache salt enters the hash of its first block.
MCOneSalt == [r \in Requests |-> <<IF r = r1 THEN <<"salt">> ELSE NoKey, NoKey>>]
\* r1 runs under an adapter, the others with a salt of the same name.
MCOneAdapter == [r \in Requests |-> IF r = r1 THEN "A" ELSE NoLora]
MCSaltLikeAdapter ==
    [r \in Requests |-> <<<<"A">>, IF r = r1 THEN <<"A">> ELSE NoKey>>]
MCSymmetry == Permutations({r2, r3})

==============================================================================
