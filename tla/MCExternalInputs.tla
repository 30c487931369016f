-------------------------- MODULE MCExternalInputs ---------------------------
(* Instances of ExternalInputs for TLC.                                       *)
EXTENDS ExternalInputs

CONSTANTS r1, r2, r3, A, B, x, y, z

MCOneTenant == [r \in Requests |-> <<NoKey, NoKey>>]
MCPrompts == {}

\* A deployment without a store: the prompts, the pool, and an encoder cache.
Imaging(p1, p2, p3, num_gpu_blocks, cache_size, encoder_budget) ==
    [prompt |-> [r \in Requests |-> CASE r = r1 -> p1 [] r = r2 -> p2 [] r = r3 -> p3],
     num_gpu_blocks |-> num_gpu_blocks, cache_size |-> cache_size,
     encoder_budget |-> encoder_budget, may_load |-> FALSE, may_save |-> FALSE,
     capacity_blocks |-> 0, elsewhere |-> {}]

\* A deployment of text on a shared store.
StoreSharing(p1, p2, p3, num_gpu_blocks, may_load, may_save, capacity, elsewhere) ==
    [Imaging(p1, p2, p3, num_gpu_blocks, 2, 2) EXCEPT
        !.may_load = may_load, !.may_save = may_save, !.capacity_blocks = capacity,
        !.elsewhere = {<<<<NoKey, NoKey>>, content>> : content \in elsewhere}]

MCDeployments ==
    {\* One image fits; requests need two, one after the other.
     Imaging(<<x, A, A, B, B>>, <<B, B, y, A, A>>, <<A, A, z>>, NumBlocks, 3, 2),
     \* Two fit, one is encoded in a step; a shared image is a hit.
     Imaging(<<A, A, x>>, <<y, A, A, B, B>>, <<B, B, x>>, NumBlocks, 4, 2),
     \* Preemption and blocked heads; one message repeats an image.
     Imaging(<<x, A, A, y>>, <<y, B, B, y>>, <<A, A, z>>, 4, 3, 4),
     Imaging(<<x, A, A, A, A>>, <<y, A, A, y>>, <<A, A>>, 5, 5, 4),
     \* A decode node, a prefill node with a small pool, and one that does both.
     StoreSharing(<<x, x, x, x, x>>, <<y, x, y>>, <<z, z, z>>, NumBlocks, TRUE, FALSE, 2,
                  {<<x, x, x, x>>, <<y, x>>}),
     StoreSharing(<<x, x, x, y>>, <<x, x, y, y>>, <<x, x, x, y>>, 4, FALSE, TRUE, 3, {}),
     StoreSharing(<<x, x, x, y, z>>, <<y, x, x>>, <<>>, NumBlocks, TRUE, TRUE, 3,
                  {<<x, x, x, y>>, <<y, x>>}),
     \* A block that came from the store is a local hit of the next request.
     StoreSharing(<<x, x, y, y, y>>, <<x, x, z, z>>, <<>>, NumBlocks, TRUE, FALSE, 2,
                  {<<x, x>>})}

\* The store goes on where the local prefix cache leaves off.
MCLocalFirst ==
    {StoreSharing(<<x, x, y>>, <<x, x, z, z, x, x>>, <<>>, NumBlocks, TRUE, FALSE, 2,
                  {<<x, x, z, z>>})}

\* A head that waits for blocks and holds an image the running request would evict.
MCHeldHit == {Imaging(<<x, A, A, B, B>>, <<y, A, A>>, <<>>, 3, 3, 2)}
==============================================================================
