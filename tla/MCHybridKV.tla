----------------------------- MODULE MCHybridKV ------------------------------
(* Instances of HybridKV for TLC.                                             *)
EXTENDS HybridKV, TLC

CONSTANTS r1, r2, r3

MCCommon == (r1 :> 4) @@ (r2 :> 4) @@ (r3 :> 0)

\* A dense card of two layers, whose device has room to spare.
Card ==
    [num_hidden_layers |-> 2, sliding_window |-> 0, sliding_window_pattern |-> 0, hybrid_override_pattern |-> <<>>,
     num_attention_heads |-> 4, num_key_value_heads |-> 2, head_dim |-> 1, mla_head_size |-> 0,
     mamba_conv_kernel |-> 4, mamba_conv_dim |-> 1, mamba_num_heads |-> 2, mamba_head_state |-> 2,
     embedding_parameters |-> 10, dense_parameters |-> 20, num_experts |-> 0, one_expert |-> 3,
     hidden_size |-> 2, intermediate_size |-> 4, logit_bytes |-> 4]
Settings(card, who, limit) ==
    [card |-> card, sliding_window |-> 0, disable_hybrid |-> FALSE, pp |-> 1, tp |-> 1, ep |-> 1,
     block_size |-> 2, num_gpu_blocks_override |-> 0, memory |-> 1000, utilization |-> 92, overhead |-> 5,
     max_num_seqs |-> 2, max_loras |-> 0, max_lora_rank |-> 1, lora_targets |-> 4,
     clients |-> who, turns |-> limit]
Pool(config, n) == [config EXCEPT !.num_gpu_blocks_override = n]
\* The device that holds n blocks and not one more.
Tight(config, n) ==
    [config EXCEPT !.utilization = 100,
                   !.memory = WeightBytes(config) + ActivationBytes(config) + config.overhead + LoraBytes(config)
                                + n * KVBytesPerBlock(config) + KVBytesPerBlock(config) - 1]

Repeating == [Card EXCEPT !.sliding_window = 3, !.sliding_window_pattern = 2]
Repeated(n) == [Repeating EXCEPT !.num_hidden_layers = n]
Mixed(kinds) == [Card EXCEPT !.num_hidden_layers = Len(kinds), !.hybrid_override_pattern = kinds]
Latent == [Card EXCEPT !.mla_head_size = 3]
Experts == [Repeated(4) EXCEPT !.num_experts = 3]

\* Each pool is the smallest the guard lets through, unless noted.
MCDeployments ==
    {Pool(Settings(Repeating, {r1, r2}, 2), 9),
     \* A block of one token grows to cover a state.
     [Pool(Settings(Mixed(<<"*", "M">>), {r1, r3}, 2), 8) EXCEPT !.block_size = 1],
     [Pool(Settings(Card, {r1, r2}, 3), 5) EXCEPT !.sliding_window = 4],
     Tight(Settings(Repeated(5), {r1}, 1), 13),
     \* Two stages of three and two layers, with adapters and spread experts.
     Tight([Settings([Experts EXCEPT !.num_hidden_layers = 5], {r1}, 1) EXCEPT
               !.pp = 2, !.tp = 2, !.ep = 2, !.max_loras = 1], 13),
     Tight(Settings(Mixed(<<"M", "-", "*", "M">>), {r1}, 1), 13),
     \* The window is promoted to full attention, and a block is not the smallest.
     [Pool(Settings(Repeating, {r1, r2}, 2), 5) EXCEPT !.disable_hybrid = TRUE],
     Tight([Settings(Latent, {r1}, 2) EXCEPT !.tp = 2], 4),
     \* Refused: too small a pool, no memory, an expert
     \* deployment of a dense model, heads that do not divide, more stages than
     \* layers, an override beyond the device, pages that cannot be made equal.
     Pool(Settings(Repeating, {r1}, 2), 8), [Settings(Card, {r1}, 1) EXCEPT !.memory = 80],
     [Settings(Card, {r1}, 1) EXCEPT !.ep = 2],
     [Settings(Card, {r1}, 1) EXCEPT !.tp = 3], [Settings(Card, {r1}, 1) EXCEPT !.pp = 3],
     Pool(Settings(Card, {r1}, 1), 900),
     Settings([Mixed(<<"M", "*">>) EXCEPT !.mla_head_size = 1], {r1}, 1)}

\* A window no shorter than the model, and a card that is windowed throughout, in
\* pools the guard lets through.
MCSpareBlock ==
    {[Pool(Settings(Card, {r1}, 2), 4) EXCEPT !.sliding_window = MaxModelLen],
     Pool(Settings([Card EXCEPT !.sliding_window = 4], {r1}, 2), 4)}

\* A pool fixed by hand next to adapters.
MCAdapters == {[Pool(Settings(Card, {r1}, 1), 45) EXCEPT !.max_loras = 4, !.memory = 900]}

\* Three stages of a pattern, the middle one of which has the full layer.
MCStages == {Tight([Settings([Repeated(7) EXCEPT !.sliding_window_pattern = 4], {r1}, 1) EXCEPT !.pp = 3], 16)}
==============================================================================
