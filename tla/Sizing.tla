-------------------------------- MODULE Sizing --------------------------------
(***************************************************************************)
(* From a model card and a deployment's settings to the pool the scheduler  *)
(* is handed: what each layer caches (v1/worker/gpu/attn_utils.py), which   *)
(* pipeline stage is reported, how layers share pages                       *)
(* (v1/core/kv_cache_utils.py), what else the device holds, how many blocks *)
(* are left and whether a request fits (sim/memory.py), and the engine's    *)
(* own reading of the result (v1/engine/core.py).                           *)
(*                                                                         *)
(* Bytes are counted in units of the model's dtype.  0 and <<>> stand for   *)
(* None.                                                                    *)
(***************************************************************************)
EXTENDS SequencesExt, Integers, FiniteSets

CONSTANTS
    MaxModelLen,
    MaxNumBatchedTokens, \* tokens of a step
    KernelAlignment      \* the 16 of _align_hybrid_block_size

SpecTypes == {"full", "window", "state"}
Specs == [type : SpecTypes, window : Nat]
FullSpec == [type |-> "full", window |-> 0]
WindowSpec(w) == [type |-> "window", window |-> w]
StateSpec == [type |-> "state", window |-> 0]

Larger(a, b) == IF a > b THEN a ELSE b
Smaller(a, b) == IF a < b THEN a ELSE b
CeilDiv(a, b) == (a + b - 1) \div b
Greatest(S) == CHOOSE x \in S : \A y \in S : y <= x
Total(s) == FoldLeft(LAMBDA sum, x : sum + x, 0, s)

------------------------------------------------------------------------------
(* What a layer caches.                                                     *)

Hybrid(card) == card.sliding_window # 0 /\ card.sliding_window_pattern # 0
StateSpace(card) == Contains(card.hybrid_override_pattern, "M")

\* The spec of layer i (0-based), as a sequence that is empty for an MLP layer.
LayerSpec(c, i) ==
    LET kind == c.card.hybrid_override_pattern[i + 1] IN
    IF c.sliding_window # 0 THEN <<WindowSpec(c.sliding_window)>>
    ELSE IF StateSpace(c.card)
         THEN IF kind = "M" THEN <<StateSpec>> ELSE IF kind = "*" THEN <<FullSpec>> ELSE <<>>
    ELSE IF c.card.sliding_window = 0 \/ (Hybrid(c.card) /\ c.disable_hybrid) THEN <<FullSpec>>
    ELSE IF Hybrid(c.card) /\ (i + 1) % c.card.sliding_window_pattern = 0 THEN <<FullSpec>>
    ELSE <<WindowSpec(c.card.sliding_window)>>

\* How many layers each pipeline stage holds: the remainder goes to the stages before
\* the last, from the back.
StageSizes(c) ==
    LET rest == c.card.num_hidden_layers % c.pp
    IN  [k \in 1..c.pp |-> (c.card.num_hidden_layers \div c.pp)
                             + (IF c.pp - k \in 1..rest THEN 1 ELSE 0)]
StageSpecs(c, k) ==
    LET start == Total(SubSeq(StageSizes(c), 1, k - 1))
    IN  FlattenSeq([j \in 1..StageSizes(c)[k] |-> LayerSpec(c, start + j - 1)])

------------------------------------------------------------------------------
(* Pages.                                                                   *)

\* get_num_kv_heads, get_head_size: a latent is one, and is not sharded.
HeadBytesPerToken(c) == 2 * Larger(1, c.card.num_key_value_heads \div c.tp) * c.card.head_dim
TokenBytes(c) == IF c.card.mla_head_size # 0 THEN c.card.mla_head_size ELSE HeadBytesPerToken(c)

\* The convolution's ring and the recurrent state of a layer.
StateBytes(c) ==
    (c.card.mamba_conv_kernel - 1) * Larger(1, c.card.mamba_conv_dim \div c.tp)
        + Larger(1, c.card.mamba_num_heads \div c.tp) * c.card.mamba_head_state

\* The block size grows until an attention page covers a state.
BlockSizeOf(c) ==
    LET alignment == Larger(KernelAlignment, c.block_size)
    IN  IF ~StateSpace(c.card) THEN c.block_size
        ELSE Larger(c.block_size, alignment * CeilDiv(StateBytes(c), alignment * HeadBytesPerToken(c)))

\* page_size_bytes: a state is padded to the page of the attention layers.
PageBytes(c, s) == BlockSizeOf(c) * (IF s.type = "state" THEN HeadBytesPerToken(c) ELSE TokenBytes(c))

\* The stage that binds: the first whose layers' pages are the most bytes.
StageBytes(c, k) == Total([j \in DOMAIN StageSpecs(c, k) |-> PageBytes(c, StageSpecs(c, k)[j])])
BindingStage(c) ==
    CHOOSE k \in 1..c.pp :
        \A j \in 1..c.pp : StageBytes(c, j) < StageBytes(c, k) \/ (StageBytes(c, j) = StageBytes(c, k) /\ k <= j)
LayersOfStage(c) == StageSpecs(c, BindingStage(c))

\* unify_page_sizes: only a state's page can be padded further.
CommonPage(c, m) == Greatest({PageBytes(c, s) : s \in Range(m)})
Unifies(c, m) == \A s \in Range(m) : s.type = "state" \/ PageBytes(c, s) = CommonPage(c, m)

------------------------------------------------------------------------------
(* Layers into groups.                                                      *)

\* The buckets of get_kv_cache_groups: the distinct specs, in order of appearance.
Buckets(m) == FoldLeft(LAMBDA seen, s : IF s \in Range(seen) THEN seen ELSE Append(seen, s), <<>>, m)
LayersOf(m, s) == {l \in DOMAIN m : m[l] = s}

GroupCount(n, size) == CeilDiv(n, size)

\* The size of a group: the smallest bucket, or the largest if that is not much more.
GroupSize(m) ==
    LET sizes == {Cardinality(LayersOf(m, s)) : s \in Range(m)}
        least == CHOOSE x \in sizes : \A y \in sizes : x <= y
    IN  IF 2 * Greatest(sizes) < 3 * least THEN Greatest(sizes) ELSE least

\* layers[index::num_groups] of one bucket.
Stripes(m, s) ==
    LET layers == SetToSortSeq(LayersOf(m, s), <)
        size == IF Len(Buckets(m)) = 1 THEN Len(layers) ELSE GroupSize(m)
        count == GroupCount(Len(layers), size)
    IN  [index \in 1..count |->
            [spec |-> s, layers |-> {layers[k] : k \in {j \in DOMAIN layers : (j - index) % count = 0}}]]

GetKVCacheGroups(m) == FlattenSeq([b \in DOMAIN Buckets(m) |-> Stripes(m, Buckets(m)[b])])
LayersPerGroup(m) == Greatest({Cardinality(GetKVCacheGroups(m)[k].layers) : k \in DOMAIN GetKVCacheGroups(m)})

------------------------------------------------------------------------------
(* What the device holds.                                                   *)

BusiestStage(c) == CeilDiv(c.card.num_hidden_layers, c.pp)

\* Embeddings are whole on every rank, experts are owned whole when they are spread.
WeightBytes(c) ==
    LET experts == IF c.ep > 1 /\ c.card.num_experts > 0
                   THEN c.card.num_hidden_layers * CeilDiv(c.card.num_experts, c.ep) * c.card.one_expert
                   ELSE (c.card.num_hidden_layers * c.card.num_experts * c.card.one_expert) \div c.tp
        model == c.card.embedding_parameters + (c.card.dense_parameters \div c.tp) + experts
    IN  (model * BusiestStage(c)) \div c.card.num_hidden_layers

ActivationBytes(c) ==
    MaxNumBatchedTokens * (c.card.hidden_size * 6 + (c.card.intermediate_size \div c.tp) * 2)
        + c.max_num_seqs * c.card.logit_bytes

\* One of an adapter's two matrices is sharded, the other is whole.
LoraBytes(c) ==
    LET half == c.max_lora_rank * c.card.hidden_size
    IN  ((half \div c.tp) + half) * c.lora_targets * BusiestStage(c) * c.max_loras

\* A block is a page in each layer of a group.
KVBytesPerBlock(c) == CommonPage(c, LayersOfStage(c)) * LayersPerGroup(LayersOfStage(c))

KVPoolBytes(c) ==
    (c.memory * c.utilization) \div 100 - WeightBytes(c) - ActivationBytes(c) - c.overhead - LoraBytes(c)
ProfiledBlocks(c) ==
    IF c.num_gpu_blocks_override # 0 THEN c.num_gpu_blocks_override ELSE KVPoolBytes(c) \div KVBytesPerBlock(c)

\* What the ledger is asked for; the adapters are not among it.
ClaimedBytes(c) ==
    WeightBytes(c) + ActivationBytes(c) + c.overhead + ProfiledBlocks(c) * KVBytesPerBlock(c)
LedgerAccepts(c) == ClaimedBytes(c) <= c.memory

------------------------------------------------------------------------------
(* The start-up guard.                                                      *)

\* Mutant: the window at rest, without the step that lands on top of it.
RestingWindow(window, block_size) == CeilDiv(window - 1, block_size) + 1

\* windowed_blocks_for_one_request.
WindowedBlocks(window, block_size) ==
    CeilDiv(Smaller(window - 1 + MaxNumBatchedTokens, MaxModelLen), block_size) + 1

\* state_blocks_for_one_request.
StateBlocks(block_size) ==
    Smaller(1 + CeilDiv(Smaller(MaxNumBatchedTokens, MaxModelLen), block_size),
            CeilDiv(MaxModelLen, block_size))

\* compute_memory_profile: is a group charged as one that sheds?  A single group is,
\* if the deployment's flag, not the card, gives it a window.
ChargedWindow(c, gs, s) == IF Len(gs) > 1 THEN s.window ELSE c.sliding_window
Sheds(c, gs, s) == \/ ChargedWindow(c, gs, s) \in 1..(MaxModelLen - 1)
                   \/ s.type = "state" /\ Len(gs) > 1
BlocksForOneRequest(c, gs) ==
    Total([k \in DOMAIN gs |->
        IF ~Sheds(c, gs, gs[k].spec) THEN CeilDiv(MaxModelLen, BlockSizeOf(c))
        ELSE IF gs[k].spec.type = "state" THEN StateBlocks(BlockSizeOf(c))
        ELSE WindowedBlocks(ChargedWindow(c, gs, gs[k].spec), BlockSizeOf(c))])
GuardPasses(c, gs) ==
    ProfiledBlocks(c) - (IF \E k \in DOMAIN gs : Sheds(c, gs, gs[k].spec) THEN 1 ELSE 0)
        >= BlocksForOneRequest(c, gs)

\* Worker.init_device, the profile and the ledger let a deployment start.
Starts(c) ==
    /\ c.tp > 1 => c.card.num_attention_heads % c.tp = 0 /\ c.card.num_key_value_heads % c.tp = 0
    /\ c.ep > 1 => c.card.num_experts > 0
    /\ c.pp <= c.card.num_hidden_layers
    /\ LayersOfStage(c) # <<>> /\ Unifies(c, LayersOfStage(c))
    /\ KVPoolBytes(c) > 0
    /\ GuardPasses(c, GetKVCacheGroups(LayersOfStage(c)))
    /\ LedgerAccepts(c)

\* The engine divides what the worker reports by its own idea of a block.
EngineBlockBytes(c) ==
    LET gs == GetKVCacheGroups(LayersOfStage(c))
    IN  CommonPage(c, LayersOfStage(c)) * Greatest({Cardinality(gs[k].layers) : k \in DOMAIN gs})
EngineBlocks(c) == (ProfiledBlocks(c) * KVBytesPerBlock(c)) \div EngineBlockBytes(c)
==============================================================================
