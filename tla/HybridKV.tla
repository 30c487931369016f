------------------------------- MODULE HybridKV -------------------------------
(***************************************************************************)
(* The KV cache of a model whose layers do not all attend alike: layers     *)
(* split into groups (v1/core/kv_cache_utils.py), one manager per group     *)
(* (v1/core/single_type_kv_cache_manager.py) over one pool with a null      *)
(* block, the coordinator that makes them answer together                   *)
(* (v1/core/kv_cache_coordinator.py), and the start-up guard that promises  *)
(* a request will fit (sim/memory.py).                                      *)
(*                                                                         *)
(* The environment is the scheduler: a step schedules some requests, then   *)
(* its result comes back with some drafts rejected.  Requests may be        *)
(* released at any time.  The first Common[r] tokens of a request are those *)
(* of one prefix, so block i of a request is hashed by its owner and i.     *)
(***************************************************************************)
EXTENDS Sizing

CONSTANTS
    Requests,
    Deployments,  \* a model card, the settings it is served with, who asks, and the
                  \* bound on admissions
    PromptLens,
    Common,       \* how many tokens of a request are those of the common prefix
    MaxDrafts,    \* drafts verified in a step
    MaxExternal,  \* tokens a KV connector may supply beyond a hit
    NoHash

ASSUME HybridAssumption ==
    /\ IsFiniteSet(Requests)
    /\ {KernelAlignment, MaxModelLen, MaxNumBatchedTokens} \subseteq Nat \ {0}
    /\ \A d \in Deployments :
         /\ {d.pp, d.tp, d.ep, d.block_size, d.card.num_hidden_layers} \subseteq Nat \ {0}
         /\ d.clients \subseteq Requests /\ d.turns \in Nat
    /\ PromptLens \subseteq 1..(MaxModelLen - 1)
    /\ Common \in [Requests -> Nat] /\ MaxDrafts \in Nat /\ MaxExternal \in Nat

VARIABLES
    groups,   \* KVCacheConfig.kv_cache_groups: sequence of [spec, layers]
    deployed, \* what start-up resolved: the configuration, the layers of the stage
              \* that is reported, the block size, the blocks
    pool,     \* BlockPool: ref_cnt, block_hash, free_block_queue
    table,    \* req_to_blocks of each group's manager
    ntok,     \* Request.num_tokens; 0 for a request that is not there
    computed, \* Request.num_computed_tokens
    flight,   \* what the step under way runs of a request: tokens, drafts
    crashed,  \* get_new_blocks has raised
    turns     \* admissions so far

hvars == <<groups, deployed, pool, table, ntok, computed, flight, crashed, turns>>

NullBlock == 0
Idle == [new |-> 0, drafts |-> 0]
BlockSize == deployed.block_size

------------------------------------------------------------------------------
(* Start-up.                                                                *)

\* KVCacheManager.__init__: the null block is taken out of the pool of a model with a
\* group that skips.
HasSkippingGroups(gs) == \E k \in DOMAIN gs : gs[k].spec.type # "full"
FreshPool(gs, num_gpu_blocks) ==
    LET usable == IF HasSkippingGroups(gs) THEN num_gpu_blocks - 1 ELSE num_gpu_blocks
    IN  [ref_cnt |-> [b \in 1..usable |-> 0],
         block_hash |-> [b \in 1..usable |-> NoHash],
         free_block_queue |-> [i \in 1..usable |-> i]]

HybridInit ==
    /\ \E c \in Deployments :
         /\ Starts(c)
         /\ deployed = [config |-> c, layers |-> LayersOfStage(c), block_size |-> BlockSizeOf(c),
                        num_gpu_blocks |-> EngineBlocks(c)]
    /\ groups = GetKVCacheGroups(deployed.layers)
    /\ pool = FreshPool(groups, deployed.num_gpu_blocks)
    /\ table = [r \in Requests |-> [g \in DOMAIN groups |-> <<>>]]
    /\ ntok = [r \in Requests |-> 0]
    /\ computed = [r \in Requests |-> 0]
    /\ flight = [r \in Requests |-> Idle]
    /\ crashed = FALSE
    /\ turns = 0

------------------------------------------------------------------------------
(* The prefix cache.                                                        *)

GroupIds == DOMAIN groups
SpecOf(g) == groups[g].spec
Blocks == DOMAIN pool.ref_cnt

\* make_block_hash_with_group_id.
Key(g, r, i) == <<g, IF i * BlockSize <= Common[r] THEN "common" ELSE r, i>>
Cached(g, r, i) == \E b \in Blocks : pool.block_hash[b] = Key(g, r, i)
CachedBlock(g, r, i) == CHOOSE b \in Blocks : pool.block_hash[b] = Key(g, r, i)

\* The blocks of a run that covers the window of the next token.
BlocksInWindow(s) == Larger(1, CeilDiv(s.window - 1, BlockSize))
FirstOfRun(s, e) == Larger(1, e - BlocksInWindow(s) + 1)

\* find_longest_cache_hit of SlidingWindowManager: the last run that covers the window,
\* else the run at the start.
WindowHit(g, r, max_blocks) ==
    Greatest({0} \cup {e \in 1..max_blocks : \A i \in FirstOfRun(SpecOf(g), e)..e : Cached(g, r, i)})

\* Of FullAttentionManager: the run at the start; of MambaManager: the newest state.
FullHit(g, r, max_blocks) ==
    Greatest({0} \cup {e \in 1..max_blocks : \A i \in 1..e : Cached(g, r, i)})
StateHit(g, r, max_blocks) == Greatest({0} \cup {e \in 1..max_blocks : Cached(g, r, e)})

HitBlocks(g, r, max_length) ==
    LET max_blocks == max_length \div BlockSize
    IN  CASE SpecOf(g).type = "full"   -> FullHit(g, r, max_blocks)
          [] SpecOf(g).type = "window" -> WindowHit(g, r, max_blocks)
          [] SpecOf(g).type = "state"  -> StateHit(g, r, max_blocks)

\* The first block of a hit of n blocks that is not the null block.
FirstHeld(g, n) ==
    CASE SpecOf(g).type = "full"   -> 1
      [] SpecOf(g).type = "window" -> FirstOfRun(SpecOf(g), n)
      [] SpecOf(g).type = "state"  -> n

\* One pass of KVCacheCoordinator.find_longest_cache_hit: every group in turn accepts
\* the length or shortens it.
Pass(r, length) ==
    FoldLeft(LAMBDA current, g : HitBlocks(g, r, current) * BlockSize, length, [g \in GroupIds |-> g])

\* Mutant: groups look up on their own, and the least of their lengths is taken.
LeastHit(r, max_length) ==
    FoldLeft(LAMBDA least, g : Smaller(least, HitBlocks(g, r, max_length) * BlockSize), max_length, [g \in GroupIds |-> g])

\* Passes are repeated until nobody shortens it.
JointHit(r, max_length) ==
    LET settled[length \in 0..max_length] ==
            IF Pass(r, length) >= length THEN length ELSE settled[Pass(r, length)]
    IN  settled[max_length]

\* The blocks each group adopts for it.
Hits(r, length) ==
    [g \in GroupIds |->
        [i \in 1..(length \div BlockSize) |->
            IF i < FirstHeld(g, length \div BlockSize) THEN NullBlock ELSE CachedBlock(g, r, i)]]

\* KVCacheManager.get_computed_blocks: at least one token is left to compute.
ComputedTokens(r) == JointHit(r, ntok[r] - 1)

------------------------------------------------------------------------------
(* Allocation.                                                              *)

\* get_num_skipped_tokens.
SkippedTokens(s, n) ==
    CASE s.type = "full"   -> 0
      [] s.type = "window" -> Larger(0, n - s.window)
      [] s.type = "state"  -> n - 1

RequiredBlocks(num_tokens) == CeilDiv(Smaller(num_tokens, MaxModelLen), BlockSize)

\* Mutant: a hit nobody holds is not counted as taken from the queue.
ChargeNewOnly(g, r, num_tokens, hit, total) ==
    Larger(0, RequiredBlocks(num_tokens) - Larger(SkippedTokens(SpecOf(g), total) \div BlockSize,
                                                   Len(hit) + Len(table[r][g])))

\* SingleTypeKVCacheManager.get_num_blocks_to_allocate.
Charge(g, r, num_tokens, hit, total) ==
    LET skipped == SkippedTokens(SpecOf(g), total) \div BlockSize
        local   == Len(hit) + Len(table[r][g])
        unread  == Larger(0, skipped - Len(table[r][g]))
    IN  Larger(0, RequiredBlocks(num_tokens) - Larger(skipped, local))
          + Cardinality({i \in DOMAIN hit : i > unread /\ hit[i] # NullBlock
                                              /\ pool.ref_cnt[hit[i]] = 0})

\* The coordinator's sum, before anything is mutated.
TotalCharge(r, num_tokens, hits, total) ==
    FoldLeft(LAMBDA sum, g : sum + Charge(g, r, num_tokens, hits[g], total), 0, [g \in GroupIds |-> g])
Fits(r, num_tokens, hits, total) ==
    TotalCharge(r, num_tokens, hits, total) <= Len(pool.free_block_queue)

\* allocate_new_blocks takes what the table lacks.
Lacking(held, num_tokens) == Larger(0, RequiredBlocks(num_tokens) - Len(held))

\* BlockPool.touch and get_new_blocks: p after `hit' is adopted and `taken' popped.
Take(p, hit, taken) ==
    [ref_cnt |-> [b \in Blocks |-> IF b \in hit \cup taken THEN p.ref_cnt[b] + 1 ELSE p.ref_cnt[b]],
     block_hash |-> [b \in Blocks |-> IF b \in taken THEN NoHash ELSE p.block_hash[b]],
     free_block_queue |-> SelectSeq(p.free_block_queue, LAMBDA b : b \notin hit \cup taken)]

\* KVCacheManager.allocate_slots when the charge is met: adopt the hits, take the
\* missing blocks group by group, publish every block of known tokens that the step
\* fills.  total is num_computed_tokens with the hits, num_tokens the same plus new.
AllocateSlots(r, num_tokens, hits, total) ==
    LET hit     == UNION {Range(hits[g]) : g \in GroupIds} \ {NullBlock}
        free    == SelectSeq(pool.free_block_queue, LAMBDA b : b \notin hit)
        held    == [g \in GroupIds |-> IF hit = {} THEN table[r][g] ELSE hits[g]]
        before(g) == FoldLeft(LAMBDA sum, k : sum + (IF k < g THEN Lacking(held[k], num_tokens) ELSE 0),
                              0, [k \in GroupIds |-> k])
        new     == [g \in GroupIds |-> SubSeq(free, before(g) + 1, before(g) + Lacking(held[g], num_tokens))]
        tables  == [g \in GroupIds |-> held[g] \o new[g]]
        taken   == UNION {Range(new[g]) : g \in GroupIds}
        after   == Take(pool, hit, taken)
        full    == Smaller(num_tokens, ntok[r]) \div BlockSize
        filled(b) == {<<g, i>> \in GroupIds \X (1..full) : i <= Len(tables[g]) /\ tables[g][i] = b}
    IN  IF before(Len(groups) + 1) > Len(free)
        THEN crashed' = TRUE /\ UNCHANGED <<pool, table>>
        ELSE /\ table' = [table EXCEPT ![r] = tables]
             /\ pool' = [after EXCEPT !.block_hash =
                           [b \in Blocks |->
                              IF @[b] = NoHash /\ filled(b) # {}
                              THEN LET at == CHOOSE x \in filled(b) : TRUE IN Key(at[1], r, at[2])
                              ELSE @[b]]]
             /\ UNCHANGED crashed

------------------------------------------------------------------------------
(* Release.                                                                 *)

\* BlockPool.free_blocks, of blocks in eviction order; the null block is nobody's.
Free(p, ordered) ==
    LET blocks   == SelectSeq(ordered, LAMBDA b : b # NullBlock)
        released == {b \in Range(blocks) : p.ref_cnt[b] = 1}
        unhashed == {b \in released : p.block_hash[b] = NoHash}
    IN  [p EXCEPT !.ref_cnt = [b \in Blocks |-> IF b \in Range(blocks) THEN @[b] - 1 ELSE @[b]],
                  !.free_block_queue = SelectSeq(blocks, LAMBDA b : b \in unhashed) \o @
                                         \o SelectSeq(blocks, LAMBDA b : b \in released \ unhashed)]

\* KVCacheCoordinator.free, group by group, each tail first.
FreeRequest(p, r) == FoldLeft(LAMBDA q, g : Free(q, Reverse(table[r][g])), p, [g \in GroupIds |-> g])
NoBlocks == [g \in GroupIds |-> <<>>]

\* remove_skipped_blocks: the head a group no longer reads.
Dead(s, held, n) == 1..Smaller(SkippedTokens(s, n) \div BlockSize, Len(held))
Shed(p, held, dead) ==
    Free(p, Reverse([i \in DOMAIN held |-> IF i \in dead THEN held[i] ELSE NullBlock]))

\* Mutant: the head is freed and stays in the table.
EmptiedNot(held, dead) == held
Emptied(held, dead) == [i \in DOMAIN held |-> IF i \in dead THEN NullBlock ELSE held[i]]

------------------------------------------------------------------------------
(* Steps.                                                                   *)

Arrive(r) ==
    /\ r \in deployed.config.clients /\ ntok[r] = 0
    /\ \E n \in PromptLens : ntok' = [ntok EXCEPT ![r] = n]
    /\ UNCHANGED <<groups, deployed, pool, table, computed, flight, crashed, turns>>

InFlight == FoldSet(LAMBDA r, sum : sum + flight[r].new, 0, Requests)
TokenBudget == MaxNumBatchedTokens - InFlight

\* A request is scheduled: num_tokens_with_spec decides how much, the budget, a chunk
\* threshold and the length cap make it less, and drafts only follow the last known
\* token.  Schedule-time bookkeeping counts the drafts as computed.
Schedule(r, hits, total) == \E new \in 1..TokenBudget, drafts \in 0..MaxDrafts :
    /\ new <= ntok[r] + drafts - total /\ new <= MaxModelLen - total
    /\ drafts > 0 => computed[r] > 0 /\ new = ntok[r] + drafts - total
    /\ Fits(r, total + new, hits, total)
    /\ AllocateSlots(r, total + new, hits, total)
    /\ computed' = [computed EXCEPT ![r] = total + new]
    /\ flight' = [flight EXCEPT ![r] = [new |-> new, drafts |-> drafts]]
    /\ UNCHANGED <<groups, deployed, ntok>>

\* From the waiting queue, with its cache hit and what a connector holds beyond it.
Admit(r) ==
    /\ ~crashed /\ ntok[r] > 0 /\ computed[r] = 0
    /\ turns < deployed.config.turns /\ turns' = turns + 1
    /\ \E external \in 0..MaxExternal :
         /\ ComputedTokens(r) + external < ntok[r]
         /\ Schedule(r, Hits(r, ComputedTokens(r)), ComputedTokens(r) + external)

\* From the running list.
Continue(r) ==
    /\ ~crashed /\ computed[r] > 0 /\ flight[r] = Idle
    /\ Schedule(r, NoBlocks, computed[r])
    /\ UNCHANGED turns

\* What comes back for a request: nothing of a partial prefill, else one token and the
\* accepted drafts; the rejected ones are taken off the count.
Samples(r) == flight[r].new > 0 /\ computed[r] - flight[r].drafts = ntok[r]
TokensAfter(r, accepted) ==
    IF Samples(r) THEN Smaller(ntok[r] + 1 + accepted[r], MaxModelLen) ELSE ntok[r]
ComputedAfter(r, accepted) == computed[r] - (flight[r].drafts - accepted[r])

\* Mutant: the head is shed on the count that still holds the rejected drafts.
InflatedCount(r, accepted) == computed[r]
CountToShed(r, accepted) == ComputedAfter(r, accepted)

\* update_from_output: requests at the length cap are freed, the others shed.
UpdateFromOutput == \E accepted \in [Requests -> 0..MaxDrafts] :
    LET done(r) == Samples(r) /\ TokensAfter(r, accepted) = MaxModelLen
        dead(r, g) == Dead(SpecOf(g), table[r][g], CountToShed(r, accepted))
        settle(p, r) ==
            IF done(r) THEN FreeRequest(p, r)
            ELSE FoldLeft(LAMBDA q, g : Shed(q, table[r][g], dead(r, g)), p, [g \in GroupIds |-> g])
    IN  /\ ~crashed /\ InFlight > 0
        /\ \A r \in Requests : accepted[r] <= flight[r].drafts
        /\ pool' = FoldLeft(settle, pool, SetToSeq(Requests))
        /\ table' = [r \in Requests |-> IF done(r) THEN NoBlocks
                                        ELSE [g \in GroupIds |-> Emptied(table[r][g], dead(r, g))]]
        /\ ntok' = [r \in Requests |-> IF done(r) THEN 0 ELSE TokensAfter(r, accepted)]
        /\ computed' = [r \in Requests |-> IF done(r) THEN 0 ELSE ComputedAfter(r, accepted)]
        /\ flight' = [r \in Requests |-> Idle]
        /\ UNCHANGED <<groups, deployed, crashed, turns>>

\* A preemption keeps the request's tokens, an end does not.
Release(r) == \E keep \in BOOLEAN :
    /\ ntok[r] > 0 /\ computed[r] > 0
    /\ pool' = FreeRequest(pool, r)
    /\ table' = [table EXCEPT ![r] = NoBlocks]
    /\ computed' = [computed EXCEPT ![r] = 0]
    /\ flight' = [flight EXCEPT ![r] = Idle]
    /\ ntok' = IF keep THEN ntok ELSE [ntok EXCEPT ![r] = 0]
    /\ UNCHANGED <<groups, deployed, crashed, turns>>

\* BlockPool.reset_prefix_cache, refused while a block is in use.
ResetPrefixCache ==
    /\ Len(pool.free_block_queue) = Cardinality(Blocks)
    /\ pool' = [pool EXCEPT !.block_hash = [b \in Blocks |-> NoHash]]
    /\ UNCHANGED <<groups, deployed, table, ntok, computed, flight, crashed, turns>>

HybridNext ==
    \/ \E r \in Requests : Arrive(r) \/ Admit(r) \/ Continue(r) \/ Release(r)
    \/ UpdateFromOutput \/ ResetPrefixCache

HybridSpec == HybridInit /\ [][HybridNext]_hvars

------------------------------------------------------------------------------
(* Properties.                                                              *)

Holders(b) == {<<r, g>> \in Requests \X GroupIds : b \in Range(table[r][g])}
Settled(r) == computed[r] - flight[r].new

\* The pool's books balance across groups: a block has one reference for each table
\* that holds it, the free queue holds every other block once, and the null block is
\* never counted (adoption, shedding and release of a hit that is mostly nulls).
HybridPoolExact ==
    /\ \A b \in Blocks : pool.ref_cnt[b] = Cardinality(Holders(b))
    /\ Len(pool.free_block_queue) = Cardinality(Range(pool.free_block_queue))
    /\ Range(pool.free_block_queue) = {b \in Blocks : pool.ref_cnt[b] = 0}

\* What a request reads is its own: everything its next or present step attends to is
\* in its table and not a null block, and a block is shared only at one position of
\* one group, by requests whose tokens agree up to its end - after hits, shedding,
\* rejected drafts and reuse of what others shed.
FirstRead(s, n) ==
    CASE s.type = "full"   -> 0
      [] s.type = "window" -> Larger(0, n - s.window + 1)
      [] s.type = "state"  -> Larger(0, n - 1)
ReadsItsOwn == \A r \in Requests, g \in GroupIds :
    /\ computed[r] > 0 /\ MaxExternal = 0 =>
         \A p \in FirstRead(SpecOf(g), Settled(r))..(computed[r] - 1) :
            table[r][g][(p \div BlockSize) + 1] # NullBlock
    /\ \A i \in DOMAIN table[r][g] :
         LET b == table[r][g][i]
         IN  b # NullBlock =>
               /\ pool.block_hash[b] \in {NoHash, Key(g, r, i)}
               /\ \A h \in Holders(b) : h[2] = g /\ table[h[1]][g][i] = b /\ Key(g, h[1], i) = Key(g, r, i)

\* The coordinator's answer is the longest prefix every group can serve: a full group
\* from the first token, a windowed one the blocks its window reads, a state the last
\* block (find_longest_cache_hit, whose passes converge on it).
Servable(g, r, n) == \A i \in 1..n : i >= FirstHeld(g, n) => Cached(g, r, i)
JointHitIsLongest == \A r \in Requests :
    ntok[r] > 0 /\ computed[r] = 0 =>
        ComputedTokens(r) = BlockSize * Greatest({n \in 0..((ntok[r] - 1) \div BlockSize) :
                                                    \A g \in GroupIds : Servable(g, r, n)})

\* R10.6, sim/memory.py: a pool that passes the start-up guard holds one request: with
\* nobody else in it, no step of any request is refused or runs the queue dry.
AloneItFits == \A r \in Requests :
    ntok[r] > 0 /\ flight[r] = Idle /\ (\A q \in Requests \ {r} : computed[q] = 0) =>
        LET hit == IF computed[r] = 0 THEN ComputedTokens(r) ELSE 0
            hits == IF computed[r] = 0 THEN Hits(r, hit) ELSE NoBlocks
            total == computed[r] + hit
        IN  \A new \in 1..Smaller(MaxNumBatchedTokens, Smaller(ntok[r] + MaxDrafts, MaxModelLen) - total) :
                Fits(r, total + new, hits, total)

\* An allocation that is accepted finds its blocks (allocate_slots fails early, or not
\* at all).
NeverRunsDry == ~crashed

\* What start-up promises holds of the run it starts: the scheduler has the blocks the
\* profile counted (the two derive a block's bytes separately), everything that is
\* resident fits the device, adapters included, and a request alone in the pool is
\* never refused (sim/memory.py, v1/engine/core.py, R10.6).
PromisedBlocks == deployed.num_gpu_blocks = ProfiledBlocks(deployed.config)
Resident(c, m) ==
    WeightBytes(c) + ActivationBytes(c) + c.overhead + LoraBytes(c)
        + deployed.num_gpu_blocks * CommonPage(c, m) * LayersPerGroup(m)
ResidentFits == Resident(deployed.config, deployed.layers) <= deployed.config.memory
StartupPromises == PromisedBlocks /\ ResidentFits /\ AloneItFits

\* Any stage of the pipeline holds the pool that the reported one is sized for
\* (v1/worker/gpu/attn_utils.py:175-177).
EveryStageHoldsThePool == \A k \in 1..deployed.config.pp :
    StageSpecs(deployed.config, k) # <<>> =>
        Resident(deployed.config, StageSpecs(deployed.config, k)) <= deployed.config.memory

\* Every layer is in one group with layers of its kind, and none is longer than the
\* pages a block is sized for (get_kv_cache_groups, _initialize_kv_caches).
GroupsServeEveryLayer ==
    \A l \in DOMAIN deployed.layers : \E g \in GroupIds :
        /\ l \in groups[g].layers /\ SpecOf(g) = deployed.layers[l] /\ SpecOf(g) \in Specs
        /\ Cardinality(groups[g].layers) <= LayersPerGroup(deployed.layers)
        /\ \A k \in GroupIds \ {g} : l \notin groups[k].layers
==============================================================================
