------------------------------- MODULE KVCache -------------------------------
(***************************************************************************)
(* The KV cache of one full-attention group: the block pool                *)
(* (v1/core/block_pool.py), the free queue (v1/core/kv_cache_utils.py),    *)
(* FullAttentionManager (v1/core/single_type_kv_cache_manager.py) and the  *)
(* manager the scheduler calls (v1/core/kv_cache_manager.py).              *)
(*                                                                         *)
(* A block's content hash is modelled by what the chained hash identifies: *)
(* the extra keys of its blocks and every token up to the end of the block. *)
(* Collisions of the hash function are therefore excluded, but not those of *)
(* the keys: they are a tuple of names in which an adapter and a salt look  *)
(* alike, and a salt is only in the tuple of the first block.               *)
(*                                                                         *)
(* The operations constrain only the variables of `kvVars'.  A caller that *)
(* composes them (Scheduler) says what happens to all_token_ids.           *)
(***************************************************************************)
EXTENDS Integers, Sequences, FiniteSets, Functions

CONSTANTS
    Requests,      \* request ids
    Tokens,        \* token ids
    ExtraKeys,     \* [Requests -> pair]: the tuples generate_block_hash_extra_keys
                   \* builds for the request's first block and for every other
    Prompts,       \* the prompts a request may arrive with
    NumBlocks,     \* num_gpu_blocks
    BlockSize,     \* tokens per block
    MaxModelLen,   \* max_model_len
    EnableCaching, \* enable_prefix_caching
    NoHash         \* block_hash is None

NoKey == <<>>
\* The tuples a hash of n blocks has gone through.
KeysUpTo(r, n) == IF n = 1 THEN <<ExtraKeys[r][1], NoKey>> ELSE <<ExtraKeys[r][1], ExtraKeys[r][2]>>
Keys == {KeysUpTo(r, n) : r \in Requests, n \in {1, 2}}
Hashes == Keys \X Seq(Tokens)
Blocks == 0 .. NumBlocks - 1

ASSUME RequestsAssumption == IsFiniteSet(Requests)
ASSUME SizesAssumption ==
    /\ NumBlocks \in Nat \ {0}
    /\ BlockSize \in Nat \ {0}
    /\ MaxModelLen \in Nat \ {0}
ASSUME CachingAssumption == EnableCaching \in BOOLEAN
ASSUME PromptsAssumption == Prompts \subseteq Seq(Tokens)
ASSUME NoHashAssumption == NoHash \notin Hashes

VARIABLES
    all_token_ids,              \* Request.all_token_ids, <<>> for an unknown id
    ref_cnt,                    \* KVCacheBlock.ref_cnt
    block_hash,                 \* KVCacheBlock.block_hash
    free_block_queue,           \* FreeKVCacheBlockQueue, head first
    cached_block_hash_to_block, \* the dict of dicts, as a set of <<hash, block>>
    req_to_blocks               \* SingleTypeKVCacheManager.req_to_blocks

poolVars == <<ref_cnt, block_hash, free_block_queue, cached_block_hash_to_block>>
kvVars   == <<poolVars, req_to_blocks>>
vars     == <<all_token_ids, kvVars>>

------------------------------------------------------------------------------
(* Sequences of blocks.                                                     *)

\* The position of s[i] among the elements of s that are in S.
Rank(s, S, i) == Cardinality({j \in 1..i : s[j] \in S})

\* The elements of s that are in S, in the order of s.  Written with Rank and
\* not with SelectSeq, whose recursive definition the prover cannot use.
Filter(s, S) ==
    [n \in 1 .. Cardinality({i \in DOMAIN s : s[i] \in S}) |->
        s[CHOOSE i \in DOMAIN s : s[i] \in S /\ Rank(s, S, i) = n]]

\* Mutant: the table is given back head first.
InOrder(s) == s

\* The order in which a block table is released: tail of the chain first.
Reversed(s) == [i \in 1 .. Len(s) |-> s[Len(s) + 1 - i]]

AtLeastZero(n) == IF n > 0 THEN n ELSE 0
Least(m, n) == IF m < n THEN m ELSE n

------------------------------------------------------------------------------
(* Hashes (kv_cache_utils.get_request_block_hasher, Request.block_hashes).  *)

\* len(request.block_hashes): one per full block of known tokens.
NumBlockHashes(r) == Len(all_token_ids[r]) \div BlockSize

\* Mutant: the extra keys are left out of the hash.
KeylessHash(r, i) ==
    <<CHOOSE k \in Keys : TRUE, SubSeq(all_token_ids[r], 1, i * BlockSize)>>

\* request.block_hashes[i - 1]
BlockHash(r, i) == <<KeysUpTo(r, i), SubSeq(all_token_ids[r], 1, i * BlockSize)>>

------------------------------------------------------------------------------
(* The prefix cache lookup.                                                 *)

\* BlockPool.get_cached_block returns the oldest of the blocks with this
\* content; they are interchangeable, so any of them is allowed here.
CachedBlocks(h) == {b \in Blocks : <<h, b>> \in cached_block_hash_to_block}

\* FullAttentionManager.find_longest_cache_hit over the request's hashes, capped
\* one token short of the request so that the step has a token to run.
NumHitBlocks(r) ==
    LET cap == AtLeastZero(Len(all_token_ids[r]) - 1) \div BlockSize
    IN  Cardinality({i \in 1 .. cap :
                       \A j \in 1 .. i : CachedBlocks(BlockHash(r, j)) # {}})

\* KVCacheManager.get_computed_blocks: the sequences of blocks it may return.
ComputedBlocks(r, num_computed_tokens) ==
    IF ~EnableCaching \/ num_computed_tokens > 0
    THEN {<<>>}
    ELSE {hit \in [1 .. NumHitBlocks(r) -> Blocks] :
            \A i \in DOMAIN hit : hit[i] \in CachedBlocks(BlockHash(r, i))}

------------------------------------------------------------------------------
(* Allocation.                                                              *)

NumRequiredBlocks(num_tokens) == (num_tokens + BlockSize - 1) \div BlockSize

\* num_tokens_needing_slots: no slot is needed past the model's length.
NumTokensNeedingSlots(num_tokens) == Least(num_tokens, MaxModelLen)

\* SingleTypeKVCacheManager.get_num_blocks_to_allocate: fresh blocks, plus the hit
\* blocks that are still in the free queue and are about to leave it.
NumBlocksToAllocate(r, num_tokens, hit) ==
    AtLeastZero(NumRequiredBlocks(num_tokens) - (Len(hit) + Len(req_to_blocks[r])))
      + Cardinality({i \in DOMAIN hit : ref_cnt[hit[i]] = 0})

CanAllocate(r, num_tokens, hit) ==
    NumBlocksToAllocate(r, NumTokensNeedingSlots(num_tokens), hit) <= Len(free_block_queue)

\* Mutant: a hit block stays in the free queue.
QueueUntouched(hit) == free_block_queue

\* BlockPool.touch: a hit block that nobody holds is unlinked from the middle of
\* the free queue, so that the allocation that follows cannot take it.
QueueAfterTouch(hit) == Filter(free_block_queue, Blocks \ Range(hit))

\* FreeKVCacheBlockQueue.popleft_n, the blocks and what stays in the queue.
PopLeftN(queue, n) == SubSeq(queue, 1, n)
QueueAfterPop(queue, n) == SubSeq(queue, n + 1, Len(queue))

\* BlockPool._maybe_evict_cached_block: a block that is taken forgets its content.
HashAfterEviction(evicted) ==
    [b \in Blocks |-> IF b \in evicted THEN NoHash ELSE block_hash[b]]
MapAfterEviction(evicted) ==
    cached_block_hash_to_block \ {<<block_hash[b], b>> : b \in evicted}

\* Mutant: every block of known tokens is published, computed this step or not.
AllKnownBlocks(r, num_tokens) == IF EnableCaching THEN NumBlockHashes(r) ELSE 0

\* KVCacheManager._cache_full_blocks: the blocks whose tokens are all known.
NumBlocksToCache(r, num_tokens) ==
    IF EnableCaching THEN Least(num_tokens \div BlockSize, NumBlockHashes(r)) ELSE 0

\* BlockPool.cache_full_blocks: the positions it publishes; a block that has a hash
\* already (a hit) is left alone.
PublishedPositions(table, hash, num_full) ==
    {i \in DOMAIN table : i <= num_full /\ hash[table[i]] = NoHash}

\* touch and get_new_blocks: one reference more for each.
RefCntAfterTaking(hit, new) ==
    [b \in Blocks |-> IF b \in Range(hit) \cup Range(new) THEN ref_cnt[b] + 1 ELSE ref_cnt[b]]

\* KVCacheManager.allocate_slots when the blocks are there: touch and adopt the
\* hits, take the missing blocks from the head of the queue (which evicts what
\* they cached), and publish every block the request's tokens fill.
\* num_tokens is num_computed_tokens + num_new_tokens, all the code uses of them.
AllocateSlots(r, num_tokens, hit) ==
    LET held      == IF hit = <<>> THEN req_to_blocks[r] ELSE hit
        touched   == QueueAfterTouch(hit)
        required  == NumRequiredBlocks(NumTokensNeedingSlots(num_tokens))
        num_more  == AtLeastZero(required - Len(held))
        new       == PopLeftN(touched, num_more)
        evicted   == Range(new)
        table     == held \o new
        hash      == HashAfterEviction(evicted)
        published == PublishedPositions(table, hash, NumBlocksToCache(r, num_tokens))
    IN  /\ CanAllocate(r, num_tokens, hit)
        /\ free_block_queue' = QueueAfterPop(touched, num_more)
        /\ ref_cnt' = RefCntAfterTaking(hit, new)
        /\ req_to_blocks' = [req_to_blocks EXCEPT ![r] = table]
        /\ block_hash' =
             [b \in Blocks |-> IF \E i \in published : table[i] = b
                               THEN BlockHash(r, CHOOSE i \in published : table[i] = b)
                               ELSE hash[b]]
        /\ cached_block_hash_to_block' =
             MapAfterEviction(evicted) \cup {<<BlockHash(r, i), table[i]>> : i \in published}

------------------------------------------------------------------------------
(* Release.                                                                 *)

\* BlockPool.free_blocks: the blocks nobody else holds go back to the queue, the
\* unhashed ones to its front (spent first), the others to its back.
QueueAfterFree(ordered) ==
    LET released == {b \in Range(ordered) : ref_cnt[b] = 1}
        unhashed == {b \in released : block_hash[b] = NoHash /\ EnableCaching}
    IN  Filter(ordered, unhashed) \o free_block_queue \o Filter(ordered, released \ unhashed)

\* KVCacheManager.free: the table is given back in reverse, so that the tail of a
\* chain is evicted before its head.
Free(r) ==
    LET ordered == Reversed(req_to_blocks[r])
    IN  /\ ref_cnt' = [b \in Blocks |-> IF b \in Range(ordered)
                                        THEN ref_cnt[b] - 1 ELSE ref_cnt[b]]
        /\ free_block_queue' = QueueAfterFree(ordered)
        /\ req_to_blocks' = [req_to_blocks EXCEPT ![r] = <<>>]
        /\ UNCHANGED <<block_hash, cached_block_hash_to_block>>

\* Mutant: the cache is reset although blocks are in use.
ResetAlways ==
    /\ block_hash' = [b \in Blocks |-> NoHash]
    /\ cached_block_hash_to_block' = {}
    /\ UNCHANGED <<ref_cnt, free_block_queue, req_to_blocks>>

\* BlockPool.reset_prefix_cache, refused while any block is referenced.
ResetPrefixCache ==
    /\ Len(free_block_queue) = NumBlocks
    /\ block_hash' = [b \in Blocks |-> NoHash]
    /\ cached_block_hash_to_block' = {}
    /\ UNCHANGED <<ref_cnt, free_block_queue, req_to_blocks>>

\* Mutant: the requests other than the asking one are counted.
NumOtherHolders == Cardinality({r \in Requests : req_to_blocks[r] # <<>>}) - 1

\* FullAttentionManager.get_num_common_prefix_blocks: the leading blocks of a
\* running request whose reference count equals the number of block tables.
NumHolders == Cardinality({r \in Requests : req_to_blocks[r] # <<>>})
NumCommonPrefixBlocks(r) ==
    Cardinality({i \in DOMAIN req_to_blocks[r] :
                   \A j \in 1 .. i : ref_cnt[req_to_blocks[r][j]] = NumHolders})

------------------------------------------------------------------------------
(* The component by itself: callers invoke the operations in any order that *)
(* respects their preconditions.                                            *)

Init ==
    /\ all_token_ids = [r \in Requests |-> <<>>]
    /\ ref_cnt = [b \in Blocks |-> 0]
    /\ block_hash = [b \in Blocks |-> NoHash]
    /\ free_block_queue = [i \in 1 .. NumBlocks |-> i - 1]
    /\ cached_block_hash_to_block = {}
    /\ req_to_blocks = [r \in Requests |-> <<>>]

\* An id is given new tokens: a new request, or an id that is used again.
NewRequest(r, prompt) ==
    /\ req_to_blocks[r] = <<>>
    /\ all_token_ids' = [all_token_ids EXCEPT ![r] = prompt]
    /\ UNCHANGED kvVars

\* Request.append_output_token_ids
AppendToken(r, t) ==
    /\ Len(all_token_ids[r]) \in 1 .. MaxModelLen - 1
    /\ all_token_ids' = [all_token_ids EXCEPT ![r] = Append(@, t)]
    /\ UNCHANGED kvVars

\* The scheduler admits a waiting request: cached prefix first, then new blocks.
Admit(r, num_tokens) ==
    /\ all_token_ids[r] # <<>> /\ req_to_blocks[r] = <<>>
    /\ \E hit \in ComputedBlocks(r, 0) :
         /\ num_tokens > Len(hit) * BlockSize
         /\ AllocateSlots(r, num_tokens, hit)
    /\ UNCHANGED all_token_ids

\* The scheduler gives a running request its next tokens.
Grow(r, num_tokens) ==
    /\ req_to_blocks[r] # <<>>
    /\ AllocateSlots(r, num_tokens, <<>>)
    /\ UNCHANGED all_token_ids

\* A request is preempted, finishes or is aborted.
Release(r) ==
    /\ req_to_blocks[r] # <<>>
    /\ Free(r)
    /\ UNCHANGED all_token_ids

Reset == ResetPrefixCache /\ UNCHANGED all_token_ids

Next ==
    \/ \E r \in Requests :
         \/ \E prompt \in Prompts : NewRequest(r, prompt)
         \/ \E t \in Tokens : AppendToken(r, t)
         \/ \E n \in 1 .. MaxModelLen : Admit(r, n) \/ Grow(r, n)
         \/ Release(r)
    \/ Reset

Spec == Init /\ [][Next]_vars

------------------------------------------------------------------------------
(* Properties.                                                              *)

\* The variables have the types of the Python attributes.
TypeOK ==
    /\ all_token_ids \in [Requests -> Seq(Tokens)]
    /\ ref_cnt \in [Blocks -> Nat]
    /\ block_hash \in [Blocks -> Hashes \cup {NoHash}]
    /\ free_block_queue \in Seq(Blocks)
    /\ cached_block_hash_to_block \subseteq Hashes \X Blocks
    /\ req_to_blocks \in [Requests -> Seq(Blocks)]

Holders(b) == {r \in Requests : b \in Range(req_to_blocks[r])}

\* Every block table entry is one reference and there are no others: touch,
\* get_new_blocks and free_blocks together never lose or invent a reference,
\* so no free raises "freed more times than it was allocated".
RefCntExact ==
    /\ \A r \in Requests : IsInjective(req_to_blocks[r])
    /\ \A b \in Blocks : ref_cnt[b] = Cardinality(Holders(b))

\* The free queue holds exactly the unreferenced blocks, each once: what
\* BlockPool._check_invariants asserts, and what touch relies on when it
\* unlinks a block with ref_cnt 0 from the middle of the queue.
FreeQueueExact ==
    /\ IsInjective(free_block_queue)
    /\ Range(free_block_queue) = {b \in Blocks : ref_cnt[b] = 0}

\* The hash-to-block map and the hashes stored in the blocks agree both ways:
\* eviction leaves no stale entry that points at reused memory (R6.2).
CacheMapExact ==
    cached_block_hash_to_block =
        {<<block_hash[b], b>> : b \in {c \in Blocks : block_hash[c] # NoHash}}

\* A published block in a request's table holds the tokens of the request at
\* that very position, and its extra keys: a hit never adopts foreign content.
TableContentsMatch ==
    \A r \in Requests : \A i \in DOMAIN req_to_blocks[r] :
        block_hash[req_to_blocks[r][i]] # NoHash =>
            /\ i * BlockSize <= Len(all_token_ids[r])
            /\ block_hash[req_to_blocks[r][i]] = BlockHash(r, i)

\* Two requests share a block only once its content is complete and published.
\* A block still being written has one owner (BlockTables' double-write oracle).
SharedOnlyIfPublished ==
    \A b \in Blocks : ref_cnt[b] > 1 => block_hash[b] # NoHash

\* Requests that are told apart from their first block on (by adapter, cache salt or
\* both) never share a block, whatever tokens they have in common (R6.3).
TenantsIsolated ==
    \A r, s \in Requests : ExtraKeys[r][1] # ExtraKeys[s][1] =>
        Range(req_to_blocks[r]) \cap Range(req_to_blocks[s]) = {}

\* kv_cache_utils.py:338 asks it of requests that differ in anything: "Two requests with
\* identical tokens must *not* share blocks when anything else about them differs".  An
\* adapter and another request's salt of the same name are one key, and they share.
AnyDifferenceIsolates ==
    \A r, s \in Requests : ExtraKeys[r] # ExtraKeys[s] =>
        Range(req_to_blocks[r]) \cap Range(req_to_blocks[s]) = {}

\* The content a block has to follow, for all but the first of a chain.
HasParent(h) == Len(h[2]) > BlockSize
Parent(h) ==
    LET n == Len(h[2]) - BlockSize
    IN  <<IF n = BlockSize THEN <<h[1][1], NoKey>> ELSE h[1], SubSeq(h[2], 1, n)>>

\* Eviction takes the tail of a chain before its head: whenever a block is
\* findable, some block with its parent's content is findable too, so no cached
\* block is stranded behind an evicted prefix (R6.6).
CachedPrefixesHaveNoHoles ==
    \A e \in cached_block_hash_to_block : HasParent(e[1]) => CachedBlocks(Parent(e[1])) # {}

\* The common prefix handed to cascade attention really is common: it is decided
\* from reference counts alone, yet every table has these blocks at these places.
CommonPrefixIsCommon ==
    \A r, s \in Requests :
        req_to_blocks[r] # <<>> /\ req_to_blocks[s] # <<>> =>
            \A i \in 1 .. NumCommonPrefixBlocks(r) :
                i \in DOMAIN req_to_blocks[s] /\ req_to_blocks[s][i] = req_to_blocks[r][i]

\* While somebody holds a published block its content never changes.
HeldContentStable ==
    [][\A b \in Blocks :
         ref_cnt[b] > 0 /\ ref_cnt'[b] > 0 /\ block_hash[b] # NoHash =>
             block_hash'[b] = block_hash[b]]_vars

\* The inductive core of the above: each conjunct needs the others.
PoolInv ==
    /\ TypeOK
    /\ RefCntExact
    /\ FreeQueueExact
    /\ CacheMapExact
    /\ TableContentsMatch
    /\ SharedOnlyIfPublished

\* A table is published from its front.
PublishedFromFront ==
    \A r \in Requests : \A i \in DOMAIN req_to_blocks[r] :
        i > 1 /\ block_hash[req_to_blocks[r][i]] # NoHash =>
            block_hash[req_to_blocks[r][i - 1]] # NoHash

\* p will be taken out of the free queue after b.
Behind(p, b) ==
    \E i, j \in DOMAIN free_block_queue :
        i < j /\ free_block_queue[i] = b /\ free_block_queue[j] = p

\* What a cached block that nobody holds has to follow is held, or is evicted later.
TailGoesFirst ==
    \A b \in Blocks :
        ref_cnt[b] = 0 /\ block_hash[b] # NoHash /\ HasParent(block_hash[b]) =>
            \E p \in Blocks : /\ block_hash[p] = Parent(block_hash[b])
                             /\ (ref_cnt[p] > 0 \/ Behind(p, b))

ChainInv == PublishedFromFront /\ TailGoesFirst

------------------------------------------------------------------------------
(* The abstract specification.                                              *)

\* The pool as its callers see it.
Sharing == INSTANCE BlockSharing WITH
    Owners    <- Requests,
    Pages     <- Blocks,
    NoContent <- NoHash,
    holders   <- [p \in Blocks |-> Holders(p)],
    content   <- block_hash

\* The free queue, the reference counts and the hash map together implement the
\* sharing discipline: blocks are joined only when published, taken only when
\* unheld, and forgotten only when the pool is idle.
ImplementsSharing == Sharing!Spec

==============================================================================
