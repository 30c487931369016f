# TLA+ models of pretending-vllm

pretending-vllm is a simulator of the vLLM v1 engine: the scheduler, the paged
KV cache with prefix caching, the engine core, its process boundary and its
front ends are ports of the real ones; only the device is simulated. This
directory models the engine and what surrounds it, from the model card that
sizes the cache to the text and the HTTP events a client receives, model-checks
it with TLC and proves theorems about its core with TLAPS. Paths are relative to
`src/pvllm/`.

## Inventory

| Component | State | Operations | Hard because | Correct when |
|---|---|---|---|---|
| Block pool (`v1/core/block_pool.py`, `kv_cache_utils.py`) | reference counts, content hashes, free queue, hash-to-block map | get_new_blocks, touch, free_blocks, cache_full_blocks, evict, reset | blocks are shared, cached blocks are also free blocks, eviction is lazy | counts equal holders, the queue equals the unreferenced blocks, no stale hash |
| KV cache manager (`kv_cache_manager.py`, `single_type_kv_cache_manager.py`, `kv_cache_coordinator.py`) | block table per request and group | get_computed_blocks, allocate_slots, remove_skipped_blocks, free, common prefix | a hit is adopted before it is computed, allocation may fail half way, groups that shed share a pool with groups that do not | a table holds the request's own content, also behind a window |
| Sizing (`sim/memory.py`, `sim/device.py`, `v1/worker/gpu/attn_utils.py`, `v1/core/kv_cache_utils.py`, `v1/engine/core.py`) | none once started | layer specs, page unification, groups, ledger, start-up guard | formulas that restate what managers do elsewhere | the pool is on the device, and one request always fits |
| Scheduler (`v1/core/sched/`) | waiting, set-aside and running queues, per-request counts, finished ids | add, abort, schedule, update_from_output | budget, preemption, speculation, adapters and grammars interact; victims may already be scheduled | budget respected, queues partition the requests, everyone ends |
| Engine core (`v1/engine/core.py`) | the batch in flight | add_request, abort_requests, step, step_async, reset_prefix_cache | clients interleave with the batch in flight | an id's results never reach another request |
| Worker (`v1/worker/gpu/`) | slots, block tables, token histories, embeddings | add, update, finish, free states; slot mapping | keeps state from differences only | agrees with the scheduler at every launch |
| Structured output (`v1/structured_output/`, `sim/structured_output.py`, `sim/grammar.py`) | one compilation per constrained request | grammar_init, compile, generate, validate | compiles on other threads, may fail; what is generated is not what is compiled | a constrained request never runs without a grammar, and its answer conforms |
| Encoder cache (`v1/core/encoder_cache_manager.py`) | references and freeable entries per image hash | can_allocate, allocate, free_encoder_input, get_freed_mm_hashes | reserved at scheduling, released by several paths | books balance, a span finds its embeddings |
| KV connector (`distributed/kv_transfer/`, `sim/kv_store.py`) | pending loads and saves, shared store | matched tokens, update after alloc, build meta, request_finished | loads must precede reads, others write the store | only computed KV is stored, what is read is one's own |
| Engine process and clients (`v1/engine/core_proc.py`, `core_client*.py`) | input and output queues, outstanding count | busy loop, threads, death notice | process death, buffered outputs | no lost output, no waiter left behind |
| Data-parallel client (`v1/engine/dp_client.py`) | request-to-replica map, loads | route, release, lockstep round | finishes, aborts and reused ids race on one count | the books are where the requests are |
| Front end (`v1/engine/async_llm.py`, `output_processor.py`, `parallel_sampling.py`) | per-request queues, parent requests | generate, abort, process_outputs | cancellation races completion | one final output per request, own outputs only |
| Text (`tokenizers/`, `v1/engine/detokenizer.py`, `sim/model.py`, `sampling_params.py`, `input_processor.py`) | decoding window, withheld text | update, check_stop_strings, get_next_output_text, sample_token | characters and stop strings straddle tokens and steps | the stream does not depend on how tokens were grouped |
| HTTP endpoints (`entrypoints/openai/`, `entrypoints/pooling/`) | response store, message store | completions, chat, responses, embeddings; disconnect, cancel | several generators per body, streams that break off | events parse, bodies are whole, nothing is left in the engine |

`PROJECT.json` lists the remaining parts and why they are not modelled, and
under "hazards" what in this code is hard to test, with the property that
watches it.

How the parts interact: the HTTP handlers drive generators of the front end; the
front end registers a request with the output processor and sends it to the
core through a client (in process, behind sockets, or to one of several
replicas); the core's scheduler takes blocks from the KV cache, encoder slots
and external blocks, hands a batch to the worker, and turns the sampled tokens
into outputs that travel back, are detokenized and queued for the caller. The
memory profile fixes the pool before any of it starts.

## Modules

| Module | Models |
|---|---|
| `KVCache` | Block pool, free queue, prefix cache and block tables of one full-attention group |
| `BlockSharing` | Abstract specification of `KVCache`: who holds a block, and what it is published as |
| `MCKVCache` | Instance of `KVCache` for TLC |
| `KVCacheProofs` | Theorems about `KVCache`: its invariant, that it implements `BlockSharing`, that cached prefixes have no holes and the common prefix is common |
| `Scheduler` | The scheduler over the KV cache |
| `EngineCore` | The scheduler composed with the worker and the device memory: one engine step |
| `RequestLifecycle` | Abstract specification of the scheduler: the life of one request |
| `SchedulerProofs` | What the queue operators return; the invariant of the scheduler, `SchedInv`, one lemma per action |
| `SchedulerTheorems` | What follows from it: queues, counts, budget, grammars, orders, tenants |
| `SlotProofs` | The scheduler implements `BlockSharing` and keeps cached prefixes whole; the slots of a batch |
| `EngineProofs` | The engine is a scheduler, slots are written once, the worker agrees, what is published is computed, `RequestLifecycle` is implemented |
| `MCEngineCore` | Instances of `EngineCore` |
| `ExternalInputs` | Encoder cache and budget, KV connector and store, in a scheduler over the KV cache |
| `EncoderProofs` | The encoder cache's books are exact |
| `MCExternalInputs` | Deployments of `ExternalInputs` |
| `Sizing` | From a model card and settings to layer groups, the pool and the start-up guard, as operators |
| `HybridKV` | The managers, the coordinator and the pool of a model with several kinds of layers, started by `Sizing` |
| `MCHybridKV` | Cards and settings for `HybridKV` |
| `OutputProcessor` | Front-end request states, fan-out into n engine requests and aggregation, as operators |
| `DataParallel` | The router in front of several replicas, as operators |
| `CoreClient` | How the front end reaches the core: in process, a process behind two sockets with a reader thread, or replicas |
| `AsyncLLM` | generate(), abort() and the output task, composed with the three above |
| `FrontEndProofs` | The invariants of `AsyncLLM`: books, parents, orphans, what is delivered to whom |
| `MCAsyncLLM` | Instances of `AsyncLLM` |
| `Serving` | The HTTP endpoints over the engine: bodies, streams, the stores, disconnects |
| `ServingProofs` | The invariant of `Serving`: what calls leave behind, the events of a stream, the text of a body |
| `MCServing` | Workloads for `Serving` |
| `Tokenizer`, `Detokenizer` | The mock tokenizer, incremental decoding and stop strings, as operators |
| `Grammar` | What the simulated backend generates for a constraint and refuses, and what the constraint means |
| `Completion` | One completion from validation to the client's text, composed of the three above |
| `MCCompletion` | The completions asked for |

### KVCache

Variables have the names of the Python attributes. `free_block_queue` is the
linked list as a sequence, `cached_block_hash_to_block` the dict of dicts as a
set of pairs, `req_to_blocks` the tables. A block hash is modelled by what the
chained hash identifies: the extra keys that went into the chain and all the
request's tokens up to the end of the block, so collisions of the hash function
are excluded. `ExtraKeys[r]` has the tuple of the first block (adapter and cache
salt) and that of the later ones (adapter), untagged as in the code:
`KeysUpTo` is what a hash has gone through, and an adapter and a salt of one name
are the same key of a first block (see the disagreements). `get_cached_block`
returns the oldest of the blocks with equal content; the model allows any of
them, which adds behaviours and removes none.

`AllocateSlots` is all of `allocate_slots`: the check, the touch of the hits,
the blocks taken from the head of the queue with the eviction of what they
cached, and the publication of every block the known tokens fill. A failing
call changes nothing. `Free` is `free` down to `free_blocks`, including the
order in which blocks return to the queue. `Next` lets callers use these
operations in any order their preconditions allow, which is more than the
scheduler does. The operations constrain only the cache's own variables, so
that `Scheduler` and `ExternalInputs` can use them as they are.

### Scheduler

`schedule()` and `update_from_output()` never yield, so what happens inside them
cannot be interleaved with clients; they are cut into one step per loop
iteration, sequenced by `pc`, because that keeps every action the size of one
decision of the code and makes the intermediate states visible to invariants:

    idle -> running <-> allocate -> waiting -> finish -> inflight -> update -> idle

`step` holds the locals of `schedule()` and the `SchedulerOutput` it builds.
`ConsiderRunning`, `SkipRunning`, `AllocateRunning` and `Preempt` are the running
loop; `SkipLora`, `SkipGrammar`, `PromoteGrammar`, `AdmitWaiting` and
`EndAdmission` the admission loop; `FinishSchedule` restores the set-aside
requests, builds the output and runs `_update_after_schedule`. The `Update...`
actions are the iterations of `update_from_output`, and `EndUpdate` also finishes
the requests whose grammar failed. `Add`, `Abort` and `ResetCache` are possible
when the engine is idle and while a batch is in flight (the await of
`step_async`); a compilation ends at any moment.

`Add` takes prompts the input processor lets through (`PromptFits`): never empty,
shorter than the model if they are to be continued, and as long as the model if
they are only to be pooled.

Data is abstract: the model's output is any token, any number of drafts is
accepted or proposed. An arrival time is the position in the dict of live
requests. Both queue policies are sequences: a heap is its sorted order.

### EngineCore

Adds the worker's slots, block tables, prefill lengths and history lengths,
patched in the same step that finishes `schedule()` because the worker plans the
batch before the first await, and `kv_written`, the blocks of the device memory
whose every slot holds KV computed for the tokens the block stands for.
`kv_written` is not a variable of the code: it is what `PublishedIsComputed`
needs to say that the prefix cache is never ahead of the device.

### ExternalInputs

A second scheduler over `KVCache`, with what `Scheduler` leaves out: the
encoder cache (`encoder`, a record of `EncoderCacheManager`'s attributes) and
its budget, and the connector (`pending_loads`) with the store as the sequence
`resident`, oldest first. It is first come, first served and
has no drafts, adapters and grammars; the two modules share the structure of
the loops, and a state of both would be out of TLC's reach. `ScheduleEncoder` is
`_schedule_encoder` (what to encode, and where a span has to stop), one
`Considered` for each image the span touches;
`SetAsideWaiting` and `BlockedWaiting` are the two ways an admission with images
fails. A deployment (`deployed`) fixes the prompts, the pool, the cache and the
roles of the connector, so that one run covers prefill, decode and mixed nodes.
`OtherEngineWrites` is the engine at the other end of the store. `device` and
`computed` are histories: what each slot was written for, and which contents any
device has computed. An input that is scheduled stays in the worker's
`encoder_outputs` until the scheduler's eviction notice reaches it.

### Sizing and HybridKV

`Sizing` is arithmetic without state: `LayerSpec` is what one layer of a card
caches (`get_kv_cache_spec`), `StageSpecs` and `BindingStage` the pipeline stage
that is reported, `BlockSizeOf` the alignment of hybrid models, `Buckets`,
`Stripes` and `GetKVCacheGroups` the grouping, `WeightBytes` to `ClaimedBytes`
what the device holds, `ProfiledBlocks` and `EngineBlocks` the two readings of
the pool, `GuardPasses` the start-up guard of `sim/memory.py`, and `Starts` all
conditions under which a deployment comes up. Bytes are counted in units of the
dtype.

`HybridKV` starts with a deployment that `Starts` (those that do not are in the
instance to show that they are refused) and runs the managers of its groups
over one pool with a null block. `WindowHit`, `FullHit` and `StateHit` are the
three `find_longest_cache_hit`, `Pass` and `JointHit` the coordinator's loop,
`Charge` what a group asks of the pool, `AllocateSlots` the allocation with
publication per group, `Shed` and `Emptied` `remove_skipped_blocks`. The
environment schedules any request with any budget it can get, verifies drafts,
and rejects any of them. An empty queue in the middle of an allocation sets
`crashed`, where the code raises.

### OutputProcessor, DataParallel, CoreClient and AsyncLLM

A call is one `generate()`. Its engine requests are pairs of the client's id and
an index, so two calls with one id produce the same engine ids, as in the code,
and every output remembers (for the properties only) whose request made it.

`OutputProcessor` is the state of that object and of the `ParentRequest`s as a
record, with one operator per method; `ProcessOutput` is one iteration of
`process_outputs`, folded over a step's outputs.

`DataParallel` is the router: `MayServe` is `get_core_engine_for_request` (the
score of a queue under KV pressure is open within what the formula allows),
`Routed`, `Released` and `Stepped` what submissions, outputs and rounds do to its
books. `placed` and `passes` are histories: where a request is, and how many
forward passes each replica is ahead of the slowest.

`CoreClient` has the transports behind one interface, chosen in the initial
state: "inproc", "mp", "dp" and "ep" (replicas in lockstep). In process the
core's table changes with the call. Over "mp" `Send` puts a frame on the input
socket, `CoreReceives` and `CoreSteps` are the busy loop, and the reader thread
takes a frame and counts it under the lock in one step and hands it over in
another. A socket and the `queue.Queue` next to it are one FIFO. `CoreCrashes`
keeps some of what was to be sent and may add the DEAD frame; what is sent to a
process that no longer reads is dropped at once. The core is reduced to the set
of requests it holds: every step gives each of them an output and ends any of
them. Which requests a step schedules is `Scheduler`'s subject.

`AsyncLLM` makes one action of the code between two awaits. A generator is
entered (`Generate`, `GenerateRefused`, or `GenerateFails` when the engine is
found dead between two children), takes items (`Receive`, `ReceiveError`), is
resumed after a yield, and is closed where it is suspended; `Finally` works by
id, whoever holds it. `AbortCall` is `abort()`. `HandlerPolls`, the ways a step
arrives, `HandlerGivesUp`, `HandlerReturns` and `HandlerDies` are the output
task. A stop string is a choice of the front end for any output of a call that
has some.

### Serving

A call here is an HTTP request. A handler is one thread of control (`pc`), and
its code between two awaits is one action: `Create` and `CreateResponse` mint
ids and enter generators, `StreamOutput` and `BodyOutput` consume one output,
`StartDocuments` to `AllDocuments` are the gather over an embedding's documents,
`NoticeGone` and `CancelStream` the two ways a disconnect is seen, `Leave` the
client's own act. Of the engine only the table of ids in flight, the ends of a
generator and the tokens produced are kept: a step of it has one more output for
a request (`EngineStep`) or none (`QuietStep`: it waits, computes a chunk of its
prompt, or was preempted). `lag` is a history: the steps a request has seen since
its client left. `response_store` and `msg_store` are
the two stores of the responses endpoint.

### Tokenizer, Detokenizer, Grammar and Completion

A text is a sequence of characters, some of two bytes. `Update` is
`BaseIncrementalDetokenizer.update` with the window arithmetic of
`detokenize_incrementally`; `CheckStopStrings` is the search for the stop string
that ends first. `Grammar` has the generator (`Generated` for a schema, `RegexDraws`
for a pattern: the values the seeded generator may draw, a range being
represented by its ends, or `Refused`) and the code's own validator
(`Validated`), and beside them `Conforms`, `RegexMatches` and `Satisfies`, what
the constraint means, written from the keywords' definitions. Schemas are records of the keywords they
use; regular expressions are syntax trees.

`Completion` composes them: `Submit` is validation, `CompileGrammar` the
compilation, `Step` one engine step with one to three tokens (`SampleToken`,
`CheckStop`), `ProcessOutput` the output processor's side, which may lag behind
and abort. `expected` is a history: what appending one token at a time to the
text would have produced, cut at the first stop string.

## Runs

Passing runs:

| Run | Question |
|---|---|
| `kv_pool` | Two requests, three blocks of two tokens, prompts of a block and a bit that are equal or differ in the first block, lengths up to five: the free queue, cached chains and the common prefix stay right, held content is stable, and `BlockSharing` is refined. |
| `engine_fcfs` | Three requests over two blocks of two tokens (one long request fills the pool), one of them with a cache salt: chunked prefill, sharing, preemption, aborts and reuse of ids in flight; the queues, the worker and the device agree, and tenants share nothing. |
| `engine_priority` | Three requests of different urgency over four one-token blocks, caching off, one adapter slot for two adapters, the second request constrained and the first only pooled, with a prompt that may fill the model: victims that are already in the batch give their budget back, requests that were set aside return to their place, and nobody runs without its grammar. |
| `engine_speculation` | Two drafts per step, disabled when two requests run, truncated by budget and length, min_tokens of two, so that stop tokens arrive before, at and after the minimum, several in one step; counts stay exact, `RequestLifecycle` is refined, and with a grammar that may fail every request ends. |
| `external_inputs` | Eight deployments: images under tight encoder budgets, a message that repeats an image, preemption with images, a prefill node, a decode node, one that is both over a store of two or three blocks, and one where a block that came from the store is the next request's local hit. |
| `hybrid` | Cards with alternating windows, with state-space layers, windowed throughout, latent attention, experts, over pipeline stages and with adapters, each in the smallest pool the guard admits or on the smallest device that holds it: joint hits are the longest possible, nothing is read that was given back, the queue never runs dry, the pool fits the device and one request always fits. |
| `front_end` | One call of two outputs, its retry with the same id, and an aggregated call of two children, over the four transports, closed, aborted (the fanned-out id), stopped by strings, and with an engine that may die: no orphan in the core, no parent left behind, only own and complete results, exact routing, and nobody waits unregistered. |
| `front_end_liveness` | The same calls with one output each and the fanned-out one streamed: as long as the engine lives every wait ends. |
| `serving` | Two turns of a conversation, two turns under one id, and bodies of other kinds beside each other; disconnects at any await, failing documents, steps with and without output, an engine that dies. |
| `text` | Nearly a hundred completions (stop strings that overlap tokens, characters of two bytes, stop tokens, limits, every schema keyword and pattern construct, but not the four combinations of keywords that `MCCompletionDivergent` refutes) over every split into steps of one to three tokens and a front end up to three steps behind: the stream is the text, and a constrained answer that ends by itself conforms. |

Two runs show a disagreement between the code and what it says of itself, the
findings in `PROJECT.json`:

- `uncomputed_block`: a priority victim that was already scheduled leaves a
  published block that no step computes; a later request with the same prefix
  hits it.
- `load_behind_local_hit`: `schedule()` calls `update_state_after_alloc`
  (`core/sched/scheduler.py:561`) before it sets the `num_computed_tokens` (`:570`)
  from which the connector counts the locally cached blocks
  (`sim_connector.py:218`). For a request with a local hit and an external match
  behind it the store's KV goes into the first blocks of its table, which other
  requests share, and the blocks that were meant for it are read unwritten: what
  the comment at `sim_connector.py:213-217` says was put right. `Loads` keeps the
  order of the code. In the deployments of `external_inputs`, where
  `ReadsWhatWasWritten` holds, no request has both.

### Bounds

In the KV cache and the engine the bounds are the smallest at which every branch
happens: two blocks per request so that a chain has a head and a tail, a pool
smaller than the sum of the requests so that preemption and eviction happen, a
budget smaller than two prompts so that prompts are chunked, and two to three
requests because every interaction in the code is between a request and one
other (its victim, its sharer, the one it waits behind). Requests are symmetric
in `kv_pool`, and in `engine_fcfs` but for the one that has the salt. There are no state constraints: lengths are bounded by
`max_model_len` in the code itself.

`external_inputs`: images of two tokens, so that a span can end inside one,
seven tokens of context and five per step, so that a prompt of two images needs
two steps. `Undisturbed` names the deployments (a pool that holds everybody,
prompts that differ from the first block on, no repeated image) for which
`SpansHaveTheirImages` and `EveryRequestDrains` are claimed; the others fail, see
below.

`hybrid`: an alignment of two stands for the kernels' sixteen; seven tokens of
context, three per step and two drafts, windows of three and four, so that a
window straddles blocks and sheds more than once; two admissions per
deployment, so that a request meets what another left; `MaxExternal` is 0 because
the connector refuses windowed groups.

`front_end`: three calls, because a retry needs a predecessor and a fanned-out
call beside them shows that failures and stops stay with their own; two
children, so that they finish in either order; at most two outputs, so that a
stop string and an intermediate output happen; two replicas. `AbortedIds` keeps
`abort()` away from the id that is used again and `RetryOver` keeps retries off
"mp": the first would run into the stolen queue described below, and over the
sockets an output frame names only an id, so a frame of an aborted request that
was already on the way reaches the next call that uses it.

`serving`: two calls, three tokens for each choice, nine messages of context.
`MaxLag` is how many steps are counted after a client has left; only
`MCServingSlow` counts any.
`text`: a model of 24 tokens, so that a resolved max_tokens and a given one both
end answers. Properties' names, punctuation and scalars count as one character.

`CHECK_DEADLOCK FALSE` is set where the system may stop for good: clients may
stop calling (`front_end`, `front_end_liveness`, `serving`), deployments are
refused or serve a bounded number of requests (`hybrid`, `external_inputs`), and
a completion ends (`text`).

## Disagreements between the code and its own account of itself

Beside the findings above, these configurations state what a doc, comment or
test says and TLC refutes them; run them with `tlc -config X.cfg M.tla`.

| Configuration | Property | What happens |
|---|---|---|
| `MCEngineOverlong`, `MCEngineCore` | `EveryRequestTerminates` (`pretending_vllm_requirements.md:634`) | Without max_tokens, min_tokens is compared with nothing (`sampling_params.py:196`, `v1/engine/input_processor.py:163-165`). One that reaches beyond the model keeps `check_stop` from looking at the length; the request fills the model, gets no token from then on (`core/sched/scheduler.py:286`) and stays running for ever. |
| `MCAsyncStolen`, `MCAsyncLLM` | `FinallyLeavesOthers` (`async_llm.py:172`) | abort() frees an id before the aborted call has run its finally; the finally then takes the queue and aborts the request of the next call with that id, which waits for ever. |
| `MCAsyncCollective`, `MCAsyncLLM` | `CollectiveIsWhole` (`dp_client.py:234`) | A replica with only ids to clear has "requests", steps without a forward pass, and the collective lacks it. |
| `MCServingStolen`, `MCServing` | `ServedOrDone` | The same over HTTP: a responses stream whose client left aborts its id at once and leaves its generator to be closed later; a retry under the id in between is taken down and its client waits for ever. |
| `MCServingReplay`, `MCServing` | `ThreadsHold` (`construct_input_messages`) | The messages of a turn are stored when it is admitted and its response when it ends: a turn under a used id joins one to the other, and a third replays questions with a foreign answer. |
| `MCServingSlow`, `MCServing` | `DisconnectFreesSoon` (R2.4, `pretending_vllm_requirements.md:333`) | "Within one step": a handler that returns a body asks whether its client is there only after an output (`completion/serving.py:137`, and chat and responses alike), and the gather over an embedding's documents never asks, so a request that waits, computes a long prompt or is one of several runs on for as many steps as it has no output for its handler. |
| `MCEngineCollision`, `MCEngineCore` | `AnyDifferenceIsolates` (`kv_cache_utils.py:338`) | The adapter's name and the cache salt go untagged into one tuple, so a request under adapter "x" and one with the salt "x" share blocks of equal tokens. No entry point passes a salt today. |
| `MCHybridSpare`, `MCHybridKV` | `AloneItFits` (`sim/memory.py:421`) | Two deployments (`-continue` shows both) whose single group the guard charges as full attention (`memory.py:394-431`) while the manager reserves the null block (`kv_cache_manager.py:97-117`), so that one request does not fit: a window no shorter than the model, and a card that is windowed throughout and served without the flag. |
| `MCHybridAdapters`, `MCHybridKV` | `ResidentFits` | The ledger is never asked for the adapters' bytes (`sim/device.py:73-85`), which "come out of the same budget" (`memory.py:343`): a pool fixed by hand beside them is larger than the device. |
| `MCHybridStages`, `MCHybridKV` | `EveryStageHoldsThePool` (`attn_utils.py:175`) | The stage that binds is chosen by the sum of page bytes, but a block costs a page for each layer of the largest group: another stage can need more. |
| `MCExternalHeld`, `MCExternalInputs` | `EveryImageDrains` (`test_multimodal.py:378`) | A head that waits for blocks keeps the image it hit, and the running request that needs its place never goes on. |
| `MCExternalAgree`, `MCExternalInputs` | `WorkerHoldsWhatIsCached` (`model_runner.py:115`) | An admission that finds no blocks gives its references back, but its image stays in the scheduler's cache although nobody encodes it: the next request hits it and runs without embeddings. The worker also skips eviction notices on a step that schedules nothing (`model_runner.py:492`). |
| `MCCompletionCut`, `MCCompletion` | `CutMeansStop` (`detokenizer.py:20`) | A stop string found in the token that reaches max_tokens cuts the text, and the reason stays "length". |
| `MCCompletionDivergent`, `MCCompletion` | `ConformsOrSaysSo` (`sim/grammar.py:94`) | additionalProperties, type beside enum, oneOf with overlapping branches, and allOf with one property twice are accepted and not honoured. |

Properties stated in the modules that the code does not keep, without a
configuration: `DeadEngineReachesAll` (R4.5; an abort and the finish that
crosses it are both subtracted from the outstanding count, the output task then
sees no work and never notices that the process died); `UsageIsExact`
(`test_responses_api.py:458`; a stream's usage leaves out the tokens that
rendered to no text); `StoreIsNeverAhead` (`sim_connector.py:247-255`; an abort
publishes what the batch under way has yet to compute).

Seen while modelling:

- max_num_partial_prefills is tested against flags of the step before
  (`core/sched/scheduler.py:424`), so one step can exceed it; the set of
  constrained requests is computed from the same flags (`:628`).
- A request that min_tokens has carried to the length cap and that is preempted
  there resumes with more tokens than the model has positions: admission does
  not clamp. `SlotsCoverBatch` is claimed and proved for prompts that leave room
  for min_tokens only.
- Later prefill chunks are appended a second time to the worker's history
  (`:677`), from which `input_ids` are read (`worker/gpu/model_runner.py:383`)
  though nothing simulated depends on them, so `EngineCore` leaves it out.
- An id used again while a batch is in flight inherits the grammar error of its
  predecessor (`engine/core.py:321`).
- A message that contains one image twice loses its only reference with the
  first copy; admission's `_schedule_encoder` starts at 0 whatever the hit; the
  store's LRU evicts the heads of chains first.
- `cancel_responses` never finds a stored response that has not ended.
- An empty stop string is accepted and matches nothing; a default minItems of 1
  refuses maxItems 0; a fractional minimum is truncated; under speculation
  `token_ids` may go past the stop string that cut the text.

## Fairness

`FairEngineSpec` assumes weak fairness of the engine's own steps and of each
compilation, nothing of clients. The first is what `EngineCoreProc.run_busy_loop`
and `AsyncLLM._run_output_handler` do: they step while `has_requests()`; the
simulated device always completes a batch. The second holds because the
compilation runs on an executor's thread and either returns or raises.
`EveryRequestTerminates` is checked for first come, first served without
adapters: under priorities, or with adapters, a client that never stops
submitting can delay a request for ever, and the code promises nothing else.

`ESpec` assumes the same of `ExternalInputs`' engine steps and nothing of clients
or of the engine at the other end of the store.

`FairAsyncSpec` assumes weak fairness of the output task, of each consumer that
has an item to take, of the reader thread and of the core's process (its loop,
and its exit after a crash). The event loop runs every ready task and the
threads are the operating system's. Nothing obliges a client to call, resume,
close or abort, or an engine step to fail.

Two of these conditions are written as "infinitely often taken or infinitely
often not ready" with the readiness condition spelled out, because ENABLED of an
action that folds over many outputs is slow to evaluate.

## Theorems

Everything below is proved for every set of requests, every pool, block size,
budget, number of seats, policy, priority, adapter, number of drafts and stop
tokens the assumptions allow. The assumptions are the named ASSUMEs of
`KVCache` and `Scheduler`: finitely many requests, positive sizes, prompts made
of tokens (`Add` takes those that fit the model, which the front end makes sure of),
a pool that holds one request of maximal length (start-up refuses others), and
`NoHash` distinct from every hash. Of the front end everything is proved for
every set of calls, fan-out, set of ids, transport and number of replicas; its
assumptions are finitely many calls, each with a finite number of outputs, and
at least one replica. The encoder cache's theorem is proved for every deployment
whose cache and budget are numbers that hold one image (`SchedulerConfig` raises
both to that); those of the endpoints for every set of calls and every mix of
endpoints, streams, stored turns, chosen ids, documents and choices (one or two
of these in a call). A theorem that needs more says so in its statement, and
what it needs is named below.

### The cache

`KVCacheProofs` proves that `PoolInv` is inductive: the types, exact
reference counts, an exact free queue, an exact hash map, tables whose published
blocks hold the request's content, and sharing of published blocks only. The
conjuncts need each other. A block taken from the queue has no holder because
the queue is exact; hence evicting its hash disturbs no table; hence table
contents survive; a hit is found through the map, which is exact, so it carries
the hash the request asked for; a block that is published twice has one holder,
because a shared one is published already. The lemmas are one per operation
(`AllocateSlotsPreserves`, `FreePreserves`, `TokensPreserve`, `ResetPreserves`)
and rest on facts about filtering, reversing, cutting and joining sequences of
blocks. `EnoughBlocks` is the arithmetic that makes `CanAllocate` sufficient:
hits that are still in the queue are charged like new blocks. From the invariant
follow `TypeCorrect`, `ReferencesAreExact`, `FreeQueueIsExact`,
`NoForeignContent`, `TenantsAreIsolated` and, with the action lemma,
`HeldBlocksAreStable`.

`AllocateSlotsEffect` says what a successful allocation has done: the blocks of
the hit, then blocks nobody held. With it `PoolImplementsSharing` maps every step
of the cache to a step of `BlockSharing` or to none, and `SchedulerSharesBlocks`
(in `SlotProofs`) does the same for every step of the scheduler.

Two more theorems are about how tables and hashes relate across requests.

- `CommonPrefixesAreCommon`: `get_num_common_prefix_blocks` counts the leading blocks of
  one table whose count is the number of running requests, and never looks at
  another table. That these are the leading blocks of every table follows from
  exact counts (as many holders as requests, so all of them) and from a block
  having one position in all the tables that hold it, because what it publishes
  ends there.
- `NoHoles`: a cached block stands on a chain of cached blocks, one for each
  shorter prefix. The freed blocks of a table go to the queue back to front and
  eviction takes from the head, so a chain loses its end first; but a block can
  be free in one chain and its prefix held by another. `ChainInv` says it of
  every cached block nobody holds: some block with its prefix's hash is held, or
  is behind it in the queue; the blocks that are held are published from the
  front of their table. `SchedulerKeepsPrefixes` carries the invariant through
  every step of the scheduler.

### The scheduler

`SchedInv` (`SchedulerInvariant`) has these parts, and none is inductive alone:

- `SchedTypeOK` and `PoolInv`.
- `QueueInv`: the queues without repetition and apart from each other, the
  statuses that say which queue, and nobody set aside outside of admission.
  `finish_requests` searches the queue the status names, so an abort keeps the
  queues right only because of the statuses, and the other way round.
- `BatchInv`: what `schedule()` has decided so far. The batch is
  `scheduled_running` and `scheduled_new`, runs, and is apart from the
  preempted; requests from `req_index` on have had no turn. A preemption shifts
  the list under the loop, which is why the part about the current request is
  stated through its position.
- `CountInv`: each running request is settled (in its prefill or exactly one token
  behind), planned for, or pending, depending on where the step is. A request at
  a later index is still pending while earlier ones are updated.
- `WaitingHoldsNothing`: without it an admission would adopt stale counts.
- `ErrorsInv`: a request whose grammar failed is not running when it is finished,
  so finishing it frees no block.

From it follow `SchedulerTypesAreCorrect`, `QueuesArePartitioned`,
`ComputedCountsAreExact`, `OnlyRunningHold`, `PoolUnderScheduler` and
`TenantsAreIsolatedInEngine`. The others need a companion that is inductive
beside `SchedInv`:

| Theorem | Companion | Why the property alone is not inductive |
|---|---|---|
| `RunningRequestsHaveGrammar` | `GrammarInv` | a preempted request runs again without asking for its grammar |
| `BudgetIsConserved` | `BudgetSpent`, `SeatsKept` | a refund is exact only for one who was given tokens in this step |
| `UrgencyOrderIsKept`, `ArrivalOrderIsKept` | `InLine` and the queue lemmas of `SchedulerProofs` | an arrival time is a position in the dict, which every departure shifts |
| `SlotsCoverTheBatch` | `ReachInv`, `LengthInv`, `SlotsInv` | inside a step the slots must reach to what the request has been given |

The tokens of a batch are counted as the elements of `ScheduledTokens`, a set of
pairs, so that adding and refunding are facts about cardinalities.

`SlotsInv` holds as it stands (the blocks reach to the last token a request is
given, or to the end of the model), and the engine's proofs use it. That nobody
is given a token past the end (`ReachInv`, `LengthInv`) needs `RoomForMinTokens`:
the prompt leaves room for min_tokens. `SlotsCoverTheBatch` and
`LifecycleIsImplemented` assume it. The code makes sure of it whenever max_tokens
is given; when it is not, both properties fail, as does
`EveryRequestTerminates` in `MCEngineOverlong`.

### The engine

`EngineIsScheduler` is the refinement `EngineSpec => SchedSpec`; it carries every
theorem above over to the engine.

- `SlotsAreWrittenOnce` rests on `SharersArePast`: of those who share a block all
  but one have computed past it. A hit starts the count behind the blocks it
  joins; rolling back rejected drafts never reaches a shared block, because a
  shared block is published, a published block ends within the known tokens, and
  the count never falls below those that were accepted.
- `WorkerAlwaysAgrees` rests on `WorkerInv`: a running request's table is what the
  worker has and what `schedule()` has added since (`Untold`), and whoever the
  worker should drop is among the finished or the preempted. A preempted request
  has to be dropped although it may be admitted under the same id in the next
  step; an id that was aborted in flight is named in the next decision.
- `LifecycleIsImplemented` maps each step of the scheduler to a step of
  `RequestLifecycle` or to none: queued, active and absent are read from the
  status, preemption is a suspension that takes back no token. That the tokens
  kept contain no stop token after the minimum is `AllIsKept`: if
  `_update_request_with_output` did not stop, it looked at each of them.
- `WhatIsPublishedIsComputed` rests on `ComputedInv`: every block that has a hash,
  or that a running request counts as computed, is `Backed`: its KV is written,
  or the batch being put together writes its last slot (`Coming`). `SlotsInv` and
  `SharersArePast` say that the slot is there and whose it is. The theorem is about
  first come, first served: there the victim of a preemption is the last of the
  running list, which has no plan yet, so no plan is called off after it published
  a block. Under priorities it can be any, and `uncomputed_block`
  shows what becomes of the block.

### The front end

Two facts about the deployment appear as hypotheses, and the instances TLC checks
satisfy them. `ReuseIsOrderly`: no id that two calls share is aborted by name
(the successor's queue would be dropped, see the disagreements above).
`SocketsSeeNoReuse`: no id is used again over "mp", where an output frame names
only the id. Ids the server makes up satisfy both.

The first invariant, `FrontInv`, is about who is registered where:

- the types, with outputs of any number of replicas merged into one list;
- `QueuesInv` and `StatesInv`: a registered queue belongs to the call under way
  with that id, and engine requests with state belong to calls under way;
- `ParentsInv`: a parent is registered under its id as long as it has children,
  and its children are those with state. A final output, a stop string, and an
  abort by the parent's id or by a child's keep it;
- `RouterInv` and, without sockets, `DirectInv`: core, router and front end agree
  on what is in flight.

`FrontEndTypes`, `RouterKeepsItsBooks` and `ParentsAreNeitherLostNorLeft` follow.
A request counted at a replica is counted once, because what a round produces
has one final output for each engine request that ends.

`SocketInv` says where an engine request is that the front end has forgotten: its
ADD is on the input socket with an ABORT behind it, or the core has it and an
ABORT is on the way, or it has ended and its frames are still unread
(`AddsInv`, `CoreInv`, `UnreadInv`). A crash clears the core and the socket
(`DeathInv`), and adds no frame but the DEAD one. `NothingRunsForNobody` follows.

`DeliveryInv` is about what is in a queue and what is still to come:

- `ChildrenKnown`: the same as `ParentsInv` for the calls that still have state,
  which also holds after the engine died;
- `StateInv`: a call with state has its queue, and what is gathered is its own;
- `BoxInv`: items hold the call's own outputs; nothing but an exception follows an
  end; once the finished item is in the queue no state is left;
- `ServedInv`: a call whose end is not in its queue is registered, served, and
  has state while the engine lives;
- `OnceInv`: of every completion, the end is still to come, or gathered, or in the
  queue once, or handed to the consumer, and only one of these.

It is said of a processor and of one box for each call, not of the variables,
because one step of the output task processes any number of outputs: it holds
after each of them (`ItemKeeps`), and only the box of the call whose request
produced the output changes. Its two halves need each other: an output finds its
call's queue because the call has state, and the state is there because no final
output of that request came before. `NobodyGetsAnothersOutputs`,
`FinishedMeansComplete` and `NobodyWaitsForNothing` follow.

The fold over the outputs is a recursive function with a bounded domain. That
something holds after all of them is shown by taking the least number of outputs
after which it does not (`LeastElement`, `Climb`), which needs no induction
scheme with an operator parameter.

### The endpoints

`ServingInv` (`ServingInvariant`) has these parts:

- `FlightInv`: which generator is registered, running, held by a handler or
  abandoned. A stream that left its generator suspended frees the id only when
  the event loop closes it, and in between the id may be another's: what is
  registered under an id, and what runs, is said of generators and not of calls.
- `FramesInv` with `EventsInOrder`: what a stream has sent, by where its handler is.
  A responses stream opens its item with the first text, so whether it is open is
  whether the handler has added up any. An action appends up to a handful of
  frames at once; `Going` says of a list of frames that it may go on, which of
  the kinds may follow is `NextFrame`, and the lemmas on `Delta`, `Opening` and the
  closings string it together.
- `WholeInv`: what was made of a call is what its handler has added up and what
  waits in its queue, and a stream's pieces are what it has added up. A stored
  response is the body of the call that wrote it.

`AnsweredCallsLeaveNothing`, `StreamsAreInOrder` and `AnswersAreWhole` follow.
The concatenation of a stream's pieces is a recursive function with a bounded
domain; `PieceAdded` says what one more frame does to it.

### The encoder cache

`EncoderBooksAreExact` is about one record with seven fields that eight actions
change, some of them for several images at a time. Its invariant `EncoderInv` has
three parts:

- `BooksInv(e)` is said of a cache `e`, not of the variable, because it holds after
  each single image of a step: after room was made for it (`RoomKeepsBooks`: what
  is evicted is the head of the free order, which nobody references), after it was
  given a reference (`AllocateKeepsBooks`), after one was taken back
  (`ReleaseKeepsBooks`). `_schedule_encoder`, `free` and the loop at the end of
  `update_from_output` are recursive functions over positions with those three as
  their steps, and carry it along (`ScheduleKeepsBooks`, `ReleaseAllKeepsBooks`,
  `PassedKeepsBooks`). It holds every entry of the free order once, which is what the
  membership test in `free_encoder_input` is for, and it holds that the ids of a
  request lie within its tokens: `free()` goes through them and forgets none.
- `PlacesInv`: the types, and whom a step is about. A preempted request goes from
  the end of the running list to the head of the waiting one with its references,
  so the request that wanted the blocks must be at its place after it.
- References belong to requests in a queue. An id that arrives has none, since it
  was never submitted; `BooksFollow` says that a token that is appended moves no
  image.

### Only model-checked

- Liveness (`EveryRequestTerminates`, `WaitsEnd`, `EveryRequestDrains`): out of the prover's reach, as is ENABLED.
- What a recursive definition computes for every input: the generator and matcher
  of `Grammar`, the decoding of `Detokenizer`, the formulas of `Sizing`; with them
  the properties of `Completion` and `HybridKV`.
- What a batch of `ExternalInputs` reads, and what its store holds
  (`SpansHaveTheirImages`, `ReadsWhatWasWritten`, `StoreIsComputed`).

The modules also state invariants that hold on the instances and are not part of
a run, because a deeper property of the run rests on them: `BatchIsRunning`,
`SamplingAgrees`, `AsyncTypeOK`, `HybridPoolExact`, `GroupsServeEveryLayer`,
`ReplayIsCoherent`. The inductive invariants were checked by TLC on the
instances before they were proved.

## Not modelled

- The offline engine (`llm_engine.py`, `entrypoints/llm.py`) and the synchronous
  multiprocess client: one caller and one loop, without the interleavings of the
  asynchronous ones.
- The handshake at start-up and the shutdown of the core process: signals and
  process control.
- Metrics, statistics, tracing and KV events: nothing the engine reads.
- The clock, the cost model and random numbers: floating-point arithmetic whose
  results change no decision of the modules here (scheduling has no clock).
- Command line, configuration parsing, request parsing and its validation
  messages, the remaining pooling endpoints: conversions without state.
- Benchmarks and conformance tools: offline drivers.

## Plan

1. Proofs about `ExternalInputs`: that a batch reads what was written for it when no
   request has a local hit in front of an external one, and that the store holds
   only what was computed.
2. The pool of `HybridKV`, whose arithmetic would have to leave recursive operators.
3. The combination of drafts with images and windowed groups under the
   scheduler, if an instance of it can be made small enough.
