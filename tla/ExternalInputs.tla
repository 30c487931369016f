--------------------------- MODULE ExternalInputs ----------------------------
(***************************************************************************)
(* What a step needs from outside the token stream: images, encoded under a *)
(* budget and kept in EncoderCacheManager (v1/core/encoder_cache_manager.py) *)
(* and on the worker, and KV that another engine has put in a shared store   *)
(* (distributed/kv_transfer/sim_connector.py, sim/kv_store.py).  Both meet in *)
(* schedule() (v1/core/sched/scheduler.py), here first come, first served,   *)
(* without drafts, adapters and grammars, which Scheduler.tla has, and with  *)
(* max_num_partial_prefills out of reach.                                    *)
(*                                                                         *)
(* A placeholder token is its image, so tokens identify the content of a     *)
(* block as the extra keys of its hash do.  All images are of one size, as   *)
(* the ones of entrypoints/openai/multimodal.py are; an input id is the      *)
(* position of its first placeholder, counted from 0.                        *)
(***************************************************************************)
EXTENDS KVCache, SequencesExt

CONSTANTS
    Images,               \* mm hashes; they are tokens too
    ImageTokens,          \* DEFAULT_IMAGE_TOKENS: placeholders, and embeddings, of one
    Text,                 \* the token the model produces
    MaxNumSeqs,
    MaxNumBatchedTokens,
    MaxTokens,            \* tokens a request may produce
    Deployments           \* prompts, pool, encoder cache and budget, connector

ASSUME InputsAssumption ==
    /\ Images \subseteq Tokens /\ Text \in Tokens \ Images
    /\ {ImageTokens, MaxNumSeqs, MaxNumBatchedTokens, MaxTokens} \subseteq Nat \ {0}
    /\ \A r \in Requests : ExtraKeys[r][2] = NoKey  \* no adapters
    /\ \A d \in Deployments :
         /\ d.prompt \in [Requests -> Seq(Tokens)]
         /\ d.num_gpu_blocks \in 1..NumBlocks
         \* SchedulerConfig floors both at the size of one item.
         /\ d.cache_size \in Nat /\ d.cache_size >= ImageTokens
         /\ d.encoder_budget \in Nat /\ d.encoder_budget >= ImageTokens
         /\ d.may_load \in BOOLEAN /\ d.may_save \in BOOLEAN
         /\ d.capacity_blocks \in Nat
         /\ \A c \in d.elsewhere : c \in Hashes /\ Len(c[2]) % BlockSize = 0

VARIABLES
    deployed,            \* the member of Deployments
    submitted,           \* the ids that have arrived; each does once
    waiting, skipped_waiting, running,
    num_computed_tokens,
    pc,
    step,                \* the locals of schedule() and what it decides
    encoder,             \* EncoderCacheManager
    encoder_outputs,     \* the embeddings the worker holds
    resident,            \* SimKVStore.resident, oldest first
    pending_loads,       \* the connector's, as slots to fill and what with
    device,              \* the KV of each slot, as the tokens up to its own
    computed             \* the block contents some device has computed so far

evars == <<vars, deployed, submitted, waiting, skipped_waiting, running,
           num_computed_tokens, pc, step, encoder, encoder_outputs, resident,
           pending_loads, device, computed>>
queueVars == <<waiting, skipped_waiting, running>>
deviceVars == <<encoder_outputs, device, computed>>

Goto(label) == pc' = label
Live == Range(waiting) \cup Range(skipped_waiting) \cup Range(running)
Without(q, r) == Filter(q, Requests \ {r})
num_tokens(r) == Len(all_token_ids[r])

------------------------------------------------------------------------------
(* The encoder cache.                                                       *)

\* Request.mm_features: where the images begin; a run of equal placeholders is cut
\* into images.
RunBefore(tokens, p) == Cardinality({k \in 1..p : \A j \in k..p : tokens[j] = tokens[p + 1]})
Starts(tokens) ==
    {p \in 0 .. Len(tokens) - ImageTokens :
        tokens[p + 1] \in Images /\ RunBefore(tokens, p) % ImageTokens = 0}
ImageAt(r, p) == all_token_ids[r][p + 1]

NewEncoderCache(cache_size) ==
    [cached |-> {}, references |-> [i \in Images |-> {}], freeable |-> <<>>,
     num_free_slots |-> cache_size, num_freeable_slots |-> cache_size,
     request_cached_ids |-> [r \in Requests |-> {}], freed |-> {}]

\* can_allocate frees what it needs while it answers.  Entries are of one size, so
\* the oldest unreferenced one makes room.
MayEvict(e) ==
    e.num_free_slots < ImageTokens /\ ImageTokens <= e.num_freeable_slots /\ e.freeable # <<>>
CanAllocateImage(e) == ImageTokens <= e.num_free_slots \/ MayEvict(e)
RoomMade(e) ==
    IF ~MayEvict(e) THEN e
    ELSE LET oldest == Head(e.freeable) IN
         [e EXCEPT !.cached = @ \ {oldest}, !.freeable = Tail(@),
                   !.num_free_slots = @ + ImageTokens, !.freed = @ \cup {oldest}]

\* allocate: a reference, and the space or the place in the eviction order with it.
Allocated(e, r, p) ==
    LET i == ImageAt(r, p)
        new == i \notin e.cached
        idle == ~new /\ e.references[i] = {}
    IN  [e EXCEPT
          !.cached = @ \cup {i},
          !.references[i] = @ \cup {r},
          !.num_free_slots = IF new THEN @ - ImageTokens ELSE @,
          !.num_freeable_slots = IF new \/ idle THEN @ - ImageTokens ELSE @,
          !.freeable = IF idle THEN Filter(@, Images \ {i}) ELSE @,
          !.request_cached_ids[r] = @ \cup {p}]

\* Mutant: an entry is queued for eviction once for each input that lets it go.
ReleasedTwice(e, r, p) ==
    LET i == ImageAt(r, p)
        held == [e EXCEPT !.request_cached_ids[r] = @ \ {p}, !.references[i] = @ \ {r}]
    IN  IF i \in e.cached /\ held.references[i] = {}
        THEN [held EXCEPT !.freeable = Append(@, i), !.num_freeable_slots = @ + ImageTokens]
        ELSE held

\* free_encoder_input: the entry stays, and is queued for eviction with its last holder.
Released(e, r, p) ==
    LET i == ImageAt(r, p)
        held == [e EXCEPT !.request_cached_ids[r] = @ \ {p}, !.references[i] = @ \ {r}]
    IN  IF i \in e.cached /\ held.references[i] = {} /\ i \notin Range(e.freeable)
        THEN [held EXCEPT !.freeable = Append(@, i), !.num_freeable_slots = @ + ImageTokens]
        ELSE held

\* The same for several of a request's inputs; after[p] has seen those before p.
ReleasedAll(e, r, inputs) ==
    LET after[p \in 0 .. num_tokens(r)] ==
          IF p = 0 THEN e
          ELSE IF p - 1 \in inputs THEN Released(after[p - 1], r, p - 1)
          ELSE after[p - 1]
    IN  after[num_tokens(r)]

\* Scheduler._schedule_encoder: images the span touches are taken in order until one
\* cannot be; the span then stops in front of it.
Considered(acc, r, p, start) ==
    IF acc.full \/ p \in acc.encoder.request_cached_ids[r] THEN acc
    ELSE IF ImageAt(r, p) \in acc.encoder.cached
    THEN [acc EXCEPT !.encoder = Allocated(@, r, p)]
    ELSE IF ImageTokens <= acc.budget /\ CanAllocateImage(acc.encoder)
    THEN [acc EXCEPT !.encoder = Allocated(RoomMade(@), r, p),
                     !.budget = @ - ImageTokens, !.inputs = @ \cup {p}]
    ELSE [acc EXCEPT !.full = TRUE, !.n = AtLeastZero(p - start)]

ScheduleEncoder(r, start, n) ==
    LET touched == {p \in Starts(all_token_ids[r]) : p < start + n /\ start < p + ImageTokens}
        after[p \in 0 .. num_tokens(r)] ==
          IF p = 0
          THEN [encoder |-> encoder, budget |-> step.encoder_budget, n |-> n, inputs |-> {},
                full |-> FALSE]
          ELSE IF p - 1 \in touched THEN Considered(after[p - 1], r, p - 1, start)
          ELSE after[p - 1]
    IN  after[num_tokens(r)]

------------------------------------------------------------------------------
(* The connector.                                                           *)

Contents(r) == [i \in 1 .. NumBlockHashes(r) |-> BlockHash(r, i)]
BlocksOf(content) ==
    [i \in 1 .. Len(content[2]) \div BlockSize |->
        <<content[1], SubSeq(content[2], 1, i * BlockSize)>>]

\* SimKVStore.write: a block written again is the most recent; the oldest go first.
Written(hashes) ==
    LET s == SelectSeq(resident, LAMBDA h : h \notin Range(hashes)) \o hashes
        cap == deployed.capacity_blocks
    IN  IF cap > 0 /\ Len(s) > cap THEN SubSeq(s, Len(s) - cap + 1, Len(s)) ELSE s

\* Mutant: a block behind a gap counts.
ResidentAnywhere(hashes) == Cardinality({i \in DOMAIN hashes : hashes[i] \in Range(resident)})

\* SimKVStore.longest_prefix.
LongestPrefix(hashes) ==
    Cardinality({i \in DOMAIN hashes : \A j \in 1..i : hashes[j] \in Range(resident)})

\* SimSharedStoreConnector.get_num_new_matched_tokens, in blocks, beyond a local hit;
\* one is held back so that the request has something to compute.
NumMatchedBlocks(r, num_local) ==
    LET matched == LongestPrefix(SubSeq(Contents(r), num_local + 1, NumBlockHashes(r)))
    IN  IF ~deployed.may_load THEN 0
        ELSE IF num_local + matched >= NumBlockHashes(r) THEN AtLeastZero(matched - 1)
        ELSE matched

\* update_state_after_alloc.  The blocks are counted from the request's
\* num_computed_tokens, which schedule() has not set yet; what the store sends is what
\* was matched, behind the local hit.
Loads(r, num_local, num_external, table) ==
    {[block |-> table[(num_computed_tokens[r] \div BlockSize) + i], offset |-> o,
      content |-> SubSeq(all_token_ids[r], 1, (num_local + i - 1) * BlockSize + o + 1)] :
        i \in {k \in 1..num_external : BlockHash(r, num_local + k) \in Range(resident)},
        o \in 0..(BlockSize - 1)}

\* Mutant: every known block is published, computed or not.
PublishedAll(r) == Contents(r)

\* request_finished: the blocks behind num_computed_tokens.
PublishedOf(r) ==
    SubSeq(Contents(r), 1, Least(num_computed_tokens[r] \div BlockSize, NumBlockHashes(r)))

------------------------------------------------------------------------------
(* The state of an engine.                                                  *)

NoStep ==
    [req_index |-> 1, request |-> <<>>, num_new_tokens |-> 0, token_budget |-> 0,
     encoder_budget |-> 0, tokens |-> [r \in Requests |-> 0],
     inputs |-> [r \in Requests |-> {}], preempted |-> FALSE, reads |-> {}, batch |-> {}]

EInit ==
    /\ deployed \in Deployments
    /\ all_token_ids = [r \in Requests |-> <<>>]
    /\ ref_cnt = [b \in Blocks |-> 0] /\ block_hash = [b \in Blocks |-> NoHash]
    /\ free_block_queue = [i \in 1 .. deployed.num_gpu_blocks |-> i - 1]
    /\ cached_block_hash_to_block = {} /\ req_to_blocks = [r \in Requests |-> <<>>]
    /\ submitted = {} /\ waiting = <<>> /\ skipped_waiting = <<>> /\ running = <<>>
    /\ num_computed_tokens = [r \in Requests |-> 0]
    /\ pc = "idle" /\ step = NoStep
    /\ encoder = NewEncoderCache(deployed.cache_size) /\ encoder_outputs = {}
    /\ resident = <<>> /\ pending_loads = {}
    /\ device = [b \in Blocks |-> [o \in 0 .. BlockSize - 1 |-> <<>>]] /\ computed = {}

------------------------------------------------------------------------------
(* Clients, and the other engine.                                           *)

ClientsMayCall == pc \in {"idle", "inflight"}

Submit(r) ==
    /\ ClientsMayCall /\ r \notin submitted /\ deployed.prompt[r] # <<>>
    /\ submitted' = submitted \cup {r}
    /\ all_token_ids' = [all_token_ids EXCEPT ![r] = deployed.prompt[r]]
    /\ waiting' = Append(waiting, r)
    /\ UNCHANGED <<kvVars, deployed, skipped_waiting, running, num_computed_tokens, pc, step,
                   encoder, resident, pending_loads, deviceVars>>

\* Scheduler._free_request: the connector publishes, the encoder references and the
\* blocks go.
FreeRequest(r) ==
    /\ resident' = IF deployed.may_save THEN Written(PublishedOf(r)) ELSE resident
    /\ encoder' = ReleasedAll(encoder, r, encoder.request_cached_ids[r])
    /\ Free(r)
    /\ all_token_ids' = [all_token_ids EXCEPT ![r] = <<>>]
    /\ num_computed_tokens' = [num_computed_tokens EXCEPT ![r] = 0]

\* finish_requests, also while the batch that contains the request runs.
Abort(r) ==
    /\ ClientsMayCall /\ r \in Live
    /\ running' = Without(running, r) /\ waiting' = Without(waiting, r)
    /\ FreeRequest(r)
    /\ UNCHANGED <<deployed, submitted, skipped_waiting, pc, step, pending_loads, deviceVars>>

\* Another engine on the same store finishes a request that began like this.
OtherEngineWrites(content) ==
    /\ resident' = Written(BlocksOf(content))
    /\ resident' # resident
    /\ computed' = computed \cup Range(BlocksOf(content))
    /\ UNCHANGED <<vars, deployed, submitted, queueVars, num_computed_tokens, pc, step,
                   encoder, encoder_outputs, pending_loads, device>>

------------------------------------------------------------------------------
(* schedule(): the running requests.                                        *)

StartSchedule ==
    /\ pc = "idle" /\ running \o waiting # <<>>
    /\ step' = [NoStep EXCEPT !.token_budget = MaxNumBatchedTokens,
                              !.encoder_budget = deployed.encoder_budget]
    /\ Goto("running")
    /\ UNCHANGED <<vars, deployed, submitted, queueVars, num_computed_tokens, encoder, resident,
                   pending_loads, deviceVars>>

InRunningLoop == pc = "running" /\ step.req_index <= Len(running) /\ step.token_budget > 0
NextRunning == running[step.req_index]
CurrentRequest == step.request[1]
NumNewTokens(r) ==
    Least(Least(num_tokens(r) - num_computed_tokens[r], step.token_budget),
          MaxModelLen - num_computed_tokens[r])

\* How many tokens the request gets, and which images with them; nothing to do for it
\* is a `continue'.
ConsiderRunning ==
    /\ InRunningLoop
    /\ LET r == NextRunning
           n == NumNewTokens(r)
           d == ScheduleEncoder(r, num_computed_tokens[r], n)
       IN  /\ encoder' = IF n > 0 THEN d.encoder ELSE encoder
           /\ IF n > 0 /\ d.n > 0
              THEN /\ step' = [step EXCEPT !.request = <<r>>, !.num_new_tokens = d.n,
                                           !.encoder_budget = d.budget, !.inputs[r] = d.inputs]
                   /\ Goto("allocate")
              ELSE /\ step' = [step EXCEPT !.req_index = @ + 1,
                                           !.encoder_budget = IF n > 0 THEN d.budget ELSE @]
                   /\ UNCHANGED pc
    /\ UNCHANGED <<vars, deployed, submitted, queueVars, num_computed_tokens, resident,
                   pending_loads, deviceVars>>

AllocateRunning ==
    /\ pc = "allocate"
    /\ LET r == CurrentRequest IN
         /\ AllocateSlots(r, num_computed_tokens[r] + step.num_new_tokens, <<>>)
         /\ step' = [step EXCEPT !.req_index = @ + 1, !.request = <<>>, !.num_new_tokens = 0,
                                 !.token_budget = @ - step.num_new_tokens,
                                 !.tokens[r] = step.num_new_tokens]
    /\ Goto("running")
    /\ UNCHANGED <<all_token_ids, deployed, submitted, queueVars, num_computed_tokens, encoder,
                   resident, pending_loads, deviceVars>>

\* _release_encoder_reservation: what was to be encoded for a request that is not in the
\* batch after all.
Unreserved(r) ==
    [step EXCEPT !.inputs[r] = {},
                 !.encoder_budget = @ + ImageTokens * Cardinality(step.inputs[r])]

\* The most recently admitted request goes back to the head of the queue, with its
\* reservation, but not its references, undone.  A request that has preempted
\* everybody else gives up.
Preempt ==
    /\ pc = "allocate"
    /\ LET r == CurrentRequest
           v == Last(running)
       IN  /\ ~CanAllocate(r, num_computed_tokens[r] + step.num_new_tokens, <<>>)
           /\ Free(v)
           /\ running' = Front(running)
           /\ waiting' = <<v>> \o waiting
           /\ num_computed_tokens' = [num_computed_tokens EXCEPT ![v] = 0]
           /\ encoder' = ReleasedAll(encoder, v, step.inputs[v])
           /\ step' = [Unreserved(v) EXCEPT !.preempted = TRUE,
                                            !.request = IF v = r THEN <<>> ELSE @]
           /\ Goto(IF v = r THEN "finish" ELSE "allocate")
    /\ UNCHANGED <<all_token_ids, deployed, submitted, skipped_waiting, resident, pending_loads,
                   deviceVars>>

\* A step that preempted admits nobody.
EndRunning ==
    /\ pc = "running" /\ ~InRunningLoop
    /\ Goto(IF step.preempted THEN "finish" ELSE "waiting")
    /\ UNCHANGED <<vars, deployed, submitted, queueVars, num_computed_tokens, step, encoder,
                   resident, pending_loads, deviceVars>>

------------------------------------------------------------------------------
(* schedule(): admission.                                                   *)

InWaitingLoop ==
    pc = "waiting" /\ waiting # <<>> /\ step.token_budget > 0 /\ Len(running) < MaxNumSeqs
NextWaiting == waiting[1]

\* What the head of the queue would get, given a local hit: what the store has behind
\* it, and the tokens and images of the step.  _schedule_encoder reads the request's
\* num_computed_tokens, which is still zero.
Admission(r, hit) ==
    LET external == NumMatchedBlocks(r, Len(hit))
        done == (Len(hit) + external) * BlockSize
        decision == ScheduleEncoder(r, num_computed_tokens[r],
                                    Least(num_tokens(r) - done, step.token_budget))
    IN  [external |-> external, computed |-> done, encoder |-> decision.encoder,
         budget |-> decision.budget, n |-> decision.n, inputs |-> decision.inputs]

AdmitWaiting ==
    /\ InWaitingLoop
    /\ LET r == NextWaiting IN
         /\ \E hit \in ComputedBlocks(r, num_computed_tokens[r]) :
              LET a == Admission(r, hit) IN
              /\ a.n > 0
              /\ AllocateSlots(r, a.computed + a.n, hit)
              /\ pending_loads' = pending_loads \cup Loads(r, Len(hit), a.external, req_to_blocks'[r])
              /\ num_computed_tokens' = [num_computed_tokens EXCEPT ![r] = a.computed]
              /\ encoder' = a.encoder
              /\ step' = [step EXCEPT !.tokens[r] = a.n, !.token_budget = @ - a.n,
                                      !.encoder_budget = a.budget, !.inputs[r] = a.inputs]
         /\ waiting' = Tail(waiting)
         /\ running' = Append(running, r)
    /\ UNCHANGED <<all_token_ids, deployed, submitted, skipped_waiting, pc, resident, deviceVars>>

\* Its first image cannot be encoded: it steps aside for this step.
SetAsideWaiting ==
    /\ InWaitingLoop
    /\ LET r == NextWaiting IN
         /\ \E hit \in ComputedBlocks(r, num_computed_tokens[r]) :
              /\ Admission(r, hit).n <= 0
              /\ encoder' = Admission(r, hit).encoder
              /\ step' = [step EXCEPT !.encoder_budget = Admission(r, hit).budget]
         /\ waiting' = Tail(waiting)
         /\ skipped_waiting' = Append(skipped_waiting, r)
    /\ UNCHANGED <<vars, deployed, submitted, running, num_computed_tokens, pc, resident,
                   pending_loads, deviceVars>>

\* No block for it: what was to be encoded is released, images it shares stay with it,
\* and nobody overtakes it.
BlockedWaiting ==
    /\ InWaitingLoop
    /\ LET r == NextWaiting IN
         \E hit \in ComputedBlocks(r, num_computed_tokens[r]) :
           LET a == Admission(r, hit) IN
           /\ a.n > 0
           /\ ~CanAllocate(r, a.computed + a.n, hit)
           /\ encoder' = ReleasedAll(a.encoder, r, a.inputs)
    /\ Goto("finish")
    /\ UNCHANGED <<vars, deployed, submitted, queueVars, num_computed_tokens, step, resident,
                   pending_loads, deviceVars>>

EndAdmission ==
    /\ pc = "waiting" /\ ~InWaitingLoop
    /\ Goto("finish")
    /\ UNCHANGED <<vars, deployed, submitted, queueVars, num_computed_tokens, step, encoder,
                   resident, pending_loads, deviceVars>>

------------------------------------------------------------------------------
(* The decision, and the batch on the device.                               *)

Scheduled == {r \in Requests : step.tokens[r] > 0}

\* The slots of a request's positions first..last, with the KV that belongs there.
Slots(r, first, last) ==
    {[block |-> req_to_blocks[r][(p \div BlockSize) + 1], offset |-> p % BlockSize,
      content |-> SubSeq(all_token_ids[r], 1, p + 1),
      key |-> KeysUpTo(r, (p \div BlockSize) + 1)] : p \in first..last}

Filled(slots) ==
    [b \in Blocks |-> [o \in 0 .. BlockSize - 1 |->
        LET here == {s \in slots : s.block = b /\ s.offset = o}
        IN  IF here = {} THEN device[b][o] ELSE (CHOOSE s \in here : TRUE).content]]

\* Mutant: the notices of eviction are not read.
EncoderOutputsKept(scheduled) == encoder_outputs \cup scheduled

\* GPUModelRunner._plan_step: evictions, then the new embeddings - unless the step is
\* empty, when it returns before either.
EncoderOutputsAfter(scheduled) ==
    IF Scheduled = {} THEN encoder_outputs ELSE (encoder_outputs \ encoder.freed) \cup scheduled

\* schedule() ends: set-aside requests return to the head, notices and loads are taken,
\* counts advance; the loads arrive before the batch runs (EngineCore._transfer_kv).
FinishSchedule ==
    /\ pc = "finish"
    /\ waiting' = skipped_waiting \o waiting /\ skipped_waiting' = <<>>
    /\ num_computed_tokens' = [r \in Requests |-> num_computed_tokens[r] + step.tokens[r]]
    /\ encoder' = [encoder EXCEPT !.freed = {}]
    /\ encoder_outputs' =
         EncoderOutputsAfter(UNION {{ImageAt(r, p) : p \in step.inputs[r]} : r \in Requests})
    /\ pending_loads' = {}
    /\ device' = Filled(pending_loads)
    /\ step' = [step EXCEPT
         !.req_index = 1, !.token_budget = 0, !.encoder_budget = 0, !.preempted = FALSE,
         !.inputs = NoStep.inputs,
         !.reads = UNION {Slots(r, 0, num_computed_tokens[r] - 1) : r \in Scheduled},
         !.batch = UNION {Slots(r, num_computed_tokens[r],
                                num_computed_tokens[r] + step.tokens[r] - 1) : r \in Scheduled}]
    /\ Goto("inflight")
    /\ UNCHANGED <<vars, deployed, submitted, running, resident, computed>>

\* The model has run.
BatchLands ==
    /\ pc = "inflight"
    /\ device' = Filled(step.batch)
    /\ computed' = computed \cup
         {<<s.key, s.content>> : s \in {t \in step.batch :
             /\ t.offset = BlockSize - 1
             /\ \A o \in 0..t.offset : device'[t.block][o] =
                    SubSeq(t.content, 1, Len(t.content) - t.offset + o)}}
    /\ step' = [step EXCEPT !.reads = {}, !.batch = {}]
    /\ Goto("update")
    /\ UNCHANGED <<vars, deployed, submitted, queueVars, num_computed_tokens, encoder,
                   encoder_outputs, resident, pending_loads>>

------------------------------------------------------------------------------
(* update_from_output().                                                    *)

Updating(r) == pc = "update" /\ step.req_index <= Len(running) /\ r = NextRunning
Samples(r) == step.tokens[r] > 0 /\ num_computed_tokens[r] >= num_tokens(r)
MustStop(tokens, r) ==
    Len(tokens) >= MaxModelLen \/ Len(tokens) - Len(deployed.prompt[r]) >= MaxTokens

\* Not in the batch, or not its last chunk.
UpdatePasses(r) ==
    /\ Updating(r) /\ ~Samples(r)
    /\ step' = [step EXCEPT !.req_index = @ + 1]
    /\ UNCHANGED <<vars, deployed, submitted, queueVars, num_computed_tokens, pc, encoder,
                   resident, pending_loads, deviceVars>>

UpdateContinues(r) ==
    /\ Updating(r) /\ Samples(r)
    /\ ~MustStop(Append(all_token_ids[r], Text), r)
    /\ all_token_ids' = [all_token_ids EXCEPT ![r] = Append(@, Text)]
    /\ step' = [step EXCEPT !.req_index = @ + 1]
    /\ UNCHANGED <<kvVars, deployed, submitted, queueVars, num_computed_tokens, pc, encoder,
                   resident, pending_loads, deviceVars>>

\* A length, or any token that stops it.
UpdateStops(r) ==
    /\ Updating(r) /\ Samples(r)
    /\ running' = Without(running, r)
    /\ FreeRequest(r)
    /\ UNCHANGED <<deployed, submitted, waiting, skipped_waiting, pc, step, pending_loads,
                   deviceVars>>

\* Mutant: references are held to the end of the request.
StillNeeded(e, r) == {}

\* _free_encoder_inputs: the images whose placeholders are all computed.
Passed(e, r) == {p \in e.request_cached_ids[r] : p + ImageTokens <= num_computed_tokens[r]}

ReleasedPassed(e, r) == ReleasedAll(e, r, Passed(e, r))

EndUpdate ==
    /\ pc = "update" /\ step.req_index > Len(running)
    /\ encoder' = LET after[k \in 0 .. Len(running)] ==
                        IF k = 0 THEN encoder ELSE ReleasedPassed(after[k - 1], running[k])
                  IN  after[Len(running)]
    /\ step' = NoStep
    /\ Goto("idle")
    /\ UNCHANGED <<vars, deployed, submitted, queueVars, num_computed_tokens, resident,
                   pending_loads, deviceVars>>

------------------------------------------------------------------------------
(* The specification.                                                       *)

EngineStep ==
    \/ StartSchedule \/ ConsiderRunning \/ AllocateRunning \/ Preempt \/ EndRunning
    \/ AdmitWaiting \/ SetAsideWaiting \/ BlockedWaiting \/ EndAdmission
    \/ FinishSchedule \/ BatchLands
    \/ \E r \in Requests : UpdatePasses(r) \/ UpdateContinues(r) \/ UpdateStops(r)
    \/ EndUpdate

ENext ==
    \/ \E r \in Requests : Submit(r) \/ Abort(r)
    \/ \E content \in deployed.elsewhere : OtherEngineWrites(content)
    \/ EngineStep

\* The busy loop steps while it has requests, and the device completes a batch: weak
\* fairness of EngineStep, which is enabled exactly when the engine has work.
HasWork == pc # "idle" \/ running \o waiting # <<>>
Fairness == []<><<EngineStep>>_evars \/ []<>~HasWork
ESpec == EInit /\ [][ENext]_evars /\ Fairness

------------------------------------------------------------------------------
(* Properties.                                                              *)

\* The encoder cache's books: slots in use are those of its entries, the entries that
\* may be evicted are the unreferenced ones, queued once, and a reference is that of
\* a live request which has the image in its prompt - after hits, rollbacks,
\* preemption and aborts in any order.
EncoderSlotsExact ==
    LET e == encoder
        unreferenced == {i \in e.cached : e.references[i] = {}}
    IN  /\ e.num_free_slots = deployed.cache_size - ImageTokens * Cardinality(e.cached)
        /\ e.num_free_slots >= 0
        /\ e.num_freeable_slots = e.num_free_slots + ImageTokens * Cardinality(unreferenced)
        /\ Range(e.freeable) = unreferenced /\ Len(e.freeable) = Cardinality(unreferenced)
        /\ \A i \in Images : \A r \in e.references[i] :
             i \in e.cached /\ \E p \in e.request_cached_ids[r] : ImageAt(r, p) = i
        /\ \A r \in Requests : e.request_cached_ids[r] # {} => r \in Live

\* A pool that holds everybody, prompts that differ from the first block on and do not
\* repeat an image; see WorkerHoldsWhatIsCached for the others.
Undisturbed ==
    /\ deployed.num_gpu_blocks = NumBlocks
    /\ \A r, q \in Requests :
         LET s == deployed.prompt[r] t == deployed.prompt[q] IN
         /\ r # q /\ s # <<>> /\ t # <<>> => SubSeq(s, 1, BlockSize) # SubSeq(t, 1, BlockSize)
         /\ \A p, o \in Starts(s) : p # o => s[p + 1] # s[o + 1]

\* model_runner.py:115-118: the scheduler decides whether to encode, the worker holds
\* the embeddings, "and the two must agree": an entry of the cache is on the device
\* whenever a batch runs, so that a hit costs nothing and finds what it needs.
WorkerHoldsWhatIsCached == pc = "inflight" => encoder_outputs = encoder.cached

\* A span that reaches an image has its embeddings (_schedule_encoder: "Scheduling past
\* a placeholder whose embeddings do not exist would mean attending to KV that was
\* never written").
SpansHaveTheirImages ==
    pc = "inflight" /\ Undisturbed =>
        /\ WorkerHoldsWhatIsCached
        /\ \A s \in step.batch : Last(s.content) \in Images => Last(s.content) \in encoder_outputs

\* What a batch reads was put there for these very tokens: by an earlier batch, by this
\* one, or from the store - local hits, external hits, blocks that changed hands.  It
\* fails for a request that hits some blocks locally and has the store fill the ones
\* behind (`Loads'), and holds in deployments where that does not happen.
ReadsWhatWasWritten ==
    \A s \in step.reads : device[s.block][s.offset] = s.content \/ s \in step.batch

\* Between steps the store holds nothing that no device has computed ("Only blocks
\* whose KV was actually computed", sim_connector.py:255); see StoreIsNeverAhead for
\* the time a batch is under way.
StoreIsComputed == pc = "idle" => Range(resident) \subseteq computed

\* The same at any time: an abort publishes what the batch under way has yet to compute.
StoreIsNeverAhead == Range(resident) \subseteq computed

\* test_multimodal.py:378 test_every_image_request_still_drains: "Throttling must not
\* deadlock: an image that could not be encoded now has to be encoded once the budget
\* frees."
EveryRequestDrains ==
    \A r \in Requests : r \in Live /\ Undisturbed ~> r \notin Live

\* The same for every deployment; a head of the queue that waits for blocks keeps the
\* image it hit, and the running request that needs its place never goes on.
EveryImageDrains == \A r \in Requests : r \in Live ~> r \notin Live

------------------------------------------------------------------------------
(* What the proofs need to know of every state (EncoderProofs.tla).         *)

EncoderType ==
    [cached : SUBSET Images, references : [Images -> SUBSET Requests], freeable : Seq(Images),
     num_free_slots : Int, num_freeable_slots : Int,
     request_cached_ids : [Requests -> SUBSET Nat], freed : SUBSET Images]

Unreferenced(e) == {i \in e.cached : e.references[i] = {}}

\* The books of an encoder cache e, which hold after every single input.
BooksInv(e) ==
    /\ e \in EncoderType /\ IsFiniteSet(e.cached)
    /\ e.num_free_slots = deployed.cache_size - ImageTokens * Cardinality(e.cached)
    /\ e.num_free_slots >= 0
    /\ e.num_freeable_slots = e.num_free_slots + ImageTokens * Cardinality(Unreferenced(e))
    /\ Range(e.freeable) = Unreferenced(e) /\ IsInjective(e.freeable)
    /\ \A i \in Images : \A r \in e.references[i] :
         i \in e.cached /\ \E p \in e.request_cached_ids[r] : ImageAt(r, p) = i
    /\ \A r \in Requests : e.request_cached_ids[r] \subseteq 0 .. num_tokens(r) - 1

\* Who is in the queues, and whom a step is about.
PlacesInv ==
    /\ deployed \in Deployments
    /\ all_token_ids \in [Requests -> Seq(Tokens)]
    /\ {waiting, skipped_waiting, running} \subseteq Seq(Requests)
    /\ Live \subseteq submitted
    /\ DOMAIN step = DOMAIN NoStep /\ step.req_index \in Nat \ {0}
    /\ pc = "allocate" => /\ step.req_index \in DOMAIN running
                          /\ step.request = <<running[step.req_index]>>

EncoderInv ==
    /\ PlacesInv
    /\ BooksInv(encoder)
    /\ \A r \in Requests : encoder.request_cached_ids[r] # {} => r \in Live

==============================================================================
