------------------------------ MODULE Scheduler ------------------------------
(***************************************************************************)
(* The scheduler (v1/core/sched/scheduler.py) over the KV cache: queues,   *)
(* the three phases of schedule(), preemption by recompute, speculative    *)
(* drafts and their rollback, LoRA slots, grammar-blocked requests, and    *)
(* update_from_output.                                                     *)
(*                                                                         *)
(* schedule() and update_from_output() run without yielding: one iteration *)
(* of their loops is one step here, sequenced by pc.  Clients get in only  *)
(* when the engine is idle or a batch is in flight on the device (the await *)
(* of EngineCore.step_async).                                              *)
(*                                                                         *)
(*   idle -> running <-> allocate -> waiting -> finish -> inflight          *)
(*     ^                                                     |             *)
(*     +--------------------- update <-----------------------+             *)
(***************************************************************************)
EXTENDS KVCache

CONSTANTS
    MaxNumSeqs,          \* max_num_seqs
    MaxNumBatchedTokens, \* max_num_batched_tokens, the token budget of a step
    LongPrefillThreshold,\* long_prefill_token_threshold, 0 when off
    EnableChunkedPrefill,
    MaxNumPartialPrefills,
    Policy,              \* "fcfs" or "priority"
    Priority,            \* [Requests -> Int], smaller is more urgent
    Lora,                \* [Requests -> adapter or NoLora]
    NoLora, MaxLoras,
    NumSpecTokens,       \* num_speculative_tokens
    SpecDisableBatch,    \* speculative_disable_by_batch_size, 0 when None
    Structured,          \* requests with a structured output constraint
    Pooling,             \* pooling requests: no tokens are sampled
    StopTokens,          \* the EOS token and the stop tokens
    MinTokens, MaxTokens \* SamplingParams

ASSUME BudgetAssumption ==
    /\ MaxNumSeqs \in Nat \ {0} /\ MaxNumBatchedTokens \in Nat \ {0}
    /\ LongPrefillThreshold \in Nat /\ MaxNumPartialPrefills \in Nat \ {0}
    /\ NumSpecTokens \in Nat /\ SpecDisableBatch \in Nat
    /\ MinTokens \in Nat /\ MaxTokens \in Nat \ {0} /\ MaxLoras \in Nat
ASSUME PolicyAssumption ==
    /\ Policy \in {"fcfs", "priority"} /\ EnableChunkedPrefill \in BOOLEAN
    /\ Priority \in [Requests -> Int] /\ Structured \subseteq Requests
    /\ Pooling \subseteq Requests /\ StopTokens \subseteq Tokens
\* KV sizing refuses a pool that cannot hold one request of maximal length (R10.6).
ASSUME PoolSizeAssumption == NumBlocks * BlockSize >= MaxModelLen

VARIABLES
    requests,            \* the ids in the dict Scheduler.requests, oldest first
    waiting, skipped_waiting, running,
    status,              \* Request.status; "FINISHED" for an id that is not live
    num_prompt_tokens, num_computed_tokens,
    spec_token_ids,      \* how many drafts the request carries
    is_prefill_chunk,
    grammar,             \* "none", "compiling", "ready", "failed"
    grammar_compile_error_reqs,
    finished_req_ids,
    pc,
    step                 \* the locals of schedule() and the SchedulerOutput it builds

queueVars == <<requests, waiting, skipped_waiting, running, status>>
requestVars == <<num_prompt_tokens, num_computed_tokens, spec_token_ids, is_prefill_chunk>>
grammarVars == <<grammar, grammar_compile_error_reqs>>
schedVars == <<queueVars, requestVars, grammarVars, finished_req_ids, pc, step>>
svars == <<vars, schedVars>>

------------------------------------------------------------------------------
(* Requests and queues.                                                     *)

num_tokens(r) == Len(all_token_ids[r])
NumOutputTokens(r, tokens) == Len(tokens) - num_prompt_tokens[r]

Without(q, r) == Filter(q, Requests \ {r})

Position(q, r) == CHOOSE i \in DOMAIN q : q[i] = r

\* Request.__lt__: priority, then arrival.  `arrived' is the dict of live requests.
Precedes(r, s, arrived) ==
    \/ Priority[r] < Priority[s]
    \/ Priority[r] = Priority[s] /\ Position(arrived, r) < Position(arrived, s)

\* What a heap of these requests yields, first to last.
HeapOrder(S, arrived) ==
    [n \in 1 .. Cardinality(S) |->
        CHOOSE r \in S : Cardinality({s \in S : Precedes(s, r, arrived)}) = n - 1]

\* RequestQueue.add_request, prepend_request and prepend_requests.  A heap has no
\* front and no back.
AddRequest(q, r, arrived) ==
    IF Policy = "fcfs" THEN Append(q, r) ELSE HeapOrder(Range(q) \cup {r}, arrived)

\* Mutants: a preempted or set-aside request goes to the back; a heap is treated
\* like a deque.
AppendRequests(q, front, arrived) == q \o front
PrependToDeque(q, front, arrived) == front \o q

PrependRequests(q, front, arrived) ==
    IF Policy = "fcfs" THEN front \o q ELSE HeapOrder(Range(q) \cup Range(front), arrived)

NumPartialPrefills == Cardinality({r \in Range(running) : is_prefill_chunk[r]})

HasRequests ==
    running # <<>> \/ waiting # <<>> \/ skipped_waiting # <<>> \/ finished_req_ids # {}

ScheduledLoras == {Lora[r] : r \in Range(running)} \ {NoLora}

\* Mutant: a stop token at the minimum itself is let through.
CheckStopBeyondMinimum(r, tokens) ==
    /\ NumOutputTokens(r, tokens) > MinTokens
    /\ \/ tokens[Len(tokens)] \in StopTokens
       \/ Len(tokens) >= MaxModelLen
       \/ NumOutputTokens(r, tokens) >= Least(MaxTokens, MaxModelLen - num_prompt_tokens[r])

\* sched/utils.check_stop after `tokens': min_tokens first, then the stop tokens,
\* then the length.  InputProcessor bounds max_tokens by what is left of the model.
CheckStop(r, tokens) ==
    /\ NumOutputTokens(r, tokens) >= MinTokens
    /\ \/ tokens[Len(tokens)] \in StopTokens
       \/ Len(tokens) >= MaxModelLen
       \/ NumOutputTokens(r, tokens) >= Least(MaxTokens, MaxModelLen - num_prompt_tokens[r])

------------------------------------------------------------------------------
(* The state of an engine.                                                  *)

NoStep == [
    req_index            |-> 1,
    request              |-> <<>>,
    token_budget         |-> 0,
    num_new_tokens       |-> 0,
    num_scheduled_tokens |-> [r \in Requests |-> 0],
    scheduled_running    |-> {},
    scheduled_new        |-> {},
    num_drafts           |-> [r \in Requests |-> 0],
    new_blocks           |-> [r \in Requests |-> <<>>],
    preempted            |-> {},
    finished             |-> {},
    constrained          |-> {} ]

SchedInit ==
    /\ Init
    /\ requests = <<>> /\ waiting = <<>> /\ skipped_waiting = <<>> /\ running = <<>>
    /\ status = [r \in Requests |-> "FINISHED"]
    /\ num_prompt_tokens = [r \in Requests |-> 0]
    /\ num_computed_tokens = [r \in Requests |-> 0]
    /\ spec_token_ids = [r \in Requests |-> 0]
    /\ is_prefill_chunk = [r \in Requests |-> FALSE]
    /\ grammar = [r \in Requests |-> "none"]
    /\ grammar_compile_error_reqs = {}
    /\ finished_req_ids = {}
    /\ pc = "idle"
    /\ step = NoStep

Goto(label) == pc' = label

------------------------------------------------------------------------------
(* Clients.                                                                 *)

ClientsMayCall == pc \in {"idle", "inflight"}

\* InputProcessor: a prompt that is to be continued leaves room for a token, one that is
\* only to be pooled may be as long as the model allows, and none is empty.
PromptFits(r, prompt) ==
    Len(prompt) \in 1 .. (IF r \in Pooling THEN MaxModelLen ELSE MaxModelLen - 1)

\* EngineCore.add_request: grammar compilation starts and the request queues.
Add(r, prompt) ==
    /\ ClientsMayCall
    /\ r \notin Range(requests) /\ PromptFits(r, prompt)
    /\ all_token_ids' = [all_token_ids EXCEPT ![r] = prompt]
    /\ num_prompt_tokens' = [num_prompt_tokens EXCEPT ![r] = Len(prompt)]
    /\ grammar' = [grammar EXCEPT ![r] = IF r \in Structured THEN "compiling" ELSE "none"]
    /\ status' = [status EXCEPT ![r] = IF r \in Structured THEN "WAITING_FOR_GRAMMAR"
                                       ELSE "WAITING"]
    /\ requests' = Append(requests, r)
    /\ waiting' = AddRequest(waiting, r, Append(requests, r))
    /\ UNCHANGED <<kvVars, skipped_waiting, running, num_computed_tokens, spec_token_ids,
                   is_prefill_chunk, grammar_compile_error_reqs, finished_req_ids, pc, step>>

\* The Request object goes away: _free_request pops it from the dict, and an id
\* that is used again gets a fresh one.  Its blocks are freed by the caller.
DropRequests(S) ==
    /\ requests' = Filter(requests, Requests \ S)
    /\ status' = [r \in Requests |-> IF r \in S THEN "FINISHED" ELSE status[r]]
    /\ is_prefill_chunk' = [r \in Requests |-> r \notin S /\ is_prefill_chunk[r]]
    /\ grammar' = [r \in Requests |-> IF r \in S THEN "none" ELSE grammar[r]]
    /\ finished_req_ids' = finished_req_ids \cup S

\* A count that starts again at zero, with a new Request or a preempted one.
Cleared(f, S) == [r \in Requests |-> IF r \in S THEN 0 ELSE f[r]]

\* Mutant: only the waiting queue is searched.
RemoveFromWaiting(r) == waiting' = Without(waiting, r) /\ UNCHANGED running

\* finish_requests finds the queue by the status.
RemoveFromQueue(r) ==
    IF status[r] = "RUNNING"
    THEN running' = Without(running, r) /\ UNCHANGED waiting
    ELSE waiting' = Without(waiting, r) /\ UNCHANGED running

\* EngineCore.abort_requests -> finish_requests: also while the batch that contains
\* the request is on the device.
Abort(r) ==
    /\ ClientsMayCall
    /\ r \in Range(requests)
    /\ RemoveFromQueue(r)
    /\ Free(r)
    /\ DropRequests({r})
    /\ all_token_ids' = [all_token_ids EXCEPT ![r] = <<>>]
    /\ num_prompt_tokens' = Cleared(num_prompt_tokens, {r})
    /\ num_computed_tokens' = Cleared(num_computed_tokens, {r})
    /\ spec_token_ids' = Cleared(spec_token_ids, {r})
    /\ UNCHANGED <<skipped_waiting, grammar_compile_error_reqs, pc, step>>

\* EngineCore.reset_prefix_cache
ResetCache ==
    /\ ClientsMayCall
    /\ ResetPrefixCache
    /\ UNCHANGED <<all_token_ids, schedVars>>

\* A worker thread of StructuredOutputManager finishes compiling, at any moment.
CompileGrammar(r, outcome) ==
    /\ grammar[r] = "compiling"
    /\ grammar' = [grammar EXCEPT ![r] = outcome]
    /\ UNCHANGED <<vars, queueVars, requestVars, grammar_compile_error_reqs,
                   finished_req_ids, pc, step>>

------------------------------------------------------------------------------
(* schedule(), phase 1: running requests.                                   *)

\* EngineCore._plan_step enters schedule() only when there is something to tell.
StartSchedule ==
    /\ pc = "idle"
    /\ HasRequests
    /\ step' = [NoStep EXCEPT !.token_budget = MaxNumBatchedTokens]
    /\ Goto("running")
    /\ UNCHANGED <<vars, queueVars, requestVars, grammarVars, finished_req_ids>>

InRunningLoop ==
    pc = "running" /\ step.req_index <= Len(running) /\ step.token_budget > 0
NextRunning == running[step.req_index]

\* The request whose turn it is keeps its turn when a preemption shifts the list.
CurrentRequest == step.request[1]

\* A large batch disables speculation: the drafts are dropped.
DraftsKept(r) ==
    IF SpecDisableBatch > 0 /\ Len(running) > SpecDisableBatch THEN 0 ELSE spec_token_ids[r]

Chunk(n) == IF 0 < LongPrefillThreshold /\ LongPrefillThreshold < n
            THEN LongPrefillThreshold ELSE n

\* Mutant: the length of the model does not bound the tokens.
NumNewUnclamped(r) ==
    Least(Chunk(num_tokens(r) + DraftsKept(r) - num_computed_tokens[r]), step.token_budget)

NumNewTokens(r) ==
    Least(Least(Chunk(num_tokens(r) + DraftsKept(r) - num_computed_tokens[r]),
                step.token_budget),
          MaxModelLen - num_computed_tokens[r])

\* How many tokens the current request gets, decided before any preemption.
ConsiderRunning ==
    /\ InRunningLoop
    /\ LET r == NextRunning IN
         /\ NumNewTokens(r) > 0
         /\ step' = [step EXCEPT !.request = <<r>>, !.num_new_tokens = NumNewTokens(r)]
         /\ spec_token_ids' = [spec_token_ids EXCEPT ![r] = DraftsKept(r)]
    /\ Goto("allocate")
    /\ UNCHANGED <<vars, queueVars, num_prompt_tokens, num_computed_tokens, is_prefill_chunk,
                   grammarVars, finished_req_ids>>

\* Nothing to do for this request: `continue', a later one may be schedulable.
SkipRunning ==
    /\ InRunningLoop
    /\ LET r == NextRunning IN
         /\ NumNewTokens(r) <= 0
         /\ spec_token_ids' = [spec_token_ids EXCEPT ![r] = DraftsKept(r)]
    /\ step' = [step EXCEPT !.req_index = @ + 1]
    /\ UNCHANGED <<vars, queueVars, num_prompt_tokens, num_computed_tokens, is_prefill_chunk,
                   grammarVars, finished_req_ids, pc>>

\* allocate_slots succeeds: the request is in the batch, with the drafts that fit.
AllocateRunning ==
    /\ pc = "allocate"
    /\ LET r      == CurrentRequest
           n      == step.num_new_tokens
           end    == num_computed_tokens[r] + n
           drafts == IF spec_token_ids[r] > 0 THEN AtLeastZero(end - num_tokens(r)) ELSE 0
       IN  /\ AllocateSlots(r, end, <<>>)
           /\ step' = [step EXCEPT
                !.req_index = @ + 1,
                !.request = <<>>,
                !.num_new_tokens = 0,
                !.token_budget = @ - n,
                !.num_scheduled_tokens[r] = n,
                !.scheduled_running = @ \cup {r},
                !.num_drafts[r] = drafts,
                !.new_blocks[r] = SubSeq(req_to_blocks'[r], Len(req_to_blocks[r]) + 1,
                                         Len(req_to_blocks'[r]))]
           /\ spec_token_ids' = [spec_token_ids EXCEPT ![r] = 0]
    /\ Goto("running")
    /\ UNCHANGED <<all_token_ids, queueVars, num_prompt_tokens, num_computed_tokens,
                   is_prefill_chunk, grammarVars, finished_req_ids>>

\* The most recently admitted request, or the least urgent one.
Victim ==
    IF Policy = "fcfs" THEN running[Len(running)]
    ELSE CHOOSE v \in Range(running) :
           \A r \in Range(running) \ {v} : Precedes(r, v, requests)

\* Mutant: the tokens are not given back.
RefundNothing(v) ==
    IF Policy = "priority" /\ v \in step.scheduled_running
    THEN [step EXCEPT !.req_index = @ - 1,
                      !.num_scheduled_tokens[v] = 0,
                      !.scheduled_running = @ \ {v},
                      !.new_blocks[v] = <<>>]
    ELSE step

\* A victim that already had its turn this step gives its tokens back.
Refund(v) ==
    IF Policy = "priority" /\ v \in step.scheduled_running
    THEN [step EXCEPT !.req_index = @ - 1,
                      !.token_budget = @ + step.num_scheduled_tokens[v],
                      !.num_scheduled_tokens[v] = 0,
                      !.scheduled_running = @ \ {v},
                      !.new_blocks[v] = <<>>]
    ELSE step

\* allocate_slots fails: preempt by recompute and try again, or give up when the
\* victim is the request itself.
Preempt ==
    /\ pc = "allocate"
    /\ LET r == CurrentRequest
           v == Victim
       IN  /\ ~CanAllocate(r, num_computed_tokens[r] + step.num_new_tokens, <<>>)
           /\ Free(v)
           /\ running' = Without(running, v)
           /\ waiting' = PrependRequests(waiting, <<v>>, requests)
           /\ status' = [status EXCEPT ![v] = "PREEMPTED"]
           /\ num_computed_tokens' = Cleared(num_computed_tokens, {v})
           /\ spec_token_ids' = Cleared(spec_token_ids, {v})
           /\ step' = [Refund(v) EXCEPT !.preempted = @ \cup {v},
                                        !.request = IF v = r THEN <<>> ELSE @]
           /\ Goto(IF v = r THEN "finish" ELSE "allocate")
    /\ UNCHANGED <<all_token_ids, requests, skipped_waiting, num_prompt_tokens,
                   is_prefill_chunk, grammarVars, finished_req_ids>>

\* A step that preempted admits nobody.
EndRunning ==
    /\ pc = "running"
    /\ ~InRunningLoop
    /\ Goto(IF step.preempted = {} THEN "waiting" ELSE "finish")
    /\ UNCHANGED <<vars, queueVars, requestVars, grammarVars, finished_req_ids, step>>

------------------------------------------------------------------------------
(* schedule(), phase 3: admission.                                          *)

InWaitingLoop ==
    /\ pc = "waiting" /\ waiting # <<>> /\ step.token_budget > 0
    /\ Len(running) < MaxNumSeqs
    /\ ~(EnableChunkedPrefill /\ NumPartialPrefills >= MaxNumPartialPrefills)
NextWaiting == waiting[1]

NoAdapterSlot(r) ==
    /\ Lora[r] # NoLora
    /\ Cardinality(ScheduledLoras) >= MaxLoras
    /\ Lora[r] \notin ScheduledLoras

SetAside(r) ==
    /\ waiting' = Tail(waiting)
    /\ skipped_waiting' = AddRequest(skipped_waiting, r, requests)
    /\ UNCHANGED <<vars, requests, running, status, requestVars, grammar, finished_req_ids,
                   pc, step>>

\* No adapter slot, or a grammar that is not there: the request steps aside so that
\* the ones behind it are looked at.
SkipLora ==
    /\ InWaitingLoop
    /\ NoAdapterSlot(NextWaiting)
    /\ SetAside(NextWaiting)
    /\ UNCHANGED grammar_compile_error_reqs

\* Mutant: only a failed grammar blocks, one that is still compiling does not.
GrammarMissingIfFailed(r) == grammar[r] = "failed"
GrammarMissing(r) == grammar[r] \in {"compiling", "failed"}

SkipGrammar ==
    /\ InWaitingLoop
    /\ LET r == NextWaiting IN
         /\ ~NoAdapterSlot(r)
         /\ status[r] = "WAITING_FOR_GRAMMAR"
         /\ GrammarMissing(r)
         /\ SetAside(r)
         /\ grammar_compile_error_reqs' =
              grammar_compile_error_reqs \cup (IF grammar[r] = "failed" THEN {r} ELSE {})

\* _promote_grammar_request.  A request gets its grammar before it ever runs, so
\* "PREEMPTED" is not among the outcomes.
PromoteGrammar ==
    /\ InWaitingLoop
    /\ LET r == NextWaiting IN
         /\ ~NoAdapterSlot(r)
         /\ status[r] = "WAITING_FOR_GRAMMAR"
         /\ ~GrammarMissing(r)
         /\ status' = [status EXCEPT ![r] = "WAITING"]
    /\ UNCHANGED <<vars, requests, waiting, skipped_waiting, running, requestVars,
                   grammarVars, finished_req_ids, pc, step>>

Eligible(r) ==
    /\ InWaitingLoop /\ r = NextWaiting
    /\ ~NoAdapterSlot(r) /\ status[r] # "WAITING_FOR_GRAMMAR"

NumTokensToPrefill(r, hit) == Chunk(num_tokens(r) - Len(hit) * BlockSize)
Fits(n) == EnableChunkedPrefill \/ n <= step.token_budget

\* The head of the queue is admitted with its cached prefix and as many tokens as
\* the budget allows.
AdmitWaiting ==
    /\ waiting # <<>>
    /\ LET r == NextWaiting IN
         /\ Eligible(r)
         /\ \E hit \in ComputedBlocks(r, num_computed_tokens[r]) :
              LET cached == Len(hit) * BlockSize
                  n      == Least(NumTokensToPrefill(r, hit), step.token_budget)
              IN  /\ Fits(NumTokensToPrefill(r, hit))
                  /\ AllocateSlots(r, cached + n, hit)
                  /\ num_computed_tokens' = [num_computed_tokens EXCEPT ![r] = cached]
                  /\ step' = [step EXCEPT !.num_scheduled_tokens[r] = n,
                                          !.token_budget = @ - n,
                                          !.scheduled_new = @ \cup {r},
                                          !.new_blocks[r] = req_to_blocks'[r]]
         /\ waiting' = Tail(waiting)
         /\ running' = Append(running, r)
         /\ status' = [status EXCEPT ![r] = "RUNNING"]
    /\ UNCHANGED <<all_token_ids, requests, skipped_waiting, num_prompt_tokens,
                   spec_token_ids, is_prefill_chunk, grammarVars, finished_req_ids, pc>>

\* The head does not fit, in the budget or in the pool: nobody overtakes it.
BlockedAtHead ==
    /\ waiting # <<>>
    /\ LET r == NextWaiting IN
         /\ Eligible(r)
         /\ \E hit \in ComputedBlocks(r, num_computed_tokens[r]) :
              LET n == NumTokensToPrefill(r, hit) IN
              \/ ~Fits(n)
              \/ ~CanAllocate(r, Len(hit) * BlockSize + Least(n, step.token_budget), hit)

EndAdmission ==
    /\ pc = "waiting"
    /\ ~InWaitingLoop \/ BlockedAtHead
    /\ Goto("finish")
    /\ UNCHANGED <<vars, queueVars, requestVars, grammarVars, finished_req_ids, step>>

------------------------------------------------------------------------------
(* The decision.                                                            *)

Scheduled == {r \in Requests : step.num_scheduled_tokens[r] > 0}

\* Mutant: the set-aside requests are dropped.
WaitingOnly == waiting

\* _restore_skipped_waiting
RestoredWaiting == PrependRequests(waiting, skipped_waiting, requests)

\* The set-aside requests go back to the head, the output is built from the counts
\* before they advance, then _update_after_schedule advances them.
FinishSchedule ==
    /\ pc = "finish"
    /\ waiting' = RestoredWaiting
    /\ skipped_waiting' = <<>>
    /\ step' = [step EXCEPT
         !.req_index = 1,
         !.token_budget = 0,
         !.num_new_tokens = 0,
         !.finished = finished_req_ids,
         !.constrained = {r \in Scheduled \cap Structured : ~is_prefill_chunk[r]}]
    /\ num_computed_tokens' =
         [r \in Requests |-> num_computed_tokens[r] + step.num_scheduled_tokens[r]]
    /\ is_prefill_chunk' =
         [r \in Requests |-> IF r \in Scheduled THEN num_computed_tokens'[r] < num_tokens(r)
                             ELSE is_prefill_chunk[r]]
    /\ finished_req_ids' = {}
    /\ Goto("inflight")
    /\ UNCHANGED <<vars, requests, running, status, num_prompt_tokens, spec_token_ids,
                   grammarVars>>

------------------------------------------------------------------------------
(* update_from_output(): one iteration per running request.                 *)

BeginUpdate ==
    /\ pc = "inflight"
    /\ Goto("update")
    /\ UNCHANGED <<vars, queueVars, requestVars, grammarVars, finished_req_ids, step>>

Updating(r) ==
    pc = "update" /\ step.req_index <= Len(running) /\ r = NextRunning

\* The request was not in the batch.
UpdateSkipped(r) ==
    /\ Updating(r)
    /\ step.num_scheduled_tokens[r] = 0
    /\ step' = [step EXCEPT !.req_index = @ + 1]
    /\ UNCHANGED <<vars, queueVars, requestVars, grammarVars, finished_req_ids, pc>>

\* A prefill chunk that is not the last one: nothing was sampled.
UpdateChunk(r) ==
    /\ Updating(r)
    /\ step.num_scheduled_tokens[r] > 0 /\ is_prefill_chunk[r]
    /\ spec_token_ids' = [spec_token_ids EXCEPT ![r] = IF NumSpecTokens > 0 THEN 0 ELSE @]
    /\ step' = [step EXCEPT !.req_index = @ + 1]
    /\ UNCHANGED <<vars, queueVars, num_prompt_tokens, num_computed_tokens, is_prefill_chunk,
                   grammarVars, finished_req_ids, pc>>

\* What the model may return: the accepted drafts and one more token.
SampledTokens(r) ==
    UNION {[1 .. accepted + 1 -> Tokens] : accepted \in 0 .. step.num_drafts[r]}

Extended(r, sampled, k) == all_token_ids[r] \o SubSeq(sampled, 1, k)

\* _update_request_with_output stops appending at the first token that stops.
NumKept(r, sampled) ==
    LET stops == {k \in DOMAIN sampled : CheckStop(r, Extended(r, sampled, k))}
    IN  IF stops = {} THEN Len(sampled) ELSE CHOOSE k \in stops : \A j \in stops : k <= j

Sampled(r) ==
    /\ Updating(r)
    /\ step.num_scheduled_tokens[r] > 0 /\ ~is_prefill_chunk[r]

\* Mutant: drafts are taken as accepted.
NoneRejected(r, sampled) == 0
NumRejected(r, sampled) == step.num_drafts[r] - (Len(sampled) - 1)

\* Rejected drafts are rolled back; new ones are taken from the model's output.
UpdateContinues(r, sampled, drafts) ==
    LET kept == Extended(r, sampled, NumKept(r, sampled)) IN
    /\ Sampled(r) /\ r \notin Pooling
    /\ ~CheckStop(r, kept)
    /\ all_token_ids' = [all_token_ids EXCEPT ![r] = kept]
    /\ num_computed_tokens' = [num_computed_tokens EXCEPT ![r] = @ - NumRejected(r, sampled)]
    /\ spec_token_ids' = [spec_token_ids EXCEPT ![r] = IF NumSpecTokens > 0 THEN drafts ELSE @]
    /\ step' = [step EXCEPT !.req_index = @ + 1]
    /\ UNCHANGED <<kvVars, queueVars, num_prompt_tokens, is_prefill_chunk, grammarVars,
                   finished_req_ids, pc>>

\* The request leaves: its blocks are freed and the worker will be told.
Leave(r) ==
    /\ Free(r)
    /\ DropRequests({r})
    /\ running' = Without(running, r)
    /\ all_token_ids' = [all_token_ids EXCEPT ![r] = <<>>]
    /\ num_prompt_tokens' = Cleared(num_prompt_tokens, {r})
    /\ num_computed_tokens' = Cleared(num_computed_tokens, {r})
    /\ spec_token_ids' = Cleared(spec_token_ids, {r})
    /\ UNCHANGED <<waiting, skipped_waiting, grammar_compile_error_reqs, pc, step>>

UpdateStops(r, sampled) ==
    /\ Sampled(r) /\ r \notin Pooling
    /\ CheckStop(r, Extended(r, sampled, NumKept(r, sampled)))
    /\ Leave(r)

\* A pooling request is done when its prompt is.
UpdatePooled(r) == Sampled(r) /\ r \in Pooling /\ Leave(r)

\* EngineCore._finish_grammar_failures: the ids noted by schedule() are looked up
\* again, and whatever request now has the id is finished with an error.  Such a
\* request is waiting and holds no block.
EndUpdate ==
    LET failed == grammar_compile_error_reqs \cap Range(requests) IN
    /\ pc = "update"
    /\ step.req_index > Len(running)
    /\ DropRequests(failed)
    /\ waiting' = Filter(waiting, Requests \ failed)
    /\ all_token_ids' = [r \in Requests |-> IF r \in failed THEN <<>> ELSE all_token_ids[r]]
    /\ num_prompt_tokens' = Cleared(num_prompt_tokens, failed)
    /\ grammar_compile_error_reqs' = {}
    /\ step' = NoStep
    /\ Goto("idle")
    /\ UNCHANGED <<kvVars, skipped_waiting, running, num_computed_tokens, spec_token_ids>>

------------------------------------------------------------------------------
(* The specification.                                                       *)

ClientStep ==
    \/ \E r \in Requests : Abort(r) \/ \E prompt \in Prompts : Add(r, prompt)
    \/ ResetCache

CompileStep == \E r \in Structured, outcome \in {"ready", "failed"} : CompileGrammar(r, outcome)

ScheduleStep ==
    \/ StartSchedule \/ ConsiderRunning \/ SkipRunning \/ AllocateRunning \/ Preempt
    \/ EndRunning \/ SkipLora \/ SkipGrammar \/ PromoteGrammar \/ AdmitWaiting
    \/ EndAdmission

UpdateStep ==
    \/ BeginUpdate
    \/ \E r \in Requests :
         \/ UpdateSkipped(r) \/ UpdateChunk(r) \/ UpdatePooled(r)
         \/ \E sampled \in SampledTokens(r) :
              \/ \E drafts \in 0 .. NumSpecTokens : UpdateContinues(r, sampled, drafts)
              \/ UpdateStops(r, sampled)
    \/ EndUpdate

SchedNext == ClientStep \/ CompileStep \/ ScheduleStep \/ FinishSchedule \/ UpdateStep

SchedSpec == SchedInit /\ [][SchedNext]_svars

------------------------------------------------------------------------------
(* Properties.                                                              *)

Labels == {"idle", "running", "allocate", "waiting", "finish", "inflight", "update"}

\* The locals of schedule() and the SchedulerOutput.
StepType == [
    req_index            : Nat \ {0},
    request              : {<<>>} \cup {<<r>> : r \in Requests},
    token_budget         : Nat,
    num_new_tokens       : Nat,
    num_scheduled_tokens : [Requests -> Nat],
    scheduled_running    : SUBSET Requests,
    scheduled_new        : SUBSET Requests,
    num_drafts           : [Requests -> Nat],
    new_blocks           : [Requests -> Seq(Blocks)],
    preempted            : SUBSET Requests,
    finished             : SUBSET Requests,
    constrained          : SUBSET Requests ]

\* The variables have the types of the Python attributes.
SchedTypeOK ==
    /\ TypeOK
    /\ {requests, waiting, skipped_waiting, running} \subseteq Seq(Requests)
    /\ status \in [Requests -> {"WAITING", "WAITING_FOR_GRAMMAR", "RUNNING", "PREEMPTED",
                                "FINISHED"}]
    /\ {num_prompt_tokens, num_computed_tokens, spec_token_ids} \subseteq [Requests -> Nat]
    /\ is_prefill_chunk \in [Requests -> BOOLEAN]
    /\ grammar \in [Requests -> {"none", "compiling", "ready", "failed"}]
    /\ finished_req_ids \cup grammar_compile_error_reqs \subseteq Requests
    /\ pc \in Labels
    /\ step \in StepType

Queued == Range(waiting) \cup Range(skipped_waiting)

\* Every live request is in exactly one queue, once, and its status says which:
\* finish_requests trusts the status to find the queue, and pop and prepend must
\* neither lose nor duplicate a request across preemption, set-aside and abort.
QueuesPartitionRequests ==
    /\ IsInjective(running \o skipped_waiting \o waiting)
    /\ Range(requests) = Range(running) \cup Queued
    /\ \A r \in Requests :
         /\ r \in Range(running) <=> status[r] = "RUNNING"
         /\ r \in Queued <=> status[r] \in {"WAITING", "WAITING_FOR_GRAMMAR", "PREEMPTED"}

Deciding == pc \in {"running", "allocate", "waiting", "finish"}

\* The tokens of the batch, one by one: counting them is summing the counts.
ScheduledTokens == UNION {{r} \X (1 .. step.num_scheduled_tokens[r]) : r \in Requests}

\* The token budget is conserved through every admission, preemption and refund,
\* hence never exceeded (R5.3), and no more than max_num_seqs requests run.
BudgetConserved ==
    /\ Deciding => step.token_budget + Cardinality(ScheduledTokens) = MaxNumBatchedTokens
    /\ Len(running) <= MaxNumSeqs
    /\ Cardinality(ScheduledLoras) <= MaxLoras

\* A batch contains only running requests, and what it was told about preempted ones
\* is gone: nobody is both preempted and scheduled in one step.
BatchIsRunning ==
    Deciding =>
        /\ Scheduled \subseteq Range(running)
        /\ Scheduled \cap step.preempted = {}
        /\ Scheduled = step.scheduled_running \cup step.scheduled_new

\* A request outside the running list holds no block and has nothing computed: so
\* a resumed request starts from the prefix cache and not from stale counts.
WaitingHoldsNothing ==
    \A r \in Requests : r \notin Range(running) =>
        req_to_blocks[r] = <<>> /\ num_computed_tokens[r] = 0

\* Between steps every running request is exactly one token behind, or in the middle
\* of its prefill: rejected drafts are rolled back exactly (the assertion at the top
\* of the running loop), through stops, preemptions and truncated drafts.
ComputedCountExact ==
    pc = "idle" => \A r \in Range(running) :
        IF is_prefill_chunk[r] THEN num_computed_tokens[r] < num_tokens(r)
                               ELSE num_computed_tokens[r] = num_tokens(r) - 1

\* While a batch is on the device every token in it has a slot: a running request's
\* blocks reach to its last computed token (slot mapping validation, R8.3).
SlotsCoverBatch ==
    pc \in {"inflight", "update", "idle"} => \A r \in Range(running) :
        /\ num_computed_tokens[r] <= MaxModelLen
        /\ num_computed_tokens[r] <= Len(req_to_blocks[r]) * BlockSize

\* First come, first served: without adapters or grammars that set requests aside,
\* running and waiting requests stay in order of arrival through any sequence of
\* preemptions, aborts and completions.
ArrivalOrderKept ==
    Policy = "fcfs" /\ Structured = {} /\ (\A r \in Requests : Lora[r] = NoLora) =>
        running \o skipped_waiting \o waiting = requests

InOrderOfUrgency(q, arrived) ==
    \A i, j \in DOMAIN q : i < j => Precedes(q[i], q[j], arrived)

\* The priority queue is always in order of urgency, so the head is the most urgent.
UrgencyOrderKept == Policy = "priority" => InOrderOfUrgency(waiting, requests)

\* A preempted, blocked or set-aside request is not forgotten: every request that
\* stays submitted is eventually finished.
EveryRequestTerminates == \A r \in Requests : status[r] # "FINISHED" ~> status[r] = "FINISHED"

\* A constrained request never runs without its compiled grammar, also when its id
\* was aborted and used again while the first compilation was under way.
RunningHasGrammar ==
    \A r \in Structured \cap Range(running) : grammar[r] = "ready"

\* The scheduler as a client of one request sees it.
LifeStage(r) == CASE status[r] = "FINISHED" -> "absent"
                  [] status[r] = "RUNNING"  -> "active"
                  [] OTHER                  -> "queued"

Lifecycle == INSTANCE RequestLifecycle WITH
    Ids         <- Requests,
    Words       <- Tokens,
    Openings    <- Prompts,
    Endings     <- StopTokens,
    Limit       <- MaxModelLen,
    Minimum     <- MinTokens,
    Allowance   <- MaxTokens,
    stage       <- [r \in Requests |-> LifeStage(r)],
    text        <- all_token_ids,
    opening_len <- num_prompt_tokens

\* Scheduling, preemption by recompute, speculation, aborts in flight and failures
\* together implement the life of a request: no token is ever taken back, only
\* running requests produce tokens, after min_tokens nothing is produced after a stop
\* token or beyond max_tokens, and one that goes on is below the length cap.
ImplementsLifecycle == Lifecycle!Spec

------------------------------------------------------------------------------
(* The inductive core of the above.  Each conjunct needs the others.         *)

\* The queues, one by one.  Requests are set aside only while schedule() admits.
QueueInv ==
    /\ IsInjective(requests) /\ IsInjective(running)
    /\ IsInjective(waiting) /\ IsInjective(skipped_waiting)
    /\ Range(running) \cap Queued = {} /\ Range(waiting) \cap Range(skipped_waiting) = {}
    /\ Range(requests) = Range(running) \cup Queued
    /\ \A r \in Requests :
         /\ r \in Range(running) <=> status[r] = "RUNNING"
         /\ r \in Range(requests) <=> status[r] # "FINISHED"
         /\ r \in Range(requests) => all_token_ids[r] # <<>>
    /\ pc \notin {"waiting", "finish"} => skipped_waiting = <<>>

\* What schedule() has decided so far.  The requests from req_index on have not had
\* their turn, except that a preemption may have moved the current one below it.
BatchInv ==
    /\ pc = "idle" => step = NoStep
    /\ pc = "inflight" => step.req_index = 1
    /\ Deciding =>
         /\ Scheduled = step.scheduled_running \cup step.scheduled_new
         /\ step.scheduled_running \cap step.scheduled_new = {}
         /\ Scheduled \subseteq Range(running)
         /\ step.preempted \cap Range(running) = {}
         /\ \A r \in Requests : step.num_drafts[r] > 0 =>
                                  r \in step.scheduled_running \cup step.preempted
    /\ pc = "waiting" => step.preempted = {}
    /\ pc \in {"running", "allocate"} =>
         /\ step.scheduled_new = {}
         /\ \A i \in DOMAIN running : i >= step.req_index => running[i] \notin Scheduled
    /\ pc = "allocate" =>
         /\ step.request # <<>>
         /\ CurrentRequest \in Range(running) \ Scheduled
         /\ \A i \in DOMAIN running : running[i] = CurrentRequest => i <= step.req_index
         /\ Policy = "fcfs" => step.req_index \in DOMAIN running /\ NextRunning = CurrentRequest
         /\ step.num_new_tokens \in 1 .. step.token_budget
         /\ num_computed_tokens[CurrentRequest] + step.num_new_tokens
              <= Least(num_tokens(CurrentRequest) + spec_token_ids[CurrentRequest],
                       MaxModelLen)

\* A request is where the assertion at the top of the running loop wants it.
Settled(r) ==
    IF is_prefill_chunk[r] THEN num_computed_tokens[r] < num_tokens(r)
                           ELSE num_computed_tokens[r] = num_tokens(r) - 1

\* What a request is given ends inside its prompt, or right after its drafts.
Planned(r) ==
    LET end == num_computed_tokens[r] + step.num_scheduled_tokens[r] IN
    end >= num_tokens(r) => end = num_tokens(r) + step.num_drafts[r]

\* The count has advanced, drafts included, and the output is not in yet.
Pending(r) ==
    IF is_prefill_chunk[r] THEN num_computed_tokens[r] < num_tokens(r)
                           ELSE num_computed_tokens[r] = num_tokens(r) + step.num_drafts[r]

CountInv ==
    \A i \in DOMAIN running : LET r == running[i] IN
        /\ pc = "idle" => Settled(r)
        /\ Deciding => /\ r \notin step.scheduled_new => Settled(r)
                       /\ r \in Scheduled => Planned(r)
        /\ pc = "inflight" => IF r \in Scheduled THEN Pending(r) ELSE Settled(r)
        /\ pc = "update" => IF r \in Scheduled /\ i >= step.req_index
                            THEN Pending(r) ELSE Settled(r)

\* The requests whose grammar failed are not running when they are finished.
ErrorsInv ==
    /\ pc \in {"idle", "running", "allocate"} => grammar_compile_error_reqs = {}
    /\ grammar_compile_error_reqs \cap Range(running) = {}
    /\ pc = "waiting" => grammar_compile_error_reqs \cap Range(waiting) = {}

SchedInv ==
    /\ SchedTypeOK /\ PoolInv /\ QueueInv /\ WaitingHoldsNothing
    /\ BatchInv /\ CountInv /\ ErrorsInv

\* A compiled grammar stays with its request, in every queue.
GrammarInv ==
    /\ \A r \in Range(requests) \cap Structured :
         /\ grammar[r] # "none"
         /\ status[r] # "WAITING_FOR_GRAMMAR" => grammar[r] = "ready"
    /\ \A r \in Requests : status[r] = "WAITING_FOR_GRAMMAR" => r \in Structured

\* A prompt that may be continued leaves room for the least output, as it does whenever
\* max_tokens is given (SamplingParams._verify_args, InputProcessor).  Nothing checks it
\* when max_tokens is not.
RoomForMinTokens ==
    \A prompt \in Prompts : Len(prompt) < MaxModelLen => Len(prompt) + MinTokens <= MaxModelLen

\* Then nobody who samples is ever as long as the model: check_stop comes first.
LengthInv ==
    \A r \in Range(requests) :
        /\ r \in Pooling => num_tokens(r) <= MaxModelLen
        /\ r \notin Pooling => /\ num_prompt_tokens[r] + MinTokens <= MaxModelLen
                              /\ num_tokens(r) < MaxModelLen

\* How far a request is computed, with what schedule() has given it so far.
Reach(r) == IF Deciding THEN num_computed_tokens[r] + step.num_scheduled_tokens[r]
                        ELSE num_computed_tokens[r]

\* The blocks of a running request reach to the last token it is given, or as far as
\* the model goes.
SlotsInv ==
    \A r \in Range(running) : Least(Reach(r), MaxModelLen) <= Len(req_to_blocks[r]) * BlockSize

\* With room for the least output, nobody is given a token past the model's length.
ReachInv == \A r \in Range(running) : Reach(r) <= MaxModelLen

==============================================================================
