------------------------------ MODULE EngineCore ------------------------------
(***************************************************************************)
(* The engine core's step (v1/engine/core.py): the scheduler's decision,   *)
(* the worker that patches its persistent state from it                    *)
(* (v1/worker/gpu/model_runner.py, states.py, block_table.py), the batch on *)
(* the device, and the update.                                             *)
(*                                                                         *)
(* The worker applies the decision before the first await, so it does so in *)
(* the same step as FinishSchedule.                                        *)
(***************************************************************************)
EXTENDS Scheduler

VARIABLES
    worker_reqs,   \* the ids in RequestState.req_id_to_index
    block_tables,  \* BlockTables, per request id
    prefill_len,   \* RequestState.prefill_len
    kv_written     \* blocks whose every slot holds KV computed for the tokens they
                   \* are (or will be) published under; what the device memory holds

workerVars == <<worker_reqs, block_tables, prefill_len>>
evars == <<svars, workerVars, kv_written>>

EngineInit ==
    /\ SchedInit
    /\ worker_reqs = {}
    /\ block_tables = [r \in Requests |-> <<>>]
    /\ prefill_len = [r \in Requests |-> 0]
    /\ kv_written = {}

------------------------------------------------------------------------------
(* The worker.                                                              *)

\* Mutant: a preempted request keeps its slot.
WorkerKeepsPreempted == worker_reqs \ finished_req_ids

\* SimModelRunner.finish_requests and free_states: ids that finished or were
\* preempted lose their slot.
WorkerKeeps == worker_reqs \ (finished_req_ids \cup step.preempted)

\* NewRequestData.prefill_token_ids: the prompt and the output so far.
PrefillLength(r) == num_tokens(r)

\* SimModelRunner._plan_step: drop, then add, then patch; an empty batch stops
\* after the drop.
WorkerPlan ==
    LET kept   == WorkerKeeps
        new    == step.scheduled_new
        cached == step.scheduled_running
    IN  /\ worker_reqs' = kept \cup new
        /\ block_tables' = [r \in Requests |->
             CASE r \in new            -> step.new_blocks[r]
               [] r \in cached \cap kept -> block_tables[r] \o step.new_blocks[r]
               [] r \in kept \ (new \cup cached) -> block_tables[r]
               [] OTHER                -> <<>>]
        /\ prefill_len' = [r \in Requests |->
             IF r \in new THEN PrefillLength(r) ELSE IF r \in kept THEN prefill_len[r] ELSE 0]

\* compute_slot_mapping: the blocks the batch writes for a request.
WrittenBlocks(r, from, n) ==
    {req_to_blocks[r][i] : i \in {j \in DOMAIN req_to_blocks[r] :
        (j - 1) * BlockSize < from + n /\ from < j * BlockSize}}

\* The blocks whose last slot the batch writes.
CompletedBlocks(r, from, n) ==
    {req_to_blocks[r][i] : i \in {j \in DOMAIN req_to_blocks[r] :
        from < j * BlockSize /\ j * BlockSize <= from + n}}

------------------------------------------------------------------------------
(* The composed steps.                                                      *)

\* schedule() takes blocks out of the pool: what they held is lost.
Reuse(blocks) == kv_written' = kv_written \ blocks

EngineAllocateRunning ==
    /\ AllocateRunning
    /\ Reuse(Range(step'.new_blocks[CurrentRequest]))
    /\ UNCHANGED workerVars

EngineAdmitWaiting ==
    /\ AdmitWaiting
    /\ LET r == NextWaiting
           table == req_to_blocks'[r]
       IN  Reuse(Range(SubSeq(table, num_computed_tokens'[r] \div BlockSize + 1, Len(table))))
    /\ UNCHANGED workerVars

\* The decision goes to the worker, which launches the batch.
Launch ==
    /\ FinishSchedule
    /\ WorkerPlan
    /\ kv_written' = kv_written \cup
         UNION {CompletedBlocks(r, num_computed_tokens[r], step.num_scheduled_tokens[r]) :
                  r \in Scheduled}

\* What was computed for rejected drafts is not the KV of the request's tokens.
EngineUpdateContinues(r, sampled, drafts) ==
    /\ UpdateContinues(r, sampled, drafts)
    /\ kv_written' = kv_written \
         {req_to_blocks[r][i] : i \in {j \in DOMAIN req_to_blocks[r] :
                                        j * BlockSize > num_computed_tokens'[r]}}
    /\ UNCHANGED workerVars

OtherScheduleStep ==
    \/ StartSchedule \/ ConsiderRunning \/ SkipRunning \/ Preempt \/ EndRunning
    \/ SkipLora \/ SkipGrammar \/ PromoteGrammar \/ EndAdmission

OtherUpdateStep ==
    \/ BeginUpdate
    \/ \E r \in Requests :
         \/ UpdateSkipped(r) \/ UpdateChunk(r) \/ UpdatePooled(r)
         \/ \E sampled \in SampledTokens(r) : UpdateStops(r, sampled)
    \/ EndUpdate

EngineStep ==
    \/ EngineAllocateRunning
    \/ EngineAdmitWaiting
    \/ Launch
    \/ \E r \in Requests : \E sampled \in SampledTokens(r), drafts \in 0 .. NumSpecTokens :
         EngineUpdateContinues(r, sampled, drafts)
    \/ (OtherScheduleStep \/ OtherUpdateStep) /\ UNCHANGED <<workerVars, kv_written>>

EngineCompile(r) ==
    /\ \E outcome \in {"ready", "failed"} : CompileGrammar(r, outcome)
    /\ UNCHANGED <<workerVars, kv_written>>

EngineNext ==
    \/ EngineStep
    \/ \E r \in Structured : EngineCompile(r)
    \/ ClientStep /\ UNCHANGED <<workerVars, kv_written>>

EngineSpec == EngineInit /\ [][EngineNext]_evars

\* Fairness: the engine loop keeps stepping while it has requests
\* (EngineCoreProc.run_busy_loop, AsyncLLM._run_output_handler), a batch on the
\* device completes, and a grammar compilation ends.  Nothing is assumed of clients.
FairEngineSpec ==
    /\ EngineSpec
    /\ WF_evars(EngineStep)
    /\ \A r \in Structured : WF_evars(EngineCompile(r))

------------------------------------------------------------------------------
(* Properties.                                                              *)

\* After every launch the worker's persistent state is the scheduler's: it knows
\* exactly the running requests (plus those aborted while in flight, until the next
\* decision names them), each with the same block table, and never runs out of
\* slots, although it only ever sees differences (R5.8, R7.3).
WorkerAgrees ==
    /\ pc = "inflight" =>
         /\ Range(running) \subseteq worker_reqs
         /\ \A r \in Range(running) : block_tables[r] = req_to_blocks[r]
    /\ worker_reqs \subseteq Range(running) \cup step.preempted \cup finished_req_ids
    /\ Cardinality(worker_reqs) <= MaxNumSeqs

\* The worker and the scheduler, from different counters, agree on which requests
\* of the batch sample a token.
SamplingAgrees ==
    pc = "inflight" => \A r \in Scheduled \cap Range(running) :
        num_computed_tokens[r] < prefill_len[r] <=> is_prefill_chunk[r]

\* No slot of the cache is written by two requests of one batch (R21.1), although
\* requests admitted together may share the blocks the first one is filling.
SlotsWrittenOnce ==
    pc = "finish" => \A r, s \in Scheduled : r # s =>
        WrittenBlocks(r, num_computed_tokens[r], step.num_scheduled_tokens[r])
          \cap WrittenBlocks(s, num_computed_tokens[s], step.num_scheduled_tokens[s]) = {}

\* Once a batch is launched the prefix cache offers only blocks whose KV has been
\* computed: publishing at allocation time is never ahead of the device.
PublishedIsComputed ==
    pc \in {"inflight", "update", "idle"} =>
        \A c \in Blocks : block_hash[c] # NoHash => c \in kv_written

------------------------------------------------------------------------------
(* What makes them inductive.                                               *)

\* Of the requests that share a block all but one have computed past it: whoever joins
\* a block starts behind it, and rejected drafts are never inside a published one.
SharersArePast ==
    \A r, s \in Requests : r # s =>
        \A i \in DOMAIN req_to_blocks[r], j \in DOMAIN req_to_blocks[s] :
            req_to_blocks[r][i] = req_to_blocks[s][j] =>
                \/ i * BlockSize <= num_computed_tokens[r]
                \/ j * BlockSize <= num_computed_tokens[s]

\* The batch being put together will write the last slot of the block.
Coming(c) ==
    \E r \in Scheduled : \E i \in DOMAIN req_to_blocks[r] :
        /\ req_to_blocks[r][i] = c
        /\ num_computed_tokens[r] < i * BlockSize
        /\ i * BlockSize <= num_computed_tokens[r] + step.num_scheduled_tokens[r]

\* The KV of the block is there, or the next launch computes it.
Backed(c) == c \in kv_written \/ (Deciding /\ Coming(c))

\* A running request counts the block as computed.
Counted(c) ==
    \E r \in Range(running) : \E i \in DOMAIN req_to_blocks[r] :
        req_to_blocks[r][i] = c /\ i * BlockSize <= num_computed_tokens[r]

\* What the cache offers and what a request counts as computed is backed.
ComputedInv == \A c \in Blocks : block_hash[c] # NoHash \/ Counted(c) => Backed(c)

\* The blocks the worker has not been told of yet.
Untold(r) == IF Deciding THEN step.new_blocks[r] ELSE <<>>

\* The scheduler's table is the worker's and what schedule() has added to it; a request
\* admitted in this step comes with its whole table.
Follows(r) ==
    IF Deciding /\ r \in step.scheduled_new
    THEN step.new_blocks[r] = req_to_blocks[r]
    ELSE /\ r \in worker_reqs \ finished_req_ids
         /\ block_tables[r] \o Untold(r) = req_to_blocks[r]
         /\ Deciding /\ r \notin Scheduled => step.new_blocks[r] = <<>>

\* Whoever the worker should drop is among the preempted or the finished.
WorkerInv ==
    /\ worker_reqs \subseteq Requests
    /\ block_tables \in [Requests -> Seq(Blocks)]
    /\ \A r \in Range(running) : Follows(r)
    /\ worker_reqs \subseteq Range(running) \cup finished_req_ids
                                \cup (IF Deciding THEN step.preempted ELSE {})
    /\ Cardinality(worker_reqs) <= MaxNumSeqs

==============================================================================
