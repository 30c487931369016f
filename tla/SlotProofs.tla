------------------------------ MODULE SlotProofs ------------------------------
(***************************************************************************)
(* What the scheduler does to the blocks: that its use of the pool is the   *)
(* sharing discipline, and that every token it schedules has a slot.        *)
(***************************************************************************)
EXTENDS SchedulerProofs

------------------------------------------------------------------------------
(* The two steps that take blocks.                                          *)

\* A running request is given blocks up to its last scheduled token.
LEMMA RunningTakesBlocks ==
    ASSUME SchedInv, AllocateRunning
    PROVE  \E r \in Requests, n \in Nat \ {0}, added \in Seq(Blocks) :
             /\ pc = "allocate" /\ pc' = "running"
             /\ r = CurrentRequest /\ r \in Range(running) /\ r \notin Scheduled
             /\ num_computed_tokens[r] + n \in Nat /\ num_computed_tokens[r] + n <= MaxModelLen
             /\ AllocateSlots(r, num_computed_tokens[r] + n, <<>>)
             /\ added = SubSeq(req_to_blocks'[r], Len(req_to_blocks[r]) + 1,
                               Len(req_to_blocks'[r]))
             /\ step'.num_scheduled_tokens = [step.num_scheduled_tokens EXCEPT ![r] = n]
             /\ step'.new_blocks = [step.new_blocks EXCEPT ![r] = added]
             /\ step'.scheduled_running = step.scheduled_running \cup {r}
             /\ step'.scheduled_new = step.scheduled_new
             /\ step'.preempted = step.preempted
             /\ UNCHANGED <<all_token_ids, queueVars, num_prompt_tokens, num_computed_tokens,
                            grammarVars, finished_req_ids>>
<1>1. pc = "allocate" /\ pc' = "running"
  BY DEF AllocateRunning, Goto
<1>2. PICK r \in Requests :
        /\ r = CurrentRequest /\ r \in Range(running) /\ r \notin Scheduled
        /\ step.num_new_tokens \in 1 .. step.token_budget
        /\ num_computed_tokens[r] + step.num_new_tokens <= MaxModelLen
  BY <1>1, CurrentIsRunning
<1>3. PICK n \in Nat \ {0} : n = step.num_new_tokens
  <2>1. step.num_new_tokens \in Nat /\ step.token_budget \in Nat
    BY StepFields
  <2> QED BY <1>2, <2>1
<1>4. num_computed_tokens[r] + n \in Nat
  BY <1>3, Counters
<1>5. PICK added : added = SubSeq(req_to_blocks'[r], Len(req_to_blocks[r]) + 1,
                                  Len(req_to_blocks'[r]))
  OBVIOUS
<1>6. /\ AllocateSlots(r, num_computed_tokens[r] + n, <<>>)
      /\ UNCHANGED <<all_token_ids, queueVars, num_prompt_tokens, num_computed_tokens,
                     grammarVars, finished_req_ids>>
  BY <1>2, <1>3 DEF AllocateRunning
<1>7. PICK left, drafts :
        step' = [step EXCEPT
           !.req_index = @ + 1, !.request = <<>>, !.num_new_tokens = 0, !.token_budget = left,
           !.num_scheduled_tokens[r] = n, !.scheduled_running = @ \cup {r},
           !.num_drafts[r] = drafts, !.new_blocks[r] = added]
  BY <1>2, <1>3, <1>5 DEF AllocateRunning
<1>8. /\ step'.num_scheduled_tokens = [step.num_scheduled_tokens EXCEPT ![r] = n]
      /\ step'.new_blocks = [step.new_blocks EXCEPT ![r] = added]
      /\ step'.scheduled_running = step.scheduled_running \cup {r}
      /\ step'.scheduled_new = step.scheduled_new
      /\ step'.preempted = step.preempted
  BY <1>7, StepFields DEF StepType
<1>9. added \in Seq(Blocks)
  <2>1. step' \in StepType
    BY AllocateRunningPreserves DEF SchedInv, SchedTypeOK
  <2>2. step'.new_blocks[r] \in Seq(Blocks)
    BY <2>1 DEF StepType
  <2> QED BY <1>8, <2>2, StepFields
<1> QED BY <1>1, <1>2, <1>3, <1>4, <1>5, <1>6, <1>8, <1>9

\* The head of the waiting queue is given its cached prefix and blocks for its share.
LEMMA WaitingTakesBlocks ==
    ASSUME SchedInv, AdmitWaiting
    PROVE  \E r \in Requests, hit \in Seq(Blocks), n \in Nat \ {0} :
             /\ pc = "waiting" /\ pc' = pc
             /\ r = NextWaiting /\ r \notin Range(running) /\ r \in Range(requests)
             /\ r \notin Scheduled
             /\ req_to_blocks[r] = <<>>
             /\ IsInjective(hit) /\ \A i \in DOMAIN hit : block_hash[hit[i]] # NoHash
             /\ Len(hit) * BlockSize \in Nat /\ Len(hit) * BlockSize + n <= num_tokens(r)
             /\ AllocateSlots(r, Len(hit) * BlockSize + n, hit)
             /\ num_computed_tokens' = [num_computed_tokens EXCEPT ![r] = Len(hit) * BlockSize]
             /\ step'.num_scheduled_tokens = [step.num_scheduled_tokens EXCEPT ![r] = n]
             /\ step'.new_blocks = [step.new_blocks EXCEPT ![r] = req_to_blocks'[r]]
             /\ step'.scheduled_new = step.scheduled_new \cup {r}
             /\ step'.scheduled_running = step.scheduled_running
             /\ step'.preempted = step.preempted
             /\ running' = Append(running, r) /\ Range(running') = Range(running) \cup {r}
             /\ status' = [status EXCEPT ![r] = "RUNNING"]
             /\ UNCHANGED <<all_token_ids, requests, num_prompt_tokens, finished_req_ids>>
<1>1. /\ waiting # <<>> /\ pc = "waiting" /\ pc' = pc /\ step.token_budget > 0
  BY DEF AdmitWaiting, Eligible, InWaitingLoop
<1>2. PICK r \in Requests : r = NextWaiting /\ r \in Range(waiting)
  BY <1>1, Queues, TailProperties, InjectiveSeq DEF NextWaiting
<1>3. r \notin Range(running) /\ r \in Range(requests)
  BY <1>2, Queues
<1>4. num_computed_tokens[r] = 0 /\ req_to_blocks[r] = <<>> /\ all_token_ids[r] # <<>>
  BY <1>3 DEF SchedInv, WaitingHoldsNothing, QueueInv
<1>5. PICK hit \in ComputedBlocks(r, 0) :
        LET cached == Len(hit) * BlockSize
            n      == Least(NumTokensToPrefill(r, hit), step.token_budget)
        IN  /\ AllocateSlots(r, cached + n, hit)
            /\ num_computed_tokens' = [num_computed_tokens EXCEPT ![r] = cached]
            /\ step' = [step EXCEPT !.num_scheduled_tokens[r] = n,
                                    !.token_budget = @ - n,
                                    !.scheduled_new = @ \cup {r},
                                    !.new_blocks[r] = req_to_blocks'[r]]
  BY <1>2, <1>4 DEF AdmitWaiting
<1>6. /\ Len(hit) * BlockSize \in Nat /\ Len(hit) * BlockSize < num_tokens(r)
  BY <1>4, HitIsShort DEF SchedInv, num_tokens
<1>7. PICK n \in Nat \ {0} : /\ n = Least(NumTokensToPrefill(r, hit), step.token_budget)
                             /\ Len(hit) * BlockSize + n <= num_tokens(r)
  BY <1>1, <1>6, Counters, BudgetAssumption DEF Least, NumTokensToPrefill, Chunk
<1>8. /\ hit \in Seq(Blocks) /\ IsInjective(hit)
      /\ \A i \in DOMAIN hit : block_hash[hit[i]] # NoHash
  BY HitProperties DEF SchedInv
<1>9. /\ AllocateSlots(r, Len(hit) * BlockSize + n, hit)
      /\ num_computed_tokens' = [num_computed_tokens EXCEPT ![r] = Len(hit) * BlockSize]
      /\ step' = [step EXCEPT !.num_scheduled_tokens[r] = n, !.token_budget = @ - n,
                              !.scheduled_new = @ \cup {r}, !.new_blocks[r] = req_to_blocks'[r]]
  BY <1>5, <1>7
<1>10. /\ step'.num_scheduled_tokens = [step.num_scheduled_tokens EXCEPT ![r] = n]
       /\ step'.new_blocks = [step.new_blocks EXCEPT ![r] = req_to_blocks'[r]]
       /\ step'.scheduled_new = step.scheduled_new \cup {r}
       /\ step'.scheduled_running = step.scheduled_running
       /\ step'.preempted = step.preempted
  BY <1>9, StepFields DEF StepType
<1>11. /\ running' = Append(running, r)
       /\ status' = [status EXCEPT ![r] = "RUNNING"]
       /\ UNCHANGED <<all_token_ids, requests, num_prompt_tokens, finished_req_ids>>
  BY <1>2 DEF AdmitWaiting
<1>12. Range(running') = Range(running) \cup {r}
  BY <1>3, <1>11, RunningList, AppendOne
<1>13. r \notin Scheduled
  BY <1>1, <1>3 DEF SchedInv, BatchInv, Deciding
<1> QED BY <1>1, <1>2, <1>3, <1>4, <1>6, <1>7, <1>8, <1>9, <1>10, <1>11, <1>12, <1>13

\* What a step does to the pool: nothing, one of the two, a release, or a reset.
LEMMA PoolSteps ==
    ASSUME SchedInv, [SchedNext]_svars
    PROVE  \/ UNCHANGED kvVars
           \/ AllocateRunning \/ AdmitWaiting
           \/ \E r \in Requests : Free(r)
           \/ ResetPrefixCache /\ UNCHANGED all_token_ids
<1>1. CASE UNCHANGED svars
  BY <1>1 DEF svars, vars
<1>2. CASE ClientStep
  BY <1>2 DEF ClientStep, Abort, Add, ResetCache
<1>3. CASE CompileStep
  BY <1>3 DEF CompileStep, CompileGrammar, vars
<1>4. CASE ScheduleStep
  <2>1. CASE Preempt
    <3>1. Victim \in Requests
      BY <2>1, PreemptStep
    <3> QED BY <2>1, <3>1 DEF Preempt
  <2>2. CASE StartSchedule \/ ConsiderRunning \/ SkipRunning \/ EndRunning \/ SkipLora
             \/ SkipGrammar \/ PromoteGrammar \/ EndAdmission
    BY <2>2 DEF StartSchedule, ConsiderRunning, SkipRunning, EndRunning, SkipLora, SkipGrammar,
       SetAside, PromoteGrammar, EndAdmission, vars
  <2> QED BY <1>4, <2>1, <2>2 DEF ScheduleStep
<1>5. CASE FinishSchedule
  BY <1>5 DEF FinishSchedule, vars
<1>6. CASE UpdateStep
  BY <1>6 DEF UpdateStep, BeginUpdate, EndUpdate, UpdateSkipped, UpdateChunk, UpdatePooled,
     UpdateStops, UpdateContinues, Leave, vars
<1> QED BY <1>1, <1>2, <1>3, <1>4, <1>5, <1>6 DEF SchedNext

------------------------------------------------------------------------------
(* The scheduler shares blocks as it should.                                *)

\* Under the scheduler's queues, preemptions and aborts the pool is still what it
\* promises: blocks are joined only when published, taken only when unheld, and
\* forgotten only when nobody holds one.
THEOREM SchedulerSharesBlocks == SchedSpec => ImplementsSharing
<1>1. SchedInv /\ SchedInv' /\ [SchedNext]_svars => [Sharing!Next]_Sharing!sharingVars
  <2> SUFFICES ASSUME SchedInv, SchedInv', [SchedNext]_svars
               PROVE  Sharing!Next \/ UNCHANGED Sharing!sharingVars
    OBVIOUS
  <2>1. PoolInv /\ PoolInv'
    BY DEF SchedInv
  <2>2. CASE UNCHANGED kvVars
    BY <2>2, KeepsSharing DEF kvVars, poolVars
  <2>3. CASE AllocateRunning
    <3>1. PICK r \in Requests, n \in Nat :
            /\ num_computed_tokens[r] + n \in Nat
            /\ AllocateSlots(r, num_computed_tokens[r] + n, <<>>)
      BY <2>3, RunningTakesBlocks
    <3>2. <<>> \in Seq(Blocks) /\ IsInjective(<<>>) /\ DOMAIN <<>> = {}
      BY EmptySeq DEF IsInjective
    <3> QED BY <2>1, <3>1, <3>2, AllocateIsAcquire
  <2>4. CASE AdmitWaiting
    <3>1. PICK r \in Requests, hit \in Seq(Blocks), n \in Nat \ {0} :
            /\ req_to_blocks[r] = <<>>
            /\ IsInjective(hit) /\ \A i \in DOMAIN hit : block_hash[hit[i]] # NoHash
            /\ Len(hit) * BlockSize \in Nat
            /\ AllocateSlots(r, Len(hit) * BlockSize + n, hit)
      BY <2>4, WaitingTakesBlocks
    <3>2. Len(hit) * BlockSize + n \in Nat
      BY <3>1
    <3> QED BY <2>1, <3>1, <3>2, AllocateIsAcquire
  <2>5. ASSUME NEW r \in Requests, Free(r) PROVE Sharing!Next
    BY <2>1, <2>5, FreeIsRelease
  <2>6. CASE ResetPrefixCache /\ UNCHANGED all_token_ids
    BY <2>1, <2>6, ResetIsForget
  <2> QED BY <2>2, <2>3, <2>4, <2>5, <2>6, PoolSteps
<1>2. SchedInit => Sharing!Init
  BY InitSharing DEF SchedInit
<1> QED BY <1>1, <1>2, SchedulerInvariant, PTL DEF SchedSpec, ImplementsSharing, Sharing!Spec

LEMMA SchedulerKeepsChains ==
    ASSUME SchedInv, ChainInv, [SchedNext]_svars
    PROVE  ChainInv'
<1>1. PoolInv
  BY DEF SchedInv
<1>2. CASE UNCHANGED kvVars
  BY <1>2, KeepsChains
<1>3. CASE AllocateRunning
  <2>1. PICK r \in Requests, n \in Nat :
          /\ num_computed_tokens[r] + n \in Nat
          /\ AllocateSlots(r, num_computed_tokens[r] + n, <<>>)
    BY <1>3, RunningTakesBlocks
  <2>2. <<>> \in Seq(Blocks) /\ IsInjective(<<>>) /\ DOMAIN <<>> = {}
    BY EmptySeq DEF IsInjective
  <2> QED BY <1>1, <2>1, <2>2, AllocateKeepsChains
<1>4. CASE AdmitWaiting
  <2>1. PICK r \in Requests, hit \in Seq(Blocks), n \in Nat \ {0} :
          /\ req_to_blocks[r] = <<>>
          /\ IsInjective(hit) /\ \A i \in DOMAIN hit : block_hash[hit[i]] # NoHash
          /\ Len(hit) * BlockSize \in Nat
          /\ AllocateSlots(r, Len(hit) * BlockSize + n, hit)
    BY <1>4, WaitingTakesBlocks
  <2>2. Len(hit) * BlockSize + n \in Nat
    BY <2>1
  <2> QED BY <1>1, <2>1, <2>2, AllocateKeepsChains
<1>5. ASSUME NEW r \in Requests, Free(r) PROVE ChainInv'
  BY <1>1, <1>5, FreeKeepsChains
<1>6. CASE ResetPrefixCache
  BY <1>1, <1>6, ResetKeepsChains
<1> QED BY <1>2, <1>3, <1>4, <1>5, <1>6, PoolSteps

\* Through the scheduler's admissions, preemptions, stops and aborts, several tokens at a
\* time, no cached block is stranded behind an evicted one, and the prefix that cascade
\* attention is told is common is common.
THEOREM SchedulerKeepsPrefixes ==
    SchedSpec => [](CachedPrefixesHaveNoHoles /\ CommonPrefixIsCommon)
<1>1. SchedInit => ChainInv
  BY InitChains DEF SchedInit
<1>2. SchedInv /\ ChainInv /\ [SchedNext]_svars => ChainInv'
  BY SchedulerKeepsChains
<1>3. SchedInv /\ ChainInv => CachedPrefixesHaveNoHoles /\ CommonPrefixIsCommon
  BY ChainsAreWhole, PrefixIsCommon DEF SchedInv
<1> QED BY <1>1, <1>2, <1>3, SchedulerInvariant, PTL DEF SchedSpec

------------------------------------------------------------------------------
(* Every scheduled token has a slot.                                        *)

\* Who leaves, leaves; who stays keeps its tokens.
LEMMA LengthStays ==
    ASSUME LengthInv, Range(requests') \subseteq Range(requests),
           \A r \in Range(requests') : /\ all_token_ids'[r] = all_token_ids[r]
                                       /\ num_prompt_tokens'[r] = num_prompt_tokens[r]
    PROVE  LengthInv'
BY DEF LengthInv, num_tokens

\* The requests that are dropped, and nobody else, lose their tokens.
LEMMA LengthWithout ==
    ASSUME SchedInv, LengthInv, NEW S \in SUBSET Requests, DropRequests(S),
           num_prompt_tokens' = Cleared(num_prompt_tokens, S),
           \A r \in Requests \ S : all_token_ids'[r] = all_token_ids[r]
    PROVE  LengthInv'
<1>1. Range(requests') = Range(requests) \cap (Requests \ S)
  BY Queues, FilterProperties DEF DropRequests
<1>2. \A r \in Requests \ S : num_prompt_tokens'[r] = num_prompt_tokens[r]
  BY DEF Cleared
<1> QED BY <1>1, <1>2, LengthStays

LEMMA NextLength ==
    ASSUME RoomForMinTokens, SchedInv, SchedInv', LengthInv, [SchedNext]_svars
    PROVE  LengthInv'
<1>1. CASE UNCHANGED <<requests, all_token_ids, num_prompt_tokens>>
  BY <1>1, LengthStays DEF Range
<1>2. ASSUME NEW r \in Requests, NEW prompt \in Prompts, Add(r, prompt) PROVE LengthInv'
  <2>1. /\ all_token_ids' = [all_token_ids EXCEPT ![r] = prompt]
        /\ num_prompt_tokens' = [num_prompt_tokens EXCEPT ![r] = Len(prompt)]
        /\ requests' = Append(requests, r) /\ r \notin Range(requests)
    BY <1>2 DEF Add
  <2>2. Range(requests') = Range(requests) \cup {r}
    BY <2>1, Queues, AppendOne
  <2>3. /\ r \in Pooling => Len(prompt) \in 1 .. MaxModelLen
        /\ r \notin Pooling => Len(prompt) \in 1 .. MaxModelLen - 1
    BY <1>2 DEF Add, PromptFits
  <2>4. all_token_ids'[r] = prompt /\ num_prompt_tokens'[r] = Len(prompt)
    BY <2>1 DEF SchedInv, SchedTypeOK, TypeOK
  <2>5. \A s \in Requests \ {r} : all_token_ids'[s] = all_token_ids[s]
                                  /\ num_prompt_tokens'[s] = num_prompt_tokens[s]
    BY <2>1 DEF SchedInv, SchedTypeOK, TypeOK
  <2>6. Range(requests) \subseteq Requests
    BY Queues
  <2>7. /\ r \in Pooling => Len(prompt) <= MaxModelLen
        /\ r \notin Pooling => Len(prompt) < MaxModelLen /\ Len(prompt) + MinTokens <= MaxModelLen
    BY <2>3, SizesAssumption DEF RoomForMinTokens
  <2> QED BY <2>1, <2>2, <2>3, <2>4, <2>5, <2>6, <2>7 DEF LengthInv, num_tokens
<1>3. ASSUME NEW r \in Requests, DropRequests({r}),
             num_prompt_tokens' = Cleared(num_prompt_tokens, {r}),
             all_token_ids' = [all_token_ids EXCEPT ![r] = <<>>]
      PROVE  LengthInv'
  <2>1. \A s \in Requests \ {r} : all_token_ids'[s] = all_token_ids[s]
    BY <1>3 DEF SchedInv, SchedTypeOK, TypeOK
  <2> QED BY <1>3, <2>1, LengthWithout
<1>4. CASE EndUpdate
  <2>1. PICK failed \in SUBSET Requests : failed = grammar_compile_error_reqs \cap Range(requests)
    BY Queues
  <2>2. /\ DropRequests(failed)
        /\ num_prompt_tokens' = Cleared(num_prompt_tokens, failed)
        /\ \A r \in Requests \ failed : all_token_ids'[r] = all_token_ids[r]
    BY <1>4, <2>1 DEF EndUpdate
  <2> QED BY <2>2, LengthWithout
<1>5. ASSUME NEW r \in Requests, NEW sampled \in SampledTokens(r),
             NEW drafts \in 0 .. NumSpecTokens, UpdateContinues(r, sampled, drafts)
      PROVE  LengthInv'
  <2>1. PICK kept \in Seq(Tokens) :
          /\ kept = Extended(r, sampled, NumKept(r, sampled))
          /\ ~CheckStop(r, kept)
          /\ all_token_ids' = [all_token_ids EXCEPT ![r] = kept]
          /\ r \notin Pooling /\ UNCHANGED <<requests, num_prompt_tokens>>
    BY <1>5, AllIsKept DEF UpdateContinues, queueVars
  <2>2. all_token_ids'[r] = kept /\ \A s \in Requests \ {r} : all_token_ids'[s] = all_token_ids[s]
    BY <2>1 DEF SchedInv, SchedTypeOK, TypeOK
  <2>3. Len(kept) \in Nat /\ num_prompt_tokens[r] \in Nat
    BY <2>1, LenProperties DEF SchedInv, SchedTypeOK
  <2>4. NumOutputTokens(r, kept) < MinTokens \/ Len(kept) < MaxModelLen
    BY <2>1, <2>3, BudgetAssumption, SizesAssumption DEF CheckStop, NumOutputTokens
  <2>5. r \in Range(requests) => Len(kept) < MaxModelLen
    BY <2>1, <2>3, <2>4, BudgetAssumption, SizesAssumption DEF LengthInv, NumOutputTokens
  <2>6. Range(requests') = Range(requests) /\ Range(requests) \subseteq Requests
    BY <2>1, Queues DEF Range
  <2> QED BY <2>1, <2>2, <2>3, <2>5, <2>6 DEF LengthInv, num_tokens
<1>6. CASE UNCHANGED svars
  BY <1>1, <1>6 DEF svars, schedVars, queueVars, requestVars, vars
<1>7. CASE ClientStep
  <2>1. ASSUME NEW r \in Requests, Abort(r) PROVE LengthInv'
    BY <1>3, <2>1 DEF Abort
  <2>2. CASE ResetCache
    BY <1>1, <2>2 DEF ResetCache, schedVars, queueVars, requestVars
  <2> QED BY <1>2, <1>7, <2>1, <2>2 DEF ClientStep
<1>8. CASE CompileStep
  BY <1>1, <1>8 DEF CompileStep, CompileGrammar, vars, queueVars, requestVars
<1>9. CASE ScheduleStep \/ FinishSchedule
  <2>1. UNCHANGED <<requests, all_token_ids, num_prompt_tokens>>
    BY <1>9 DEF ScheduleStep, StartSchedule, ConsiderRunning, SkipRunning, AllocateRunning,
       Preempt, EndRunning, SkipLora, SkipGrammar, SetAside, PromoteGrammar, AdmitWaiting,
       EndAdmission, FinishSchedule, vars, queueVars, requestVars
  <2> QED BY <1>1, <2>1
<1>10. CASE UpdateStep
  <2>1. ASSUME NEW r \in Requests, UpdateSkipped(r) \/ UpdateChunk(r)
        PROVE  LengthInv'
    BY <1>1, <2>1 DEF UpdateSkipped, UpdateChunk, vars, queueVars, requestVars
  <2>2. ASSUME NEW r \in Requests, Leave(r) PROVE LengthInv'
    BY <1>3, <2>2 DEF Leave
  <2>3. CASE BeginUpdate
    BY <1>1, <2>3 DEF BeginUpdate, vars, queueVars, requestVars
  <2> QED BY <1>4, <1>5, <1>10, <2>1, <2>2, <2>3 DEF UpdateStep, UpdatePooled, UpdateStops
<1> QED BY <1>6, <1>7, <1>8, <1>9, <1>10 DEF SchedNext

LEMMA SlotTypes ==
    ASSUME SchedInv, NEW r \in Requests
    PROVE  /\ Reach(r) \in Nat /\ Len(req_to_blocks[r]) \in Nat
           /\ Len(req_to_blocks[r]) * BlockSize \in Nat
<1>1. Reach(r) \in Nat
  BY Counters DEF Reach
<1>2. Len(req_to_blocks[r]) \in Nat
  <2>1. req_to_blocks[r] \in Seq(Blocks)
    BY DEF SchedInv, SchedTypeOK, TypeOK
  <2> QED BY <2>1, LenProperties
<1> QED BY <1>1, <1>2, SizesAssumption

\* Blocks reach as far as before or further, and so does the room.
SlotsKept == SlotsInv' /\ (LengthInv /\ ReachInv => ReachInv')

\* Nobody new runs, nobody reaches further, and those who stay keep their blocks.
LEMMA SlotsStay ==
    ASSUME SchedInv, SchedInv', SlotsInv, Range(running') \subseteq Range(running),
           \A r \in Range(running') : /\ req_to_blocks'[r] = req_to_blocks[r]
                                      /\ Reach(r)' <= Reach(r)
    PROVE  SlotsKept
<1>1. ASSUME NEW r \in Range(running')
      PROVE  /\ Least(Reach(r)', MaxModelLen) <= Len(req_to_blocks'[r]) * BlockSize
             /\ ReachInv => Reach(r)' <= MaxModelLen
  <2>1. r \in Range(running) /\ r \in Requests
    BY <1>1, RunningList
  <2>2. PICK old \in Nat, reach \in Nat, slots \in Nat :
          old = Reach(r) /\ reach = Reach(r)' /\ slots = Len(req_to_blocks[r]) * BlockSize
    <3>1. num_computed_tokens'[r] \in Nat /\ step'.num_scheduled_tokens[r] \in Nat
      BY <2>1 DEF SchedInv, SchedTypeOK, StepType
    <3>2. Reach(r)' \in Nat
      BY <3>1 DEF Reach
    <3> QED BY <2>1, <3>2, SlotTypes
  <2>3. Least(old, MaxModelLen) <= slots
    BY <2>1, <2>2 DEF SlotsInv
  <2>4. reach <= old /\ slots = Len(req_to_blocks'[r]) * BlockSize
    BY <1>1, <2>2
  <2>5. MaxModelLen \in Nat
    BY SizesAssumption
  <2>6. Least(reach, MaxModelLen) <= slots
    BY <2>2, <2>3, <2>4, <2>5 DEF Least
  <2>7. ReachInv => old <= MaxModelLen
    BY <2>1, <2>2 DEF ReachInv
  <2> QED BY <2>2, <2>4, <2>5, <2>6, <2>7
<1> QED BY <1>1 DEF SlotsKept, SlotsInv, ReachInv

\* A released request runs no longer, and takes nothing from the others.
LEMMA SlotsWithout ==
    ASSUME SchedInv, SchedInv', SlotsInv, NEW v \in Requests, Free(v),
           Range(running') \subseteq Range(running) \ {v},
           \A r \in Requests \ {v} : Reach(r)' = Reach(r)
    PROVE  SlotsKept
<1>1. req_to_blocks' = [req_to_blocks EXCEPT ![v] = <<>>]
  BY DEF Free
<1>2. \A r \in Requests \ {v} : req_to_blocks'[r] = req_to_blocks[r]
  BY <1>1 DEF SchedInv, SchedTypeOK, TypeOK
<1>3. ASSUME NEW r \in Range(running') PROVE Reach(r)' <= Reach(r)
  <2>1. r \in Requests \ {v}
    BY <1>3, RunningList
  <2>2. Reach(r)' = Reach(r) /\ Reach(r) \in Nat
    BY <2>1, SlotTypes
  <2> QED BY <2>2
<1>4. \A r \in Range(running') : req_to_blocks'[r] = req_to_blocks[r]
  BY <1>2, RunningList
<1> QED BY <1>3, <1>4, SlotsStay

\* A request that is given tokens is given the blocks they need.
LEMMA SlotsAddedCover ==
    ASSUME SchedInv, NEW r \in Requests, NEW end \in Nat, NEW hit \in Seq(Blocks),
           IsInjective(hit), hit # <<>> => req_to_blocks[r] = <<>>,
           AllocateSlots(r, end, hit)
    PROVE  /\ Least(end, MaxModelLen) <= Len(req_to_blocks'[r]) * BlockSize
           /\ \A s \in Requests \ {r} : req_to_blocks'[s] = req_to_blocks[s]
<1>1. SlotsAdded(r, end, hit)
  BY AllocateSlotsEffect DEF SchedInv
<1>2. PICK held \in Seq(Blocks), new \in Seq(Blocks) :
        /\ held = IF hit = <<>> THEN req_to_blocks[r] ELSE hit
        /\ IsInjective(new) /\ Range(new) \cap Range(hit) = {}
        /\ \A b \in Range(new) : b \in Blocks /\ Holders(b) = {}
        /\ req_to_blocks' = [req_to_blocks EXCEPT ![r] = held \o new]
        /\ Least(end, MaxModelLen) <= (Len(held) + Len(new)) * BlockSize
  BY <1>1 DEF SlotsAdded
<1>3. /\ req_to_blocks'[r] = held \o new
      /\ \A s \in Requests \ {r} : req_to_blocks'[s] = req_to_blocks[s]
  BY <1>2 DEF SchedInv, SchedTypeOK, TypeOK
<1>4. Len(held \o new) = Len(held) + Len(new)
  BY LenProperties
<1> QED BY <1>2, <1>3, <1>4

\* One request is given tokens and blocks; the others stay where they are.
LEMMA SlotsGrow ==
    ASSUME SchedInv, SchedInv', SlotsInv, NEW r \in Requests,
           Range(running') \subseteq Range(running) \cup {r},
           Least(Reach(r)', MaxModelLen) <= Len(req_to_blocks'[r]) * BlockSize,
           LengthInv => Reach(r)' <= MaxModelLen,
           \A s \in Requests \ {r} : /\ req_to_blocks'[s] = req_to_blocks[s]
                                     /\ Reach(s)' = Reach(s)
    PROVE  SlotsKept
<1>1. ASSUME NEW s \in Range(running')
      PROVE  /\ Least(Reach(s)', MaxModelLen) <= Len(req_to_blocks'[s]) * BlockSize
             /\ LengthInv /\ ReachInv => Reach(s)' <= MaxModelLen
  <2>1. s \in Requests
    BY <1>1, RunningList
  <2>2. CASE s = r
    BY <2>2
  <2>3. CASE s # r
    <3>1. s \in Range(running)
      BY <1>1, <2>3
    <3>2. Least(Reach(s), MaxModelLen) <= Len(req_to_blocks[s]) * BlockSize
      BY <3>1 DEF SlotsInv
    <3>3. ReachInv => Reach(s) <= MaxModelLen
      BY <3>1 DEF ReachInv
    <3>4. Reach(s)' = Reach(s) /\ req_to_blocks'[s] = req_to_blocks[s]
      BY <2>1, <2>3
    <3> QED BY <3>2, <3>3, <3>4
  <2> QED BY <2>2, <2>3
<1> QED BY <1>1 DEF SlotsKept, SlotsInv, ReachInv

\* Nothing is given and nothing is taken.
LEMMA SlotsUntouched ==
    ASSUME SchedInv, SchedInv', SlotsInv, UNCHANGED <<running, req_to_blocks>>,
           \A r \in Requests : Reach(r)' = Reach(r)
    PROVE  SlotsKept
<1>1. Range(running') = Range(running) /\ Range(running) \subseteq Requests
  BY RunningList DEF Range
<1>2. \A r \in Requests : Reach(r)' <= Reach(r)
  <2>1. \A r \in Requests : Reach(r) \in Nat
    BY SlotTypes
  <2> QED BY <2>1
<1> QED BY <1>1, <1>2, SlotsStay

LEMMA FinishScheduleSlots ==
    ASSUME SchedInv, SchedInv', SlotsInv, FinishSchedule
    PROVE  SlotsKept
<1>1. /\ pc = "finish" /\ pc' = "inflight"
      /\ num_computed_tokens' =
           [r \in Requests |-> num_computed_tokens[r] + step.num_scheduled_tokens[r]]
      /\ UNCHANGED <<running, req_to_blocks>>
  BY DEF FinishSchedule, Goto, vars, kvVars
<1>2. \A r \in Requests : Reach(r)' = Reach(r)
  BY <1>1 DEF Reach, Deciding
<1> QED BY <1>1, <1>2, SlotsUntouched

LEMMA AllocateRunningSlots ==
    ASSUME SchedInv, SchedInv', SlotsInv, AllocateRunning
    PROVE  SlotsKept
<1>1. PICK r \in Requests, n \in Nat \ {0} :
        /\ pc = "allocate" /\ pc' = "running" /\ r \notin Scheduled
        /\ num_computed_tokens[r] + n \in Nat /\ num_computed_tokens[r] + n <= MaxModelLen
        /\ AllocateSlots(r, num_computed_tokens[r] + n, <<>>)
        /\ step'.num_scheduled_tokens = [step.num_scheduled_tokens EXCEPT ![r] = n]
        /\ UNCHANGED <<num_computed_tokens, running>>
  BY RunningTakesBlocks DEF queueVars
<1>2. \A s \in Requests : step'.num_scheduled_tokens[s] =
                            IF s = r THEN n ELSE step.num_scheduled_tokens[s]
  BY <1>1, StepFields
<1>3. /\ Reach(r)' = num_computed_tokens[r] + n
      /\ \A s \in Requests \ {r} : Reach(s)' = Reach(s)
  BY <1>1, <1>2 DEF Reach, Deciding
<1>4. /\ Least(num_computed_tokens[r] + n, MaxModelLen) <= Len(req_to_blocks'[r]) * BlockSize
      /\ \A s \in Requests \ {r} : req_to_blocks'[s] = req_to_blocks[s]
  <2>1. <<>> \in Seq(Blocks) /\ IsInjective(<<>>)
    BY EmptySeq DEF IsInjective
  <2> QED BY <1>1, <2>1, SlotsAddedCover
<1>5. Range(running') \subseteq Range(running) \cup {r}
  BY <1>1 DEF Range
<1> QED BY <1>1, <1>3, <1>4, <1>5, SlotsGrow

LEMMA AdmitWaitingSlots ==
    ASSUME SchedInv, SchedInv', SlotsInv, AdmitWaiting
    PROVE  SlotsKept
<1>1. PICK r \in Requests, hit \in Seq(Blocks), n \in Nat \ {0} :
        /\ pc = "waiting" /\ pc' = pc /\ r \in Range(requests)
        /\ req_to_blocks[r] = <<>> /\ IsInjective(hit)
        /\ Len(hit) * BlockSize \in Nat /\ Len(hit) * BlockSize + n <= num_tokens(r)
        /\ AllocateSlots(r, Len(hit) * BlockSize + n, hit)
        /\ num_computed_tokens' = [num_computed_tokens EXCEPT ![r] = Len(hit) * BlockSize]
        /\ step'.num_scheduled_tokens = [step.num_scheduled_tokens EXCEPT ![r] = n]
        /\ Range(running') = Range(running) \cup {r}
  BY WaitingTakesBlocks
<1>2. PICK end \in Nat : end = Len(hit) * BlockSize + n /\ (LengthInv => end <= MaxModelLen)
  <2>1. PICK end \in Nat, all \in Nat :
          end = Len(hit) * BlockSize + n /\ all = num_tokens(r) /\ end <= all
    BY <1>1, Counters
  <2>2. MaxModelLen \in Nat
    BY SizesAssumption
  <2>3. LengthInv => all <= MaxModelLen
    BY <1>1, <2>1, <2>2 DEF LengthInv
  <2> QED BY <2>1, <2>2, <2>3
<1>3. /\ \A s \in Requests : step'.num_scheduled_tokens[s] =
                               IF s = r THEN n ELSE step.num_scheduled_tokens[s]
      /\ \A s \in Requests : num_computed_tokens'[s] =
                               IF s = r THEN Len(hit) * BlockSize ELSE num_computed_tokens[s]
  BY <1>1, StepFields DEF SchedInv, SchedTypeOK
<1>4. Reach(r)' = end /\ \A s \in Requests \ {r} : Reach(s)' = Reach(s)
  BY <1>1, <1>2, <1>3 DEF Reach, Deciding
<1>5. /\ Least(end, MaxModelLen) <= Len(req_to_blocks'[r]) * BlockSize
      /\ \A s \in Requests \ {r} : req_to_blocks'[s] = req_to_blocks[s]
  BY <1>1, <1>2, SlotsAddedCover
<1> QED BY <1>1, <1>2, <1>4, <1>5, SlotsGrow

LEMMA UpdateContinuesSlots ==
    ASSUME SchedInv, SchedInv', SlotsInv, NEW r \in Requests, NEW sampled \in SampledTokens(r),
           NEW drafts \in 0 .. NumSpecTokens, UpdateContinues(r, sampled, drafts)
    PROVE  SlotsKept
<1>1. /\ pc = "update" /\ pc' = pc
      /\ ~CheckStop(r, Extended(r, sampled, NumKept(r, sampled)))
      /\ num_computed_tokens' = [num_computed_tokens EXCEPT ![r] = @ - NumRejected(r, sampled)]
      /\ UNCHANGED <<req_to_blocks, running>>
  BY DEF UpdateContinues, Sampled, Updating, kvVars, queueVars
<1>2. PICK accepted \in Nat : Len(sampled) = accepted + 1 /\ accepted <= step.num_drafts[r]
  BY <1>1, AllIsKept
<1>3. NumRejected(r, sampled) \in Nat
  BY <1>2, Counters DEF NumRejected
<1>4. ASSUME NEW s \in Requests PROVE Reach(s)' <= Reach(s)
  <2>1. num_computed_tokens'[s] = IF s = r THEN num_computed_tokens[s] - NumRejected(r, sampled)
                                  ELSE num_computed_tokens[s]
    BY <1>1 DEF SchedInv, SchedTypeOK
  <2>2. Reach(s)' = num_computed_tokens'[s] /\ Reach(s) = num_computed_tokens[s]
    BY <1>1 DEF Reach, Deciding
  <2>3. num_computed_tokens[s] \in Nat
    BY Counters
  <2> QED BY <1>3, <2>1, <2>2, <2>3
<1>5. Range(running') = Range(running) /\ Range(running) \subseteq Requests
  BY <1>1, RunningList DEF Range
<1> QED BY <1>1, <1>4, <1>5, SlotsStay

\* Steps of schedule() that give no tokens.
LEMMA QuietScheduleSlots ==
    ASSUME SchedInv, SchedInv', SlotsInv,
           \/ StartSchedule \/ ConsiderRunning \/ SkipRunning \/ EndRunning
           \/ SkipLora \/ SkipGrammar \/ PromoteGrammar \/ EndAdmission
    PROVE  SlotsKept
<1>1. UNCHANGED <<running, req_to_blocks, num_computed_tokens>>
  BY DEF StartSchedule, ConsiderRunning, SkipRunning, EndRunning, SkipLora, SkipGrammar,
         SetAside, PromoteGrammar, EndAdmission, vars, kvVars, queueVars, requestVars
<1>2. CASE StartSchedule
  <2>1. /\ pc = "idle" /\ pc' = "running"
        /\ step' = [NoStep EXCEPT !.token_budget = MaxNumBatchedTokens]
    BY <1>2 DEF StartSchedule, Goto
  <2>2. step'.num_scheduled_tokens = [r \in Requests |-> 0]
    BY <2>1 DEF NoStep
  <2>3. \A r \in Requests : Reach(r)' = Reach(r)
    BY <1>1, <2>1, <2>2, Counters DEF Reach, Deciding
  <2> QED BY <1>1, <2>3, SlotsUntouched
<1>3. CASE ~StartSchedule
  <2>1. /\ pc \in {"running", "waiting"} /\ pc' \in {"running", "allocate", "waiting", "finish"}
        /\ \/ UNCHANGED step
           \/ \E n : step' = [step EXCEPT !.request = <<NextRunning>>, !.num_new_tokens = n]
           \/ step' = [step EXCEPT !.req_index = @ + 1]
    BY <1>3 DEF ConsiderRunning, SkipRunning, EndRunning, SkipLora, SkipGrammar, SetAside,
                PromoteGrammar, EndAdmission, InRunningLoop, InWaitingLoop, Goto
  <2>2. step'.num_scheduled_tokens = step.num_scheduled_tokens
    BY <2>1, StepFields DEF StepType
  <2>3. \A r \in Requests : Reach(r)' = Reach(r)
    BY <1>1, <2>1, <2>2 DEF Reach, Deciding
  <2> QED BY <1>1, <2>3, SlotsUntouched
<1> QED BY <1>2, <1>3

\* A request that leaves, from a state that decides nothing.
LEMMA LeavingSlots ==
    ASSUME SchedInv, SchedInv', SlotsInv, NEW v \in Requests, Free(v),
           pc \in {"idle", "inflight", "update"}, pc' = pc,
           num_computed_tokens' = Cleared(num_computed_tokens, {v}),
           running' = Without(running, v) \/ (running' = running /\ v \notin Range(running))
    PROVE  SlotsKept
<1>1. Range(running') \subseteq Range(running) \ {v}
  <2>1. CASE running' = Without(running, v)
    <3>1. Range(Filter(running, Requests \ {v})) = Range(running) \cap (Requests \ {v})
      BY RunningList, FilterProperties
    <3> QED BY <2>1, <3>1 DEF Without
  <2>2. CASE running' = running /\ v \notin Range(running)
    BY <2>2
  <2> QED BY <2>1, <2>2
<1>2. \A r \in Requests \ {v} : Reach(r)' = Reach(r)
  BY DEF Reach, Deciding, Cleared
<1> QED BY <1>1, <1>2, SlotsWithout

LEMMA AbortSlots ==
    ASSUME SchedInv, SchedInv', SlotsInv, NEW r \in Requests, Abort(r)
    PROVE  SlotsKept
<1>1. /\ pc \in {"idle", "inflight"} /\ pc' = pc /\ Free(r)
      /\ num_computed_tokens' = Cleared(num_computed_tokens, {r})
      /\ RemoveFromQueue(r)
  BY DEF Abort, ClientsMayCall
<1>2. r \in Range(running) <=> status[r] = "RUNNING"
  BY DEF SchedInv, QueueInv
<1>3. running' = Without(running, r) \/ (running' = running /\ r \notin Range(running))
  BY <1>1, <1>2 DEF RemoveFromQueue
<1> QED BY <1>1, <1>3, LeavingSlots

LEMMA PreemptSlots ==
    ASSUME SchedInv, SchedInv', SlotsInv, Preempt
    PROVE  SlotsKept
<1>1. PICK v \in Requests :
        /\ v = Victim /\ pc = "allocate" /\ pc' \in {"finish", "allocate"}
        /\ \A s \in Requests : step'.num_scheduled_tokens[s] =
                                 IF s = v THEN 0 ELSE step.num_scheduled_tokens[s]
  BY PreemptStep
<1>2. /\ Free(v) /\ running' = Without(running, v)
      /\ num_computed_tokens' = Cleared(num_computed_tokens, {v})
  BY <1>1 DEF Preempt
<1>3. Range(running') \subseteq Range(running) \ {v}
  <2>1. Range(Filter(running, Requests \ {v})) = Range(running) \cap (Requests \ {v})
    BY RunningList, FilterProperties
  <2> QED BY <1>2, <2>1 DEF Without
<1>4. \A r \in Requests \ {v} : Reach(r)' = Reach(r)
  BY <1>1, <1>2 DEF Reach, Deciding, Cleared
<1> QED BY <1>2, <1>3, <1>4, SlotsWithout

LEMMA NextSlots ==
    ASSUME SchedInv, SchedInv', SlotsInv, [SchedNext]_svars
    PROVE  SlotsKept
<1>1. ASSUME UNCHANGED <<running, req_to_blocks, num_computed_tokens, pc>>,
             step' = step \/ step' = [step EXCEPT !.req_index = @ + 1]
      PROVE  SlotsKept
  <2>1. step'.num_scheduled_tokens = step.num_scheduled_tokens
    BY <1>1, StepFields DEF StepType
  <2>2. \A r \in Requests : Reach(r)' = Reach(r)
    BY <1>1, <2>1 DEF Reach, Deciding
  <2> QED BY <1>1, <2>2, SlotsUntouched
<1>2. CASE UNCHANGED svars
  BY <1>1, <1>2 DEF svars, schedVars, queueVars, requestVars, vars, kvVars
<1>3. CASE ClientStep
  <2>1. ASSUME NEW r \in Requests, NEW prompt \in Prompts, Add(r, prompt) PROVE SlotsKept
    BY <1>1, <2>1 DEF Add, kvVars
  <2>2. CASE ResetCache
    BY <1>1, <2>2 DEF ResetCache, ResetPrefixCache, schedVars, queueVars, requestVars
  <2> QED BY <1>3, <2>1, <2>2, AbortSlots DEF ClientStep
<1>4. CASE CompileStep
  BY <1>1, <1>4 DEF CompileStep, CompileGrammar, vars, kvVars, queueVars, requestVars
<1>5. CASE ScheduleStep
  BY <1>5, QuietScheduleSlots, AllocateRunningSlots, PreemptSlots, AdmitWaitingSlots
     DEF ScheduleStep
<1>6. CASE FinishSchedule
  BY <1>6, FinishScheduleSlots
<1>7. CASE UpdateStep
  <2>1. CASE BeginUpdate \/ EndUpdate
    <3>1. /\ UNCHANGED <<running, req_to_blocks, num_computed_tokens>>
          /\ pc \in {"inflight", "update"} /\ pc' \in {"update", "idle"}
      BY <2>1 DEF BeginUpdate, EndUpdate, Goto, vars, kvVars, queueVars, requestVars
    <3>2. \A r \in Requests : Reach(r)' = Reach(r)
      BY <3>1 DEF Reach, Deciding
    <3> QED BY <3>1, <3>2, SlotsUntouched
  <2>2. ASSUME NEW r \in Requests, UpdateSkipped(r) \/ UpdateChunk(r) PROVE SlotsKept
    BY <1>1, <2>2 DEF UpdateSkipped, UpdateChunk, vars, kvVars, queueVars, requestVars
  <2>3. ASSUME NEW r \in Requests, Sampled(r), Leave(r) PROVE SlotsKept
    <3>1. /\ Free(r) /\ pc = "update" /\ pc' = pc
          /\ num_computed_tokens' = Cleared(num_computed_tokens, {r})
          /\ running' = Without(running, r)
      BY <2>3 DEF Sampled, Updating, Leave
    <3> QED BY <3>1, LeavingSlots
  <2>4. ASSUME NEW r \in Requests, NEW sampled \in SampledTokens(r), UpdateStops(r, sampled)
        PROVE  SlotsKept
    BY <2>3, <2>4 DEF UpdateStops
  <2>5. ASSUME NEW r \in Requests, UpdatePooled(r) PROVE SlotsKept
    BY <2>3, <2>5 DEF UpdatePooled
  <2> QED BY <1>7, <2>1, <2>2, <2>4, <2>5, UpdateContinuesSlots DEF UpdateStep
<1> QED BY <1>2, <1>3, <1>4, <1>5, <1>6, <1>7 DEF SchedNext

\* A running request's blocks reach to its last computed token, so that a batch never
\* writes past them, provided that prompts leave room for the least output.
THEOREM SlotsCoverTheBatch == RoomForMinTokens /\ SchedSpec => []SlotsCoverBatch
<1>1. SchedInit => LengthInv /\ SlotsInv /\ ReachInv
  BY DEF SchedInit, LengthInv, SlotsInv, ReachInv, Range
<1>2. RoomForMinTokens /\ SchedInv /\ SchedInv' /\ [SchedNext]_svars
        /\ LengthInv /\ SlotsInv /\ ReachInv
        => LengthInv' /\ SlotsInv' /\ ReachInv'
  BY NextLength, NextSlots DEF SlotsKept
<1>3. SchedInv /\ SlotsInv /\ ReachInv => SlotsCoverBatch
  <2> SUFFICES ASSUME SchedInv, SlotsInv, ReachInv, NEW r \in Range(running)
               PROVE  Reach(r) <= MaxModelLen /\ Reach(r) <= Len(req_to_blocks[r]) * BlockSize
    BY DEF SlotsCoverBatch, Reach, Deciding
  <2>1. PICK reach \in Nat : reach = Reach(r)
    BY RunningList, SlotTypes
  <2>2. reach <= MaxModelLen /\ Least(reach, MaxModelLen) <= Len(req_to_blocks[r]) * BlockSize
    BY <2>1 DEF SlotsInv, ReachInv
  <2>3. Least(reach, MaxModelLen) = reach
    BY <2>2, SizesAssumption DEF Least
  <2> QED BY <2>1, <2>2, <2>3
<1>4. ASSUME RoomForMinTokens PROVE SchedSpec => []SlotsCoverBatch
  <2>1. SchedInv /\ SchedInv' /\ [SchedNext]_svars /\ LengthInv /\ SlotsInv /\ ReachInv
          => LengthInv' /\ SlotsInv' /\ ReachInv'
    BY <1>2, <1>4
  <2> QED BY <1>1, <1>3, <2>1, SchedulerInvariant, PTL DEF SchedSpec
<1> QED BY <1>4

==============================================================================
