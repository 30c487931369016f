----------------------------- MODULE EngineProofs -----------------------------
(***************************************************************************)
(* Proofs about the engine core: that it schedules as the scheduler does,  *)
(* that the worker's tables follow the scheduler's, and that no slot of the *)
(* cache is written twice in one batch.                                     *)
(***************************************************************************)
EXTENDS EngineCore, SlotProofs, SchedulerTheorems

------------------------------------------------------------------------------
(* The engine is a scheduler.                                               *)

\* Every step of the engine is a step of its scheduler.
LEMMA EngineSteps ==
    ASSUME [EngineNext]_evars
    PROVE  [SchedNext]_svars
<1>1. CASE UNCHANGED evars
  BY <1>1 DEF evars
<1>2. CASE EngineStep
  <2>1. CASE EngineAllocateRunning \/ EngineAdmitWaiting \/ Launch
    BY <2>1 DEF EngineAllocateRunning, EngineAdmitWaiting, Launch, SchedNext, ScheduleStep
  <2>2. ASSUME NEW r \in Requests, NEW sampled \in SampledTokens(r),
               NEW drafts \in 0 .. NumSpecTokens, EngineUpdateContinues(r, sampled, drafts)
        PROVE  SchedNext
    BY <2>2 DEF EngineUpdateContinues, SchedNext, UpdateStep
  <2>3. CASE OtherScheduleStep
    BY <2>3 DEF OtherScheduleStep, SchedNext, ScheduleStep
  <2>4. CASE OtherUpdateStep
    BY <2>4 DEF OtherUpdateStep, SchedNext, UpdateStep
  <2> QED BY <1>2, <2>1, <2>2, <2>3, <2>4 DEF EngineStep
<1>3. ASSUME NEW r \in Structured, EngineCompile(r) PROVE SchedNext
  BY <1>3 DEF EngineCompile, SchedNext, CompileStep
<1>4. CASE ClientStep
  BY <1>4 DEF SchedNext
<1> QED BY <1>1, <1>2, <1>3, <1>4 DEF EngineNext

\* The worker, the device and the compilations change nothing in how the scheduler
\* behaves: whatever is proved of the scheduler is true of the engine.
THEOREM EngineIsScheduler == EngineSpec => SchedSpec
<1>1. EngineInit => SchedInit
  BY DEF EngineInit
<1>2. [EngineNext]_evars => [SchedNext]_svars
  BY EngineSteps
<1> QED BY <1>1, <1>2, PTL DEF EngineSpec, SchedSpec

------------------------------------------------------------------------------
(* No slot is written twice.                                                *)

\* Nobody's table grows and no count goes back below what was shared.
LEMMA SharersStay ==
    ASSUME SchedInv, SchedInv', SharersArePast,
           \A r \in Requests : \/ req_to_blocks'[r] = <<>>
                               \/ /\ req_to_blocks'[r] = req_to_blocks[r]
                                  /\ num_computed_tokens[r] <= num_computed_tokens'[r]
    PROVE  SharersArePast'
<1>1. SUFFICES ASSUME NEW r \in Requests, NEW s \in Requests, r # s,
                      NEW i \in DOMAIN req_to_blocks'[r], NEW j \in DOMAIN req_to_blocks'[s],
                      req_to_blocks'[r][i] = req_to_blocks'[s][j]
               PROVE  \/ i * BlockSize <= num_computed_tokens'[r]
                      \/ j * BlockSize <= num_computed_tokens'[s]
  BY DEF SharersArePast
<1>2. DOMAIN <<>> = {}
  OBVIOUS
<1>3. /\ req_to_blocks'[r] = req_to_blocks[r] /\ req_to_blocks'[s] = req_to_blocks[s]
      /\ num_computed_tokens[r] <= num_computed_tokens'[r]
      /\ num_computed_tokens[s] <= num_computed_tokens'[s]
  BY <1>1, <1>2
<1>4. \/ i * BlockSize <= num_computed_tokens[r]
      \/ j * BlockSize <= num_computed_tokens[s]
  BY <1>1, <1>3 DEF SharersArePast
<1>5. /\ num_computed_tokens[r] \in Nat /\ num_computed_tokens'[r] \in Nat
      /\ num_computed_tokens[s] \in Nat /\ num_computed_tokens'[s] \in Nat
  BY DEF SchedInv, SchedTypeOK
<1>6. i * BlockSize \in Nat /\ j * BlockSize \in Nat
  <2>1. i \in Nat /\ j \in Nat
    <3>1. req_to_blocks'[r] \in Seq(Blocks) /\ req_to_blocks'[s] \in Seq(Blocks)
      BY DEF SchedInv, SchedTypeOK, TypeOK
    <3> QED BY <3>1, LenProperties
  <2> QED BY <2>1, SizesAssumption
<1> QED BY <1>3, <1>4, <1>5, <1>6

\* Blocks that are taken are nobody's, and blocks that are joined lie behind the count.
LEMMA SharersGrow ==
    ASSUME SchedInv, SchedInv', SharersArePast, NEW r \in Requests, NEW n \in Nat,
           NEW hit \in Seq(Blocks), IsInjective(hit),
           hit # <<>> => req_to_blocks[r] = <<>>,
           AllocateSlots(r, n, hit),
           hit = <<>> => num_computed_tokens'[r] >= num_computed_tokens[r],
           hit # <<>> => num_computed_tokens'[r] = Len(hit) * BlockSize,
           \A s \in Requests \ {r} : num_computed_tokens'[s] = num_computed_tokens[s]
    PROVE  SharersArePast'
<1>1. SlotsAdded(r, n, hit)
  BY AllocateSlotsEffect DEF SchedInv
<1>2. PICK held \in Seq(Blocks), new \in Seq(Blocks) :
        /\ held = IF hit = <<>> THEN req_to_blocks[r] ELSE hit
        /\ IsInjective(new) /\ Range(new) \cap Range(hit) = {}
        /\ \A b \in Range(new) : b \in Blocks /\ Holders(b) = {}
        /\ req_to_blocks' = [req_to_blocks EXCEPT ![r] = held \o new]
  BY <1>1 DEF SlotsAdded
<1>3. /\ req_to_blocks'[r] = held \o new
      /\ \A s \in Requests \ {r} : req_to_blocks'[s] = req_to_blocks[s]
  BY <1>2 DEF SchedInv, SchedTypeOK, TypeOK
<1>4. PICK m \in Nat, k \in Nat : m = Len(held) /\ k = Len(new)
  BY LenProperties
<1>5. /\ DOMAIN (held \o new) = 1 .. m + k
      /\ \A i \in 1 .. m + k : (held \o new)[i] = IF i <= m THEN held[i] ELSE new[i - m]
  BY <1>4, ConcatProperties, LenProperties
<1>6. \A s \in Requests : \A i \in DOMAIN req_to_blocks[s] : i \in Nat /\ i * BlockSize \in Nat
  <2>1. ASSUME NEW s \in Requests, NEW i \in DOMAIN req_to_blocks[s] PROVE i \in Nat
    <3>1. req_to_blocks[s] \in Seq(Blocks)
      BY DEF SchedInv, SchedTypeOK, TypeOK
    <3> QED BY <3>1, LenProperties
  <2> QED BY <2>1, SizesAssumption
\* Seen from the request that got blocks.
<1>7. ASSUME NEW s \in Requests, s # r,
             NEW i \in 1 .. m + k, NEW j \in DOMAIN req_to_blocks[s],
             (held \o new)[i] = req_to_blocks[s][j]
      PROVE  \/ i * BlockSize <= num_computed_tokens'[r]
             \/ j * BlockSize <= num_computed_tokens'[s]
  <2>1. i <= m
    <3>1. SUFFICES ASSUME i > m PROVE FALSE
      BY <1>4
    <3>2. i - m \in 1 .. k /\ (held \o new)[i] = new[i - m]
      BY <1>4, <1>5, <3>1
    <3>3. new[i - m] \in Range(new)
      BY <1>4, <3>2, LenProperties DEF Range
    <3>4. Holders(req_to_blocks[s][j]) = {}
      BY <1>2, <1>7, <3>2, <3>3
    <3>5. s \in Holders(req_to_blocks[s][j])
      BY <1>7 DEF Holders, Range
    <3> QED BY <3>4, <3>5
  <2>2. held[i] = req_to_blocks[s][j] /\ i \in 1 .. m /\ i \in DOMAIN held
    BY <1>4, <1>5, <1>7, <2>1, LenProperties
  <2>3. CASE hit = <<>>
    <3>1. held = req_to_blocks[r]
      BY <1>2, <2>3
    <3>2. \/ i * BlockSize <= num_computed_tokens[r]
          \/ j * BlockSize <= num_computed_tokens[s]
      BY <1>7, <2>2, <3>1 DEF SharersArePast
    <3>3. /\ num_computed_tokens'[r] >= num_computed_tokens[r]
          /\ num_computed_tokens'[s] = num_computed_tokens[s]
      BY <1>7, <2>3
    <3>4. /\ num_computed_tokens[r] \in Nat /\ num_computed_tokens'[r] \in Nat
          /\ i * BlockSize \in Nat
      BY <1>6, <2>2, <3>1 DEF SchedInv, SchedTypeOK
    <3> QED BY <3>2, <3>3, <3>4
  <2>4. CASE hit # <<>>
    <3>1. held = hit /\ num_computed_tokens'[r] = m * BlockSize
      BY <1>2, <1>4, <2>4
    <3>2. i * BlockSize <= m * BlockSize
      <4>1. i \in Nat /\ m \in Nat /\ i <= m /\ BlockSize \in Nat
        BY <1>4, <2>2, SizesAssumption
      <4> QED BY <4>1, SMT
    <3> QED BY <3>1, <3>2
  <2> QED BY <2>3, <2>4
<1>8. ASSUME NEW s \in Requests, NEW t \in Requests, s # t, s # r, t # r,
             NEW i \in DOMAIN req_to_blocks[s], NEW j \in DOMAIN req_to_blocks[t],
             req_to_blocks[s][i] = req_to_blocks[t][j]
      PROVE  \/ i * BlockSize <= num_computed_tokens'[s]
             \/ j * BlockSize <= num_computed_tokens'[t]
  <2>1. \/ i * BlockSize <= num_computed_tokens[s]
        \/ j * BlockSize <= num_computed_tokens[t]
    BY <1>8 DEF SharersArePast
  <2>2. /\ num_computed_tokens'[s] = num_computed_tokens[s]
        /\ num_computed_tokens'[t] = num_computed_tokens[t]
    BY <1>8
  <2> QED BY <2>1, <2>2
<1>9. SUFFICES ASSUME NEW s \in Requests, NEW t \in Requests, s # t,
                      NEW i \in DOMAIN req_to_blocks'[s], NEW j \in DOMAIN req_to_blocks'[t],
                      req_to_blocks'[s][i] = req_to_blocks'[t][j]
               PROVE  \/ i * BlockSize <= num_computed_tokens'[s]
                      \/ j * BlockSize <= num_computed_tokens'[t]
  BY DEF SharersArePast
<1>10. CASE s = r
  <2>1. t # r /\ req_to_blocks'[t] = req_to_blocks[t] /\ req_to_blocks'[s] = held \o new
    BY <1>3, <1>9, <1>10
  <2> QED BY <1>5, <1>7, <1>9, <1>10, <2>1
<1>11. CASE t = r
  <2>1. s # r /\ req_to_blocks'[s] = req_to_blocks[s] /\ req_to_blocks'[t] = held \o new
    BY <1>3, <1>9, <1>11
  <2> QED BY <1>5, <1>7, <1>9, <1>11, <2>1
<1>12. CASE s # r /\ t # r
  <2>1. req_to_blocks'[s] = req_to_blocks[s] /\ req_to_blocks'[t] = req_to_blocks[t]
    BY <1>3, <1>12
  <2> QED BY <1>8, <1>9, <1>12, <2>1
<1> QED BY <1>10, <1>11, <1>12

\* Rejected drafts are rolled back, but never what was computed for the request's tokens.
LEMMA CountAfterUpdate ==
    ASSUME SchedInv, NEW r \in Requests,
           NEW sampled \in SampledTokens(r), NEW drafts \in 0 .. NumSpecTokens,
           UpdateContinues(r, sampled, drafts)
    PROVE  /\ num_tokens(r) <= num_computed_tokens'[r]
           /\ \A s \in Requests : num_computed_tokens'[s] <= num_computed_tokens[s]
           /\ \A s \in Requests \ {r} : num_computed_tokens'[s] = num_computed_tokens[s]
<1>1. /\ pc = "update" /\ step.req_index <= Len(running) /\ r = NextRunning
      /\ step.num_scheduled_tokens[r] > 0 /\ ~is_prefill_chunk[r]
      /\ ~CheckStop(r, Extended(r, sampled, NumKept(r, sampled)))
      /\ num_computed_tokens' = [num_computed_tokens EXCEPT ![r] = @ - NumRejected(r, sampled)]
  BY DEF UpdateContinues, Sampled, Updating
<1>2. PICK accepted \in Nat : Len(sampled) = accepted + 1 /\ accepted <= step.num_drafts[r]
  BY <1>1, AllIsKept
<1>3. num_computed_tokens[r] = num_tokens(r) + step.num_drafts[r]
  <2>1. r \in Scheduled
    BY <1>1, Counters
  <2>2. step.req_index \in 1 .. Len(running) /\ running[step.req_index] = r
    BY <1>1, StepFields, RunningList DEF NextRunning
  <2>3. step.req_index \in DOMAIN running /\ step.req_index >= step.req_index
    BY <2>2, RunningList, StepFields
  <2>4. Pending(r)
    BY <1>1, <2>1, <2>2, <2>3 DEF SchedInv, CountInv
  <2> QED BY <1>1, <2>4 DEF Pending
<1>4. num_computed_tokens'[r] = num_tokens(r) + accepted
  <2>1. num_computed_tokens'[r] = num_computed_tokens[r] - NumRejected(r, sampled)
    BY <1>1 DEF SchedInv, SchedTypeOK
  <2> QED BY <1>2, <1>3, <2>1, Counters DEF NumRejected
<1>5. \A s \in Requests \ {r} : num_computed_tokens'[s] = num_computed_tokens[s]
  BY <1>1 DEF SchedInv, SchedTypeOK
<1>6. \A s \in Requests : num_computed_tokens[s] \in Nat /\ num_tokens(r) \in Nat
  BY Counters
<1>7. step.num_drafts[r] \in Nat
  BY Counters
<1>8. num_computed_tokens'[r] <= num_computed_tokens[r]
  BY <1>2, <1>3, <1>4, <1>6, <1>7
<1>9. ASSUME NEW s \in Requests PROVE num_computed_tokens'[s] <= num_computed_tokens[s]
  BY <1>5, <1>6, <1>8
<1> QED BY <1>2, <1>4, <1>5, <1>6, <1>9

\* A published block of a request ends within its tokens, so that rolling back the
\* rejected drafts does not take the request back into it.
LEMMA UpdateContinuesSharers ==
    ASSUME SchedInv, SchedInv', SharersArePast, NEW r \in Requests,
           NEW sampled \in SampledTokens(r), NEW drafts \in 0 .. NumSpecTokens,
           UpdateContinues(r, sampled, drafts)
    PROVE  SharersArePast'
<1>1. UNCHANGED req_to_blocks
  BY DEF UpdateContinues, kvVars
<1>2. /\ num_tokens(r) <= num_computed_tokens'[r]
      /\ \A s \in Requests \ {r} : num_computed_tokens'[s] = num_computed_tokens[s]
  BY CountAfterUpdate
<1>5. ASSUME NEW i \in DOMAIN req_to_blocks[r], NEW s \in Requests, s # r,
             NEW j \in DOMAIN req_to_blocks[s], req_to_blocks[r][i] = req_to_blocks[s][j]
      PROVE  i * BlockSize <= num_computed_tokens'[r]
  <2>1. req_to_blocks[r] \in Seq(Blocks)
    BY DEF SchedInv, SchedTypeOK, TypeOK
  <2>2. PICK b \in Blocks : b = req_to_blocks[r][i] /\ i \in Nat
    BY <2>1, LenProperties, ElementOfSeq
  <2>3. b \in Range(req_to_blocks[r]) /\ b \in Range(req_to_blocks[s])
    BY <1>5, <2>2 DEF Range
  <2>4. ref_cnt[b] > 1
    BY <1>5, <2>3, TwoHolders DEF SchedInv
  <2>5. block_hash[b] # NoHash
    BY <2>4 DEF SchedInv, PoolInv, SharedOnlyIfPublished
  <2>6. i * BlockSize <= num_tokens(r)
    BY <2>2, <2>5 DEF SchedInv, PoolInv, TableContentsMatch, num_tokens
  <2>7. i * BlockSize \in Nat /\ num_tokens(r) \in Nat
    BY <2>2, SizesAssumption, Counters
  <2>8. num_computed_tokens'[r] \in Nat
    BY DEF SchedInv, SchedTypeOK
  <2> QED BY <1>2, <2>6, <2>7, <2>8
<1>7. SUFFICES ASSUME NEW s \in Requests, NEW t \in Requests, s # t,
                      NEW i \in DOMAIN req_to_blocks[s], NEW j \in DOMAIN req_to_blocks[t],
                      req_to_blocks[s][i] = req_to_blocks[t][j]
               PROVE  \/ i * BlockSize <= num_computed_tokens'[s]
                      \/ j * BlockSize <= num_computed_tokens'[t]
  BY <1>1 DEF SharersArePast
<1>8. CASE s = r
  BY <1>5, <1>7, <1>8
<1>9. CASE t = r
  BY <1>5, <1>7, <1>9
<1>10. CASE s # r /\ t # r
  <2>1. \/ i * BlockSize <= num_computed_tokens[s]
        \/ j * BlockSize <= num_computed_tokens[t]
    BY <1>7 DEF SharersArePast
  <2> QED BY <1>2, <1>10, <2>1
<1> QED BY <1>8, <1>9, <1>10

LEMMA NextSharers ==
    ASSUME SchedInv, SchedInv', SharersArePast, [SchedNext]_svars
    PROVE  SharersArePast'
<1>1. \A r \in Requests : num_computed_tokens[r] \in Nat
  BY Counters
<1>2. CASE UNCHANGED <<req_to_blocks, num_computed_tokens>>
  BY <1>1, <1>2, SharersStay
<1>3. ASSUME NEW v \in Requests, Free(v),
             num_computed_tokens' = Cleared(num_computed_tokens, {v})
      PROVE  SharersArePast'
  <2>1. req_to_blocks' = [req_to_blocks EXCEPT ![v] = <<>>]
    BY <1>3 DEF Free
  <2>2. /\ req_to_blocks'[v] = <<>>
        /\ \A r \in Requests \ {v} : /\ req_to_blocks'[r] = req_to_blocks[r]
                                     /\ num_computed_tokens'[r] = num_computed_tokens[r]
    BY <1>3, <2>1 DEF Cleared, SchedInv, SchedTypeOK, TypeOK
  <2>3. ASSUME NEW r \in Requests
        PROVE  \/ req_to_blocks'[r] = <<>>
               \/ /\ req_to_blocks'[r] = req_to_blocks[r]
                  /\ num_computed_tokens[r] <= num_computed_tokens'[r]
    BY <1>1, <2>2
  <2> QED BY <2>3, SharersStay
<1>4. CASE AllocateRunning
  <2>1. PICK r \in Requests, n \in Nat \ {0} :
          /\ num_computed_tokens[r] + n \in Nat
          /\ AllocateSlots(r, num_computed_tokens[r] + n, <<>>)
          /\ UNCHANGED num_computed_tokens
    BY <1>4, RunningTakesBlocks
  <2>2. <<>> \in Seq(Blocks) /\ IsInjective(<<>>)
    BY EmptySeq DEF IsInjective
  <2>3. num_computed_tokens'[r] >= num_computed_tokens[r]
    BY <1>1, <2>1
  <2> QED BY <2>1, <2>2, <2>3, SharersGrow
<1>5. CASE AdmitWaiting
  <2>1. PICK r \in Requests, hit \in Seq(Blocks), n \in Nat \ {0} :
          /\ r \notin Range(running) /\ req_to_blocks[r] = <<>> /\ IsInjective(hit)
          /\ Len(hit) * BlockSize \in Nat
          /\ AllocateSlots(r, Len(hit) * BlockSize + n, hit)
          /\ num_computed_tokens' = [num_computed_tokens EXCEPT ![r] = Len(hit) * BlockSize]
    BY <1>5, WaitingTakesBlocks
  <2>2. PICK end \in Nat : end = Len(hit) * BlockSize + n
    BY <2>1
  <2>3. /\ num_computed_tokens'[r] = Len(hit) * BlockSize
        /\ \A s \in Requests \ {r} : num_computed_tokens'[s] = num_computed_tokens[s]
    BY <2>1 DEF SchedInv, SchedTypeOK
  <2>4. num_computed_tokens[r] = 0
    BY <2>1 DEF SchedInv, WaitingHoldsNothing
  <2>5. num_computed_tokens'[r] >= num_computed_tokens[r]
    BY <2>1, <2>3, <2>4
  <2> QED BY <2>1, <2>2, <2>3, <2>5, SharersGrow
<1>6. CASE FinishSchedule
  <2>1. /\ num_computed_tokens' =
             [r \in Requests |-> num_computed_tokens[r] + step.num_scheduled_tokens[r]]
        /\ UNCHANGED req_to_blocks
    BY <1>6 DEF FinishSchedule, vars, kvVars
  <2>2. \A r \in Requests : num_computed_tokens[r] <= num_computed_tokens'[r]
    BY <2>1, Counters
  <2> QED BY <2>1, <2>2, SharersStay
<1>7. CASE UNCHANGED svars
  BY <1>2, <1>7 DEF svars, schedVars, requestVars, vars, kvVars
<1>8. CASE ClientStep
  <2>1. ASSUME NEW r \in Requests, NEW prompt \in Prompts, Add(r, prompt) PROVE SharersArePast'
    BY <1>2, <2>1 DEF Add, kvVars
  <2>2. CASE ResetCache
    BY <1>2, <2>2 DEF ResetCache, ResetPrefixCache, schedVars, requestVars
  <2>3. ASSUME NEW r \in Requests, Abort(r) PROVE SharersArePast'
    BY <1>3, <2>3 DEF Abort
  <2> QED BY <1>8, <2>1, <2>2, <2>3 DEF ClientStep
<1>9. CASE CompileStep
  BY <1>2, <1>9 DEF CompileStep, CompileGrammar, vars, kvVars, requestVars
<1>10. CASE ScheduleStep
  <2>1. CASE Preempt
    <3>1. Victim \in Requests
      BY <2>1, PreemptStep
    <3> QED BY <1>3, <2>1, <3>1 DEF Preempt
  <2>2. CASE StartSchedule \/ ConsiderRunning \/ SkipRunning \/ EndRunning \/ SkipLora
             \/ SkipGrammar \/ PromoteGrammar \/ EndAdmission
    BY <1>2, <2>2 DEF StartSchedule, ConsiderRunning, SkipRunning, EndRunning, SkipLora,
       SkipGrammar, SetAside, PromoteGrammar, EndAdmission, vars, kvVars, requestVars
  <2> QED BY <1>4, <1>5, <1>10, <2>1, <2>2 DEF ScheduleStep
<1>11. CASE UpdateStep
  <2>1. CASE BeginUpdate \/ EndUpdate
    BY <1>2, <2>1 DEF BeginUpdate, EndUpdate, vars, kvVars, requestVars
  <2>2. ASSUME NEW r \in Requests, UpdateSkipped(r) \/ UpdateChunk(r) PROVE SharersArePast'
    BY <1>2, <2>2 DEF UpdateSkipped, UpdateChunk, vars, kvVars, requestVars
  <2>3. ASSUME NEW r \in Requests, Leave(r) PROVE SharersArePast'
    BY <1>3, <2>3 DEF Leave
  <2> QED BY <1>11, <2>1, <2>2, <2>3, UpdateContinuesSharers
          DEF UpdateStep, UpdateStops, UpdatePooled
<1> QED BY <1>6, <1>7, <1>8, <1>9, <1>10, <1>11 DEF SchedNext

\* No slot of the cache is written by two requests of one batch: of those that share a
\* block at most one is not past it.
THEOREM SlotsAreWrittenOnce == EngineSpec => []SlotsWrittenOnce
<1>1. SchedInit => SharersArePast
  BY DEF SchedInit, Init, SharersArePast
<1>2. SchedInv /\ SchedInv' /\ SharersArePast /\ [SchedNext]_svars => SharersArePast'
  BY NextSharers
<1>3. SchedInv /\ SharersArePast => SlotsWrittenOnce
  <2> SUFFICES ASSUME SchedInv, SharersArePast, NEW r \in Scheduled, NEW s \in Scheduled, r # s,
                      NEW b \in WrittenBlocks(r, num_computed_tokens[r],
                                              step.num_scheduled_tokens[r]),
                      b \in WrittenBlocks(s, num_computed_tokens[s],
                                          step.num_scheduled_tokens[s])
               PROVE  FALSE
    BY DEF SlotsWrittenOnce
  <2>1. r \in Requests /\ s \in Requests
    BY DEF Scheduled
  <2>2. PICK i \in DOMAIN req_to_blocks[r] :
          b = req_to_blocks[r][i] /\ num_computed_tokens[r] < i * BlockSize
    BY DEF WrittenBlocks
  <2>3. PICK j \in DOMAIN req_to_blocks[s] :
          b = req_to_blocks[s][j] /\ num_computed_tokens[s] < j * BlockSize
    BY DEF WrittenBlocks
  <2>4. \/ i * BlockSize <= num_computed_tokens[r]
        \/ j * BlockSize <= num_computed_tokens[s]
    BY <2>1, <2>2, <2>3 DEF SharersArePast
  <2>5. i \in Nat /\ j \in Nat
    <3>1. req_to_blocks[r] \in Seq(Blocks) /\ req_to_blocks[s] \in Seq(Blocks)
      BY <2>1 DEF SchedInv, SchedTypeOK, TypeOK
    <3> QED BY <3>1, LenProperties
  <2>6. /\ i * BlockSize \in Nat /\ j * BlockSize \in Nat
        /\ num_computed_tokens[r] \in Nat /\ num_computed_tokens[s] \in Nat
    BY <2>1, <2>5, SizesAssumption, Counters
  <2> QED BY <2>2, <2>3, <2>4, <2>6
<1>4. SchedSpec => []SlotsWrittenOnce
  BY <1>1, <1>2, <1>3, SchedulerInvariant, PTL DEF SchedSpec
<1> QED BY <1>4, EngineIsScheduler, PTL

------------------------------------------------------------------------------
(* The worker follows the scheduler.                                        *)

\* What was appended to a table is what is found behind its old end.
LEMMA AppendedIs ==
    ASSUME NEW T, NEW s \in Seq(T), NEW t \in Seq(T)
    PROVE  SubSeq(s \o t, Len(s) + 1, Len(s \o t)) = t
<1>1. PICK m \in Nat, k \in Nat : m = Len(s) /\ k = Len(t)
  BY LenProperties
<1>2. PICK u \in Seq(T) : u = s \o t
  BY ConcatProperties
<1>3. /\ Len(u) = m + k
      /\ \A i \in 1 .. m + k : u[i] = IF i <= m THEN s[i] ELSE t[i - m]
  BY <1>1, <1>2, ConcatProperties, LenProperties
<1>4. \A i \in m + 1 .. m + k : u[i] \in T
  BY <1>1, <1>3, ElementOfSeq
<1>5. m + 1 \in Int /\ m + k \in Int
  OBVIOUS
<1>6. PICK w \in Seq(T) : w = SubSeq(u, m + 1, m + k)
  BY <1>4, <1>5, SubSeqProperties
<1>7. /\ Len(w) = IF m + 1 <= m + k THEN m + k - (m + 1) + 1 ELSE 0
      /\ \A i \in 1 .. Len(w) : w[i] = u[m + 1 + i - 1]
  BY <1>4, <1>5, <1>6, SubSeqProperties
<1>8. Len(w) = k
  BY <1>7
<1>9. \A i \in 1 .. k : w[i] = t[i]
  BY <1>3, <1>7, <1>8
<1> QED BY <1>1, <1>2, <1>3, <1>6, <1>8, <1>9, SeqEqual

\* While nothing is decided: whoever stops running is told as finished.
LEMMA WorkerOutsideSchedule ==
    ASSUME SchedInv, WorkerInv, ~Deciding, ~Deciding',
           UNCHANGED <<worker_reqs, block_tables>>,
           Range(running') \subseteq Range(running),
           \A r \in Range(running') : req_to_blocks'[r] = req_to_blocks[r],
           NEW S \in SUBSET Requests, finished_req_ids' = finished_req_ids \cup S,
           S \cap Range(running') = {}, Range(running) \subseteq Range(running') \cup S
    PROVE  WorkerInv'
<1>1. ASSUME NEW r \in Range(running') PROVE Follows(r)'
  <2>1. Follows(r)
    BY <1>1 DEF WorkerInv
  <2>2. /\ r \in worker_reqs \ finished_req_ids
        /\ block_tables[r] \o <<>> = req_to_blocks[r]
    BY <2>1 DEF Follows, Untold
  <2>3. /\ r \in worker_reqs' \ finished_req_ids'
        /\ block_tables'[r] \o <<>> = req_to_blocks'[r]
    BY <1>1, <2>2
  <2>4. Untold(r)' = <<>>
    BY DEF Untold
  <2> QED BY <2>3, <2>4 DEF Follows
<1> QED BY <1>1 DEF WorkerInv

\* While schedule() decides: nobody moves and no blocks are given.
LEMMA WorkerWaits ==
    ASSUME SchedInv, WorkerInv, Deciding, Deciding',
           UNCHANGED <<worker_reqs, block_tables, running, req_to_blocks, finished_req_ids>>,
           step'.num_scheduled_tokens = step.num_scheduled_tokens,
           step'.new_blocks = step.new_blocks, step'.scheduled_new = step.scheduled_new,
           step'.preempted = step.preempted
    PROVE  WorkerInv'
<1>1. Scheduled' = Scheduled
  BY DEF Scheduled
<1>2. Range(running') = Range(running)
  BY DEF Range
<1>3. \A r \in Range(running) : Follows(r)'
  BY <1>1 DEF WorkerInv, Follows, Untold
<1> QED BY <1>2, <1>3 DEF WorkerInv

\* Any step that changes nothing of this.
LEMMA WorkerStays ==
    ASSUME WorkerInv, UNCHANGED <<worker_reqs, block_tables, running, req_to_blocks,
                                  finished_req_ids, pc, step>>
    PROVE  WorkerInv'
<1>1. Scheduled' = Scheduled /\ Deciding' = Deciding /\ Range(running') = Range(running)
  BY DEF Scheduled, Deciding, Range
<1>2. \A r \in Range(running) : Follows(r)'
  BY <1>1 DEF WorkerInv, Follows, Untold
<1> QED BY <1>1, <1>2 DEF WorkerInv

LEMMA StartScheduleWorker ==
    ASSUME SchedInv, WorkerInv, StartSchedule, UNCHANGED workerVars
    PROVE  WorkerInv'
<1>1. /\ pc = "idle" /\ pc' = "running"
      /\ step' = [NoStep EXCEPT !.token_budget = MaxNumBatchedTokens]
      /\ UNCHANGED <<running, req_to_blocks, finished_req_ids, worker_reqs, block_tables>>
  BY DEF StartSchedule, Goto, vars, kvVars, queueVars, workerVars
<1>2. ~Deciding /\ Deciding' /\ Range(running') = Range(running)
  BY <1>1 DEF Deciding, Range
<1>3. /\ step'.scheduled_new = {} /\ step'.preempted = {}
      /\ step'.new_blocks = [r \in Requests |-> <<>>]
  BY <1>1 DEF NoStep
<1>4. ASSUME NEW r \in Range(running) PROVE Follows(r)'
  <2>1. r \in Requests
    BY <1>4, RunningList
  <2>2. /\ r \in worker_reqs \ finished_req_ids
        /\ block_tables[r] \o <<>> = req_to_blocks[r]
    BY <1>2, <1>4 DEF WorkerInv, Follows, Untold
  <2>3. step'.new_blocks[r] = <<>>
    BY <1>3, <2>1
  <2>4. Untold(r)' = <<>>
    BY <2>3 DEF Untold
  <2> QED BY <1>1, <1>3, <2>2, <2>3, <2>4 DEF Follows
<1> QED BY <1>1, <1>2, <1>3, <1>4 DEF WorkerInv

LEMMA AllocateRunningWorker ==
    ASSUME SchedInv, SchedInv', WorkerInv, AllocateRunning, UNCHANGED workerVars
    PROVE  WorkerInv'
<1>1. PICK r \in Requests, n \in Nat \ {0}, added \in Seq(Blocks) :
        /\ pc = "allocate" /\ pc' = "running"
        /\ r \in Range(running) /\ r \notin Scheduled
        /\ num_computed_tokens[r] + n \in Nat
        /\ AllocateSlots(r, num_computed_tokens[r] + n, <<>>)
        /\ added = SubSeq(req_to_blocks'[r], Len(req_to_blocks[r]) + 1, Len(req_to_blocks'[r]))
        /\ step'.num_scheduled_tokens = [step.num_scheduled_tokens EXCEPT ![r] = n]
        /\ step'.new_blocks = [step.new_blocks EXCEPT ![r] = added]
        /\ step'.scheduled_new = step.scheduled_new
        /\ step'.preempted = step.preempted
        /\ UNCHANGED <<running, finished_req_ids>>
  BY RunningTakesBlocks DEF queueVars
<1>2. UNCHANGED <<worker_reqs, block_tables>> /\ Range(running') = Range(running)
  BY <1>1 DEF workerVars, Range
<1>3. Deciding /\ Deciding' /\ r \notin step.scheduled_new
  BY <1>1 DEF Deciding, SchedInv, BatchInv
<1>4. SlotsAdded(r, num_computed_tokens[r] + n, <<>>)
  <2>1. <<>> \in Seq(Blocks) /\ IsInjective(<<>>)
    BY EmptySeq DEF IsInjective
  <2> QED BY <1>1, <2>1, AllocateSlotsEffect DEF SchedInv
<1>5. PICK held \in Seq(Blocks), new \in Seq(Blocks) :
        /\ held = IF <<>> = <<>> THEN req_to_blocks[r] ELSE <<>>
        /\ IsInjective(new) /\ Range(new) \cap Range(<<>>) = {}
        /\ \A b \in Range(new) : b \in Blocks /\ Holders(b) = {}
        /\ req_to_blocks' = [req_to_blocks EXCEPT ![r] = held \o new]
  BY <1>4 DEF SlotsAdded
<1>6. /\ held = req_to_blocks[r] /\ req_to_blocks'[r] = held \o new
      /\ \A s \in Requests \ {r} : req_to_blocks'[s] = req_to_blocks[s]
  BY <1>5 DEF SchedInv, SchedTypeOK, TypeOK
<1>7. added = new
  BY <1>1, <1>6, AppendedIs
<1>8. /\ step'.new_blocks[r] = new
      /\ \A s \in Requests \ {r} :
           /\ step'.new_blocks[s] = step.new_blocks[s]
           /\ step'.num_scheduled_tokens[s] = step.num_scheduled_tokens[s]
  BY <1>1, <1>7, StepFields
<1>9. Follows(r)'
  <2>1. /\ r \in worker_reqs \ finished_req_ids
        /\ block_tables[r] \o step.new_blocks[r] = req_to_blocks[r]
        /\ step.new_blocks[r] = <<>>
    BY <1>1, <1>3 DEF WorkerInv, Follows, Untold
  <2>2. block_tables[r] = req_to_blocks[r]
    BY <2>1, ConcatEmptySeq DEF WorkerInv
  <2>3. block_tables'[r] \o Untold(r)' = req_to_blocks'[r]
    BY <1>2, <1>3, <1>6, <1>8, <2>2 DEF Untold
  <2>4. r \in Scheduled'
    <3>1. step'.num_scheduled_tokens[r] = n /\ n > 0
      BY <1>1, StepFields
    <3> QED BY <3>1 DEF Scheduled
  <2> QED BY <1>1, <1>2, <1>3, <2>1, <2>3, <2>4 DEF Follows
<1>10. ASSUME NEW s \in Range(running), s # r PROVE Follows(s)'
  <2>1. s \in Requests \ {r}
    BY <1>10, RunningList
  <2>2. s \in Scheduled' <=> s \in Scheduled
    BY <1>8, <2>1 DEF Scheduled
  <2>3. Follows(s)
    BY <1>10 DEF WorkerInv
  <2>4. Untold(s)' = Untold(s)
    BY <1>3, <1>8, <2>1 DEF Untold
  <2> QED BY <1>1, <1>2, <1>3, <1>6, <1>8, <2>1, <2>2, <2>3, <2>4 DEF Follows
<1> QED BY <1>1, <1>2, <1>3, <1>9, <1>10 DEF WorkerInv

LEMMA AdmitWaitingWorker ==
    ASSUME SchedInv, SchedInv', WorkerInv, AdmitWaiting, UNCHANGED workerVars
    PROVE  WorkerInv'
<1>1. PICK r \in Requests, hit \in Seq(Blocks), n \in Nat \ {0} :
        /\ pc = "waiting" /\ pc' = pc /\ r \notin Range(running)
        /\ AllocateSlots(r, Len(hit) * BlockSize + n, hit)
        /\ step'.num_scheduled_tokens = [step.num_scheduled_tokens EXCEPT ![r] = n]
        /\ step'.new_blocks = [step.new_blocks EXCEPT ![r] = req_to_blocks'[r]]
        /\ step'.scheduled_new = step.scheduled_new \cup {r}
        /\ step'.preempted = step.preempted
        /\ Range(running') = Range(running) \cup {r}
        /\ UNCHANGED finished_req_ids
  BY WaitingTakesBlocks
<1>2. UNCHANGED <<worker_reqs, block_tables>>
  BY DEF workerVars
<1>3. Deciding /\ Deciding'
  BY <1>1 DEF Deciding
<1>4. \A s \in Requests \ {r} : req_to_blocks'[s] = req_to_blocks[s]
  BY <1>1 DEF AllocateSlots, SchedInv, SchedTypeOK, TypeOK
<1>5. /\ step'.new_blocks[r] = req_to_blocks'[r]
      /\ \A s \in Requests \ {r} :
           /\ step'.new_blocks[s] = step.new_blocks[s]
           /\ step'.num_scheduled_tokens[s] = step.num_scheduled_tokens[s]
  BY <1>1, StepFields
<1>6. Follows(r)'
  BY <1>1, <1>3, <1>5 DEF Follows
<1>7. ASSUME NEW s \in Range(running) PROVE Follows(s)'
  <2>1. s \in Requests \ {r}
    BY <1>1, <1>7, RunningList
  <2>2. s \in Scheduled' <=> s \in Scheduled
    BY <1>5, <2>1 DEF Scheduled
  <2>3. Follows(s)
    BY <1>7 DEF WorkerInv
  <2>4. Untold(s)' = Untold(s)
    BY <1>3, <1>5, <2>1 DEF Untold
  <2> QED BY <1>1, <1>2, <1>3, <1>4, <1>5, <2>1, <2>2, <2>3, <2>4 DEF Follows
<1> QED BY <1>1, <1>2, <1>3, <1>6, <1>7 DEF WorkerInv

LEMMA PreemptWorker ==
    ASSUME SchedInv, SchedInv', WorkerInv, Preempt, UNCHANGED workerVars
    PROVE  WorkerInv'
<1>1. PICK v \in Requests, r \in Requests :
        /\ v = Victim /\ r = CurrentRequest
        /\ pc = "allocate" /\ pc' = (IF v = r THEN "finish" ELSE "allocate")
        /\ step'.preempted = step.preempted \cup {v}
        /\ step'.scheduled_new = {}
        /\ \A s \in Requests : step'.num_scheduled_tokens[s] =
                                 IF s = v THEN 0 ELSE step.num_scheduled_tokens[s]
  BY PreemptStep
<1>2. /\ running' = Without(running, v) /\ Free(v) /\ UNCHANGED finished_req_ids
      /\ step' = [Refund(v) EXCEPT !.preempted = @ \cup {v},
                                   !.request = IF v = r THEN <<>> ELSE @]
  BY <1>1 DEF Preempt
<1>3. UNCHANGED <<worker_reqs, block_tables>> /\ Range(running') = Range(running) \ {v}
  BY <1>2, RunningList, WithoutRange DEF workerVars
<1>4. Deciding /\ Deciding' /\ step.scheduled_new = {}
  BY <1>1 DEF Deciding, SchedInv, BatchInv
<1>5. \A s \in Requests \ {v} : req_to_blocks'[s] = req_to_blocks[s]
  BY <1>2 DEF Free, SchedInv, SchedTypeOK, TypeOK
<1>6. \A s \in Requests \ {v} : step'.new_blocks[s] = step.new_blocks[s]
  <2>1. Refund(v) = step \/ Refund(v).new_blocks = [step.new_blocks EXCEPT ![v] = <<>>]
    BY StepFields DEF Refund, StepType
  <2>2. step'.new_blocks = Refund(v).new_blocks
    BY <1>2, StepFields DEF Refund, StepType
  <2> QED BY <2>1, <2>2, StepFields
<1>7. ASSUME NEW s \in Range(running') PROVE Follows(s)'
  <2>1. s \in Range(running) /\ s \in Requests \ {v}
    BY <1>3, <1>7, RunningList
  <2>2. s \in Scheduled' <=> s \in Scheduled
    BY <1>1, <2>1 DEF Scheduled
  <2>3. Follows(s)
    BY <2>1 DEF WorkerInv
  <2>4. Untold(s)' = Untold(s)
    BY <1>4, <1>6, <2>1 DEF Untold
  <2> QED BY <1>1, <1>2, <1>3, <1>4, <1>5, <1>6, <2>1, <2>2, <2>3, <2>4 DEF Follows
<1>8. worker_reqs' \subseteq Range(running') \cup finished_req_ids' \cup step'.preempted
  BY <1>1, <1>2, <1>3, <1>4 DEF WorkerInv
<1> QED BY <1>3, <1>4, <1>7, <1>8 DEF WorkerInv

\* The worker is told: it drops, adds and patches, and then has what the scheduler has.
LEMMA LaunchWorker ==
    ASSUME SchedInv, SchedInv', SeatsKept, WorkerInv, Launch
    PROVE  WorkerInv'
<1>1. /\ pc = "finish" /\ pc' = "inflight" /\ finished_req_ids' = {}
      /\ UNCHANGED <<running, req_to_blocks>>
  BY DEF Launch, FinishSchedule, Goto, vars, kvVars
<1>2. Deciding /\ ~Deciding' /\ Range(running') = Range(running)
  BY <1>1 DEF Deciding, Range
<1>3. PICK new \in SUBSET Requests, cached \in SUBSET Requests, kept \in SUBSET Requests,
           added \in [Requests -> Seq(Blocks)] :
        /\ new = step.scheduled_new /\ cached = step.scheduled_running
        /\ kept = worker_reqs \ (finished_req_ids \cup step.preempted)
        /\ added = step.new_blocks
  BY StepFields DEF WorkerInv
<1>4. /\ Scheduled = cached \cup new /\ cached \cap new = {}
      /\ Scheduled \subseteq Range(running) /\ step.preempted \cap Range(running) = {}
  BY <1>2, <1>3 DEF SchedInv, BatchInv
<1>5. /\ worker_reqs' = kept \cup new
      /\ block_tables' = [r \in Requests |->
             CASE r \in new            -> added[r]
               [] r \in cached \cap kept -> block_tables[r] \o added[r]
               [] r \in kept \ (new \cup cached) -> block_tables[r]
               [] OTHER                -> <<>>]
  BY <1>3 DEF Launch, WorkerPlan, WorkerKeeps
<1>6. \A r \in Requests :
        /\ r \in new => block_tables'[r] = added[r]
        /\ r \in cached \cap kept => block_tables'[r] = block_tables[r] \o added[r]
        /\ r \in kept \ (new \cup cached) => block_tables'[r] = block_tables[r]
        /\ r \notin new \cup kept => block_tables'[r] = <<>>
  BY <1>4, <1>5
<1>7. block_tables \in [Requests -> Seq(Blocks)]
  BY DEF WorkerInv
<1>8. block_tables' \in [Requests -> Seq(Blocks)]
  <2>1. ASSUME NEW r \in Requests PROVE block_tables'[r] \in Seq(Blocks)
    <3>1. block_tables[r] \o added[r] \in Seq(Blocks)
      BY <1>7, ConcatProperties
    <3>2. <<>> \in Seq(Blocks)
      BY EmptySeq
    <3> QED BY <1>6, <1>7, <3>1, <3>2
  <2>2. block_tables' = [r \in Requests |-> block_tables'[r]]
    BY <1>5
  <2> QED BY <2>1, <2>2
<1>9. worker_reqs' \subseteq Range(running)
  BY <1>2, <1>3, <1>4, <1>5 DEF WorkerInv
<1>10. Cardinality(worker_reqs') <= MaxNumSeqs
  <2>1. IsFiniteSet(Range(running)) /\ Cardinality(Range(running)) = Len(running)
    BY RunningList, InjectiveLen
  <2>2. Cardinality(worker_reqs') <= Cardinality(Range(running))
    BY <1>9, <2>1, FS_Subset
  <2>3. IsFiniteSet(worker_reqs')
    BY <1>9, <2>1, FS_Subset
  <2>4. Cardinality(worker_reqs') \in Nat /\ Len(running) \in Nat
    BY <2>3, FS_CardinalityType, RunningList, LenProperties
  <2> QED BY <2>1, <2>2, <2>4, BudgetAssumption DEF SeatsKept
<1>11. ASSUME NEW r \in Range(running) PROVE Follows(r)'
  <2>1. r \in Requests /\ Follows(r)
    BY <1>11, RunningList DEF WorkerInv
  <2>2. r \in worker_reqs' /\ block_tables'[r] = req_to_blocks[r]
    <3>1. CASE r \in new
      BY <1>2, <1>3, <1>5, <1>6, <2>1, <3>1 DEF Follows
    <3>2. CASE r \notin new
      <4>1. r \in kept /\ block_tables[r] \o added[r] = req_to_blocks[r]
        BY <1>2, <1>3, <1>4, <1>11, <2>1, <3>2 DEF Follows, Untold
      <4>2. CASE r \in cached
        BY <1>5, <1>6, <2>1, <4>1, <4>2
      <4>3. CASE r \notin cached
        <5>1. added[r] = <<>>
          BY <1>2, <1>3, <1>4, <2>1, <3>2, <4>3 DEF Follows
        <5>2. block_tables[r] = req_to_blocks[r]
          BY <1>7, <2>1, <4>1, <5>1, ConcatEmptySeq
        <5> QED BY <1>5, <1>6, <2>1, <3>2, <4>1, <4>3, <5>2
      <4> QED BY <4>2, <4>3
    <3> QED BY <3>1, <3>2
  <2>3. block_tables'[r] \o <<>> = req_to_blocks'[r]
    BY <1>1, <1>8, <2>1, <2>2, ConcatEmptySeq
  <2>4. Untold(r)' = <<>>
    BY <1>2 DEF Untold
  <2> QED BY <1>1, <1>2, <2>2, <2>3, <2>4 DEF Follows
<1>12. worker_reqs' \subseteq Requests
  BY <1>9, RunningList
<1> QED BY <1>2, <1>8, <1>9, <1>10, <1>11, <1>12 DEF WorkerInv

\* A request that goes is told to the worker, unless it never ran.
LEMMA DropWorker ==
    ASSUME SchedInv, SchedInv', WorkerInv, NEW r \in Requests, Free(r), DropRequests({r}),
           pc \in {"idle", "inflight", "update"},
           Range(running') = Range(running) \ {r}, UNCHANGED <<workerVars, pc>>
    PROVE  WorkerInv'
<1>1. ~Deciding /\ ~Deciding' /\ UNCHANGED <<worker_reqs, block_tables>>
  BY DEF Deciding, workerVars
<1>2. finished_req_ids' = finished_req_ids \cup {r} /\ {r} \in SUBSET Requests
  BY DEF DropRequests
<1>3. \A s \in Range(running') : req_to_blocks'[s] = req_to_blocks[s]
  <2>1. Range(running) \subseteq Requests
    BY RunningList
  <2> QED BY <2>1 DEF Free, SchedInv, SchedTypeOK, TypeOK
<1>4. {r} \cap Range(running') = {} /\ Range(running) \subseteq Range(running') \cup {r}
  OBVIOUS
<1> QED BY <1>1, <1>2, <1>3, <1>4, WorkerOutsideSchedule

LEMMA NextWorker ==
    ASSUME SchedInv, SchedInv', SeatsKept, WorkerInv, [EngineNext]_evars
    PROVE  WorkerInv'
<1>1. CASE UNCHANGED evars
  BY <1>1, WorkerStays DEF evars, svars, schedVars, queueVars, workerVars, vars, kvVars
<1>2. CASE EngineAllocateRunning
  BY <1>2, AllocateRunningWorker DEF EngineAllocateRunning
<1>3. CASE EngineAdmitWaiting
  BY <1>3, AdmitWaitingWorker DEF EngineAdmitWaiting
<1>4. CASE Launch
  BY <1>4, LaunchWorker
\* Outside schedule(), the running list is what it was.
<1>5. ASSUME ~Deciding, ~Deciding', UNCHANGED <<running, req_to_blocks, worker_reqs, block_tables>>,
             NEW S \in SUBSET Requests, S \cap Range(running) = {},
             finished_req_ids' = finished_req_ids \cup S
      PROVE  WorkerInv'
  <2>1. Range(running') = Range(running)
    BY <1>5 DEF Range
  <2> QED BY <1>5, <2>1, WorkerOutsideSchedule
<1>6. ASSUME NEW r \in Requests, NEW sampled \in SampledTokens(r),
             NEW drafts \in 0 .. NumSpecTokens, EngineUpdateContinues(r, sampled, drafts)
      PROVE  WorkerInv'
  <2>1. /\ pc = "update" /\ pc' = pc
        /\ UNCHANGED <<running, req_to_blocks, worker_reqs, block_tables, finished_req_ids>>
    BY <1>6 DEF EngineUpdateContinues, UpdateContinues, Sampled, Updating, kvVars, queueVars,
       workerVars
  <2>2. ~Deciding /\ ~Deciding'
    BY <2>1 DEF Deciding
  <2>3. {} \in SUBSET Requests /\ finished_req_ids' = finished_req_ids \cup {}
    BY <2>1
  <2> QED BY <1>5, <2>1, <2>2, <2>3
<1>7. CASE OtherScheduleStep /\ UNCHANGED workerVars
  <2>1. CASE StartSchedule
    BY <1>7, <2>1, StartScheduleWorker
  <2>2. CASE Preempt
    BY <1>7, <2>2, PreemptWorker
  <2>3. CASE ConsiderRunning \/ SkipRunning \/ EndRunning \/ SkipLora \/ SkipGrammar
             \/ PromoteGrammar \/ EndAdmission
    <3>1. UNCHANGED <<worker_reqs, block_tables, running, req_to_blocks, finished_req_ids>>
      BY <1>7, <2>3 DEF ConsiderRunning, SkipRunning, EndRunning, SkipLora, SkipGrammar,
         PromoteGrammar, EndAdmission, SetAside, workerVars, queueVars, vars, kvVars
    <3>2. Deciding /\ Deciding'
      BY <2>3 DEF ConsiderRunning, SkipRunning, InRunningLoop, EndRunning, SkipLora, SkipGrammar,
         PromoteGrammar, EndAdmission, SetAside, InWaitingLoop, Goto, Deciding
    <3>3. /\ step'.num_scheduled_tokens = step.num_scheduled_tokens
          /\ step'.new_blocks = step.new_blocks
          /\ step'.scheduled_new = step.scheduled_new /\ step'.preempted = step.preempted
      <4>1. CASE ConsiderRunning
        <5>1. PICK request, num : step' = [step EXCEPT !.request = request, !.num_new_tokens = num]
          BY <4>1 DEF ConsiderRunning
        <5> QED BY <5>1, StepFields DEF StepType
      <4>2. CASE SkipRunning
        <5>1. step' = [step EXCEPT !.req_index = @ + 1]
          BY <4>2 DEF SkipRunning
        <5> QED BY <5>1, StepFields DEF StepType
      <4>3. CASE step' = step
        BY <4>3
      <4> QED BY <2>3, <4>1, <4>2, <4>3 DEF EndRunning, SkipLora, SkipGrammar, PromoteGrammar,
                 EndAdmission, SetAside
    <3> QED BY <3>1, <3>2, <3>3, WorkerWaits
  <2> QED BY <1>7, <2>1, <2>2, <2>3 DEF OtherScheduleStep
<1>8. CASE OtherUpdateStep /\ UNCHANGED workerVars
  <2>1. {} \in SUBSET Requests /\ UNCHANGED <<worker_reqs, block_tables>>
    BY <1>8 DEF workerVars
  <2>2. ASSUME pc \in {"inflight", "update"}, pc' \in {"update", "idle"},
               UNCHANGED <<running, req_to_blocks, finished_req_ids>>
        PROVE  WorkerInv'
    <3>1. ~Deciding /\ ~Deciding' /\ finished_req_ids' = finished_req_ids \cup {}
      BY <2>2 DEF Deciding
    <3> QED BY <1>5, <2>1, <2>2, <3>1
  <2>3. CASE BeginUpdate
    BY <2>2, <2>3 DEF BeginUpdate, Goto, vars, kvVars, queueVars
  <2>4. ASSUME NEW r \in Requests, UpdateSkipped(r) \/ UpdateChunk(r) PROVE WorkerInv'
    BY <2>2, <2>4 DEF UpdateSkipped, UpdateChunk, Updating, vars, kvVars, queueVars
  <2>5. ASSUME NEW r \in Requests, Updating(r), Leave(r) PROVE WorkerInv'
    <3>1. Range(running') = Range(running) \ {r} /\ pc = "update" /\ pc' = pc
      BY <2>5, RunningList, WithoutRange DEF Leave, Updating
    <3> QED BY <1>8, <2>5, <3>1, DropWorker DEF Leave
  <2>6. CASE EndUpdate
    <3>1. PICK failed \in SUBSET Requests :
            /\ failed = grammar_compile_error_reqs \cap Range(requests)
            /\ finished_req_ids' = finished_req_ids \cup failed
      BY <2>6, Queues DEF EndUpdate, DropRequests
    <3>2. failed \cap Range(running) = {}
      BY <3>1 DEF SchedInv, ErrorsInv
    <3>3. /\ pc = "update" /\ pc' = "idle" /\ UNCHANGED <<running, req_to_blocks>>
      BY <2>6 DEF EndUpdate, Goto, kvVars
    <3>4. ~Deciding /\ ~Deciding'
      BY <3>3 DEF Deciding
    <3> QED BY <1>5, <2>1, <3>1, <3>2, <3>3, <3>4
  <2> QED BY <1>8, <2>3, <2>4, <2>5, <2>6
          DEF OtherUpdateStep, UpdatePooled, UpdateStops, Sampled
<1>9. ASSUME NEW r \in Structured, EngineCompile(r) PROVE WorkerInv'
  BY <1>9, WorkerStays DEF EngineCompile, CompileGrammar, queueVars, workerVars, vars, kvVars
<1>10. CASE ClientStep /\ UNCHANGED workerVars
  <2>1. ASSUME NEW r \in Requests, Abort(r) PROVE WorkerInv'
    <3>1. pc \in {"idle", "inflight", "update"} /\ pc' = pc
      BY <2>1 DEF Abort, ClientsMayCall
    <3>2. Range(running') = Range(running) \ {r}
      <4>1. CASE status[r] = "RUNNING"
        <5>1. running' = Without(running, r)
          BY <2>1, <4>1 DEF Abort, RemoveFromQueue
        <5> QED BY <5>1, RunningList, WithoutRange
      <4>2. CASE status[r] # "RUNNING"
        <5>1. running' = running
          BY <2>1, <4>2 DEF Abort, RemoveFromQueue
        <5>2. r \notin Range(running)
          BY <4>2 DEF SchedInv, QueueInv
        <5> QED BY <5>1, <5>2
      <4> QED BY <4>1, <4>2
    <3> QED BY <1>10, <2>1, <3>1, <3>2, DropWorker DEF Abort
  <2>2. ASSUME NEW r \in Requests, NEW prompt \in Prompts, Add(r, prompt) PROVE WorkerInv'
    BY <1>10, <2>2, WorkerStays DEF Add, kvVars, workerVars
  <2>3. CASE ResetCache
    BY <1>10, <2>3, WorkerStays DEF ResetCache, ResetPrefixCache, schedVars, queueVars, workerVars
  <2> QED BY <1>10, <2>1, <2>2, <2>3 DEF ClientStep
<1> QED BY <1>1, <1>2, <1>3, <1>4, <1>6, <1>7, <1>8, <1>9, <1>10 DEF EngineNext, EngineStep

\* At every launch the worker, which only ever sees differences, has the running requests
\* and no others, with the tables the scheduler holds, in no more slots than there are:
\* through preemption, resumption under the same id and aborts in flight.
THEOREM WorkerAlwaysAgrees == EngineSpec => []WorkerAgrees
<1>1. EngineInit => SchedInv /\ SeatsKept /\ WorkerInv
  <2> SUFFICES ASSUME EngineInit PROVE SchedInv /\ SeatsKept /\ WorkerInv
    OBVIOUS
  <2>1. SchedInit
    BY DEF EngineInit
  <2>2. Len(running) = 0 /\ Range(running) = {} /\ ~Deciding
    BY <2>1, EmptySeq DEF SchedInit, Deciding, Range
  <2>3. ScheduledLoras = {}
    BY <2>2 DEF ScheduledLoras
  <2>4. Cardinality({}) = 0
    BY FS_EmptySet
  <2>5. SeatsKept
    BY <2>2, <2>3, <2>4, BudgetAssumption DEF SeatsKept
  <2>6. block_tables \in [Requests -> Seq(Blocks)]
    BY EmptySeq DEF EngineInit
  <2>7. WorkerInv
    BY <2>2, <2>4, <2>6, BudgetAssumption DEF EngineInit, WorkerInv
  <2> QED BY <2>1, <2>5, <2>7, InitSched
<1>2. SchedInv /\ SeatsKept /\ WorkerInv /\ [EngineNext]_evars
        => SchedInv' /\ SeatsKept' /\ WorkerInv'
  BY EngineSteps, NextSched, NextSeats, NextWorker
<1>3. SchedInv /\ WorkerInv => WorkerAgrees
  <2> SUFFICES ASSUME SchedInv, WorkerInv PROVE WorkerAgrees
    OBVIOUS
  <2>1. ASSUME pc = "inflight", NEW r \in Range(running)
        PROVE  r \in worker_reqs /\ block_tables[r] = req_to_blocks[r]
    <3>1. ~Deciding
      BY <2>1 DEF Deciding
    <3>2. r \in worker_reqs /\ block_tables[r] \o <<>> = req_to_blocks[r]
      BY <2>1, <3>1 DEF WorkerInv, Follows, Untold
    <3>3. block_tables[r] \in Seq(Blocks)
      BY <2>1, RunningList DEF WorkerInv
    <3> QED BY <3>2, <3>3, ConcatEmptySeq
  <2>2. worker_reqs \subseteq Range(running) \cup step.preempted \cup finished_req_ids
    BY DEF WorkerInv
  <2> QED BY <2>1, <2>2 DEF WorkerAgrees, WorkerInv
<1> QED BY <1>1, <1>2, <1>3, PTL DEF EngineSpec

------------------------------------------------------------------------------
(* What the cache offers is computed.                                       *)

\* A block that is backed stays so while the batch grows and nothing else is written.
LEMMA BackedStays ==
    ASSUME UNCHANGED kv_written,
           Deciding => /\ Deciding'
                       /\ \A r \in Scheduled :
                            /\ r \in Scheduled' /\ req_to_blocks'[r] = req_to_blocks[r]
                            /\ num_computed_tokens'[r] = num_computed_tokens[r]
                            /\ step'.num_scheduled_tokens[r] = step.num_scheduled_tokens[r],
           NEW c, Backed(c)
    PROVE  Backed(c)'
<1>1. CASE c \in kv_written
  BY <1>1 DEF Backed
<1>2. CASE Deciding /\ Coming(c)
  <2>1. PICK r \in Scheduled : \E i \in DOMAIN req_to_blocks[r] :
          /\ req_to_blocks[r][i] = c
          /\ num_computed_tokens[r] < i * BlockSize
          /\ i * BlockSize <= num_computed_tokens[r] + step.num_scheduled_tokens[r]
    BY <1>2 DEF Coming
  <2>2. /\ r \in Scheduled' /\ req_to_blocks'[r] = req_to_blocks[r]
        /\ num_computed_tokens'[r] = num_computed_tokens[r]
        /\ step'.num_scheduled_tokens[r] = step.num_scheduled_tokens[r]
    BY <1>2, <2>1
  <2>3. Coming(c)'
    BY <2>1, <2>2 DEF Coming
  <2> QED BY <1>2, <2>3 DEF Backed
<1> QED BY <1>1, <1>2 DEF Backed

\* The places of a table.
LEMMA TableEntries ==
    ASSUME SchedInv, NEW r \in Requests, NEW i \in DOMAIN req_to_blocks[r]
    PROVE  /\ i \in Nat \ {0} /\ i * BlockSize \in Nat
           /\ req_to_blocks[r][i] \in Blocks
           /\ req_to_blocks[r][i] \in Range(req_to_blocks[r])
           /\ r \in Holders(req_to_blocks[r][i])
<1>1. req_to_blocks[r] \in Seq(Blocks)
  BY DEF SchedInv, SchedTypeOK, TypeOK
<1>2. i \in Nat \ {0} /\ req_to_blocks[r][i] \in Blocks
  BY <1>1, LenProperties, ElementOfSeq
<1>3. req_to_blocks[r][i] \in Range(req_to_blocks[r])
  BY DEF Range
<1> QED BY <1>2, <1>3, SizesAssumption DEF Holders

LEMMA BlocksBehind ==
    ASSUME NEW m \in Nat, NEW i \in Nat, i > m
    PROVE  m * BlockSize < i * BlockSize
BY SizesAssumption

\* Nothing new is published or counted as computed.
LEMMA ComputedStays ==
    ASSUME SchedInv, SchedInv', ComputedInv,
           \A c \in Blocks : Backed(c) => Backed(c)',
           \A c \in Blocks : block_hash'[c] # NoHash => block_hash[c] # NoHash,
           \A r \in Range(running') : /\ r \in Range(running)
                                      /\ req_to_blocks'[r] = req_to_blocks[r]
                                      /\ num_computed_tokens'[r] <= num_computed_tokens[r]
    PROVE  ComputedInv'
<1>1. ASSUME NEW c \in Blocks, block_hash'[c] # NoHash PROVE Backed(c)'
  BY <1>1 DEF ComputedInv
<1>2. ASSUME NEW c \in Blocks, NEW r \in Range(running'), NEW i \in DOMAIN req_to_blocks'[r],
             req_to_blocks'[r][i] = c, i * BlockSize <= num_computed_tokens'[r]
      PROVE  Backed(c)'
  <2>1. /\ r \in Range(running) /\ r \in Requests
        /\ req_to_blocks'[r] = req_to_blocks[r]
        /\ num_computed_tokens'[r] <= num_computed_tokens[r]
    BY <1>2, RunningList
  <2>2. i * BlockSize \in Nat
    BY <1>2, <2>1, TableEntries
  <2>3. num_computed_tokens'[r] \in Nat /\ num_computed_tokens[r] \in Nat
    BY <2>1 DEF SchedInv, SchedTypeOK
  <2>4. i * BlockSize <= num_computed_tokens[r]
    BY <1>2, <2>1, <2>2, <2>3
  <2>5. Backed(c)
    BY <1>2, <2>1, <2>4 DEF ComputedInv, Counted
  <2> QED BY <2>5
<1> QED BY <1>1, <1>2 DEF ComputedInv, Counted

\* A request is given blocks: those it publishes are the ones the batch completes, and
\* those it finds published are backed already.
LEMMA TakingComputes ==
    ASSUME SchedInv, SchedInv', ComputedInv, Deciding, Deciding',
           NEW r \in Requests, NEW hit \in Seq(Blocks), NEW from \in Nat, NEW n \in Nat \ {0},
           NEW held, held = IF hit = <<>> THEN req_to_blocks[r] ELSE hit,
           r \notin Scheduled, IsInjective(hit),
           \A i \in DOMAIN hit : block_hash[hit[i]] # NoHash,
           hit # <<>> => req_to_blocks[r] = <<>>,
           req_to_blocks[r] # <<>> => r \in Range(running) /\ from = num_computed_tokens[r],
           \A i \in Nat : i > Len(held) => from < i * BlockSize,
           AllocateSlots(r, from + n, hit),
           \A s \in Requests : num_computed_tokens'[s] =
                                 IF s = r THEN from ELSE num_computed_tokens[s],
           step'.num_scheduled_tokens = [step.num_scheduled_tokens EXCEPT ![r] = n],
           Range(running') \subseteq Range(running) \cup {r},
           kv_written' = kv_written \ Range(SubSeq(req_to_blocks'[r], Len(held) + 1,
                                                   Len(req_to_blocks'[r])))
    PROVE  ComputedInv'
<1>1. from + n \in Nat /\ PoolInv
  BY DEF SchedInv
<1>2. PICK old \in Seq(Blocks), new \in Seq(Blocks), num_full \in Int :
        /\ SlotsTaken(r, hit, old, new, num_full)
        /\ \A i \in Nat : i <= num_full => i * BlockSize <= from + n
  BY <1>1, AllocateSlotsTakes
<1>3. /\ old = held /\ IsInjective(old \o new) /\ Range(old) \cap Range(new) = {}
      /\ req_to_blocks' = [req_to_blocks EXCEPT ![r] = old \o new]
      /\ \A b \in Range(new) : ref_cnt[b] = 0
      /\ \A i \in DOMAIN (old \o new) :
           block_hash'[(old \o new)[i]] # NoHash <=>
               \/ i <= num_full
               \/ i <= Len(old) /\ block_hash[old[i]] # NoHash
      /\ \A b \in Blocks \ Range(new) :
           block_hash[b] # NoHash \/ b \notin Range(old) => block_hash'[b] = block_hash[b]
  BY <1>2 DEF SlotsTaken
<1>4. PICK table \in Seq(Blocks) : table = old \o new
  BY ConcatProperties
<1>5. PICK m \in Nat : m = Len(old) /\ DOMAIN old = 1 .. m
  BY LenProperties
<1>6. PICK k \in Nat : k = Len(new) /\ DOMAIN new = 1 .. k
  BY LenProperties
<1>7. /\ Len(table) = m + k /\ DOMAIN table = 1 .. m + k
       /\ \A i \in 1 .. m + k : table[i] = IF i <= m THEN old[i] ELSE new[i - m]
  BY <1>4, <1>5, <1>6, ConcatProperties, LenProperties
<1>8. \A i \in 1 .. m + k :
          block_hash'[table[i]] # NoHash =>
              \/ i <= num_full
              \/ i <= m /\ block_hash[old[i]] # NoHash
  BY <1>3, <1>4, <1>5, <1>7
<1>9. /\ req_to_blocks'[r] = table
      /\ \A s \in Requests \ {r} : req_to_blocks'[s] = req_to_blocks[s]
  BY <1>3, <1>4 DEF SchedInv, SchedTypeOK, TypeOK
<1>10. kv_written' = kv_written \ Range(new)
  <2>1. SubSeq(old \o new, Len(old) + 1, Len(old \o new)) = new
    BY AppendedIs
  <2>2. req_to_blocks'[r] = old \o new /\ old = held
    BY <1>3, <1>4, <1>9
  <2>3. SubSeq(req_to_blocks'[r], Len(held) + 1, Len(req_to_blocks'[r])) = new
    BY <2>1, <2>2
  <2> QED BY <2>3
<1>11. \A b \in Blocks \cap Range(new) : Holders(b) = {}
  BY <1>1, <1>3, UnreferencedIsUnused
<1>12. /\ \A s \in Requests : step'.num_scheduled_tokens[s] =
                               IF s = r THEN n ELSE step.num_scheduled_tokens[s]
      /\ r \in Scheduled'
      /\ \A s \in Scheduled : s # r /\ s \in Requests /\ s \in Scheduled'
  <2>1. \A s \in Requests : step'.num_scheduled_tokens[s] =
                              IF s = r THEN n ELSE step.num_scheduled_tokens[s]
    BY StepFields
  <2> QED BY <2>1 DEF Scheduled
\* What nobody loses stays backed.
<1>13. ASSUME NEW c \in Blocks, c \notin Range(new), Backed(c) PROVE Backed(c)'
  <2>1. CASE c \in kv_written
    BY <1>10, <1>13, <2>1 DEF Backed
  <2>2. CASE Coming(c)
    <3>1. PICK s \in Scheduled : \E i \in DOMAIN req_to_blocks[s] :
            /\ req_to_blocks[s][i] = c
            /\ num_computed_tokens[s] < i * BlockSize
            /\ i * BlockSize <= num_computed_tokens[s] + step.num_scheduled_tokens[s]
      BY <2>2 DEF Coming
    <3>2. /\ s \in Scheduled' /\ req_to_blocks'[s] = req_to_blocks[s]
          /\ num_computed_tokens'[s] = num_computed_tokens[s]
          /\ step'.num_scheduled_tokens[s] = step.num_scheduled_tokens[s]
      BY <1>9, <1>12, <3>1
    <3>3. Coming(c)'
      BY <3>1, <3>2 DEF Coming
    <3> QED BY <3>3 DEF Backed
  <2> QED BY <1>13, <2>1, <2>2 DEF Backed
\* The batch completes the places between the two counts.
<1>14. ASSUME NEW i \in 1 .. m + k, from < i * BlockSize, i * BlockSize <= from + n
       PROVE  Backed(table[i])'
  <2>1. /\ r \in Scheduled' /\ i \in DOMAIN req_to_blocks'[r] /\ req_to_blocks'[r][i] = table[i]
        /\ num_computed_tokens'[r] = from /\ step'.num_scheduled_tokens[r] = n
    BY <1>9, <1>12, <1>7
  <2>2. Coming(table[i])'
    BY <1>14, <2>1 DEF Coming
  <2> QED BY <2>2 DEF Backed
<1>15. \A i \in 1 .. m + k : i \in Nat \ {0} /\ i * BlockSize \in Nat
  BY SizesAssumption
\* A place behind the count was there, and was backed.
<1>16. ASSUME NEW i \in 1 .. m + k, i * BlockSize <= from
       PROVE  Backed(table[i])'
  <2>1. i <= m
    <3>1. SUFFICES ASSUME i > m PROVE FALSE
      BY <1>15
    <3>2. i > Len(held) /\ i \in Nat
      BY <1>3, <1>5, <1>15, <3>1
    <3>3. from < i * BlockSize
      BY <3>2
    <3> QED BY <1>15, <1>16, <3>3
  <2>2. PICK c \in Blocks : c = table[i] /\ c = old[i] /\ c \in Range(old) /\ c \notin Range(new)
    <3>1. table[i] = old[i] /\ i \in DOMAIN old /\ i \in DOMAIN table
      BY <1>15, <1>5, <1>7, <2>1
    <3>2. old[i] \in Range(old)
      BY <3>1 DEF Range
    <3> QED BY <1>3, <3>1, <3>2, ElementOfSeq
  <2>3. CASE hit = <<>>
    <3>1. old = req_to_blocks[r] /\ i \in DOMAIN req_to_blocks[r]
      BY <1>3, <1>15, <1>5, <2>1, <2>3
    <3>2. r \in Range(running) /\ from = num_computed_tokens[r]
      <4>1. DOMAIN <<>> = {}
        OBVIOUS
      <4> QED BY <3>1, <4>1
    <3>3. Backed(c)
      BY <1>16, <2>2, <3>1, <3>2 DEF ComputedInv, Counted
    <3> QED BY <1>13, <2>2, <3>3
  <2>4. CASE hit # <<>>
    <3>1. old = hit /\ i \in DOMAIN hit
      BY <1>3, <1>15, <1>5, <2>1, <2>4
    <3>2. block_hash[c] # NoHash
      BY <2>2, <3>1
    <3>3. Backed(c)
      BY <3>2 DEF ComputedInv
    <3> QED BY <1>13, <2>2, <3>3
  <2> QED BY <2>3, <2>4
<1>17. ASSUME NEW c \in Blocks, block_hash'[c] # NoHash PROVE Backed(c)'
  <2>1. ASSUME NEW i \in 1 .. m + k, c = table[i], i <= num_full PROVE Backed(c)'
    <3>1. i * BlockSize <= from + n /\ i * BlockSize \in Nat
      BY <1>2, <1>15, <2>1
    <3> QED BY <1>14, <1>16, <2>1, <3>1
  <2>2. CASE c \in Range(new)
    <3>1. PICK j \in 1 .. k : c = new[j]
      BY <1>6, <2>2 DEF Range
    <3>2. PICK i \in 1 .. m + k : i = m + j
      OBVIOUS
    <3>3. ~(i <= m) /\ i - m = j
      BY <3>2
    <3>4. c = table[i]
      BY <1>7, <3>1, <3>3
    <3>5. i <= num_full
      BY <1>17, <1>8, <3>3, <3>4
    <3> QED BY <2>1, <3>4, <3>5
  <2>3. CASE c \notin Range(new) /\ block_hash[c] # NoHash
    <3>1. Backed(c)
      BY <2>3 DEF ComputedInv
    <3> QED BY <1>13, <2>3, <3>1
  <2>4. CASE c \notin Range(new) /\ block_hash[c] = NoHash
    <3>1. c \in Range(old)
      BY <1>3, <1>17, <2>4
    <3>2. PICK i \in 1 .. m : c = old[i]
      BY <1>5, <3>1 DEF Range
    <3>3. i \in 1 .. m + k /\ i <= m /\ c = table[i]
      BY <1>7, <3>2
    <3>4. i <= num_full
      BY <1>17, <1>8, <2>4, <3>2, <3>3
    <3> QED BY <2>1, <3>3, <3>4
  <2> QED BY <2>2, <2>3, <2>4
<1>18. ASSUME NEW c \in Blocks, NEW s \in Range(running'), NEW i \in DOMAIN req_to_blocks'[s],
              req_to_blocks'[s][i] = c, i * BlockSize <= num_computed_tokens'[s]
       PROVE  Backed(c)'
  <2>1. s \in Requests
    BY <1>18, RunningList
  <2>2. CASE s = r
    <3>1. i \in 1 .. m + k /\ i * BlockSize <= from /\ c = table[i]
      BY <1>9, <1>18, <1>7, <2>1, <2>2
    <3> QED BY <1>16, <3>1
  <2>3. CASE s # r
    <3>1. /\ s \in Range(running) /\ req_to_blocks'[s] = req_to_blocks[s]
          /\ num_computed_tokens'[s] = num_computed_tokens[s]
      BY <1>9, <1>18, <2>1, <2>3
    <3>2. s \in Holders(c)
      BY <1>18, <2>1, <3>1, TableEntries
    <3>3. c \notin Range(new)
      BY <1>11, <3>2
    <3>4. Backed(c)
      BY <1>18, <3>1 DEF ComputedInv, Counted
    <3> QED BY <1>13, <3>3, <3>4
  <2> QED BY <2>2, <2>3
<1> QED BY <1>17, <1>18 DEF ComputedInv, Counted

LEMMA AllocateRunningComputes ==
    ASSUME SchedInv, SchedInv', SlotsInv, ComputedInv, EngineAllocateRunning
    PROVE  ComputedInv'
<1>1. PICK r \in Requests, n \in Nat \ {0}, added \in Seq(Blocks) :
        /\ pc = "allocate" /\ pc' = "running"
        /\ r = CurrentRequest /\ r \in Range(running) /\ r \notin Scheduled
        /\ num_computed_tokens[r] + n \in Nat /\ num_computed_tokens[r] + n <= MaxModelLen
        /\ AllocateSlots(r, num_computed_tokens[r] + n, <<>>)
        /\ added = SubSeq(req_to_blocks'[r], Len(req_to_blocks[r]) + 1,
                          Len(req_to_blocks'[r]))
        /\ step'.num_scheduled_tokens = [step.num_scheduled_tokens EXCEPT ![r] = n]
        /\ step'.new_blocks = [step.new_blocks EXCEPT ![r] = added]
        /\ UNCHANGED <<num_computed_tokens, running>>
  BY RunningTakesBlocks DEF EngineAllocateRunning, queueVars
<1>2. kv_written' = kv_written \ Range(added)
  <2>1. step'.new_blocks[r] = added
    BY <1>1, StepFields
  <2> QED BY <1>1, <2>1 DEF EngineAllocateRunning, Reuse
<1>3. PICK from \in Nat, m \in Nat :
        from = num_computed_tokens[r] /\ m = Len(req_to_blocks[r])
  BY Counters, SlotTypes
<1>4. from <= m * BlockSize
  <2>1. Reach(r) = from
    BY <1>1, <1>3, Counters DEF Reach, Deciding
  <2>2. Least(from, MaxModelLen) <= m * BlockSize
    BY <1>1, <1>3, <2>1 DEF SlotsInv
  <2>3. Least(from, MaxModelLen) = from
    BY <1>1, <1>3, SizesAssumption DEF Least
  <2> QED BY <2>2, <2>3
<1>5. \A i \in Nat : i > m => from < i * BlockSize
  <2> SUFFICES ASSUME NEW i \in Nat, i > m PROVE from < i * BlockSize
    OBVIOUS
  <2>1. m * BlockSize < i * BlockSize
    BY BlocksBehind
  <2>2. m * BlockSize \in Nat /\ i * BlockSize \in Nat
    BY SizesAssumption
  <2> QED BY <1>4, <2>1, <2>2
<1>6. <<>> \in Seq(Blocks) /\ IsInjective(<<>>) /\ DOMAIN <<>> = {}
  BY EmptySeq DEF IsInjective
<1>7. \A s \in Requests : num_computed_tokens'[s] = IF s = r THEN from ELSE num_computed_tokens[s]
  BY <1>1, <1>3
<1>8. Deciding /\ Deciding' /\ Range(running') \subseteq Range(running) \cup {r}
  BY <1>1 DEF Deciding, Range
<1> QED BY <1>1, <1>2, <1>3, <1>5, <1>6, <1>7, <1>8, TakingComputes

LEMMA AdmitWaitingComputes ==
    ASSUME SchedInv, SchedInv', ComputedInv, EngineAdmitWaiting
    PROVE  ComputedInv'
<1>1. PICK r \in Requests, hit \in Seq(Blocks), n \in Nat \ {0} :
        /\ pc = "waiting" /\ pc' = pc
        /\ r = NextWaiting /\ r \notin Scheduled /\ req_to_blocks[r] = <<>>
        /\ IsInjective(hit) /\ \A i \in DOMAIN hit : block_hash[hit[i]] # NoHash
        /\ Len(hit) * BlockSize \in Nat
        /\ AllocateSlots(r, Len(hit) * BlockSize + n, hit)
        /\ num_computed_tokens' = [num_computed_tokens EXCEPT ![r] = Len(hit) * BlockSize]
        /\ step'.num_scheduled_tokens = [step.num_scheduled_tokens EXCEPT ![r] = n]
        /\ Range(running') = Range(running) \cup {r}
  BY WaitingTakesBlocks DEF EngineAdmitWaiting
<1>2. PICK m \in Nat, from \in Nat : m = Len(hit) /\ from = m * BlockSize
  BY LenProperties, SizesAssumption
<1>3. \A s \in Requests : num_computed_tokens'[s] = IF s = r THEN from ELSE num_computed_tokens[s]
  BY <1>1, <1>2 DEF SchedInv, SchedTypeOK
<1>4. from \div BlockSize = m
  BY <1>2, SizesAssumption
<1>5. kv_written' = kv_written \ Range(SubSeq(req_to_blocks'[r], m + 1, Len(req_to_blocks'[r])))
  <2>1. num_computed_tokens'[r] \div BlockSize = m
    BY <1>3, <1>4
  <2> QED BY <1>1, <2>1 DEF EngineAdmitWaiting, Reuse
<1>6. \A i \in Nat : i > m => from < i * BlockSize
  BY <1>2, BlocksBehind
<1>7. PICK held \in Seq(Blocks) :
        held = (IF hit = <<>> THEN req_to_blocks[r] ELSE hit) /\ held = hit
  BY <1>1
<1>8. /\ \A i \in Nat : i > Len(held) => from < i * BlockSize
      /\ kv_written' = kv_written \ Range(SubSeq(req_to_blocks'[r], Len(held) + 1,
                                                Len(req_to_blocks'[r])))
      /\ AllocateSlots(r, from + n, hit)
  BY <1>1, <1>2, <1>5, <1>6, <1>7
<1>9. Deciding /\ Deciding' /\ Range(running') \subseteq Range(running) \cup {r}
  BY <1>1 DEF Deciding
<1>10. /\ r \notin Scheduled /\ IsInjective(hit) /\ req_to_blocks[r] = <<>>
       /\ \A i \in DOMAIN hit : block_hash[hit[i]] # NoHash
       /\ step'.num_scheduled_tokens = [step.num_scheduled_tokens EXCEPT ![r] = n]
       /\ held = IF hit = <<>> THEN req_to_blocks[r] ELSE hit
  BY <1>1, <1>7
<1> QED BY <1>3, <1>8, <1>9, <1>10, TakingComputes

\* The launch computes what the batch promised.
LEMMA LaunchComputes ==
    ASSUME SchedInv, SchedInv', ComputedInv, Launch
    PROVE  ComputedInv'
<1>1. /\ pc = "finish" /\ pc' = "inflight"
      /\ num_computed_tokens' =
           [r \in Requests |-> num_computed_tokens[r] + step.num_scheduled_tokens[r]]
      /\ UNCHANGED <<running, req_to_blocks, block_hash>>
      /\ kv_written' = kv_written \cup
           UNION {CompletedBlocks(r, num_computed_tokens[r], step.num_scheduled_tokens[r]) :
                    r \in Scheduled}
  <2>1. /\ FinishSchedule
        /\ kv_written' = kv_written \cup
             UNION {CompletedBlocks(r, num_computed_tokens[r], step.num_scheduled_tokens[r]) :
                      r \in Scheduled}
    BY DEF Launch
  <2>2. /\ pc = "finish" /\ pc' = "inflight"
        /\ num_computed_tokens' =
             [r \in Requests |-> num_computed_tokens[r] + step.num_scheduled_tokens[r]]
        /\ UNCHANGED <<running, req_to_blocks, block_hash>>
    BY <2>1 DEF FinishSchedule, Goto, vars, kvVars, poolVars
  <2> QED BY <2>1, <2>2
<1>2. ASSUME NEW r \in Scheduled, NEW i \in DOMAIN req_to_blocks[r],
             num_computed_tokens[r] < i * BlockSize,
             i * BlockSize <= num_computed_tokens[r] + step.num_scheduled_tokens[r]
      PROVE  req_to_blocks[r][i] \in kv_written'
  <2>1. req_to_blocks[r][i]
          \in CompletedBlocks(r, num_computed_tokens[r], step.num_scheduled_tokens[r])
    BY <1>2 DEF CompletedBlocks
  <2> QED BY <1>1, <2>1
<1>3. ASSUME NEW c, Backed(c) PROVE Backed(c)'
  <2>1. CASE c \in kv_written
    BY <1>1, <2>1 DEF Backed
  <2>2. CASE Coming(c)
    <3>1. PICK r \in Scheduled : \E i \in DOMAIN req_to_blocks[r] :
            /\ req_to_blocks[r][i] = c
            /\ num_computed_tokens[r] < i * BlockSize
            /\ i * BlockSize <= num_computed_tokens[r] + step.num_scheduled_tokens[r]
      BY <2>2 DEF Coming
    <3>2. c \in kv_written'
      BY <1>2, <3>1
    <3> QED BY <3>2 DEF Backed
  <2> QED BY <1>3, <2>1, <2>2 DEF Backed
<1>4. ASSUME NEW c \in Blocks, block_hash'[c] # NoHash PROVE Backed(c)'
  <2>1. Backed(c)
    BY <1>1, <1>4 DEF ComputedInv
  <2> QED BY <1>3, <2>1
<1>5. ASSUME NEW c \in Blocks, NEW r \in Range(running'), NEW i \in DOMAIN req_to_blocks'[r],
             req_to_blocks'[r][i] = c, i * BlockSize <= num_computed_tokens'[r]
      PROVE  Backed(c)'
  <2>1. /\ r \in Range(running) /\ r \in Requests /\ req_to_blocks'[r] = req_to_blocks[r]
        /\ num_computed_tokens'[r] = num_computed_tokens[r] + step.num_scheduled_tokens[r]
    BY <1>1, <1>5, RunningList DEF Range
  <2>2. PICK place \in Nat, count \in Nat, share \in Nat :
          /\ place = i * BlockSize
          /\ count = num_computed_tokens[r] /\ share = step.num_scheduled_tokens[r]
          /\ place <= count + share /\ (share # 0 => r \in Scheduled)
    BY <1>5, <2>1, TableEntries, Counters
  <2>3. CASE place <= count
    <3>1. Backed(c)
      BY <1>5, <2>1, <2>2, <2>3 DEF ComputedInv, Counted
    <3> QED BY <1>3, <3>1
  <2>4. CASE count < place
    <3>1. r \in Scheduled /\ i \in DOMAIN req_to_blocks[r]
      BY <1>5, <2>1, <2>2, <2>4
    <3>2. c \in kv_written'
      BY <1>2, <1>5, <2>1, <2>2, <2>4, <3>1
    <3> QED BY <3>2 DEF Backed
  <2> QED BY <2>2, <2>3, <2>4
<1> QED BY <1>4, <1>5 DEF ComputedInv, Counted

\* Rejected drafts are rolled back, but never into a block that is published or that
\* anybody counts as computed.
LEMMA UpdateContinuesComputes ==
    ASSUME SchedInv, SchedInv', ComputedInv, NEW r \in Requests,
           NEW sampled \in SampledTokens(r), NEW drafts \in 0 .. NumSpecTokens,
           EngineUpdateContinues(r, sampled, drafts)
    PROVE  ComputedInv'
<1>1. /\ UpdateContinues(r, sampled, drafts)
      /\ kv_written' = kv_written \
           {req_to_blocks[r][i] : i \in {j \in DOMAIN req_to_blocks[r] :
                                          j * BlockSize > num_computed_tokens'[r]}}
  BY DEF EngineUpdateContinues
<1>2. /\ pc = "update" /\ pc' = pc /\ UNCHANGED <<req_to_blocks, block_hash, running>>
  BY <1>1 DEF UpdateContinues, Sampled, Updating, kvVars, poolVars, queueVars
<1>3. /\ num_tokens(r) <= num_computed_tokens'[r]
      /\ \A s \in Requests : num_computed_tokens'[s] <= num_computed_tokens[s]
      /\ \A s \in Requests \ {r} : num_computed_tokens'[s] = num_computed_tokens[s]
  BY <1>1, CountAfterUpdate
<1>4. ~Deciding /\ ~Deciding'
  BY <1>2 DEF Deciding
<1>5. num_computed_tokens'[r] \in Nat /\ num_tokens(r) \in Nat
  BY Counters DEF SchedInv, SchedTypeOK
\* A published block of the request's own lies within its tokens.
<1>6. ASSUME NEW c \in Blocks, block_hash[c] # NoHash, c \in kv_written
      PROVE  c \in kv_written'
  <2> SUFFICES ASSUME NEW j \in DOMAIN req_to_blocks[r], c = req_to_blocks[r][j]
               PROVE  ~(j * BlockSize > num_computed_tokens'[r])
    BY <1>1, <1>6
  <2>1. j * BlockSize <= num_tokens(r)
    BY <1>6 DEF SchedInv, PoolInv, TableContentsMatch, num_tokens
  <2>2. j * BlockSize \in Nat
    BY TableEntries
  <2> QED BY <1>3, <1>5, <2>1, <2>2
<1>7. ASSUME NEW c \in Blocks, block_hash'[c] # NoHash PROVE Backed(c)'
  <2>1. block_hash[c] # NoHash /\ c \in kv_written
    BY <1>2, <1>4, <1>7 DEF ComputedInv, Backed
  <2> QED BY <1>6, <2>1 DEF Backed
<1>8. ASSUME NEW c \in Blocks, NEW s \in Range(running'), NEW i \in DOMAIN req_to_blocks'[s],
             req_to_blocks'[s][i] = c, i * BlockSize <= num_computed_tokens'[s]
      PROVE  Backed(c)'
  <2>1. /\ s \in Range(running) /\ s \in Requests /\ i \in DOMAIN req_to_blocks[s]
        /\ req_to_blocks[s][i] = c
    BY <1>2, <1>8, RunningList DEF Range
  <2>2. i * BlockSize \in Nat /\ c \in Range(req_to_blocks[s])
    BY <2>1, TableEntries
  <2>3. num_computed_tokens'[s] \in Nat /\ num_computed_tokens[s] \in Nat
    BY <2>1 DEF SchedInv, SchedTypeOK
  <2>4. i * BlockSize <= num_computed_tokens[s]
    BY <1>3, <1>8, <2>1, <2>2, <2>3
  <2>5. c \in kv_written
    BY <1>4, <2>1, <2>4 DEF ComputedInv, Counted, Backed
  <2>6. CASE block_hash[c] # NoHash
    BY <1>6, <2>5, <2>6 DEF Backed
  <2>7. CASE block_hash[c] = NoHash
    <3> SUFFICES ASSUME NEW j \in DOMAIN req_to_blocks[r], c = req_to_blocks[r][j],
                        j * BlockSize > num_computed_tokens'[r]
                 PROVE  FALSE
      BY <1>1, <2>5 DEF Backed
    <3>1. c \in Range(req_to_blocks[r])
      BY DEF Range
    <3>2. ~(ref_cnt[c] > 1)
      BY <2>7 DEF SchedInv, PoolInv, SharedOnlyIfPublished
    <3>3. s = r
      BY <2>1, <2>2, <3>1, <3>2, TwoHolders DEF SchedInv
    <3>4. IsInjective(req_to_blocks[r])
      BY DEF SchedInv, PoolInv, RefCntExact
    <3>5. i = j
      BY <2>1, <2>2, <3>3, <3>4 DEF IsInjective
    <3> QED BY <1>8, <2>2, <2>3, <3>3, <3>5
  <2> QED BY <2>6, <2>7
<1> QED BY <1>7, <1>8 DEF ComputedInv, Counted

\* A request that leaves takes nothing from the others.
LEMMA LeavingComputes ==
    ASSUME SchedInv, SchedInv', ComputedInv, NEW v \in Requests, Free(v),
           v \notin Scheduled \/ (~Deciding /\ ~Deciding'),
           Deciding => Deciding' /\ \A s \in Requests \ {v} :
                         step'.num_scheduled_tokens[s] = step.num_scheduled_tokens[s],
           num_computed_tokens' = Cleared(num_computed_tokens, {v}),
           Range(running') = Range(running) \ {v}, UNCHANGED kv_written
    PROVE  ComputedInv'
<1>1. \A s \in Requests \ {v} : /\ req_to_blocks'[s] = req_to_blocks[s]
                                /\ num_computed_tokens'[s] = num_computed_tokens[s]
  BY DEF Free, Cleared, SchedInv, SchedTypeOK, TypeOK
<1>2. UNCHANGED block_hash
  BY DEF Free
<1>3. ASSUME NEW c \in Blocks, Backed(c) PROVE Backed(c)'
  <2>1. ASSUME Deciding, NEW s \in Scheduled
        PROVE  /\ s \in Scheduled' /\ req_to_blocks'[s] = req_to_blocks[s]
               /\ num_computed_tokens'[s] = num_computed_tokens[s]
               /\ step'.num_scheduled_tokens[s] = step.num_scheduled_tokens[s]
    <3>1. s \in Requests \ {v} /\ step.num_scheduled_tokens[s] > 0
      BY <2>1 DEF Scheduled
    <3> QED BY <1>1, <2>1, <3>1 DEF Scheduled
  <2> QED BY <1>3, <2>1, BackedStays
<1>4. ASSUME NEW s \in Range(running')
      PROVE  /\ s \in Range(running) /\ req_to_blocks'[s] = req_to_blocks[s]
             /\ num_computed_tokens'[s] <= num_computed_tokens[s]
  <2>1. s \in Range(running) /\ s \in Requests \ {v}
    BY <1>4, RunningList
  <2>2. /\ req_to_blocks'[s] = req_to_blocks[s]
        /\ num_computed_tokens'[s] = num_computed_tokens[s]
    BY <1>1, <2>1
  <2>3. num_computed_tokens[s] \in Nat
    BY <2>1, Counters
  <2> QED BY <2>1, <2>2, <2>3
<1> QED BY <1>2, <1>3, <1>4, ComputedStays

LEMMA NextComputes ==
    ASSUME Policy = "fcfs", SchedInv, SchedInv', SlotsInv, ComputedInv, [EngineNext]_evars
    PROVE  ComputedInv'
\* Nobody moves: the batch being put together is kept, or there is none.
<1>1. ASSUME UNCHANGED <<kv_written, running, req_to_blocks, num_computed_tokens>>,
             Deciding => Deciding' /\ step'.num_scheduled_tokens = step.num_scheduled_tokens,
             \A c \in Blocks : block_hash'[c] # NoHash => block_hash[c] # NoHash
      PROVE  ComputedInv'
  <2>1. ASSUME NEW c \in Blocks, Backed(c) PROVE Backed(c)'
    BY <1>1, <2>1, BackedStays DEF Scheduled
  <2>2. ASSUME NEW r \in Range(running')
        PROVE  /\ r \in Range(running) /\ req_to_blocks'[r] = req_to_blocks[r]
               /\ num_computed_tokens'[r] <= num_computed_tokens[r]
    <3>1. r \in Range(running) /\ r \in Requests
      BY <1>1, <2>2, RunningList DEF Range
    <3> QED BY <1>1, <3>1, Counters
  <2> QED BY <1>1, <2>1, <2>2, ComputedStays
<1>2. CASE UNCHANGED evars
  BY <1>1, <1>2
     DEF evars, svars, schedVars, queueVars, requestVars, vars, kvVars, poolVars, Deciding
<1>3. CASE EngineAllocateRunning
  BY <1>3, AllocateRunningComputes
<1>4. CASE EngineAdmitWaiting
  BY <1>4, AdmitWaitingComputes
<1>5. CASE Launch
  BY <1>5, LaunchComputes
<1>6. ASSUME NEW r \in Requests, NEW sampled \in SampledTokens(r),
             NEW drafts \in 0 .. NumSpecTokens, EngineUpdateContinues(r, sampled, drafts)
      PROVE  ComputedInv'
  BY <1>6, UpdateContinuesComputes
<1>7. CASE OtherScheduleStep /\ UNCHANGED kv_written
  \* First come, first served preempts the last of the running list, which this step has
  \* given nothing yet.
  <2>1. CASE Preempt
    <3>1. PICK v \in Requests :
            /\ v = Victim /\ v \notin Scheduled
            /\ pc = "allocate" /\ pc' \in {"finish", "allocate"}
            /\ \A s \in Requests : step'.num_scheduled_tokens[s] =
                                     IF s = v THEN 0 ELSE step.num_scheduled_tokens[s]
      BY <2>1, PreemptStep
    <3>2. /\ Free(v) /\ running' = Without(running, v)
          /\ num_computed_tokens' = Cleared(num_computed_tokens, {v})
      BY <2>1, <3>1 DEF Preempt
    <3>3. Range(running') = Range(running) \ {v}
      BY <3>2, RunningList, WithoutRange
    <3>4. Deciding' /\ \A s \in Requests \ {v} :
                         step'.num_scheduled_tokens[s] = step.num_scheduled_tokens[s]
      BY <3>1 DEF Deciding
    <3> QED BY <1>7, <3>1, <3>2, <3>3, <3>4, LeavingComputes
  <2>2. CASE StartSchedule
    <3>1. pc = "idle" /\ UNCHANGED <<running, req_to_blocks, num_computed_tokens, block_hash>>
      BY <2>2 DEF StartSchedule, vars, kvVars, poolVars, queueVars, requestVars
    <3> QED BY <1>1, <1>7, <3>1 DEF Deciding
  <2>3. CASE ConsiderRunning \/ SkipRunning \/ EndRunning \/ SkipLora \/ SkipGrammar
             \/ PromoteGrammar \/ EndAdmission
    <3>1. UNCHANGED <<running, req_to_blocks, num_computed_tokens, block_hash>>
      BY <2>3 DEF ConsiderRunning, SkipRunning, EndRunning, SkipLora, SkipGrammar,
         PromoteGrammar, EndAdmission, SetAside, queueVars, requestVars, vars, kvVars, poolVars
    <3>2. Deciding'
      BY <2>3 DEF ConsiderRunning, SkipRunning, InRunningLoop, EndRunning, SkipLora, SkipGrammar,
         PromoteGrammar, EndAdmission, SetAside, InWaitingLoop, Goto, Deciding
    <3>3. step'.num_scheduled_tokens = step.num_scheduled_tokens
      <4>1. CASE ConsiderRunning
        <5>1. PICK request, num : step' = [step EXCEPT !.request = request, !.num_new_tokens = num]
          BY <4>1 DEF ConsiderRunning
        <5> QED BY <5>1, StepFields DEF StepType
      <4>2. CASE SkipRunning
        <5>1. step' = [step EXCEPT !.req_index = @ + 1]
          BY <4>2 DEF SkipRunning
        <5> QED BY <5>1, StepFields DEF StepType
      <4>3. CASE step' = step
        BY <4>3
      <4> QED BY <2>3, <4>1, <4>2, <4>3 DEF EndRunning, SkipLora, SkipGrammar, PromoteGrammar,
                 EndAdmission, SetAside
    <3> QED BY <1>1, <1>7, <3>1, <3>2, <3>3
  <2> QED BY <1>7, <2>1, <2>2, <2>3 DEF OtherScheduleStep
<1>8. CASE OtherUpdateStep /\ UNCHANGED kv_written
  <2>1. CASE BeginUpdate \/ EndUpdate
    <3>1. /\ pc \in {"inflight", "update"}
          /\ UNCHANGED <<running, req_to_blocks, num_computed_tokens, block_hash>>
      BY <2>1 DEF BeginUpdate, EndUpdate, vars, kvVars, poolVars, queueVars, requestVars
    <3> QED BY <1>1, <1>8, <3>1 DEF Deciding
  <2>2. ASSUME NEW r \in Requests, UpdateSkipped(r) \/ UpdateChunk(r) PROVE ComputedInv'
    <3>1. /\ pc = "update"
          /\ UNCHANGED <<running, req_to_blocks, num_computed_tokens, block_hash>>
      BY <2>2 DEF UpdateSkipped, UpdateChunk, Updating, vars, kvVars, poolVars, queueVars,
         requestVars
    <3> QED BY <1>1, <1>8, <3>1 DEF Deciding
  <2>3. ASSUME NEW r \in Requests, Updating(r), Leave(r) PROVE ComputedInv'
    <3>1. /\ Range(running') = Range(running) \ {r} /\ pc = "update" /\ pc' = pc /\ Free(r)
          /\ num_computed_tokens' = Cleared(num_computed_tokens, {r})
      BY <2>3, RunningList, WithoutRange DEF Leave, Updating
    <3>2. ~Deciding /\ ~Deciding'
      BY <3>1 DEF Deciding
    <3> QED BY <1>8, <3>1, <3>2, LeavingComputes
  <2> QED BY <1>8, <2>1, <2>2, <2>3 DEF OtherUpdateStep, UpdatePooled, UpdateStops, Sampled
<1>9. ASSUME NEW r \in Structured, EngineCompile(r) PROVE ComputedInv'
  BY <1>1, <1>9
     DEF EngineCompile, CompileGrammar, queueVars, requestVars, vars, kvVars, poolVars, Deciding
<1>10. CASE ClientStep /\ UNCHANGED kv_written
  <2>1. ASSUME NEW r \in Requests, Abort(r) PROVE ComputedInv'
    <3>1. /\ pc \in {"idle", "inflight"} /\ pc' = pc /\ Free(r)
          /\ num_computed_tokens' = Cleared(num_computed_tokens, {r})
      BY <2>1 DEF Abort, ClientsMayCall
    <3>2. Range(running') = Range(running) \ {r}
      <4>1. CASE status[r] = "RUNNING"
        <5>1. running' = Without(running, r)
          BY <2>1, <4>1 DEF Abort, RemoveFromQueue
        <5> QED BY <5>1, RunningList, WithoutRange
      <4>2. CASE status[r] # "RUNNING"
        <5>1. running' = running
          BY <2>1, <4>2 DEF Abort, RemoveFromQueue
        <5>2. r \notin Range(running)
          BY <4>2 DEF SchedInv, QueueInv
        <5> QED BY <5>1, <5>2
      <4> QED BY <4>1, <4>2
    <3>3. ~Deciding /\ ~Deciding'
      BY <3>1 DEF Deciding
    <3> QED BY <1>10, <3>1, <3>2, <3>3, LeavingComputes
  <2>2. ASSUME NEW r \in Requests, NEW prompt \in Prompts, Add(r, prompt) PROVE ComputedInv'
    <3>1. UNCHANGED <<running, req_to_blocks, num_computed_tokens, block_hash, pc, step>>
      BY <2>2 DEF Add, kvVars, poolVars
    <3> QED BY <1>1, <1>10, <3>1 DEF Deciding
  <2>3. CASE ResetCache
    <3>1. /\ UNCHANGED <<running, req_to_blocks, num_computed_tokens, pc, step>>
          /\ \A c \in Blocks : block_hash'[c] = NoHash
      BY <2>3 DEF ResetCache, ResetPrefixCache, schedVars, queueVars, requestVars
    <3> QED BY <1>1, <1>10, <3>1 DEF Deciding
  <2> QED BY <1>10, <2>1, <2>2, <2>3 DEF ClientStep
<1> QED BY <1>2, <1>3, <1>4, <1>5, <1>6, <1>7, <1>8, <1>9, <1>10 DEF EngineNext, EngineStep

\* Under first come, first served the prefix cache never offers a block ahead of the
\* device: a block is published when it is allocated, but the batch that completes it
\* is not called off before the launch, and rejected drafts do not reach it.
THEOREM WhatIsPublishedIsComputed == Policy = "fcfs" /\ EngineSpec => []PublishedIsComputed
<1>1. EngineInit => SchedInit /\ SlotsInv /\ ComputedInv
  <2> SUFFICES ASSUME EngineInit PROVE SchedInit /\ SlotsInv /\ ComputedInv
    OBVIOUS
  <2>1. SchedInit
    BY DEF EngineInit
  <2>2. Range(running) = {}
    BY <2>1 DEF SchedInit, Range
  <2>3. \A c \in Blocks : block_hash[c] = NoHash
    BY <2>1 DEF SchedInit, Init
  <2> QED BY <2>1, <2>2, <2>3 DEF SlotsInv, ComputedInv, Counted
<1>2. SchedInv /\ SchedInv' /\ SlotsInv /\ [EngineNext]_evars => SlotsInv'
  BY EngineSteps, NextSlots DEF SlotsKept
<1>3. ComputedInv => PublishedIsComputed
  BY DEF ComputedInv, PublishedIsComputed, Backed, Deciding
<1>4. ASSUME Policy = "fcfs" PROVE EngineSpec => []PublishedIsComputed
  <2>1. SchedInv /\ SchedInv' /\ SlotsInv /\ ComputedInv /\ [EngineNext]_evars => ComputedInv'
    BY <1>4, NextComputes
  <2>2. SchedInit => SchedInv
    BY InitSched
  <2>3. SchedInv /\ [EngineNext]_evars => SchedInv'
    BY EngineSteps, NextSched
  <2> QED BY <1>1, <1>2, <1>3, <2>1, <2>2, <2>3, PTL DEF EngineSpec
<1> QED BY <1>4

------------------------------------------------------------------------------
(* The life of a request.                                                   *)

\* A request that changes its stage, and nothing is said.
LEMMA MoveIsLife ==
    ASSUME SchedInv, NEW r \in Requests, NEW new,
           status' = [status EXCEPT ![r] = new],
           UNCHANGED <<all_token_ids, num_prompt_tokens>>,
           \/ r \in Queued /\ new = "RUNNING"
           \/ r \in Range(running) /\ new = "PREEMPTED"
           \/ r \in Queued /\ new = "WAITING"
    PROVE  Lifecycle!Next \/ UNCHANGED Lifecycle!lifecycleVars
<1>1. \A s \in Requests : status'[s] = IF s = r THEN new ELSE status[s]
  BY DEF SchedInv, SchedTypeOK
<1>2. \A s \in Requests \ {r} : LifeStage(s)' = LifeStage(s)
  BY <1>1 DEF LifeStage
<1>3. r \in Queued => status[r] # "FINISHED" /\ status[r] # "RUNNING"
  BY Queues DEF SchedInv, QueueInv
<1>4. r \in Range(running) => status[r] = "RUNNING"
  BY DEF SchedInv, QueueInv
<1>5. CASE r \in Queued /\ new = "RUNNING"
  <2>1. LifeStage(r) = "queued" /\ LifeStage(r)' = "active"
    BY <1>1, <1>3, <1>5 DEF LifeStage
  <2>2. Lifecycle!Activate(r)
    BY <1>2, <2>1 DEF Lifecycle!Activate
  <2> QED BY <2>2 DEF Lifecycle!Next
<1>6. CASE r \in Range(running) /\ new = "PREEMPTED"
  <2>1. LifeStage(r) = "active" /\ LifeStage(r)' = "queued"
    BY <1>1, <1>4, <1>6 DEF LifeStage
  <2>2. Lifecycle!Suspend(r)
    BY <1>2, <2>1 DEF Lifecycle!Suspend
  <2> QED BY <2>2 DEF Lifecycle!Next
<1>7. CASE r \in Queued /\ new = "WAITING"
  <2>1. LifeStage(r) = "queued" /\ LifeStage(r)' = "queued"
    BY <1>1, <1>3, <1>7 DEF LifeStage
  <2> QED BY <1>2, <2>1 DEF Lifecycle!lifecycleVars
<1> QED BY <1>5, <1>6, <1>7

\* Nobody changes its stage and nothing is said.
LEMMA SilentLife ==
    ASSUME UNCHANGED <<status, all_token_ids, num_prompt_tokens>>
    PROVE  UNCHANGED Lifecycle!lifecycleVars
BY DEF Lifecycle!lifecycleVars, LifeStage

\* Live requests that are dropped have ended.
LEMMA DropIsEnd ==
    ASSUME SchedInv, NEW S \in SUBSET Range(requests), DropRequests(S),
           all_token_ids' = [r \in Requests |-> IF r \in S THEN <<>> ELSE all_token_ids[r]],
           num_prompt_tokens' = Cleared(num_prompt_tokens, S)
    PROVE  Lifecycle!Next
<1>1. S \in SUBSET Requests
  BY Queues
<1>2. \A r \in S : LifeStage(r) # "absent"
  <2> SUFFICES ASSUME NEW r \in S PROVE LifeStage(r) # "absent"
    OBVIOUS
  <2>1. status[r] # "FINISHED"
    BY <1>1 DEF SchedInv, QueueInv
  <2> QED BY <2>1 DEF LifeStage
<1>3. \A r \in Requests : LifeStage(r)' = IF r \in S THEN "absent" ELSE LifeStage(r)
  BY DEF DropRequests, LifeStage
<1>4. Lifecycle!End(S)
  BY <1>1, <1>2, <1>3 DEF Lifecycle!End, Cleared
<1> QED BY <1>1, <1>4 DEF Lifecycle!Next

\* The same for one request, the way Abort and Leave write it.
LEMMA DropOneIsEnd ==
    ASSUME SchedInv, NEW r \in Range(requests), DropRequests({r}),
           all_token_ids' = [all_token_ids EXCEPT ![r] = <<>>],
           num_prompt_tokens' = Cleared(num_prompt_tokens, {r})
    PROVE  Lifecycle!Next
<1>1. all_token_ids' = [s \in Requests |-> IF s \in {r} THEN <<>> ELSE all_token_ids[s]]
  BY DEF SchedInv, SchedTypeOK, TypeOK
<1> QED BY <1>1, DropIsEnd

LEMMA AddIsSubmit ==
    ASSUME SchedInv, NEW r \in Requests, NEW prompt \in Prompts, Add(r, prompt)
    PROVE  Lifecycle!Next
<1>1. \A s \in Requests : status'[s] = IF s # r THEN status[s]
                                       ELSE IF r \in Structured THEN "WAITING_FOR_GRAMMAR"
                                       ELSE "WAITING"
  BY DEF Add, SchedInv, SchedTypeOK
<1>2. \A s \in Requests \ {r} : LifeStage(s)' = LifeStage(s)
  BY <1>1 DEF LifeStage
<1>3. status[r] = "FINISHED"
  BY DEF Add, SchedInv, QueueInv
<1>4. LifeStage(r) = "absent" /\ LifeStage(r)' = "queued"
  BY <1>1, <1>3 DEF LifeStage
<1>5. Lifecycle!Submit(r, prompt)
  BY <1>2, <1>4 DEF Add, Lifecycle!Submit
<1> QED BY <1>5 DEF Lifecycle!Next

\* What a request has after k of the sampled tokens.
LEMMA ExtendedIs ==
    ASSUME SchedInv, NEW r \in Requests, NEW sampled \in Seq(Tokens),
           NEW k \in 1 .. Len(sampled)
    PROVE  /\ Len(Extended(r, sampled, k)) = num_tokens(r) + k
           /\ Extended(r, sampled, k)[num_tokens(r) + k] = sampled[k]
<1>1. all_token_ids[r] \in Seq(Tokens)
  BY DEF SchedInv, SchedTypeOK, TypeOK
<1>2. /\ Len(all_token_ids[r] \o SubSeq(sampled, 1, k)) = Len(all_token_ids[r]) + k
      /\ (all_token_ids[r] \o SubSeq(sampled, 1, k))[Len(all_token_ids[r]) + k] = sampled[k]
  BY <1>1, JoinedPrefixEnd
<1> QED BY <1>2 DEF Extended, num_tokens

\* A request that goes on has said only what it may.
LEMMA ContinueIsEmit ==
    ASSUME SchedInv, SchedInv', LengthInv', NEW r \in Requests,
           NEW sampled \in SampledTokens(r), NEW drafts \in 0 .. NumSpecTokens,
           UpdateContinues(r, sampled, drafts)
    PROVE  Lifecycle!Next
<1>1. /\ pc = "update" /\ step.req_index <= Len(running) /\ r = NextRunning
      /\ ~CheckStop(r, Extended(r, sampled, NumKept(r, sampled)))
      /\ all_token_ids' = [all_token_ids EXCEPT ![r] = Extended(r, sampled, NumKept(r, sampled))]
      /\ UNCHANGED <<status, requests, num_prompt_tokens>>
  BY DEF UpdateContinues, Sampled, Updating, queueVars
<1>2. PICK accepted \in Nat, kept \in Seq(Tokens), old \in Seq(Tokens), n \in Nat :
        /\ kept = Extended(r, sampled, NumKept(r, sampled))
        /\ old = all_token_ids[r] /\ n = Len(old) /\ n = num_tokens(r)
        /\ sampled \in Seq(Tokens) /\ Len(sampled) = accepted + 1
        /\ Len(kept) = n + accepted + 1
        /\ \A i \in 1 .. n : kept[i] = old[i]
        /\ \A k \in DOMAIN sampled : /\ ~CheckStop(r, Extended(r, sampled, k))
                                     /\ kept[n + k] = sampled[k]
  <2>1. all_token_ids[r] \in Seq(Tokens) /\ Len(all_token_ids[r]) \in Nat
    BY LenProperties DEF SchedInv, SchedTypeOK, TypeOK
  <2>2. PICK n \in Nat, old \in Seq(Tokens) :
          old = all_token_ids[r] /\ n = Len(old) /\ n = num_tokens(r)
    BY <2>1 DEF num_tokens
  <2>3. PICK accepted \in Nat, kept \in Seq(Tokens) :
          /\ kept = Extended(r, sampled, NumKept(r, sampled))
          /\ sampled \in Seq(Tokens) /\ Len(sampled) = accepted + 1
          /\ Len(kept) = num_tokens(r) + accepted + 1
          /\ \A i \in 1 .. num_tokens(r) : kept[i] = all_token_ids[r][i]
          /\ \A k \in DOMAIN sampled : /\ ~CheckStop(r, Extended(r, sampled, k))
                                       /\ kept[num_tokens(r) + k] = sampled[k]
    BY <1>1, AllIsKept
  <2>4. /\ kept = Extended(r, sampled, NumKept(r, sampled))
        /\ old = all_token_ids[r] /\ n = Len(old) /\ n = num_tokens(r)
        /\ sampled \in Seq(Tokens) /\ Len(sampled) = accepted + 1
        /\ Len(kept) = n + accepted + 1
        /\ \A i \in 1 .. n : kept[i] = old[i]
        /\ \A k \in DOMAIN sampled : /\ ~CheckStop(r, Extended(r, sampled, k))
                                     /\ kept[n + k] = sampled[k]
    BY <2>2, <2>3
  <2> QED BY <2>4
<1>3. all_token_ids'[r] = kept /\ all_token_ids' = [all_token_ids EXCEPT ![r] = kept]
  BY <1>1, <1>2 DEF SchedInv, SchedTypeOK, TypeOK
<1>4. r \in Range(running) /\ r \in Range(requests) /\ status[r] = "RUNNING"
  <2>1. r \in Range(running)
    BY <1>1, TurnOfRunning
  <2> QED BY <2>1, Queues DEF SchedInv, QueueInv
<1>5. PICK opened \in Nat : opened = num_prompt_tokens[r]
  BY DEF SchedInv, SchedTypeOK
<1>6. Len(kept) < MaxModelLen
  <2>1. r \in Range(requests') /\ r \notin Pooling
    BY <1>1, <1>4 DEF Range, UpdateContinues
  <2> QED BY <1>3, <2>1 DEF LengthInv, num_tokens
<1>7. Len(kept) >= opened + MinTokens => Len(kept) < opened + MaxTokens
  <2>1. ~CheckStop(r, kept)
    BY <1>1, <1>2
  <2>2. PICK len \in Nat, most \in Nat, whole \in Nat, least \in Nat :
          len = Len(kept) /\ most = MaxTokens /\ whole = MaxModelLen /\ least = MinTokens
    BY <1>2, BudgetAssumption, SizesAssumption
  <2>3. len - opened >= least => ~(len - opened >= Least(most, whole - opened)) /\ len < whole
    BY <1>5, <2>1, <2>2, <1>6 DEF CheckStop, NumOutputTokens
  <2> QED BY <2>2, <2>3 DEF Least
<1>8. SubSeq(kept, 1, n) = old
  <2>1. n \in 0 .. Len(kept)
    BY <1>2
  <2>2. PICK s \in Seq(Tokens) : /\ s = SubSeq(kept, 1, n) /\ Len(s) = n
                                  /\ \A i \in 1 .. n : s[i] = kept[i]
    <3>1. /\ SubSeq(kept, 1, n) \in Seq(Tokens) /\ Len(SubSeq(kept, 1, n)) = n
          /\ \A i \in 1 .. n : SubSeq(kept, 1, n)[i] = kept[i]
      BY <2>1, PrefixIs
    <3> QED BY <3>1
  <2>3. Len(old) = n /\ \A i \in 1 .. n : s[i] = old[i]
    BY <1>2, <2>2
  <2>4. s = old
    BY <2>2, <2>3, SeqEqual
  <2> QED BY <2>2, <2>4
<1>9. ASSUME NEW k \in n + 1 .. Len(kept)
      PROVE  /\ kept[k] \in Tokens
             /\ k >= opened + MinTokens => kept[k] \notin StopTokens
  <2>1. k - n \in 1 .. Len(sampled) /\ k \in 1 .. Len(kept)
    BY <1>2, <1>9
  <2>2. PICK j \in 1 .. Len(sampled) : j = k - n /\ k = n + j
    BY <1>2, <1>9, <2>1
  <2>3. j \in DOMAIN sampled
    BY <1>2, <2>2, LenProperties
  <2>4. kept[k] = sampled[j] /\ ~CheckStop(r, Extended(r, sampled, j))
    BY <1>2, <2>2, <2>3
  <2>5. Len(Extended(r, sampled, j)) = k /\ Extended(r, sampled, j)[k] = sampled[j]
    <3>1. n = num_tokens(r) /\ sampled \in Seq(Tokens)
      BY <1>2
    <3>2. /\ Len(Extended(r, sampled, j)) = num_tokens(r) + j
          /\ Extended(r, sampled, j)[num_tokens(r) + j] = sampled[j]
      BY <3>1, ExtendedIs
    <3> QED BY <2>2, <3>1, <3>2
  <2>6. k >= opened + MinTokens => sampled[j] \notin StopTokens
    BY SMTT(30), <1>5, <1>9, <2>4, <2>5, <1>2, BudgetAssumption DEF CheckStop, NumOutputTokens
  <2> QED BY <1>2, <2>1, <2>4, <2>6, ElementOfSeq
<1>10. LifeStage(r) = "active" /\ \A s \in Requests : LifeStage(s)' = LifeStage(s)
  BY <1>1, <1>4 DEF LifeStage
<1>11. Lifecycle!Emit(r)
  <2>1. Len(kept) > n
    BY <1>2
  <2> QED BY <1>1, <1>2, <1>3, <1>5, <1>6, <1>7, <1>8, <1>9, <1>10, <2>1 DEF Lifecycle!Emit
<1> QED BY <1>11 DEF Lifecycle!Next

LEMMA NextLife ==
    ASSUME SchedInv, SchedInv', LengthInv', [SchedNext]_svars
    PROVE  Lifecycle!Next \/ UNCHANGED Lifecycle!lifecycleVars
<1>1. CASE UNCHANGED <<status, all_token_ids, num_prompt_tokens>>
  BY <1>1, SilentLife
<1>2. CASE UNCHANGED svars
  BY <1>2, <1>1 DEF svars, schedVars, queueVars, requestVars, vars
<1>3. CASE ClientStep
  <2>1. ASSUME NEW r \in Requests, Abort(r) PROVE Lifecycle!Next
    BY <2>1, DropOneIsEnd DEF Abort
  <2>2. CASE ResetCache
    BY <2>2, <1>1 DEF ResetCache, schedVars, queueVars, requestVars
  <2> QED BY <1>3, <2>1, <2>2, AddIsSubmit DEF ClientStep
<1>4. CASE CompileStep
  BY <1>4, <1>1 DEF CompileStep, CompileGrammar, vars, queueVars, requestVars
<1>5. CASE ScheduleStep
  <2>1. CASE Preempt
    <3>1. PICK p \in 1 .. Len(running), v \in Requests : v = running[p] /\ v = Victim
      BY <2>1, PreemptStep
    <3>2. v \in Range(running)
      BY <3>1, RunningList
    <3>3. /\ status' = [status EXCEPT ![v] = "PREEMPTED"]
          /\ UNCHANGED <<all_token_ids, num_prompt_tokens>>
      BY <2>1, <3>1 DEF Preempt
    <3> QED BY <3>2, <3>3, MoveIsLife
  <2>2. ASSUME waiting # <<>>
        PROVE  NextWaiting \in Queued /\ NextWaiting \in Requests
    BY <2>2, Queues, TailProperties, InjectiveSeq DEF NextWaiting, Queued
  <2>3. CASE PromoteGrammar
    <3>1. /\ waiting # <<>> /\ status' = [status EXCEPT ![NextWaiting] = "WAITING"]
          /\ UNCHANGED <<all_token_ids, num_prompt_tokens>>
      BY <2>3 DEF PromoteGrammar, InWaitingLoop, vars, requestVars
    <3> QED BY <2>2, <3>1, MoveIsLife
  <2>4. CASE AdmitWaiting
    <3>1. /\ waiting # <<>> /\ status' = [status EXCEPT ![NextWaiting] = "RUNNING"]
          /\ UNCHANGED <<all_token_ids, num_prompt_tokens>>
      BY <2>4 DEF AdmitWaiting
    <3> QED BY <2>2, <3>1, MoveIsLife
  <2>5. CASE StartSchedule \/ ConsiderRunning \/ SkipRunning \/ AllocateRunning \/ EndRunning
             \/ SkipLora \/ SkipGrammar \/ EndAdmission
    BY <2>5, <1>1 DEF StartSchedule, ConsiderRunning, SkipRunning, AllocateRunning, EndRunning,
       SkipLora, SkipGrammar, SetAside, EndAdmission, vars, queueVars, requestVars
  <2> QED BY <1>5, <2>1, <2>3, <2>4, <2>5 DEF ScheduleStep
<1>6. CASE FinishSchedule
  BY <1>6, <1>1 DEF FinishSchedule, vars
<1>7. CASE UpdateStep
  <2>1. CASE BeginUpdate
    BY <2>1, <1>1 DEF BeginUpdate, vars, queueVars, requestVars
  <2>2. ASSUME NEW r \in Requests, UpdateSkipped(r) \/ UpdateChunk(r)
        PROVE  UNCHANGED Lifecycle!lifecycleVars
    BY <2>2, <1>1, SilentLife DEF UpdateSkipped, UpdateChunk, vars, queueVars, requestVars
  <2>3. ASSUME NEW r \in Requests, Updating(r), Leave(r) PROVE Lifecycle!Next
    <3>1. r \in Range(running)
      BY <2>3, TurnOfRunning DEF Updating
    <3>2. r \in Range(requests)
      BY <3>1, Queues DEF SchedInv, QueueInv
    <3> QED BY <2>3, <3>2, DropOneIsEnd DEF Leave
  <2>4. CASE EndUpdate
    <3>1. PICK failed \in SUBSET Range(requests) :
            failed = grammar_compile_error_reqs \cap Range(requests)
      OBVIOUS
    <3>2. /\ DropRequests(failed)
          /\ all_token_ids' = [r \in Requests |-> IF r \in failed THEN <<>> ELSE all_token_ids[r]]
          /\ num_prompt_tokens' = Cleared(num_prompt_tokens, failed)
      BY <2>4, <3>1 DEF EndUpdate
    <3> QED BY <3>2, DropIsEnd
  <2> QED BY <1>7, <2>1, <2>2, <2>3, <2>4, ContinueIsEmit, <1>1
          DEF UpdateStep, UpdatePooled, UpdateStops, Sampled
<1> QED BY <1>2, <1>3, <1>4, <1>5, <1>6, <1>7 DEF SchedNext

\* Whatever the batch, the pool and the other requests do, a request lives as promised:
\* preemption takes back no token, only running requests say anything, nothing follows
\* a stop token after min_tokens or goes beyond max_tokens, and each ends once.
THEOREM LifecycleIsImplemented == RoomForMinTokens /\ SchedSpec => ImplementsLifecycle
<1>1. SchedInit => LengthInv /\ Lifecycle!Init
  <2> SUFFICES ASSUME SchedInit PROVE LengthInv /\ Lifecycle!Init
    OBVIOUS
  <2>1. LengthInv
    BY DEF SchedInit, LengthInv, Range
  <2>2. Lifecycle!Init
    BY DEF SchedInit, Init, Lifecycle!Init, LifeStage
  <2> QED BY <2>1, <2>2
<1>2. ASSUME RoomForMinTokens PROVE SchedSpec => ImplementsLifecycle
  <2>1. SchedInv /\ SchedInv' /\ LengthInv /\ [SchedNext]_svars => LengthInv'
    BY <1>2, NextLength
  <2>2. SchedInv /\ SchedInv' /\ LengthInv' /\ [SchedNext]_svars
          => [Lifecycle!Next]_Lifecycle!lifecycleVars
    BY NextLife
  <2> QED BY <1>1, <2>1, <2>2, SchedulerInvariant, PTL
          DEF SchedSpec, ImplementsLifecycle, Lifecycle!Spec
<1> QED BY <1>2

==============================================================================
