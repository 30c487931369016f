--------------------------- MODULE SchedulerTheorems ---------------------------
(***************************************************************************)
(* What follows from the invariant of the scheduler, and the properties    *)
(* that are proved on top of it: the budget, the grammars, the order of the *)
(* queues and the slots of the batch.                                       *)
(***************************************************************************)
EXTENDS SchedulerProofs

------------------------------------------------------------------------------
(* What the invariant says.                                                 *)

\* The attributes of the scheduler and its requests keep their types.
THEOREM SchedulerTypesAreCorrect == SchedSpec => []SchedTypeOK
<1>1. SchedInv => SchedTypeOK
  BY DEF SchedInv
<1> QED BY <1>1, SchedulerInvariant, PTL

\* Every live request is in exactly one queue, once, and its status says which, so
\* finish_requests finds it there: through preemption, set-aside, abort in flight and
\* failed grammars, nobody is lost and nobody is doubled.
THEOREM QueuesArePartitioned == SchedSpec => []QueuesPartitionRequests
<1>1. SchedInv => QueuesPartitionRequests
  <2> SUFFICES ASSUME SchedInv PROVE QueuesPartitionRequests
    OBVIOUS
  <2>1. /\ skipped_waiting \o waiting \in Seq(Requests)
        /\ Range(skipped_waiting \o waiting) = Queued
        /\ IsInjective(skipped_waiting \o waiting)
    <3>1. /\ waiting \in Seq(Requests) /\ IsInjective(waiting)
          /\ skipped_waiting \in Seq(Requests) /\ IsInjective(skipped_waiting)
          /\ Range(skipped_waiting) \cap Range(waiting) = {}
          /\ Range(skipped_waiting) \cup Range(waiting) = Queued
      BY Queues
    <3>2. PICK s \in Seq(Requests), t \in Seq(Requests) : s = skipped_waiting /\ t = waiting
      BY <3>1
    <3> QED BY ZenonT(40), <3>1, <3>2, ConcatInjective
  <2>2. IsInjective(running \o (skipped_waiting \o waiting))
    BY <2>1, Queues, RunningList, ConcatInjective
  <2>3. running \o (skipped_waiting \o waiting) = running \o skipped_waiting \o waiting
    BY SMTT(30), Queues, RunningList, ConcatAssociative
  <2>4. ASSUME NEW r \in Requests
        PROVE  /\ r \in Range(running) <=> status[r] = "RUNNING"
               /\ r \in Queued <=> status[r] \in {"WAITING", "WAITING_FOR_GRAMMAR", "PREEMPTED"}
    <3>1. /\ r \in Range(running) <=> status[r] = "RUNNING"
          /\ r \in Range(requests) <=> status[r] # "FINISHED"
          /\ status[r] \in {"WAITING", "WAITING_FOR_GRAMMAR", "RUNNING", "PREEMPTED", "FINISHED"}
      BY DEF SchedInv, QueueInv, SchedTypeOK
    <3> QED BY <3>1, Queues
  <2> QED BY <2>2, <2>3, <2>4, Queues DEF QueuesPartitionRequests
<1> QED BY <1>1, SchedulerInvariant, PTL

\* Between steps a running request is in its prefill or exactly one token behind:
\* the assertion at the top of the running loop never fails.
THEOREM ComputedCountsAreExact == SchedSpec => []ComputedCountExact
<1>1. SchedInv => ComputedCountExact
  BY DEF SchedInv, CountInv, ComputedCountExact, Settled, Range
<1> QED BY <1>1, SchedulerInvariant, PTL

\* A request that is not running holds no block and counts nothing as computed.
THEOREM OnlyRunningHold == SchedSpec => []WaitingHoldsNothing
<1>1. SchedInv => WaitingHoldsNothing
  BY DEF SchedInv
<1> QED BY <1>1, SchedulerInvariant, PTL

\* The pool keeps its promises under this caller, which composes its operations with
\* queues, preemption and aborts in its own way.
THEOREM PoolUnderScheduler == SchedSpec => []PoolInv
<1>1. SchedInv => PoolInv
  BY DEF SchedInv
<1> QED BY <1>1, SchedulerInvariant, PTL

\* Requests of different adapters or cache salts never hold a common block, however
\* they are scheduled.
THEOREM TenantsAreIsolatedInEngine == SchedSpec => []TenantsIsolated
<1>1. SchedInv => TenantsIsolated
  BY TenantsApart DEF SchedInv
<1> QED BY <1>1, SchedulerInvariant, PTL

------------------------------------------------------------------------------
(* Grammars.                                                                *)

\* An action that leaves the queues, the states and the grammars alone.
LEMMA GrammarStays ==
    ASSUME GrammarInv, UNCHANGED <<requests, status, grammar>>
    PROVE  GrammarInv'
BY DEF GrammarInv, Range

\* The requests that are dropped take their grammar with them.
LEMMA DropKeepsGrammar ==
    ASSUME SchedInv, GrammarInv, NEW S \in SUBSET Requests, DropRequests(S)
    PROVE  GrammarInv'
<1>1. /\ requests' = Filter(requests, Requests \ S)
      /\ \A r \in Requests : /\ status'[r] = IF r \in S THEN "FINISHED" ELSE status[r]
                             /\ grammar'[r] = IF r \in S THEN "none" ELSE grammar[r]
  BY DEF DropRequests
<1>2. Range(requests') \subseteq Range(requests) \ S
  <2>1. Range(Filter(requests, Requests \ S)) = Range(requests) \cap (Requests \ S)
    BY Queues, FilterProperties
  <2> QED BY <2>1, <1>1
<1>3. Range(requests') \subseteq Requests
  BY <1>2, Queues
<1> QED BY <1>1, <1>2, <1>3 DEF GrammarInv

\* A request that gets no status of its own to wait for a grammar has one.
LEMMA StatusKeepsGrammar ==
    ASSUME SchedInv, GrammarInv, NEW r \in Requests, NEW new,
           new # "WAITING_FOR_GRAMMAR",
           r \in Range(requests) \cap Structured => grammar[r] = "ready",
           status' = [status EXCEPT ![r] = new], UNCHANGED <<requests, grammar>>
    PROVE  GrammarInv'
<1>1. \A s \in Requests : status'[s] = IF s = r THEN new ELSE status[s]
  BY DEF SchedInv, SchedTypeOK
<1>2. Range(requests') = Range(requests) /\ grammar' = grammar
  BY DEF Range
<1>3. Range(requests) \subseteq Requests
  BY Queues
<1> QED BY <1>1, <1>2, <1>3 DEF GrammarInv

LEMMA NextGrammar ==
    ASSUME SchedInv, GrammarInv, [SchedNext]_svars
    PROVE  GrammarInv'
<1>1. CASE UNCHANGED svars
  BY <1>1, GrammarStays DEF svars, schedVars, queueVars, grammarVars
<1>2. ASSUME NEW r \in Requests, Abort(r) PROVE GrammarInv'
  BY <1>2, DropKeepsGrammar DEF Abort
<1>3. ASSUME NEW r \in Requests, NEW prompt \in Prompts, Add(r, prompt) PROVE GrammarInv'
  <2>1. /\ r \notin Range(requests)
        /\ requests' = Append(requests, r)
        /\ status' = [status EXCEPT ![r] = IF r \in Structured THEN "WAITING_FOR_GRAMMAR"
                                           ELSE "WAITING"]
        /\ grammar' = [grammar EXCEPT ![r] = IF r \in Structured THEN "compiling" ELSE "none"]
    BY <1>3 DEF Add
  <2>2. Range(requests') = Range(requests) \cup {r}
    BY <2>1, Queues, AppendOne
  <2>3. \A s \in Requests :
          /\ status'[s] = IF s # r THEN status[s]
                          ELSE IF r \in Structured THEN "WAITING_FOR_GRAMMAR" ELSE "WAITING"
          /\ grammar'[s] = IF s # r THEN grammar[s]
                           ELSE IF r \in Structured THEN "compiling" ELSE "none"
    BY <2>1 DEF SchedInv, SchedTypeOK
  <2>4. Range(requests) \subseteq Requests
    BY Queues
  <2> QED BY <2>2, <2>3, <2>4 DEF GrammarInv
<1>4. CASE ResetCache
  BY <1>4, GrammarStays DEF ResetCache, schedVars, queueVars, grammarVars
<1>5. ASSUME NEW r \in Structured, NEW outcome \in {"ready", "failed"},
             CompileGrammar(r, outcome)
      PROVE  GrammarInv'
  <2>1. /\ grammar[r] = "compiling" /\ grammar' = [grammar EXCEPT ![r] = outcome]
        /\ UNCHANGED <<requests, status>>
    BY <1>5 DEF CompileGrammar, queueVars
  <2>2. \A s \in Requests : grammar'[s] = IF s = r THEN outcome ELSE grammar[s]
    BY <2>1 DEF SchedInv, SchedTypeOK
  <2>3. Range(requests') = Range(requests) /\ Range(requests) \subseteq Requests
    BY <2>1, Queues DEF Range
  <2> QED BY <2>1, <2>2, <2>3 DEF GrammarInv
<1>6. CASE StartSchedule \/ ConsiderRunning \/ SkipRunning \/ AllocateRunning \/ EndRunning
  BY <1>6, GrammarStays DEF StartSchedule, ConsiderRunning, SkipRunning, AllocateRunning,
     EndRunning, queueVars, grammarVars
<1>7. CASE Preempt
  <2>1. PICK p \in 1 .. Len(running), v \in Requests : v = running[p] /\ v = Victim
    BY <1>7, PreemptStep
  <2>2. status' = [status EXCEPT ![v] = "PREEMPTED"] /\ UNCHANGED <<requests, grammar>>
    BY <1>7, <2>1 DEF Preempt, grammarVars
  <2>3. status[v] = "RUNNING"
    <3>1. v \in Range(running)
      BY <2>1, RunningList
    <3> QED BY <3>1 DEF SchedInv, QueueInv
  <2> QED BY <2>2, <2>3, StatusKeepsGrammar DEF GrammarInv
<1>8. CASE SkipLora \/ SkipGrammar \/ EndAdmission
  BY <1>8, GrammarStays DEF SkipLora, SkipGrammar, SetAside, EndAdmission, queueVars, grammarVars
<1>9. CASE PromoteGrammar
  <2>1. PICK r \in Requests :
          /\ r = NextWaiting /\ r \in Range(requests)
          /\ status[r] = "WAITING_FOR_GRAMMAR" /\ ~GrammarMissing(r)
          /\ status' = [status EXCEPT ![r] = "WAITING"]
          /\ UNCHANGED <<requests, grammar>>
    <3>1. waiting # <<>>
      BY <1>9 DEF PromoteGrammar, InWaitingLoop
    <3>2. NextWaiting \in Range(waiting)
      BY <3>1, Queues, TailProperties DEF NextWaiting
    <3> QED BY <3>2, <1>9, Queues DEF PromoteGrammar, grammarVars
  <2>2. grammar[r] \in {"none", "compiling", "ready", "failed"}
    BY DEF SchedInv, SchedTypeOK
  <2>3. r \in Structured => grammar[r] = "ready"
    BY <2>1, <2>2 DEF GrammarInv, GrammarMissing
  <2> QED BY <2>1, <2>3, StatusKeepsGrammar
<1>10. CASE AdmitWaiting
  <2>1. PICK r \in Requests :
          /\ status[r] # "WAITING_FOR_GRAMMAR"
          /\ status' = [status EXCEPT ![r] = "RUNNING"]
          /\ UNCHANGED <<requests, grammar>>
    <3>1. waiting # <<>>
      BY <1>10 DEF AdmitWaiting
    <3>2. NextWaiting \in Range(waiting)
      BY <3>1, Queues, TailProperties DEF NextWaiting
    <3> QED BY <3>2, <1>10, Queues DEF AdmitWaiting, Eligible, grammarVars
  <2> QED BY <2>1, StatusKeepsGrammar DEF GrammarInv
<1>11. CASE FinishSchedule
  BY <1>11, GrammarStays DEF FinishSchedule, grammarVars
<1>12. CASE BeginUpdate
  BY <1>12, GrammarStays DEF BeginUpdate, queueVars, grammarVars
<1>13. ASSUME NEW r \in Requests, UpdateSkipped(r) \/ UpdateChunk(r) PROVE GrammarInv'
  BY <1>13, GrammarStays DEF UpdateSkipped, UpdateChunk, queueVars, grammarVars
<1>14. ASSUME NEW r \in Requests, Leave(r) PROVE GrammarInv'
  BY <1>14, DropKeepsGrammar DEF Leave
<1>15. ASSUME NEW r \in Requests, NEW sampled, NEW drafts,
              UpdateContinues(r, sampled, drafts)
       PROVE  GrammarInv'
  BY <1>15, GrammarStays DEF UpdateContinues, queueVars, grammarVars
<1>16. CASE EndUpdate
  <2>1. grammar_compile_error_reqs \cap Range(requests) \in SUBSET Requests
    BY Queues
  <2> QED BY <2>1, <1>16, DropKeepsGrammar DEF EndUpdate
<1> QED BY <1>1, <1>2, <1>3, <1>4, <1>5, <1>6, <1>7, <1>8, <1>9, <1>10, <1>11, <1>12, <1>13,
           <1>14, <1>15, <1>16
        DEF SchedNext, ClientStep, CompileStep, ScheduleStep, UpdateStep, UpdatePooled, UpdateStops

\* A constrained request runs only with its compiled grammar, also when its id was
\* aborted and used again while the first compilation was under way: the worker's
\* answer finds the new request still waiting.
THEOREM RunningRequestsHaveGrammar == SchedSpec => []RunningHasGrammar
<1>1. SchedInit => SchedInv /\ GrammarInv
  <2> SUFFICES ASSUME SchedInit PROVE GrammarInv
    BY InitSched
  <2>1. Range(requests) = {} /\ \A r \in Requests : status[r] = "FINISHED"
    BY DEF SchedInit, Range
  <2> QED BY <2>1 DEF GrammarInv
<1>2. SchedInv /\ GrammarInv /\ [SchedNext]_svars => SchedInv' /\ GrammarInv'
  BY NextSched, NextGrammar
<1>3. SchedInv /\ GrammarInv => RunningHasGrammar
  <2> SUFFICES ASSUME SchedInv, GrammarInv, NEW r \in Structured \cap Range(running)
               PROVE  grammar[r] = "ready"
    BY DEF RunningHasGrammar
  <2>1. r \in Range(requests) /\ status[r] = "RUNNING"
    BY Queues, RunningList DEF SchedInv, QueueInv
  <2> QED BY <2>1 DEF GrammarInv
<1> QED BY <1>1, <1>2, <1>3, PTL DEF SchedSpec

------------------------------------------------------------------------------
(* The budget.                                                              *)

\* The tokens counted by f, one by one.
TokensOf(f) == UNION {{r} \X (1 .. f[r]) : r \in Requests}

\* Giving n tokens to a request that had none adds n tokens.
LEMMA TokensAdded ==
    ASSUME NEW f \in [Requests -> Nat], NEW g \in [Requests -> Nat], NEW r \in Requests,
           NEW n \in Nat, f[r] = 0, \A s \in Requests : g[s] = IF s = r THEN n ELSE f[s]
    PROVE  /\ Cardinality(TokensOf(f)) \in Nat
           /\ Cardinality(TokensOf(g)) = Cardinality(TokensOf(f)) + n
<1>1. IsFiniteSet(TokensOf(f))
  <2> DEFINE T(s) == {s} \X (1 .. f[s])
             h == [s \in Requests |-> T(s)]
             S == {T(s) : s \in Requests}
  <2>1. h \in Surjection(Requests, S)
    BY DEF Surjection
  <2>2. IsFiniteSet(S)
    <3> HIDE DEF h, S
    <3> QED BY <2>1, RequestsAssumption, FS_Surjection
  <2>3. \A s \in Requests : IsFiniteSet(T(s))
    <3> SUFFICES ASSUME NEW s \in Requests PROVE IsFiniteSet(T(s))
      OBVIOUS
    <3>1. 1 \in Int /\ f[s] \in Int
      OBVIOUS
    <3>2. IsFiniteSet({s}) /\ IsFiniteSet(1 .. f[s])
      BY <3>1, FS_Singleton, FS_Interval
    <3> QED BY <3>2, FS_Product
  <2>4. IsFiniteSet(UNION S)
    <3>1. \A t \in S : IsFiniteSet(t)
      BY <2>3
    <3> HIDE DEF S
    <3> QED BY <2>2, <3>1, FS_UNION
  <2> QED BY <2>4 DEF TokensOf
<1>2. PICK new : new = {r} \X (1 .. n)
  OBVIOUS
<1>3. IsFiniteSet(new) /\ Cardinality(new) = n
  <2>1. IsFiniteSet({r}) /\ Cardinality({r}) = 1
    BY FS_Singleton
  <2>2. IsFiniteSet(1 .. n) /\ Cardinality(1 .. n) = n
    BY FS_Interval
  <2>3. IsFiniteSet(new) /\ Cardinality(new) = 1 * n
    BY <1>2, <2>1, <2>2, FS_Product
  <2> QED BY <2>3
<1>4. TokensOf(f) \cap new = {}
  <2> SUFFICES ASSUME NEW t \in TokensOf(f), t \in new PROVE FALSE
    OBVIOUS
  <2>1. PICK s \in Requests : t \in {s} \X (1 .. f[s])
    BY DEF TokensOf
  <2>2. s = r
    BY <2>1, <1>2
  <2> QED BY <2>1, <2>2
<1>5. TokensOf(g) = TokensOf(f) \cup new
  <2>1. \A s \in Requests : s # r => {s} \X (1 .. g[s]) = {s} \X (1 .. f[s])
    OBVIOUS
  <2>2. {r} \X (1 .. g[r]) = new /\ {r} \X (1 .. f[r]) = {}
    BY <1>2
  <2> QED BY <2>1, <2>2 DEF TokensOf
<1>6. Cardinality(TokensOf(f)) \in Nat /\ Cardinality(TokensOf(f) \cap new) = 0
  BY <1>1, <1>4, FS_CardinalityType, FS_EmptySet
<1>7. Cardinality(TokensOf(f) \cup new)
        = Cardinality(TokensOf(f)) + Cardinality(new) - Cardinality(TokensOf(f) \cap new)
  BY <1>1, <1>3, FS_Union
<1> QED BY <1>3, <1>5, <1>6, <1>7

\* What the step has handed out and what it has left.
BudgetSpent == Deciding => step.token_budget + Cardinality(ScheduledTokens) = MaxNumBatchedTokens

\* Tokens move from the budget to a request, or back.
LEMMA BudgetMoves ==
    ASSUME SchedInv, SchedInv', BudgetSpent, Deciding, NEW r \in Requests, NEW n \in Nat,
           \/ /\ step.num_scheduled_tokens[r] = 0
              /\ \A s \in Requests : step'.num_scheduled_tokens[s] =
                                       IF s = r THEN n ELSE step.num_scheduled_tokens[s]
              /\ step'.token_budget + n = step.token_budget
           \/ /\ step.num_scheduled_tokens[r] = n
              /\ \A s \in Requests : step'.num_scheduled_tokens[s] =
                                       IF s = r THEN 0 ELSE step.num_scheduled_tokens[s]
              /\ step'.token_budget = step.token_budget + n
    PROVE  BudgetSpent'
<1>1. PICK f \in [Requests -> Nat], g \in [Requests -> Nat] :
        f = step.num_scheduled_tokens /\ g = step'.num_scheduled_tokens
  BY DEF SchedInv, SchedTypeOK, StepType
<1>2. ScheduledTokens = TokensOf(f) /\ ScheduledTokens' = TokensOf(g)
  BY <1>1 DEF ScheduledTokens, TokensOf
<1>3. step.token_budget \in Nat /\ step'.token_budget \in Nat
  BY DEF SchedInv, SchedTypeOK, StepType
<1>4. step.token_budget + Cardinality(TokensOf(f)) = MaxNumBatchedTokens
  BY <1>2 DEF BudgetSpent
<1>5. CASE /\ f[r] = 0
           /\ \A s \in Requests : g[s] = IF s = r THEN n ELSE f[s]
           /\ step'.token_budget + n = step.token_budget
  <2>1. /\ Cardinality(TokensOf(f)) \in Nat
        /\ Cardinality(TokensOf(g)) = Cardinality(TokensOf(f)) + n
    BY <1>5, TokensAdded
  <2> QED BY <1>2, <1>3, <1>4, <1>5, <2>1 DEF BudgetSpent
<1>6. CASE /\ f[r] = n
           /\ \A s \in Requests : g[s] = IF s = r THEN 0 ELSE f[s]
           /\ step'.token_budget = step.token_budget + n
  <2>1. g[r] = 0 /\ \A s \in Requests : f[s] = IF s = r THEN n ELSE g[s]
    BY <1>6
  <2>2. /\ Cardinality(TokensOf(g)) \in Nat
        /\ Cardinality(TokensOf(f)) = Cardinality(TokensOf(g)) + n
    BY <2>1, TokensAdded
  <2> QED BY <1>2, <1>3, <1>4, <1>6, <2>2 DEF BudgetSpent
<1> QED BY <1>1, <1>5, <1>6

LEMMA AllocateRunningSpends ==
    ASSUME SchedInv, SchedInv', BudgetSpent, AllocateRunning
    PROVE  BudgetSpent'
<1>1. PICK r \in Requests :
        r = CurrentRequest /\ r \notin Scheduled /\ step.num_new_tokens \in 1 .. step.token_budget
  BY CurrentIsRunning DEF AllocateRunning
<1>2. PICK n \in Nat, left \in Nat : n = step.num_new_tokens /\ left = step.token_budget - n
  <2>1. step.num_new_tokens \in Nat /\ step.token_budget \in Nat
    BY StepFields
  <2> QED BY <1>1, <2>1
<1>3. /\ \A s \in Requests : step'.num_scheduled_tokens[s] =
                               IF s = r THEN n ELSE step.num_scheduled_tokens[s]
      /\ step'.token_budget = left
  <2>1. PICK drafts, blocks :
          step' = [step EXCEPT
             !.req_index = @ + 1, !.request = <<>>, !.num_new_tokens = 0, !.token_budget = @ - n,
             !.num_scheduled_tokens[r] = n, !.scheduled_running = @ \cup {r},
             !.num_drafts[r] = drafts, !.new_blocks[r] = blocks]
    BY <1>1, <1>2 DEF AllocateRunning
  <2> QED BY <2>1, <1>2, StepFields DEF StepType
<1>4. left + n = step.token_budget
  BY <1>2, StepFields
<1>5. step.num_scheduled_tokens[r] = 0
  BY <1>1, Counters
<1>6. Deciding
  BY DEF AllocateRunning, Deciding
<1> QED BY <1>3, <1>4, <1>5, <1>6, BudgetMoves

LEMMA PreemptRefunds ==
    ASSUME SchedInv, SchedInv', BudgetSpent, Preempt
    PROVE  BudgetSpent'
<1>1. PICK v \in Requests :
        /\ pc = "allocate"
        /\ \A s \in Requests : step'.num_scheduled_tokens[s] =
                                 IF s = v THEN 0 ELSE step.num_scheduled_tokens[s]
        /\ IF v \in Scheduled
           THEN step'.token_budget = step.token_budget + step.num_scheduled_tokens[v]
           ELSE step'.token_budget = step.token_budget
  BY PreemptStep
<1>2. PICK n \in Nat : n = step.num_scheduled_tokens[v]
  BY Counters
<1>3. step'.token_budget = step.token_budget + n
  BY <1>1, <1>2, Counters
<1>4. Deciding
  BY <1>1 DEF Deciding
<1> QED BY <1>1, <1>2, <1>3, <1>4, BudgetMoves

LEMMA AdmitWaitingSpends ==
    ASSUME SchedInv, SchedInv', BudgetSpent, AdmitWaiting
    PROVE  BudgetSpent'
<1>1. waiting # <<>> /\ pc = "waiting" /\ step.token_budget > 0
  BY DEF AdmitWaiting, Eligible, InWaitingLoop
<1>2. PICK r \in Requests : r = NextWaiting /\ r \in Range(waiting)
  BY <1>1, Queues, TailProperties, InjectiveSeq DEF NextWaiting
<1>3. r \notin Range(running)
  BY <1>2, Queues
<1>4. num_computed_tokens[r] = 0 /\ all_token_ids[r] # <<>>
  BY <1>2, <1>3, Queues DEF SchedInv, WaitingHoldsNothing, QueueInv
<1>5. PICK hit \in ComputedBlocks(r, 0) :
        LET n == Least(NumTokensToPrefill(r, hit), step.token_budget) IN
        step' = [step EXCEPT !.num_scheduled_tokens[r] = n,
                             !.token_budget = @ - n,
                             !.scheduled_new = @ \cup {r},
                             !.new_blocks[r] = req_to_blocks'[r]]
  BY <1>2, <1>4 DEF AdmitWaiting
<1>6. Len(hit) * BlockSize \in Nat /\ Len(hit) * BlockSize < num_tokens(r)
  BY <1>4, HitIsShort DEF SchedInv, num_tokens
<1>7. PICK n \in Nat : /\ n = Least(NumTokensToPrefill(r, hit), step.token_budget)
                       /\ n <= step.token_budget
  BY <1>1, <1>6, Counters, BudgetAssumption DEF Least, NumTokensToPrefill, Chunk
<1>8. /\ \A s \in Requests : step'.num_scheduled_tokens[s] =
                               IF s = r THEN n ELSE step.num_scheduled_tokens[s]
      /\ step'.token_budget = step.token_budget - n
  BY <1>5, <1>7, StepFields DEF StepType
<1>9. step'.token_budget + n = step.token_budget
  BY <1>7, <1>8, StepFields
<1>10. step.num_scheduled_tokens[r] = 0
  <2>1. Deciding
    BY <1>1 DEF Deciding
  <2> QED BY <2>1, <1>3, Counters DEF SchedInv, BatchInv
<1>11. Deciding
  BY <1>1 DEF Deciding
<1> QED BY <1>8, <1>9, <1>10, <1>11, BudgetMoves

LEMMA NextSpent ==
    ASSUME SchedInv, SchedInv', BudgetSpent, [SchedNext]_svars
    PROVE  BudgetSpent'
<1>1. ASSUME step'.token_budget = step.token_budget,
             step'.num_scheduled_tokens = step.num_scheduled_tokens,
             Deciding' => Deciding
      PROVE  BudgetSpent'
  BY <1>1 DEF BudgetSpent, ScheduledTokens
<1>2. CASE UNCHANGED <<step, pc>>
  BY <1>2, <1>1 DEF Deciding
<1>3. CASE UNCHANGED svars
  BY <1>3, <1>2 DEF svars, schedVars
<1>4. CASE ClientStep
  BY <1>4, <1>2 DEF ClientStep, Abort, Add, ResetCache, schedVars
<1>5. CASE CompileStep
  BY <1>5, <1>2 DEF CompileStep, CompileGrammar
<1>6. CASE StartSchedule
  <2>1. /\ step'.token_budget = MaxNumBatchedTokens
        /\ \A r \in Requests : step'.num_scheduled_tokens[r] = 0
    BY <1>6 DEF StartSchedule, NoStep
  <2>2. ScheduledTokens' = {}
    <3>1. \A r \in Requests : {r} \X (1 .. step'.num_scheduled_tokens[r]) = {}
      BY <2>1
    <3> QED BY <3>1 DEF ScheduledTokens
  <2>3. Cardinality({}) = 0
    BY FS_EmptySet
  <2> QED BY <2>1, <2>2, <2>3, BudgetAssumption DEF BudgetSpent
<1>7. CASE ConsiderRunning \/ SkipRunning
  <2>1. pc = "running" /\ Deciding
    BY <1>7 DEF ConsiderRunning, SkipRunning, InRunningLoop, Deciding
  <2>2. /\ step'.token_budget = step.token_budget
        /\ step'.num_scheduled_tokens = step.num_scheduled_tokens
    BY <1>7, StepFields DEF ConsiderRunning, SkipRunning, StepType
  <2> QED BY <2>1, <2>2, <1>1
<1>8. CASE AllocateRunning
  BY <1>8, AllocateRunningSpends
<1>9. CASE Preempt
  BY <1>9, PreemptRefunds
<1>10. CASE EndRunning \/ EndAdmission
  BY <1>10, <1>1 DEF EndRunning, EndAdmission, Deciding
<1>11. CASE SkipLora \/ SkipGrammar \/ PromoteGrammar
  BY <1>11, <1>2 DEF SkipLora, SkipGrammar, PromoteGrammar, SetAside
<1>12. CASE AdmitWaiting
  BY <1>12, AdmitWaitingSpends
<1>13. CASE FinishSchedule \/ UpdateStep
  <2>1. ~Deciding'
    <3>1. FinishSchedule \/ BeginUpdate \/ EndUpdate => ~Deciding'
      BY DEF FinishSchedule, BeginUpdate, EndUpdate, Goto, Deciding
    <3>2. ASSUME NEW r \in Requests, UpdateSkipped(r) \/ UpdateChunk(r) \/ UpdatePooled(r)
          PROVE  ~Deciding'
      BY <3>2 DEF UpdateSkipped, UpdateChunk, UpdatePooled, Sampled, Updating, Leave, Deciding
    <3>3. ASSUME NEW r \in Requests, NEW sampled \in SampledTokens(r),
                 \/ \E drafts \in 0 .. NumSpecTokens : UpdateContinues(r, sampled, drafts)
                 \/ UpdateStops(r, sampled)
          PROVE  ~Deciding'
      BY <3>3 DEF UpdateContinues, UpdateStops, Sampled, Updating, Leave, Deciding
    <3> QED BY <1>13, <3>1, <3>2, <3>3 DEF UpdateStep
  <2> QED BY <2>1 DEF BudgetSpent
<1> QED BY <1>3, <1>4, <1>5, <1>6, <1>7, <1>8, <1>9, <1>10, <1>11, <1>12, <1>13
        DEF SchedNext, ScheduleStep


\* The seats of the batch and the adapters it may mix.
SeatsKept == Len(running) <= MaxNumSeqs /\ Cardinality(ScheduledLoras) <= MaxLoras

LEMMA FewLoras ==
    ASSUME SchedInv
    PROVE  IsFiniteSet(ScheduledLoras) /\ Cardinality(ScheduledLoras) \in Nat
<1> DEFINE S == Range(running)
           h == [r \in S |-> Lora[r]]
           T == {Lora[r] : r \in S}
<1>1. h \in Surjection(S, T)
  BY DEF Surjection
<1>2. IsFiniteSet(S)
  BY RunningList, InjectiveLen
<1>3. IsFiniteSet(T)
  <2> HIDE DEF S, h, T
  <2> QED BY <1>1, <1>2, FS_Surjection
<1>4. ScheduledLoras \in SUBSET T
  BY DEF ScheduledLoras
<1> HIDE DEF T
<1> QED BY <1>3, <1>4, FS_Subset, FS_CardinalityType

\* Nobody joins: nobody's seat is missing.
LEMMA SeatsStay ==
    ASSUME SchedInv, SchedInv', SeatsKept, Range(running') \subseteq Range(running)
    PROVE  SeatsKept'
<1>1. Len(running') <= Len(running)
  <2>1. /\ IsFiniteSet(Range(running)) /\ Cardinality(Range(running)) = Len(running)
        /\ IsFiniteSet(Range(running')) /\ Cardinality(Range(running')) = Len(running')
    <3>1. /\ running \in Seq(Requests) /\ IsInjective(running)
          /\ running' \in Seq(Requests) /\ IsInjective(running')
      BY DEF SchedInv, SchedTypeOK, QueueInv
    <3> QED BY <3>1, InjectiveLen
  <2> QED BY <2>1, FS_Subset
<1>2. Cardinality(ScheduledLoras') <= Cardinality(ScheduledLoras)
  <2>1. ScheduledLoras' \in SUBSET ScheduledLoras
    BY DEF ScheduledLoras
  <2> QED BY <2>1, FewLoras, FS_Subset
<1>3. /\ Len(running) \in Nat /\ Cardinality(ScheduledLoras) \in Nat
      /\ Len(running') \in Nat /\ Cardinality(ScheduledLoras') \in Nat
  <2>1. Cardinality(ScheduledLoras') \in Nat
    <3>1. ScheduledLoras' \in SUBSET ScheduledLoras
      BY DEF ScheduledLoras
    <3> QED BY <3>1, FewLoras, FS_Subset, FS_CardinalityType
  <2>2. running' \in Seq(Requests)
    BY DEF SchedInv, SchedTypeOK
  <2> QED BY <2>1, <2>2, FewLoras, RunningList, LenProperties
<1> QED BY <1>1, <1>2, <1>3, BudgetAssumption DEF SeatsKept

LEMMA AdmitWaitingSeats ==
    ASSUME SchedInv, SeatsKept, AdmitWaiting
    PROVE  SeatsKept'
<1>1. waiting # <<>> /\ Len(running) < MaxNumSeqs
  BY DEF AdmitWaiting, Eligible, InWaitingLoop
<1>2. PICK r \in Requests :
        r = NextWaiting /\ ~NoAdapterSlot(r) /\ running' = Append(running, r)
  BY <1>1, Queues, TailProperties, InjectiveSeq DEF NextWaiting, AdmitWaiting, Eligible
<1>3. /\ Len(running') = Len(running) + 1
      /\ Range(running') = Range(running) \cup {r}
  BY <1>2, RunningList, AppendOne
<1>4. ScheduledLoras' = IF Lora[r] = NoLora THEN ScheduledLoras
                        ELSE ScheduledLoras \cup {Lora[r]}
  BY <1>3 DEF ScheduledLoras
<1>5. Cardinality(ScheduledLoras') <= MaxLoras
  <2>1. CASE Lora[r] = NoLora \/ Lora[r] \in ScheduledLoras
    <3>1. ScheduledLoras' = ScheduledLoras
      BY <2>1, <1>4
    <3> QED BY <3>1 DEF SeatsKept
  <2>2. CASE Lora[r] # NoLora /\ Lora[r] \notin ScheduledLoras
    <3>1. ScheduledLoras' = ScheduledLoras \cup {Lora[r]}
      BY <2>2, <1>4
    <3>2. Cardinality(ScheduledLoras \cup {Lora[r]}) = Cardinality(ScheduledLoras) + 1
      BY <2>2, FewLoras, FS_AddElement
    <3>3. ~(Cardinality(ScheduledLoras) >= MaxLoras)
      BY <2>2, <1>2 DEF NoAdapterSlot
    <3> QED BY <3>1, <3>2, <3>3, FewLoras, BudgetAssumption
  <2> QED BY <2>1, <2>2
<1> QED BY <1>1, <1>3, <1>5, RunningList, BudgetAssumption DEF SeatsKept

LEMMA NextSeats ==
    ASSUME SchedInv, SchedInv', SeatsKept, [SchedNext]_svars
    PROVE  SeatsKept'
<1>1. CASE AdmitWaiting
  BY <1>1, AdmitWaitingSeats
<1>2. CASE UNCHANGED running
  BY <1>2, SeatsStay DEF Range
<1>3. ASSUME NEW r \in Requests, running' = Without(running, r) PROVE SeatsKept'
  <2>1. Range(Without(running, r)) = Range(running) \ {r}
    BY RunningList, WithoutRange
  <2> QED BY <2>1, <1>3, SeatsStay
<1>4. CASE ClientStep
  BY <1>4, <1>2, <1>3 DEF ClientStep, Abort, RemoveFromQueue, Add, ResetCache, schedVars, queueVars
<1>5. CASE Preempt
  <2>1. PICK v \in Requests : v = Victim
    BY <1>5, PreemptStep
  <2> QED BY <1>5, <2>1, <1>3 DEF Preempt
<1>6. ASSUME NEW r \in Requests, Leave(r) PROVE SeatsKept'
  BY <1>6, <1>3 DEF Leave
<1>7. CASE StartSchedule \/ ConsiderRunning \/ SkipRunning \/ AllocateRunning \/ EndRunning
  BY <1>7, <1>2 DEF StartSchedule, ConsiderRunning, SkipRunning, AllocateRunning, EndRunning,
     queueVars
<1>8. CASE SkipLora \/ SkipGrammar \/ PromoteGrammar \/ EndAdmission \/ FinishSchedule
  BY <1>8, <1>2 DEF SkipLora, SkipGrammar, SetAside, PromoteGrammar, EndAdmission,
     FinishSchedule, queueVars
<1>9. CASE BeginUpdate \/ EndUpdate
  BY <1>9, <1>2 DEF BeginUpdate, EndUpdate, queueVars
<1>10. ASSUME NEW r \in Requests, UpdateSkipped(r) \/ UpdateChunk(r) PROVE SeatsKept'
  BY <1>10, <1>2 DEF UpdateSkipped, UpdateChunk, queueVars
<1>11. ASSUME NEW r \in Requests, NEW sampled, NEW drafts, UpdateContinues(r, sampled, drafts)
       PROVE  SeatsKept'
  BY <1>11, <1>2 DEF UpdateContinues, queueVars
<1>12. CASE CompileStep \/ UNCHANGED svars
  BY <1>12, <1>2 DEF CompileStep, CompileGrammar, svars, schedVars, queueVars
<1> QED BY <1>1, <1>4, <1>5, <1>6, <1>7, <1>8, <1>9, <1>10, <1>11, <1>12
        DEF SchedNext, ScheduleStep, UpdateStep, UpdatePooled, UpdateStops

\* Whatever is admitted, preempted in the middle of a step and refunded, what the batch
\* holds and what is left of the budget are the budget; the running list has a seat for
\* everybody and the batch mixes no more adapters than there are slots.
THEOREM BudgetIsConserved == SchedSpec => []BudgetConserved
<1>1. SchedInit => SchedInv /\ BudgetSpent /\ SeatsKept
  <2> SUFFICES ASSUME SchedInit PROVE BudgetSpent /\ SeatsKept
    BY InitSched
  <2>1. ~Deciding /\ Len(running) = 0 /\ Range(running) = {}
    BY EmptySeq DEF SchedInit, Deciding, Range
  <2>2. ScheduledLoras = {}
    BY <2>1 DEF ScheduledLoras
  <2>3. Cardinality({}) = 0
    BY FS_EmptySet
  <2> QED BY <2>1, <2>2, <2>3, BudgetAssumption DEF BudgetSpent, SeatsKept
<1>2. SchedInv /\ BudgetSpent /\ SeatsKept /\ [SchedNext]_svars
        => SchedInv' /\ BudgetSpent' /\ SeatsKept'
  BY NextSched, NextSpent, NextSeats
<1>3. BudgetSpent /\ SeatsKept => BudgetConserved
  BY DEF BudgetSpent, SeatsKept, BudgetConserved
<1> QED BY <1>1, <1>2, <1>3, SchedulerInvariant, PTL DEF SchedSpec


------------------------------------------------------------------------------
(* The order of urgency.                                                    *)

\* Who has left changes nothing between those who stay.
LEMMA UrgencyFiltered ==
    ASSUME NEW arrived \in Seq(Requests), IsInjective(arrived), NEW S,
           NEW r \in Range(arrived) \cap S, NEW s \in Range(arrived) \cap S,
           Precedes(r, s, arrived)
    PROVE  Precedes(r, s, Filter(arrived, S))
<1>1. PICK f : f = Filter(arrived, S)
  OBVIOUS
<1>2. /\ f \in Seq(Requests) /\ IsInjective(f) /\ Range(f) = Range(arrived) \cap S
      /\ \A m, n \in DOMAIN f : m < n =>
           \E i, j \in DOMAIN arrived : i < j /\ arrived[i] = f[m] /\ arrived[j] = f[n]
  BY <1>1, FilterProperties
<1>3. PICK m \in 1 .. Len(f), n \in 1 .. Len(f) :
        m = Position(f, r) /\ f[m] = r /\ n = Position(f, s) /\ f[n] = s
  BY <1>2, PositionProperties
<1>4. PICK i \in 1 .. Len(arrived), j \in 1 .. Len(arrived) :
        i = Position(arrived, r) /\ arrived[i] = r /\ j = Position(arrived, s) /\ arrived[j] = s
  BY PositionProperties
<1>5. Len(f) \in Nat /\ DOMAIN f = 1 .. Len(f)
      /\ Len(arrived) \in Nat /\ DOMAIN arrived = 1 .. Len(arrived)
  BY <1>2, LenProperties
<1>6. CASE Priority[r] < Priority[s]
  BY <1>6, <1>1 DEF Precedes
<1>7. CASE Priority[r] = Priority[s] /\ i < j
  <2>1. m # n
    BY <1>3, <1>4, <1>7
  <2>2. ~(n < m)
    <3> SUFFICES ASSUME n < m PROVE FALSE
      OBVIOUS
    <3>1. PICK k \in 1 .. Len(arrived), l \in 1 .. Len(arrived) :
            k < l /\ arrived[k] = s /\ arrived[l] = r
      BY <1>2, <1>3, <1>5
    <3>2. k = j /\ l = i
      BY <3>1, <1>4, InjectiveSeq
    <3> QED BY <3>1, <3>2, <1>7, <1>5
  <2>3. m < n
    BY <2>1, <2>2, <1>5
  <2> QED BY <2>3, <1>1, <1>3, <1>7 DEF Precedes
<1>8. Priority[r] < Priority[s] \/ (Priority[r] = Priority[s] /\ i < j)
  BY <1>4 DEF Precedes
<1> QED BY <1>6, <1>7, <1>8

LEMMA OrderFiltered ==
    ASSUME NEW arrived \in Seq(Requests), IsInjective(arrived), NEW S,
           NEW q \in Seq(Requests), Range(q) \subseteq Range(arrived),
           InOrderOfUrgency(q, arrived)
    PROVE  /\ InOrderOfUrgency(Filter(q, S), Filter(arrived, S))
           /\ Range(q) \subseteq S => InOrderOfUrgency(q, Filter(arrived, S))
<1>1. DOMAIN q = 1 .. Len(q) /\ \A i \in DOMAIN q : q[i] \in Range(arrived)
  BY LenProperties DEF Range
<1>2. ASSUME NEW w, NEW i \in DOMAIN w, NEW j \in DOMAIN w, w[i] \in S, w[j] \in S,
             NEW k \in DOMAIN q, NEW l \in DOMAIN q, k < l, q[k] = w[i], q[l] = w[j]
      PROVE  Precedes(w[i], w[j], Filter(arrived, S))
  <2>1. Precedes(w[i], w[j], arrived)
    BY <1>2 DEF InOrderOfUrgency
  <2>2. w[i] \in Range(arrived) \cap S /\ w[j] \in Range(arrived) \cap S
    BY <1>1, <1>2
  <2> QED BY <2>1, <2>2, UrgencyFiltered
<1>3. InOrderOfUrgency(Filter(q, S), Filter(arrived, S))
  <2>1. PICK w : w = Filter(q, S)
    OBVIOUS
  <2>2. /\ Range(w) = Range(q) \cap S
        /\ \A m, n \in DOMAIN w : m < n =>
             \E i, j \in DOMAIN q : i < j /\ q[i] = w[m] /\ q[j] = w[n]
    BY <2>1, FilterProperties
  <2>3. \A m \in DOMAIN w : w[m] \in S
    BY <2>2 DEF Range
  <2> SUFFICES ASSUME NEW m \in DOMAIN w, NEW n \in DOMAIN w, m < n
               PROVE  Precedes(w[m], w[n], Filter(arrived, S))
    BY <2>1 DEF InOrderOfUrgency
  <2>4. PICK i \in DOMAIN q, j \in DOMAIN q : i < j /\ q[i] = w[m] /\ q[j] = w[n]
    BY <2>2
  <2> QED BY <2>3, <2>4, <1>2
<1>4. ASSUME Range(q) \subseteq S PROVE InOrderOfUrgency(q, Filter(arrived, S))
  <2> SUFFICES ASSUME NEW i \in DOMAIN q, NEW j \in DOMAIN q, i < j
               PROVE  Precedes(q[i], q[j], Filter(arrived, S))
    BY DEF InOrderOfUrgency
  <2>1. q[i] \in S /\ q[j] \in S
    BY <1>4 DEF Range
  <2> QED BY <2>1, <1>2
<1> QED BY <1>3, <1>4

\* Taking the head leaves the rest in order.
LEMMA OrderOfTail ==
    ASSUME SchedInv, UrgencyOrderKept, waiting # <<>>, waiting' = Tail(waiting),
           UNCHANGED requests
    PROVE  UrgencyOrderKept'
<1> SUFFICES ASSUME Policy = "priority", NEW i \in DOMAIN Tail(waiting),
                    NEW j \in DOMAIN Tail(waiting), i < j
             PROVE  Precedes(Tail(waiting)[i], Tail(waiting)[j], requests)
  BY DEF UrgencyOrderKept, InOrderOfUrgency
<1>1. /\ Tail(waiting) \in Seq(Requests) /\ Len(Tail(waiting)) = Len(waiting) - 1
      /\ \A n \in 1 .. Len(waiting) - 1 : Tail(waiting)[n] = waiting[n + 1]
  BY Queues, TailProperties
<1>2. /\ Len(waiting) \in Nat /\ DOMAIN waiting = 1 .. Len(waiting)
      /\ DOMAIN Tail(waiting) = 1 .. Len(waiting) - 1
  BY <1>1, Queues, LenProperties
<1>3. /\ Tail(waiting)[i] = waiting[i + 1] /\ Tail(waiting)[j] = waiting[j + 1]
      /\ i + 1 \in DOMAIN waiting /\ j + 1 \in DOMAIN waiting /\ i + 1 < j + 1
  BY <1>1, <1>2
<1>4. \A k, l \in DOMAIN waiting : k < l => Precedes(waiting[k], waiting[l], requests)
  BY DEF UrgencyOrderKept, InOrderOfUrgency
<1> QED BY <1>3, <1>4

\* A heap that is rebuilt is in order.
LEMMA OrderOfPrepended ==
    ASSUME SchedInv, NEW front \in Seq(Requests), IsInjective(front),
           Range(front) \cap Range(waiting) = {}, Range(front) \subseteq Range(requests),
           waiting' = PrependRequests(waiting, front, requests), UNCHANGED requests
    PROVE  UrgencyOrderKept'
<1>1. Range(waiting) \cup Range(front) \subseteq Range(requests)
  BY Queues
<1>2. Policy = "priority"
        => InOrderOfUrgency(PrependRequests(waiting, front, requests), requests)
  BY <1>1, Queues, PrependRequestsProperties
<1> QED BY <1>2 DEF UrgencyOrderKept, InOrderOfUrgency

\* Requests leave, and their places in the queue with them.
LEMMA OrderOfDropped ==
    ASSUME SchedInv, UrgencyOrderKept, NEW S \in SUBSET Requests,
           requests' = Filter(requests, Requests \ S),
           \/ waiting' = Filter(waiting, Requests \ S)
           \/ waiting' = waiting /\ Range(waiting) \cap S = {}
    PROVE  UrgencyOrderKept'
<1> SUFFICES ASSUME Policy = "priority" PROVE InOrderOfUrgency(waiting, requests)'
  BY DEF UrgencyOrderKept
<1>1. /\ waiting \in Seq(Requests) /\ Range(waiting) \subseteq Range(requests)
      /\ requests \in Seq(Requests) /\ IsInjective(requests)
      /\ Range(waiting) \subseteq Requests
  BY Queues
<1>2. InOrderOfUrgency(waiting, requests)
  BY DEF UrgencyOrderKept
<1>3. /\ InOrderOfUrgency(Filter(waiting, Requests \ S), Filter(requests, Requests \ S))
      /\ Range(waiting) \subseteq Requests \ S
           => InOrderOfUrgency(waiting, Filter(requests, Requests \ S))
  BY <1>1, <1>2, OrderFiltered
<1> QED BY <1>1, <1>3 DEF InOrderOfUrgency

LEMMA NextUrgency ==
    ASSUME SchedInv, UrgencyOrderKept, [SchedNext]_svars
    PROVE  UrgencyOrderKept'
<1>1. CASE UNCHANGED <<waiting, requests>>
  BY <1>1 DEF UrgencyOrderKept, InOrderOfUrgency
<1>2. ASSUME NEW r \in Requests, NEW prompt \in Prompts, Add(r, prompt)
      PROVE  UrgencyOrderKept'
  <2>1. /\ r \notin Range(requests) /\ requests' = Append(requests, r)
        /\ waiting' = AddRequest(waiting, r, Append(requests, r))
    BY <1>2 DEF Add
  <2>2. /\ Append(requests, r) \in Seq(Requests) /\ IsInjective(Append(requests, r))
        /\ Range(Append(requests, r)) = Range(requests) \cup {r}
    BY <2>1, Queues, AppendOne
  <2>3. r \notin Range(waiting) /\ Range(waiting) \cup {r} \subseteq Range(Append(requests, r))
    BY <2>1, <2>2, Queues
  <2>4. Policy = "priority"
          => InOrderOfUrgency(AddRequest(waiting, r, Append(requests, r)), Append(requests, r))
    BY <2>2, <2>3, Queues, AddRequestProperties
  <2> QED BY <2>1, <2>4 DEF UrgencyOrderKept, InOrderOfUrgency
<1>3. ASSUME NEW r \in Requests, Abort(r) PROVE UrgencyOrderKept'
  <2>1. /\ requests' = Filter(requests, Requests \ {r})
        /\ \/ status[r] = "RUNNING" /\ waiting' = waiting
           \/ waiting' = Filter(waiting, Requests \ {r})
    BY <1>3 DEF Abort, DropRequests, RemoveFromQueue, Without
  <2>2. status[r] = "RUNNING" => Range(waiting) \cap {r} = {}
    <3>1. status[r] = "RUNNING" => r \in Range(running)
      BY DEF SchedInv, QueueInv
    <3> QED BY <3>1, Queues
  <2> QED BY <2>1, <2>2, OrderOfDropped
<1>4. ASSUME NEW r \in Requests, Updating(r), Leave(r) PROVE UrgencyOrderKept'
  <2>1. requests' = Filter(requests, Requests \ {r}) /\ waiting' = waiting
    BY <1>4 DEF Leave, DropRequests
  <2>2. r \in Range(running)
    BY <1>4, TurnOfRunning DEF Updating
  <2>3. Range(waiting) \cap {r} = {}
    BY <2>2, Queues
  <2> QED BY <2>1, <2>3, OrderOfDropped
<1>5. CASE EndUpdate
  <2>1. PICK S \in SUBSET Requests : S = grammar_compile_error_reqs \cap Range(requests)
    BY Queues
  <2>2. requests' = Filter(requests, Requests \ S) /\ waiting' = Filter(waiting, Requests \ S)
    BY <1>5, <2>1 DEF EndUpdate, DropRequests
  <2> QED BY <2>2, OrderOfDropped
<1>6. CASE Preempt
  <2>1. PICK v \in Range(running) : v = Victim
    <3>1. PICK p \in 1 .. Len(running) : running[p] = Victim
      BY <1>6, PreemptStep
    <3> QED BY <3>1, RunningList
  <2>2. waiting' = PrependRequests(waiting, <<v>>, requests) /\ UNCHANGED requests
    BY <1>6, <2>1 DEF Preempt
  <2>3. /\ v \in Requests /\ <<v>> \in Seq(Requests) /\ IsInjective(<<v>>) /\ Range(<<v>>) = {v}
    BY <2>1, RunningList DEF IsInjective, Range
  <2>4. Range(<<v>>) \cap Range(waiting) = {} /\ Range(<<v>>) \subseteq Range(requests)
    BY <2>1, <2>3, Queues
  <2> QED BY <2>2, <2>3, <2>4, OrderOfPrepended
<1>7. CASE FinishSchedule
  <2>1. waiting' = PrependRequests(waiting, skipped_waiting, requests) /\ UNCHANGED requests
    BY <1>7 DEF FinishSchedule, RestoredWaiting
  <2>2. /\ skipped_waiting \in Seq(Requests) /\ IsInjective(skipped_waiting)
        /\ Range(skipped_waiting) \cap Range(waiting) = {}
        /\ Range(skipped_waiting) \subseteq Range(requests)
    BY Queues
  <2> QED BY <2>1, <2>2, OrderOfPrepended
<1>8. CASE SkipLora \/ SkipGrammar \/ AdmitWaiting
  <2>1. waiting # <<>> /\ waiting' = Tail(waiting) /\ UNCHANGED requests
    BY <1>8 DEF SkipLora, SkipGrammar, SetAside, AdmitWaiting, InWaitingLoop
  <2> QED BY <2>1, OrderOfTail
<1>9. CASE StartSchedule \/ ConsiderRunning \/ SkipRunning \/ AllocateRunning \/ EndRunning
  BY <1>9, <1>1 DEF StartSchedule, ConsiderRunning, SkipRunning, AllocateRunning, EndRunning,
     queueVars
<1>10. CASE PromoteGrammar \/ EndAdmission \/ BeginUpdate
  BY <1>10, <1>1 DEF PromoteGrammar, EndAdmission, BeginUpdate, queueVars
<1>11. ASSUME NEW r \in Requests, UpdateSkipped(r) \/ UpdateChunk(r) PROVE UrgencyOrderKept'
  BY <1>11, <1>1 DEF UpdateSkipped, UpdateChunk, queueVars
<1>12. ASSUME NEW r \in Requests, NEW sampled, NEW drafts, UpdateContinues(r, sampled, drafts)
       PROVE  UrgencyOrderKept'
  BY <1>12, <1>1 DEF UpdateContinues, queueVars
<1>13. CASE CompileStep \/ ResetCache \/ UNCHANGED svars
  BY <1>13, <1>1 DEF CompileStep, CompileGrammar, ResetCache, svars, schedVars, queueVars
<1> QED BY <1>2, <1>3, <1>4, <1>5, <1>6, <1>7, <1>8, <1>9, <1>10, <1>11, <1>12, <1>13
        DEF SchedNext, ClientStep, ScheduleStep, UpdateStep, UpdatePooled, UpdateStops, Sampled

\* The waiting heap is in order of urgency at every step, through preemptions, set-asides
\* and removals from its middle: whoever is admitted next is the most urgent.
THEOREM UrgencyOrderIsKept == SchedSpec => []UrgencyOrderKept
<1>1. SchedInit => SchedInv /\ UrgencyOrderKept
  <2> SUFFICES ASSUME SchedInit PROVE UrgencyOrderKept
    BY InitSched
  <2> QED BY EmptySeq DEF SchedInit, UrgencyOrderKept, InOrderOfUrgency
<1>2. SchedInv /\ UrgencyOrderKept /\ [SchedNext]_svars => SchedInv' /\ UrgencyOrderKept'
  BY NextSched, NextUrgency
<1> QED BY <1>1, <1>2, PTL DEF SchedSpec


------------------------------------------------------------------------------
(* The order of arrival.                                                    *)

\* Nobody can be set aside: no adapters to wait for, no grammars.
NobodySetAside == Policy = "fcfs" /\ Structured = {} /\ \A r \in Requests : Lora[r] = NoLora

InLine ==
    /\ skipped_waiting = <<>> /\ grammar_compile_error_reqs = {}
    /\ running \o waiting = requests

\* Somebody leaves the line, wherever they stand in it.
LEMMA LineWithout ==
    ASSUME SchedInv, running \o waiting = requests, NEW r \in Requests,
           requests' = Filter(requests, Requests \ {r}),
           \/ r \in Range(running) /\ running' = Without(running, r) /\ waiting' = waiting
           \/ r \in Range(waiting) /\ running' = running /\ waiting' = Without(waiting, r)
    PROVE  running' \o waiting' = requests'
<1>1. /\ running \in Seq(Requests) /\ IsInjective(running)
      /\ waiting \in Seq(Requests) /\ IsInjective(waiting)
      /\ IsInjective(running \o waiting)
      /\ Range(running) = {running[i] : i \in 1 .. Len(running)}
      /\ Range(waiting) = {waiting[i] : i \in 1 .. Len(waiting)}
  <2>1. IsInjective(running \o waiting)
    BY Queues
  <2> QED BY <2>1, Queues, RunningList, InjectiveSeq
<1>2. requests' = Without(running \o waiting, r)
  BY DEF Without
<1>3. CASE r \in Range(running) /\ running' = Without(running, r) /\ waiting' = waiting
  <2>1. PICK p \in 1 .. Len(running) : running[p] = r
    BY <1>1, <1>3
  <2>2. Without(running, running[p]) \o waiting = Without(running \o waiting, running[p])
    BY <1>1, JoinedWithout
  <2> QED BY <1>2, <1>3, <2>1, <2>2
<1>4. CASE r \in Range(waiting) /\ running' = running /\ waiting' = Without(waiting, r)
  <2>1. PICK p \in 1 .. Len(waiting) : waiting[p] = r
    BY <1>1, <1>4
  <2>2. running \o Without(waiting, waiting[p]) = Without(running \o waiting, waiting[p])
    BY <1>1, JoinedWithout
  <2> QED BY <1>2, <1>4, <2>1, <2>2
<1> QED BY <1>3, <1>4

LEMMA NextInLine ==
    ASSUME NobodySetAside, SchedInv, GrammarInv, InLine, [SchedNext]_svars
    PROVE  InLine'
<1> USE DEF InLine
<1>1. CASE UNCHANGED <<skipped_waiting, grammar_compile_error_reqs, running, waiting, requests>>
  BY <1>1
<1>2. ASSUME NEW r \in Requests, NEW prompt \in Prompts, Add(r, prompt) PROVE InLine'
  <2>1. /\ requests' = Append(requests, r)
        /\ waiting' = Append(waiting, r)
        /\ UNCHANGED <<skipped_waiting, grammar_compile_error_reqs, running>>
    BY <1>2 DEF Add, AddRequest, NobodySetAside
  <2>2. running \o Append(waiting, r) = Append(running \o waiting, r)
    <3>0. <<r>> \in Seq(Requests)
      OBVIOUS
    <3>1. PICK one \in Seq(Requests), ran \in Seq(Requests), wait \in Seq(Requests) :
            one = <<r>> /\ ran = running /\ wait = waiting
      BY <3>0, Queues, RunningList
    <3>2. Append(waiting, r) = waiting \o one
      <4>1. Append(wait, r) = wait \o <<r>>
        BY AppendIsConcat
      <4> QED BY <3>1, <4>1
    <3>3. running \o (waiting \o one) = (running \o waiting) \o one
      <4>1. (ran \o wait) \o one = ran \o (wait \o one)
        BY ConcatAssociative
      <4> QED BY <3>1, <4>1
    <3> QED BY <3>2, <3>3
  <2> QED BY <2>1, <2>2
<1>3. ASSUME NEW r \in Requests, Abort(r) PROVE InLine'
  <2>1. /\ requests' = Filter(requests, Requests \ {r}) /\ r \in Range(requests)
        /\ IF status[r] = "RUNNING"
           THEN running' = Without(running, r) /\ waiting' = waiting
           ELSE waiting' = Without(waiting, r) /\ running' = running
        /\ UNCHANGED <<skipped_waiting, grammar_compile_error_reqs>>
    BY <1>3 DEF Abort, DropRequests, RemoveFromQueue
  <2>2. /\ status[r] = "RUNNING" <=> r \in Range(running)
        /\ status[r] # "RUNNING" => r \in Range(waiting)
    <3>1. status[r] = "RUNNING" <=> r \in Range(running)
      BY DEF SchedInv, QueueInv
    <3>2. Range(skipped_waiting) = {}
      BY DEF Range
    <3> QED BY <2>1, <3>1, <3>2, Queues
  <2>3. running' \o waiting' = requests'
    BY <2>1, <2>2, LineWithout
  <2> QED BY <2>1, <2>3
<1>4. ASSUME NEW r \in Requests, Updating(r), Leave(r) PROVE InLine'
  <2>1. /\ requests' = Filter(requests, Requests \ {r})
        /\ running' = Without(running, r) /\ waiting' = waiting
        /\ UNCHANGED <<skipped_waiting, grammar_compile_error_reqs>>
    BY <1>4 DEF Leave, DropRequests
  <2>2. r \in Range(running)
    BY <1>4, TurnOfRunning DEF Updating
  <2>3. running' \o waiting' = requests'
    BY <2>1, <2>2, LineWithout
  <2> QED BY <2>1, <2>3
<1>5. CASE EndUpdate
  <2>1. /\ requests' = Filter(requests, Requests \ {}) /\ waiting' = Filter(waiting, Requests \ {})
        /\ UNCHANGED <<skipped_waiting, running>> /\ grammar_compile_error_reqs' = {}
    BY <1>5 DEF EndUpdate, DropRequests
  <2>2. Filter(requests, Requests) = requests /\ Filter(waiting, Requests) = waiting
    BY Queues, WithoutNobody
  <2> QED BY <2>1, <2>2
<1>6. CASE Preempt
  <2>1. PICK p \in 1 .. Len(running) : running[p] = Victim /\ p = Len(running)
    BY <1>6, PreemptStep DEF NobodySetAside
  <2>2. /\ running' = Without(running, running[Len(running)])
        /\ waiting' = <<running[Len(running)]>> \o waiting
        /\ UNCHANGED <<skipped_waiting, grammar_compile_error_reqs, requests>>
    BY <1>6, <2>1 DEF Preempt, PrependRequests, NobodySetAside, grammarVars
  <2>3. running # <<>>
    BY <2>1, RunningList
  <2>4. Without(running, running[Len(running)]) \o (<<running[Len(running)]>> \o waiting)
          = running \o waiting
    BY <2>3, RunningList, Queues, JoinedBorder
  <2> QED BY <2>2, <2>4
<1>7. CASE SkipLora
  BY <1>7, Queues, TailProperties DEF SkipLora, NoAdapterSlot, NobodySetAside, InWaitingLoop, NextWaiting
<1>8. CASE SkipGrammar
  <2>1. waiting # <<>> /\ status[NextWaiting] = "WAITING_FOR_GRAMMAR"
    BY <1>8 DEF SkipGrammar, InWaitingLoop
  <2>2. NextWaiting \in Requests
    BY <2>1, Queues, TailProperties DEF NextWaiting
  <2> QED BY <2>1, <2>2 DEF GrammarInv, NobodySetAside
<1>9. CASE AdmitWaiting
  <2>1. /\ waiting # <<>> /\ waiting' = Tail(waiting) /\ running' = Append(running, waiting[1])
        /\ UNCHANGED <<skipped_waiting, grammar_compile_error_reqs, requests>>
    BY <1>9 DEF AdmitWaiting, NextWaiting, grammarVars
  <2>2. Append(running, waiting[1]) \o Tail(waiting) = running \o waiting
    BY <2>1, RunningList, Queues, JoinedBorder
  <2> QED BY <2>1, <2>2
<1>10. CASE FinishSchedule
  <2>1. /\ waiting' = <<>> \o waiting /\ skipped_waiting' = <<>>
        /\ UNCHANGED <<grammar_compile_error_reqs, running, requests>>
    BY <1>10 DEF FinishSchedule, RestoredWaiting, PrependRequests, NobodySetAside, grammarVars
  <2>2. <<>> \o waiting = waiting
    BY Queues, ConcatEmptySeq
  <2> QED BY <2>1, <2>2
<1>11. CASE StartSchedule \/ ConsiderRunning \/ SkipRunning \/ AllocateRunning \/ EndRunning
  BY <1>11, <1>1 DEF StartSchedule, ConsiderRunning, SkipRunning, AllocateRunning, EndRunning,
     queueVars, grammarVars
<1>12. CASE PromoteGrammar \/ EndAdmission \/ BeginUpdate
  BY <1>12, <1>1 DEF PromoteGrammar, EndAdmission, BeginUpdate, queueVars, grammarVars
<1>13. ASSUME NEW r \in Requests, UpdateSkipped(r) \/ UpdateChunk(r) PROVE InLine'
  BY <1>13, <1>1 DEF UpdateSkipped, UpdateChunk, queueVars, grammarVars
<1>14. ASSUME NEW r \in Requests, NEW sampled, NEW drafts, UpdateContinues(r, sampled, drafts)
       PROVE  InLine'
  BY <1>14, <1>1 DEF UpdateContinues, queueVars, grammarVars
<1>15. CASE CompileStep \/ ResetCache \/ UNCHANGED svars
  BY <1>15, <1>1 DEF CompileStep, CompileGrammar, ResetCache, svars, schedVars, queueVars, grammarVars
<1> QED BY <1>2, <1>3, <1>4, <1>5, <1>6, <1>7, <1>8, <1>9, <1>10, <1>11, <1>12, <1>13, <1>14,
           <1>15
        DEF SchedNext, ClientStep, ScheduleStep, UpdateStep, UpdatePooled, UpdateStops, Sampled

\* First come, first served: where nothing sets a request aside, whoever runs came before
\* whoever waits, in order, through preemptions, aborts and completions.
THEOREM ArrivalOrderIsKept == SchedSpec => []ArrivalOrderKept
<1>1. CASE NobodySetAside
  <2>1. SchedInit => SchedInv /\ GrammarInv /\ InLine
    <3> SUFFICES ASSUME SchedInit PROVE GrammarInv /\ InLine
      BY InitSched
    <3>1. Range(requests) = {} /\ \A r \in Requests : status[r] = "FINISHED"
      BY DEF SchedInit, Range
    <3>2. <<>> \o <<>> = <<>>
      BY EmptySeq, ConcatEmptySeq
    <3> QED BY <3>1, <3>2 DEF GrammarInv, InLine, SchedInit
  <2>2. SchedInv /\ GrammarInv /\ InLine /\ [SchedNext]_svars
          => SchedInv' /\ GrammarInv' /\ InLine'
    BY <1>1, NextSched, NextGrammar, NextInLine
  <2>3. SchedInv /\ InLine => ArrivalOrderKept
    <3> SUFFICES ASSUME SchedInv, InLine
                 PROVE  running \o skipped_waiting \o waiting = requests
      BY DEF ArrivalOrderKept
    <3>1. running \o <<>> = running
      BY RunningList, ConcatEmptySeq
    <3> QED BY <3>1 DEF InLine
  <2> QED BY <2>1, <2>2, <2>3, PTL DEF SchedSpec
<1>2. CASE ~NobodySetAside
  <2>1. ArrivalOrderKept
    BY <1>2 DEF ArrivalOrderKept, NobodySetAside
  <2> QED BY <1>2, <2>1, PTL
<1> QED BY <1>1, <1>2

==============================================================================
