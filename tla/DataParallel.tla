---------------------------- MODULE DataParallel -----------------------------
(***************************************************************************)
(* The router in front of several engine replicas (DPInprocClient in        *)
(* v1/engine/dp_client.py), as operators on its state.  A request lives in  *)
(* one replica; the router remembers which, and counts what it has in       *)
(* flight at each.  Replicas run under the virtual clock only, so that a    *)
(* round over all of them suspends nowhere.                                 *)
(***************************************************************************)
EXTENDS OutputProcessor, Integers

CONSTANT Replicas     \* data_parallel_size

ASSUME ReplicasAssumption == Replicas \in Nat \ {0}

\* The replicas, scanned in this order.
Ranks == 0 .. (Replicas - 1)

NoRank == -1

NewRouter ==
    [request_to_engine |-> [e \in EngineIds |-> NoRank],
     engine_inflight   |-> [k \in Ranks |-> 0],
     placed            |-> [e \in EngineIds |-> NoRank], \* the replica whose scheduler has it
     cleaning          |-> {},                           \* whose finished_req_ids are not empty
     passes            |-> [k \in Ranks |-> 0]]          \* forward passes ahead of the slowest

PlacedAt(rt, k) == {e \in EngineIds : rt.placed[e] = k}
Working(rt) == {k \in Ranks : PlacedAt(rt, k) # {} \/ k \in rt.cleaning}

\* get_core_engine_for_request: the first replica of the least score.  The score is the
\* load, and a queue under KV pressure adds up to three times its length: k can be
\* chosen when it is, with the others at their worst.
MayServe(inflight, held, k) ==
    LET load(i) == Max({inflight[i], held[i]})
    IN  \A j \in Ranks \ {k} :
          IF j < k THEN load(k) < load(j) + 3 * held[j] ELSE load(k) <= load(j) + 3 * held[j]

\* add_request, for the children of a call one after the other.
Routings(rt, es) ==
    LET s == SetToSeq(es)
        more(to, i, k) == Cardinality({j \in 1..(i - 1) : to[s[j]] = k})
    IN  {to \in [es -> Ranks] : \A i \in DOMAIN s :
            MayServe([k \in Ranks |-> rt.engine_inflight[k] + more(to, i, k)],
                     [k \in Ranks |-> Cardinality(PlacedAt(rt, k)) + more(to, i, k)],
                     to[s[i]])}
Routed(rt, to) ==
    [rt EXCEPT
       !.request_to_engine = [e \in EngineIds |-> IF e \in DOMAIN to THEN to[e] ELSE @[e]],
       !.placed            = [e \in EngineIds |-> IF e \in DOMAIN to THEN to[e] ELSE @[e]],
       !.engine_inflight   =
           [k \in Ranks |-> @[k] + Cardinality({e \in DOMAIN to : to[e] = k})]]

\* Mutant: the request is forgotten and its place in the count is not.
ReleasedUncounted(rt, es) ==
    [rt EXCEPT !.request_to_engine = [e \in EngineIds |-> IF e \in es THEN NoRank ELSE @[e]]]

\* _release.
Released(rt, es) ==
    [rt EXCEPT
       !.request_to_engine = [e \in EngineIds |-> IF e \in es THEN NoRank ELSE @[e]],
       !.engine_inflight   =
           [k \in Ranks |->
               Max({0, @[k] - Cardinality({e \in es : rt.request_to_engine[e] = k})})]]

Unplaced(rt, es) == [rt EXCEPT !.placed = [e \in EngineIds |-> IF e \in es THEN NoRank ELSE @[e]]]

\* abort_requests reaches the replica the router remembers; what that one holds goes.
Reached(rt, es) ==
    {e \in es : rt.request_to_engine[e] # NoRank /\ rt.placed[e] = rt.request_to_engine[e]}
AbortedAt(rt, es) ==
    LET gone == Reached(rt, es)
    IN  [Unplaced(Released(rt, es), gone) EXCEPT !.cleaning = @ \cup {rt.placed[e] : e \in gone}]

\* Who runs the device in a round: a replica that has requests; in lockstep one without
\* work, too, with a dummy batch.  A step that only clears finished ids runs nothing.
RunsDevice(rt, lockstep, k) == PlacedAt(rt, k) # {} \/ (lockstep /\ k \notin rt.cleaning)
Ahead(passes) == [k \in Ranks |-> passes[k] - Min({passes[j] : j \in Ranks})]

\* get_output, _lockstep_round and _merge, the replicas of ks having stepped, with the
\* requests of ending finished.
Stepped(rt, lockstep, ks, ending) ==
    [Unplaced(Released(rt, ending), ending) EXCEPT
       !.cleaning = (@ \ ks) \cup {rt.placed[e] : e \in ending},
       !.passes   = IF ~lockstep THEN @
                    ELSE Ahead([k \in Ranks |->
                            @[k] + (IF k \in ks /\ RunsDevice(rt, lockstep, k) THEN 1 ELSE 0)])]

==============================================================================
