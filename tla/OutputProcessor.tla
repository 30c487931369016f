--------------------------- MODULE OutputProcessor ---------------------------
(***************************************************************************)
(* The front end's bookkeeping of requests (v1/engine/output_processor.py)  *)
(* and the fan-out of one client request into n engine requests             *)
(* (v1/engine/parallel_sampling.py), as operators on the processor's state. *)
(*                                                                         *)
(* A call is one generate(); several calls may use one client id.  An       *)
(* engine request id is a pair <<client id, index>>, with index 0 for a     *)
(* call that is not fanned out.  What an output contains is abstracted to   *)
(* the call whose engine request produced it.                               *)
(***************************************************************************)
EXTENDS Naturals, FiniteSets, SequencesExt

CONSTANTS
    Calls,
    NoCall,
    Ids,        \* client request ids
    IdOf,       \* the id each call uses
    Fanout,     \* sampling_params.n of each call
    Streaming   \* the calls with output_kind DELTA

ASSUME CallsAssumption ==
    /\ IsFiniteSet(Calls)
    /\ IdOf \in [Calls -> Ids]
    /\ Fanout \in [Calls -> Nat \ {0}]
    /\ Streaming \subseteq Calls
    /\ NoCall \notin Calls

Indices(c) == IF Fanout[c] = 1 THEN {0} ELSE 1..Fanout[c]
IsParent(c) == Fanout[c] > 1

\* ParentRequest.child_info: the engine id of a child.
ChildId(c, k) == <<IdOf[c], k>>
ChildIds(c) == {ChildId(c, k) : k \in Indices(c)}
EngineIds == UNION {ChildIds(c) : c \in Calls}

MaybeCall == Calls \cup {NoCall}
Parts == [index : Nat, origin : Calls, final : BOOLEAN]

ProcessorType ==
    [request_states    : [EngineIds -> MaybeCall],
     parent_requests   : [Ids -> MaybeCall],
     child_requests    : {f \in [Calls -> SUBSET EngineIds] :
                            \A c \in Calls : f[c] \subseteq (IF IsParent(c) THEN ChildIds(c) ELSE {})},
     output_aggregator : [Calls -> SUBSET Parts]]

EmptyProcessor ==
    [request_states    |-> [e \in EngineIds |-> NoCall],
     parent_requests   |-> [i \in Ids |-> NoCall],
     child_requests    |-> [c \in Calls |-> {}],
     output_aggregator |-> [c \in Calls |-> {}]]

\* A registered parent is one with children that have state, and the record of them
\* (child_requests) is exact; every child with state has its parent registered.
ParentsKnown(p) ==
    /\ \A i \in Ids : p.parent_requests[i] # NoCall =>
          LET c == p.parent_requests[i]
          IN  /\ IsParent(c) /\ IdOf[c] = i
              /\ p.child_requests[c] = {e \in EngineIds : p.request_states[e] = c}
              /\ p.child_requests[c] # {}
    /\ \A e \in EngineIds, c \in Calls :
          p.request_states[e] = c /\ IsParent(c) => p.parent_requests[IdOf[c]] = c

\* What is left of that when the engine is dead: of the calls that have state.
ChildrenKnown(p) ==
    /\ \A i \in Ids : p.parent_requests[i] # NoCall => IdOf[p.parent_requests[i]] = i
    /\ \A e \in EngineIds, c \in Calls : p.request_states[e] = c =>
          /\ e \in ChildIds(c)
          /\ IsParent(c) => /\ p.parent_requests[IdOf[c]] = c
                            /\ p.child_requests[c] = {x \in EngineIds : p.request_states[x] = c}

------------------------------------------------------------------------------
(* Registering a call: child_info adds a child to the parent before the    *)
(* engine is asked to run it, add_request gives it its state after.        *)

AddRequests(p, c, made, added) ==
    [p EXCEPT
       !.request_states = [e \in EngineIds |-> IF e \in added THEN c ELSE @[e]],
       !.child_requests[c] = IF IsParent(c) THEN made ELSE {},
       !.parent_requests[IdOf[c]] = IF IsParent(c) /\ added # {} THEN c ELSE @]

------------------------------------------------------------------------------
(* abort_requests.                                                         *)

\* The engine requests among es that have state: what the core is told to abort.
LiveAmong(p, es) == {e \in es : p.request_states[e] # NoCall}

\* Mutant: only the engine ids are dropped, and the parent stays behind.
AbortStates(p, es) ==
    [p EXCEPT !.request_states = [e \in EngineIds |-> IF e \in es THEN NoCall ELSE @[e]]]

\* Given engine ids.  A parent is forgotten with its last child.
AbortChildren(p, es) ==
    LET hit == LiveAmong(p, es)
        left == [c \in Calls |-> p.child_requests[c] \ {e \in hit : p.request_states[e] = c}]
        emptied == {p.request_states[e] : e \in hit} \cap {c \in Calls : left[c] = {}}
    IN  [p EXCEPT
           !.request_states = [e \in EngineIds |-> IF e \in hit THEN NoCall ELSE @[e]],
           !.child_requests = left,
           !.parent_requests = [i \in Ids |->
              IF \E c \in emptied : IsParent(c) /\ IdOf[c] = i THEN NoCall ELSE @[i]]]

\* What the client's id names: an engine request, or a parent and its children.
Named(p, id) ==
    LET own == {e \in EngineIds : e = <<id, 0>> /\ p.request_states[e] # NoCall}
    IN  IF own # {} THEN own
        ELSE IF p.parent_requests[id] = NoCall THEN {}
        ELSE LiveAmong(p, p.child_requests[p.parent_requests[id]])

\* Given the client's id: a parent is popped first and its children keep their
\* place in child_requests.
AbortId(p, id) ==
    LET es == Named(p, id)
    IN  IF <<id, 0>> \in es THEN AbortChildren(p, es)
        ELSE [p EXCEPT
                !.request_states = [e \in EngineIds |-> IF e \in es THEN NoCall ELSE @[e]],
                !.parent_requests[id] = NoCall]

------------------------------------------------------------------------------
(* process_outputs, for one output out of an engine request that the front  *)
(* end considers ended when `final`: the finish reason of the core, or a    *)
(* stop string.                                                            *)

\* The aggregator's slots, the child's own being overwritten.
Slots(p, c, part) == {s \in p.output_aggregator[c] : s.index # part.index} \cup {part}

\* Mutant: what there is is handed out without waiting for the last child.
CollectedSoFar(p, c, part, left) == IF c \in Streaming THEN {part} ELSE Slots(p, c, part)

\* ParentRequest.collect: the completions to hand out now.
Collected(p, c, part, left) ==
    LET repeated == part.final /\ ChildId(c, part.index) \notin p.child_requests[c]
    IN  IF c \in Streaming
        THEN IF repeated THEN {} ELSE {part}
        ELSE IF left # {} THEN {} ELSE Slots(p, c, part)

\* Mutant: the state outlives a finish.
StateKept(out, c) == c

\* _retire drops the state.
StateAfter(out, c) == IF out.final THEN NoCall ELSE c

\* The call's request ends with its last child.
Finished(c, out, left) == IF IsParent(c) THEN left = {} ELSE out.final

\* What one output adds to the queues: [p |-> ..., items |-> ...].
ProcessOutput(acc, out) ==
    LET p == acc.p
        c == p.request_states[out.eid]
        part == [index |-> out.eid[2], origin |-> out.origin, final |-> out.final]
        left == p.child_requests[c] \ (IF out.final THEN {out.eid} ELSE {})
        parts == IF IsParent(c) THEN Collected(p, c, part, left) ELSE {part}
        finished == Finished(c, out, left)
    IN  IF c = NoCall THEN acc
        ELSE [p |-> [p EXCEPT
                       !.child_requests[c] = left,
                       !.output_aggregator[c] =
                           IF IsParent(c) /\ c \notin Streaming
                           THEN Slots(p, c, part) ELSE @,
                       !.request_states[out.eid] = StateAfter(out, c),
                       !.parent_requests[IdOf[c]] =
                           IF out.final /\ IsParent(c) /\ left = {} THEN NoCall ELSE @],
              items |-> IF parts = {} /\ ~finished THEN acc.items
                        ELSE Append(acc.items, [id |-> IdOf[c], parts |-> parts,
                                                finished |-> finished])]

\* A step's outputs, in the order the core listed them: done[n] is after n of them.
ProcessOutputs(p, outs) ==
    LET done[n \in 0 .. Len(outs)] ==
          IF n = 0 THEN [p |-> p, items |-> <<>>] ELSE ProcessOutput(done[n - 1], outs[n])
    IN  done[Len(outs)]

==============================================================================
