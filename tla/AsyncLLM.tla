------------------------------- MODULE AsyncLLM -------------------------------
(***************************************************************************)
(* The asynchronous engine (v1/engine/async_llm.py): generate() as a        *)
(* generator its consumer drives, closes or abandons, abort(), and the one  *)
(* background task that steps the engine and fans its outputs out into the  *)
(* calls' queues.  Code between two awaits is one step.                     *)
(***************************************************************************)
EXTENDS CoreClient

CONSTANTS
    AbortedIds,   \* the ids a client may call abort() on
    StopStrings,  \* the calls with stop strings
    Retries,      \* the calls made only for an id that has been used before
    RetryOver     \* the transports over which such calls are considered

ASSUME AsyncAssumption ==
    /\ AbortedIds \subseteq Ids
    /\ StopStrings \subseteq Calls
    /\ Retries \subseteq Calls
    /\ RetryOver \subseteq {"inproc", "mp", "dp", "ep"}

VARIABLES
    phase,      \* of each call: "new", "waiting" on its queue, "yielded" (suspended
                \* with an item handed out), "last" (the same, with the finished
                \* item) or "done"
    queues,     \* AsyncLLM._queues: the call whose queue is registered for an id
    mailbox,    \* the queue of each call
    delivered,  \* per call and index: the final completions its consumer was given
    processor,  \* AsyncLLM.output_processor
    handler,    \* the output task: "none", "top" of its loop or "stepping"
    errored     \* AsyncLLM.errored

callVars == <<phase, queues, mailbox, delivered>>
avars == <<callVars, processor, handler, errored, clientVars>>

Failure == [error |-> "EngineDeadError"]
Cancelled == [error |-> "CancelledError"]

AsyncInit ==
    /\ ClientInit
    /\ phase = [c \in Calls |-> "new"]
    /\ queues = [i \in Ids |-> NoCall]
    /\ mailbox = [c \in Calls |-> <<>>]
    /\ delivered = [c \in Calls |-> [k \in Indices(c) |-> 0]]
    /\ processor = EmptyProcessor
    /\ handler = "none"
    /\ errored = FALSE

------------------------------------------------------------------------------
(* generate(): entry.                                                      *)

\* _reject_duplicate_request_id.
InFlight(id) == queues[id] # NoCall

\* A retry uses the id of an earlier call.
MayUse(c) ==
    c \in Retries => /\ transport \in RetryOver
                     /\ \E d \in Calls \ {c} : IdOf[d] = IdOf[c] /\ phase[d] # "new"

Generate(c) ==
    /\ phase[c] = "new" /\ MayUse(c)
    /\ ~errored /\ ~InFlight(IdOf[c]) /\ Alive
    /\ phase' = [phase EXCEPT ![c] = "waiting"]
    /\ queues' = [queues EXCEPT ![IdOf[c]] = c]
    /\ processor' = AddRequests(processor, c, ChildIds(c), ChildIds(c))
    /\ Submit(ChildIds(c), c)
    /\ handler' = IF handler = "none" THEN "top" ELSE handler
    /\ UNCHANGED <<mailbox, delivered, errored>>

GenerateRefused(c) ==
    /\ phase[c] = "new" /\ MayUse(c)
    /\ errored \/ InFlight(IdOf[c])
    /\ phase' = [phase EXCEPT ![c] = "done"]
    /\ UNCHANGED <<queues, mailbox, delivered, processor, handler, errored, clientVars>>

\* The engine is found dead at the child of index k, after the children before it
\* were sent: finally drops those, and the abort it sends raises too.
GenerateFails(c) ==
    /\ phase[c] = "new" /\ MayUse(c)
    /\ ~errored /\ ~InFlight(IdOf[c])
    /\ \E k \in Indices(c) :
         LET added == {ChildId(c, j) : j \in {i \in Indices(c) : i < k}}
         IN  /\ IF added = {} THEN ~Alive ELSE Alive /\ proc = "crashed"
             /\ processor' = AbortChildren(
                    AddRequests(processor, c, added \cup {ChildId(c, k)}, added), added)
             /\ Submit(added, c)
    /\ phase' = [phase EXCEPT ![c] = "done"]
    /\ UNCHANGED <<queues, mailbox, delivered, handler, errored>>

------------------------------------------------------------------------------
(* generate(): the loop, and its finally.                                  *)

\* Mutant: the core is not told.
FinallyForgetsCore(c) ==
    /\ queues' = [queues EXCEPT ![IdOf[c]] = NoCall]
    /\ processor' = AbortChildren(processor, ChildIds(c))
    /\ UNCHANGED clientVars

\* By id, whoever holds it now.  Over a dead transport the abort raises.
Finally(c) ==
    /\ queues' = [queues EXCEPT ![IdOf[c]] = NoCall]
    /\ processor' = AbortChildren(processor, ChildIds(c))
    /\ IF Alive THEN Abort(LiveAmong(processor, ChildIds(c))) ELSE UNCHANGED clientVars

FinalIndices(parts) == {s.index : s \in {t \in parts : t.final}}

\* queue.get() returns an item, which is yielded.
Receive(c) ==
    /\ phase[c] = "waiting" /\ mailbox[c] # <<>> /\ Head(mailbox[c]) \notin {Failure, Cancelled}
    /\ LET item == Head(mailbox[c])
       IN  /\ phase' = [phase EXCEPT ![c] = IF item.finished THEN "last" ELSE "yielded"]
           /\ delivered' = [delivered EXCEPT ![c] =
                [k \in Indices(c) |-> @[k] + (IF k \in FinalIndices(item.parts) THEN 1 ELSE 0)]]
    /\ mailbox' = [mailbox EXCEPT ![c] = Tail(@)]
    /\ UNCHANGED <<queues, processor, handler, errored, clientVars>>

\* queue.get() returns an exception, which is raised.
ReceiveError(c) ==
    /\ phase[c] = "waiting" /\ mailbox[c] # <<>> /\ Head(mailbox[c]) \in {Failure, Cancelled}
    /\ mailbox' = [mailbox EXCEPT ![c] = Tail(@)]
    /\ phase' = [phase EXCEPT ![c] = "done"]
    /\ Finally(c)
    /\ UNCHANGED <<delivered, handler, errored>>

\* The consumer asks for the next item.
Resume(c) ==
    /\ phase[c] = "yielded"
    /\ phase' = [phase EXCEPT ![c] = "waiting"]
    /\ UNCHANGED <<queues, mailbox, delivered, processor, handler, errored, clientVars>>

\* The finished item was the last, or the consumer's task is cancelled, or the
\* generator is closed or collected where it is suspended.
Close(c) ==
    /\ phase[c] \in {"waiting", "yielded", "last"}
    /\ phase' = [phase EXCEPT ![c] = "done"]
    /\ Finally(c)
    /\ UNCHANGED <<mailbox, delivered, handler, errored>>

\* abort(): a dead transport raises before the queue is popped.
AbortCall(id) ==
    LET es == Named(processor, id)
    IN  /\ id \in AbortedIds
        /\ InFlight(id) \/ es # {}
        /\ processor' = AbortId(processor, id)
        /\ IF es # {} /\ ~Alive
           THEN UNCHANGED <<queues, mailbox, clientVars>>
           ELSE /\ Abort(es)
                /\ queues' = [queues EXCEPT ![id] = NoCall]
                /\ mailbox' = IF InFlight(id)
                              THEN [mailbox EXCEPT ![queues[id]] = Append(@, Cancelled)]
                              ELSE mailbox
        /\ UNCHANGED <<phase, delivered, handler, errored>>

------------------------------------------------------------------------------
(* _run_output_handler.                                                    *)

\* Work remains: the engine is asked for a step, and in process the step is planned.
HandlerPolls ==
    /\ ~Replicated /\ handler = "top" /\ HasRequests
    /\ handler' = "stepping"
    /\ IF transport = "inproc"
       THEN /\ batch' = {<<e, core[e]>> : e \in Held}
            /\ cleanup' = FALSE
       ELSE UNCHANGED <<batch, cleanup>>
    /\ UNCHANGED <<callVars, processor, errored, transport, core, produced, router, socketVars>>

\* Mutant: an idle engine is reason enough to return.
NobodyAsked == TRUE

NobodyWaits == \A i \in Ids : ~InFlight(i)

\* Nothing to do, and nobody waits.
HandlerReturns ==
    /\ handler = "top" /\ ~HasRequests
    /\ NobodyWaits
    /\ handler' = "none"
    /\ UNCHANGED <<callVars, processor, errored, clientVars>>

\* An output that hits a stop string ends the request here.
EndedBy(outs, stops) ==
    [i \in DOMAIN outs |-> [outs[i] EXCEPT !.final = @ \/ outs[i].eid \in stops]]

\* The engine requests whose output may hit one.
MayStop(outs) ==
    {outs[i].eid : i \in {j \in DOMAIN outs :
        ~outs[j].final /\ processor.request_states[outs[j].eid] \in StopStrings}}

\* An item goes to the queue registered for its id.
Put(boxes, item) ==
    IF InFlight(item.id) THEN [boxes EXCEPT ![queues[item.id]] = Append(@, item)] ELSE boxes

\* Items one by one: put[n] is after n of them.
PutAll(items) ==
    LET put[n \in 0 .. Len(items)] ==
          IF n = 0 THEN mailbox ELSE Put(put[n - 1], items[n])
    IN  put[Len(items)]

\* process_outputs, and what it hands out.
FanOut(outs) ==
    LET done == ProcessOutputs(processor, outs)
    IN  /\ processor' = done.p
        /\ mailbox' = PutAll(done.items)

\* The in-process step ends: update_from_output skips what was aborted meanwhile.
HandlerStepsInproc ==
    /\ transport = "inproc" /\ handler = "stepping"
    /\ LET ran == {e \in Held : <<e, core[e]>> \in batch}
       IN  \E ending \in Endings(ran) :
             LET outs == Outputs(ran, ending)
             IN  \E stops \in SUBSET MayStop(outs) :
                   /\ FanOut(EndedBy(outs, stops))
                   /\ core' = Without(core, ending \cup stops)
                   /\ produced' = [e \in EngineIds |->
                                     IF e \in ending THEN 0
                                     ELSE IF e \in ran THEN produced[e] + 1 ELSE produced[e]]
                   /\ cleanup' = (cleanup \/ ending \cup stops # {})
    /\ batch' = {}
    /\ handler' = "top"
    /\ UNCHANGED <<phase, queues, delivered, errored, transport, router, socketVars>>

\* Over replicas a round is one step: nothing in it suspends.
HandlerRounds ==
    /\ Replicated /\ handler = "top" /\ HasRequests
    /\ \E ending \in Endings(Held) :
         LET outs == Produced(ending)
         IN  \E stops \in SUBSET MayStop(outs) :
               /\ FanOut(EndedBy(outs, stops))
               /\ Round(Ranks, ending, stops)
    /\ UNCHANGED <<phase, queues, delivered, handler, errored>>

\* get_output_async finds a frame.
HandlerTakesFrame ==
    /\ transport = "mp" /\ handler = "stepping" /\ Alive /\ frames # <<>>
    /\ frames' = Tail(frames)
    /\ \E stops \in SUBSET MayStop(Head(frames)) :
         /\ FanOut(EndedBy(Head(frames), stops))
         /\ SendAbort(stops)
    /\ handler' = "top"
    /\ UNCHANGED <<phase, queues, delivered, errored, transport, coreVars,
                   to_client, reader, proc, dead_error>>

\* No frame, and the core answers that it has no work: an empty result.
HandlerGivesUp ==
    /\ transport = "mp" /\ handler = "stepping" /\ Alive /\ frames = <<>>
    /\ proc = "up" /\ ~CoreHasRequests
    /\ handler' = "top"
    /\ UNCHANGED <<callVars, processor, errored, clientVars>>

\* Mutant: the error is kept to the handler.
BroadcastNothing == UNCHANGED mailbox

\* R4.5: the error goes to every registered queue.
Broadcast ==
    mailbox' = [c \in Calls |-> IF \E i \in Ids : queues[i] = c
                                THEN Append(mailbox[c], Failure) ELSE mailbox[c]]

\* The step raises: in process because the engine does, otherwise because the
\* transport is found dead.
HandlerDies ==
    /\ handler = "stepping"
    /\ IF transport = "inproc" THEN MayFail ELSE ~Alive
    /\ handler' = "none"
    /\ errored' = TRUE
    /\ Broadcast
    /\ UNCHANGED <<phase, queues, delivered, processor, clientVars>>

\* A replica's step raises: what the ones before it produced is lost with the round.
RoundDies ==
    /\ MayFail /\ Replicated /\ handler = "top"
    /\ \E k \in Working(router) :
         LET before == {j \in Ranks : j < k}
         IN  \E ending \in Endings({e \in Held : router.placed[e] \in before}) :
               Round(before, ending, {})
    /\ handler' = "none"
    /\ errored' = TRUE
    /\ Broadcast
    /\ UNCHANGED <<phase, queues, delivered, processor>>

------------------------------------------------------------------------------
CallStep(c) ==
    \/ Generate(c) \/ GenerateRefused(c) \/ GenerateFails(c)
    \/ Receive(c) \/ ReceiveError(c) \/ Resume(c) \/ Close(c)

HandlerStep ==
    \/ HandlerPolls \/ HandlerReturns \/ HandlerStepsInproc \/ HandlerRounds
    \/ HandlerTakesFrame \/ HandlerGivesUp \/ HandlerDies \/ RoundDies

\* A step of the core's process or of the reader thread.
Outside(A) == A /\ UNCHANGED <<callVars, processor, handler, errored>>

AsyncNext ==
    \/ \E c \in Calls : CallStep(c)
    \/ \E i \in Ids : AbortCall(i)
    \/ HandlerStep
    \/ Outside(ProcessStep)

AsyncSpec == AsyncInit /\ [][AsyncNext]_avars

\* The event loop runs what is ready, so the output task and a consumer that waits go
\* on; the reader thread and the core's loop run, and a crashed process exits.  No client
\* ever has to act, and nothing has to fail.
HandlerProceeds ==
    \/ HandlerPolls \/ HandlerStepsInproc \/ HandlerRounds \/ HandlerTakesFrame \/ HandlerGivesUp
    \/ transport = "mp" /\ HandlerDies

HandlerReady ==
    \/ handler = "top" /\ HasRequests
    \/ handler = "stepping" /\ transport = "inproc"
    \/ /\ handler = "stepping" /\ transport = "mp"
       /\ Alive => frames # <<>> \/ (proc = "up" /\ ~CoreHasRequests)

\* Weak fairness of HandlerProceeds, which is enabled exactly when HandlerReady.
HandlerFairness == []<><<HandlerProceeds>>_avars \/ []<>~HandlerReady

FairAsyncSpec ==
    /\ AsyncSpec
    /\ \A c \in Calls : WF_avars(Receive(c) \/ ReceiveError(c))
    /\ HandlerFairness
    /\ WF_avars(Outside(ReaderTakes \/ ReaderPuts))
    /\ WF_avars(Outside(CoreReceives \/ CoreSteps \/ CoreExits))

------------------------------------------------------------------------------
(* Properties.                                                             *)

AsyncTypeOK ==
    /\ transport \in Transports
    /\ core \in [EngineIds -> MaybeCall]
    /\ produced \in [EngineIds -> Nat]
    /\ cleanup \in BOOLEAN
    /\ batch \subseteq EngineIds \X Calls
    /\ outstanding \in Int
    /\ proc \in {"up", "crashed", "exited"}
    /\ dead_error \in BOOLEAN
    /\ phase \in [Calls -> {"new", "waiting", "yielded", "last", "done"}]
    /\ queues \in [Ids -> MaybeCall]
    /\ processor \in ProcessorType
    /\ handler \in {"none", "top", "stepping"}
    /\ errored \in BOOLEAN

\* An engine request that will still be dropped from the core.
AbortSent(e) == \E i \in DOMAIN to_core : to_core[i].kind = "ABORT" /\ e \in to_core[i].eids

\* A request the core runs is one whose call still has its state in the front end, or
\* its abort is on the way: nobody's disconnected request keeps generating
\* (async_llm.py:14).
NoOrphanInCore ==
    \A e \in EngineIds :
        core[e] # NoCall => processor.request_states[e] = core[e] \/ AbortSent(e)

\* While the engine lives, a parent is registered exactly while one of its children
\* has state (output_processor.py:220): none is left behind, none is lost.
ParentsExact ==
    proc = "up" => \A i \in Ids, c \in Calls :
        (processor.parent_requests[i] = c)
            <=> (/\ IsParent(c) /\ IdOf[c] = i
                 /\ \E e \in EngineIds : processor.request_states[e] = c)

\* A call gets only what its own engine requests produced, and nothing after its
\* finished item but an exception.
OwnOutputsOnly ==
    \A c \in Calls : \A i \in DOMAIN mailbox[c] :
        LET item == mailbox[c][i]
        IN  item \notin {Failure, Cancelled} =>
              /\ \A s \in item.parts : s.origin = c
              /\ \A j \in 1..(i - 1) :
                    mailbox[c][j] \notin {Failure, Cancelled} /\ ~mailbox[c][j].finished

\* A consumer that has its finished item was given every one of its n completions,
\* each exactly once.
FinishedIsComplete ==
    \A c \in Calls :
        \A k \in Indices(c) : IF phase[c] = "last" THEN delivered[c][k] = 1
                                                  ELSE delivered[c][k] <= 1

\* A call waiting with nothing in its queue still has that queue registered, an output
\* task to serve it and, as long as the engine lives, state for one of its engine
\* requests.
WaitersAreServed ==
    \A c \in Calls :
        phase[c] = "waiting" /\ mailbox[c] = <<>> =>
            /\ queues[IdOf[c]] = c
            /\ handler # "none"
            /\ proc = "up" => \E e \in EngineIds : processor.request_states[e] = c

\* The router's books: a request is where the router believes it is, and the count it
\* compares replicas by (dp_client.py:120) is that of the requests it has there, whatever
\* order finishes, stop strings, aborts and reused ids come in.
RoutingExact ==
    /\ router.request_to_engine = router.placed
    /\ \A k \in Ranks : router.engine_inflight[k] = Cardinality(PlacedAt(router, k))
    /\ Replicated => \A e \in EngineIds : core[e] # NoCall <=> router.placed[e] # NoRank

\* dp_client.py:234: in lockstep every replica steps in a round, or none does, "because
\* the collective needs it present" - also the one that has only ids to clear.
CollectiveIsWhole == Lockstep => \A k \in Ranks : router.passes[k] = 0

\* The end of one call leaves what another registered (async_llm.py:172): the check for
\* a duplicate id comes first so that no finally runs against another request.
FinallyLeavesOthers ==
    [][\A c, d \in Calls :
         c # d /\ phase[c] # "done" /\ phase'[c] = "done" /\ queues[IdOf[d]] = d
           => queues'[IdOf[d]] = d]_avars

\* As long as the engine lives every wait ends.
WaitsEnd ==
    \A c \in Calls : phase[c] = "waiting" ~> phase[c] # "waiting" \/ proc # "up"

\* R4.5: a dead engine must reach every in-flight request, not hang them.
DeadEngineReachesAll ==
    \A c \in Calls : phase[c] = "waiting" ~> phase[c] # "waiting"

------------------------------------------------------------------------------
(* What the proofs need to know of every state (FrontEndProofs.tla).        *)

UnderWay(c) == phase[c] \in {"waiting", "yielded", "last"}

\* How ids may be used again for the books below to stay right.  No id that two calls
\* share is aborted by name: the end of the aborted call would drop its successor's
\* queue (FinallyLeavesOthers is violated).
ReuseIsOrderly ==
    \A c, d \in Calls : c # d /\ IdOf[c] = IdOf[d] => IdOf[c] \notin AbortedIds

\* And none is used again over sockets, where a late frame of its first use would be
\* taken for one of its second.
SocketsSeeNoReuse ==
    /\ "mp" \notin RetryOver
    /\ \A c, d \in Calls : c # d /\ IdOf[c] = IdOf[d] => c \in Retries \/ d \in Retries

\* A registered queue is that of the call under way, and only abort() takes it from
\* a call that is.
QueuesInv ==
    /\ \A i \in Ids : InFlight(i) => IdOf[queues[i]] = i /\ UnderWay(queues[i])
    /\ \A c \in Calls : UnderWay(c) => queues[IdOf[c]] = c \/ IdOf[c] \in AbortedIds

StatesInv ==
    \A e \in EngineIds, c \in Calls :
        processor.request_states[e] = c => UnderWay(c) /\ e \in ChildIds(c)

ParentsInv == proc = "up" => ParentsKnown(processor)

\* Without sockets the core has no request the front end does not know.
DirectInv ==
    transport # "mp" =>
        /\ to_core = <<>> /\ to_client = <<>> /\ reader = <<>> /\ frames = <<>>
        /\ proc = "up"
        /\ \A e \in EngineIds : core[e] # NoCall => processor.request_states[e] = core[e]

RouterInv ==
    /\ RoutingExact
    /\ ~Replicated => router = NewRouter

Adds(i, e) == to_core[i].kind = "ADD" /\ e \in to_core[i].eids
Drops(i, e) == to_core[i].kind = "ABORT" /\ e \in to_core[i].eids
UnderOwnId(e, c) == c \in Calls /\ phase[c] # "new" /\ e \in ChildIds(c)
Unread == {reader} \cup Range(to_client) \cup Range(frames)

\* Over sockets an engine request is on its way to the core, ...
AddsInv ==
    \A i \in DOMAIN to_core, e \in EngineIds : Adds(i, e) =>
        /\ UnderOwnId(e, to_core[i].call)
        /\ core[e] = NoCall
        /\ \A j \in DOMAIN to_core : Adds(j, e) => j = i
        /\ \/ processor.request_states[e] = to_core[i].call
           \/ \E j \in DOMAIN to_core : j > i /\ Drops(j, e)

\* ... in it, and whatever of it the front end has forgotten has an abort behind it, ...
CoreInv ==
    \A e \in EngineIds : core[e] # NoCall =>
        /\ UnderOwnId(e, core[e])
        /\ processor.request_states[e] = core[e] \/ AbortSent(e)

\* ... or past it.
UnreadInv ==
    \A f \in Unread : \A n \in DOMAIN f :
        /\ UnderOwnId(f[n].eid, f[n].origin)
        /\ f[n].final => /\ core[f[n].eid] = NoCall
                         /\ \A i \in DOMAIN to_core : ~Adds(i, f[n].eid)

DeathInv ==
    /\ proc = "up" => ~dead_error /\ Dead \notin Range(to_client)
    /\ proc # "up" => to_core = <<>> /\ \A e \in EngineIds : core[e] = NoCall

SocketInv ==
    transport = "mp" =>
        /\ \A c \in Retries : phase[c] = "new"
        /\ AddsInv /\ CoreInv /\ UnreadInv /\ DeathInv

\* The rest is said of a processor p and of what is in the queues, one call's box each,
\* so that it can be said after every single output of a step.
Raises(item) == item \in {Failure, Cancelled}
Ends(item) == Raises(item) \/ item.finished
HasState(p, c) == \E e \in EngineIds : p.request_states[e] = c
Gathers(c) == IsParent(c) /\ c \notin Streaming

\* A call with state has its queue, and the parts kept for it are its own.
StateInv(p, c) ==
    /\ HasState(p, c) => queues[IdOf[c]] = c
    /\ \A s \in p.output_aggregator[c] : s.origin = c

BoxInv(p, box, c) ==
    /\ \A i \in DOMAIN box : ~Raises(box[i]) =>
          /\ \A s \in box[i].parts : s.origin = c
          /\ \A j \in 1 .. (i - 1) : ~Ends(box[j])
    /\ phase[c] = "new" => box = <<>>
    /\ \A i \in DOMAIN box :
          /\ box[i] = Cancelled => queues[IdOf[c]] # c
          /\ box[i] = Failure => errored
          /\ ~Raises(box[i]) /\ box[i].finished => ~HasState(p, c)
    /\ phase[c] = "last" => ~HasState(p, c)

\* A call is owed something until its end is in its queue.
ServedInv(p, box, c) ==
    phase[c] \in {"waiting", "yielded"} /\ (\A i \in DOMAIN box : ~Ends(box[i])) =>
        /\ queues[IdOf[c]] = c
        /\ handler # "none"
        /\ proc = "up" => HasState(p, c)

\* The end of completion k is in a queue.
Carries(item, k) == ~Raises(item) /\ k \in FinalIndices(item.parts)
Given(box, c, k) == delivered[c][k] = 1 \/ \E i \in DOMAIN box : Carries(box[i], k)

\* Of every completion, what is still to come and what was given or kept.
OnceInv(p, box, c) ==
    \A k \in Indices(c) :
        /\ delivered[c][k] \in {0, 1}
        /\ phase[c] = "new" => delivered[c][k] = 0
        /\ delivered[c][k] = 1 => \A i \in DOMAIN box : ~Carries(box[i], k)
        /\ \A i, j \in DOMAIN box : Carries(box[i], k) /\ Carries(box[j], k) => i = j
        /\ Given(box, c, k) => p.request_states[ChildId(c, k)] # c
        /\ phase[c] = "last" => delivered[c][k] = 1
        /\ \A i \in DOMAIN box : ~Raises(box[i]) /\ box[i].finished => Given(box, c, k)
        /\ HasState(p, c) =>
             \/ p.request_states[ChildId(c, k)] = c
             \/ IF Gathers(c) THEN \E s \in p.output_aggregator[c] : s.index = k /\ s.final
                              ELSE Given(box, c, k)
        /\ HasState(p, c) /\ Gathers(c) => ~Given(box, c, k)

MailInv(p, boxes) ==
    /\ ChildrenKnown(p)
    /\ \A c \in Calls :
         /\ StateInv(p, c) /\ BoxInv(p, boxes[c], c)
         /\ ServedInv(p, boxes[c], c) /\ OnceInv(p, boxes[c], c)

DeliveryInv == MailInv(processor, mailbox) /\ (errored => handler = "none")

==============================================================================
