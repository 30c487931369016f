------------------------------- MODULE Serving -------------------------------
(***************************************************************************)
(* The HTTP endpoints (entrypoints/openai, entrypoints/pooling) over the    *)
(* asynchronous engine: completions, chat completions and responses, each   *)
(* with a body or a stream of events, the response store, embeddings as one *)
(* engine request per document, and clients that leave.  One handler's code *)
(* between two awaits that can suspend it is one step.                      *)
(*                                                                         *)
(* Of the engine (AsyncLLM.tla) this module keeps the table of ids in       *)
(* flight, the two ways a generator ends and what an engine request has     *)
(* produced.  Text is the sequence of the tokens that rendered to something.*)
(***************************************************************************)
EXTENDS SequencesExt, Integers, FiniteSets

CONSTANTS
    Calls,        \* the HTTP requests
    Workloads,    \* what they may ask for: a set of functions from Calls to Wishes
    NoId, NoBody,
    StoreEnabled, \* VLLM_ENABLE_RESPONSES_API_STORE
    MayDie,       \* whether the engine may die
    MaxMessages,  \* bound: the messages that still fit the context window
    MaxTokens,    \* bound: the tokens of each choice
    MaxLag        \* bound: the steps counted after a client has left; 0 counts none

\* Ids are sequences; the ones a client chooses are in no endpoint's format.
EndpointNames == {"completion", "chat", "responses", "embedding"}
CreatedIds == {<<"minted", e, n>> : e \in EndpointNames, n \in 1..Cardinality(Calls)}
ChosenIds == {<<"chosen", "X", 0>>}
CallIds == CreatedIds \cup ChosenIds
Wishes == [endpoint: EndpointNames, width: 1..2, stream: BOOLEAN, store: BOOLEAN,
           instructions: BOOLEAN, request_id: ChosenIds \cup {NoId},
           previous_response_id: ChosenIds \cup {NoId}]

ASSUME ServingAssumption ==
    /\ Workloads \subseteq [Calls -> Wishes]
    /\ \A w \in Workloads : \A c \in Calls :
         /\ w[c].endpoint = "responses" => w[c].width = 1
         /\ w[c].endpoint # "responses" => ~w[c].store /\ {w[c].request_id, w[c].previous_response_id} = {NoId}
         /\ w[c].endpoint = "embedding" => ~w[c].stream
    /\ StoreEnabled \in BOOLEAN /\ MayDie \in BOOLEAN
    /\ MaxMessages \in Nat /\ MaxTokens \in Nat \ {0} /\ MaxLag \in Nat

VARIABLES
    wish,           \* the request of each call; width: its documents, or its choices
    pc,             \* "new", "open" (admitted), "running", "closing" (a responses
                    \* stream before its last event), "done"
    rid,            \* the request id of each call
    prompt,         \* the messages a call renders
    events,         \* the frames a stream has sent, as <<type, sequence_number, piece>>
    told,           \* the locals of a handler: the text and tokens it has added up
    body,           \* what a call ended with: "none", "error" or a record
    response_store, \* OpenAIServingResponses.response_store
    msg_store,      \* OpenAIServingResponses.msg_store
    counter,        \* the endpoint objects' _counter, of ids
    queues,         \* AsyncLLM._queues: the generator registered for an id
    live,           \* the generators whose engine request runs
    made,           \* the text and the tokens an engine request has produced
    left,           \* the choices of a generator that have not finished
    inbox,          \* the queue of each generator
    orphan,         \* generators dropped while suspended: "no", "fresh", "due"
    errored,        \* AsyncLLM.errored
    gone,           \* the calls whose client has left
    lag             \* the steps a generator's request has run since its client left

handlerVars == <<pc, rid, prompt, events, told, body>>
storeVars == <<response_store, msg_store, counter>>
engineVars == <<queues, live, made, left, inbox, orphan, errored>>
svars == <<wish, handlerVars, storeVars, engineVars, gone, lag>>

Nothing == [text |-> <<>>, tokens |-> 0]
Body(c, status, output) ==
    [call |-> c, id |-> rid[c], status |-> status, text |-> output.text, tokens |-> output.tokens]
Failed(c) == Body(c, "error", Nothing)

Failure == [output |-> Nothing, final |-> TRUE, reason |-> "EngineDeadError"]
Gens == Calls \X (1..2)
NoGen == <<>>
Endpoint(c) == wish[c].endpoint
Documents(c) == IF Endpoint(c) = "embedding" THEN wish[c].width ELSE 1
Samples(c) == IF Endpoint(c) = "embedding" THEN 1 ELSE wish[c].width
Streams == {c \in Calls : wish[c].stream}
GensOf(c) == {c} \X (1..Documents(c))
GenId(g) == IF Endpoint(g[1]) = "embedding" THEN Append(rid[g[1]], g[2]) ELSE rid[g[1]]
FlightIds == CallIds \cup {Append(i, g[2]) : i \in CallIds, g \in Gens}

ServingInit ==
    /\ wish \in Workloads
    /\ pc = [c \in Calls |-> "new"]
    /\ rid = [c \in Calls |-> NoId]
    /\ prompt = [c \in Calls |-> <<>>]
    /\ events = [c \in Calls |-> <<>>]
    /\ told = [c \in Calls |-> Nothing]
    /\ body = [c \in Calls |-> NoBody]
    /\ response_store = [i \in CallIds |-> NoBody]
    /\ msg_store = [i \in CallIds |-> <<>>]
    /\ counter = [e \in EndpointNames |-> 0]
    /\ queues = [i \in FlightIds |-> NoGen]
    /\ live = {}
    /\ made = [g \in Gens |-> Nothing]
    /\ left = [g \in Gens |-> Samples(g[1])]
    /\ inbox = [g \in Gens |-> <<>>]
    /\ orphan = [g \in Gens |-> "no"]
    /\ errored = FALSE
    /\ gone = {}
    /\ lag = [g \in Gens |-> 0]

------------------------------------------------------------------------------
(* The engine.                                                             *)

\* generate() and encode(), up to the first await of the queue.
Enter(g) ==
    /\ queues' = [queues EXCEPT ![GenId(g)] = g]
    /\ live' = live \cup {g}
    /\ UNCHANGED <<made, left, inbox, orphan, errored>>

Registered(g) == \E i \in FlightIds : queues[i] = g

\* AsyncLLM.abort and the finally of generate() and encode(): by id, whoever
\* holds it by now.
Holders(ids) == {g \in live : GenId(g) \in ids}
Released(gs) ==
    LET ids == {GenId(g) : g \in gs}
    IN  /\ queues' = [i \in FlightIds |-> IF i \in ids THEN NoGen ELSE queues[i]]
        /\ live' = live \ Holders(ids)

\* Every step of the engine counts for a request that nobody waits for, and the
\* second that follows its generator's being dropped finds that generator closed.
Counted(g) ==
    /\ orphan' = [orphan EXCEPT ![g] = IF @ = "fresh" THEN "due" ELSE @]
    /\ lag' = [lag EXCEPT ![g] = IF g[1] \in gone /\ @ < MaxLag THEN @ + 1 ELSE @]
Stepped(g) == g \in live /\ Registered(g) /\ inbox[g] = <<>> /\ orphan[g] # "due"

\* A step that has no output for a request: it waits for blocks or for its grammar,
\* computes a chunk of its prompt, or has just been preempted.
QuietStep(g) ==
    /\ Stepped(g)
    /\ Counted(g)
    /\ UNCHANGED <<queues, live, made, left, inbox, errored, handlerVars, storeVars, gone>>

\* A step of the engine gives a generator's request one more output: a token of one
\* of its choices, which may render to nothing.  Every token reaches a stream at
\* once; a body of one choice is told the total so far, and a body of several only
\* once the last of them is finished.  The loop gives its readers a turn after every
\* step (async_llm.py:159), so no reader is more than one item behind.
EngineStep(g) ==
    LET c == g[1]
        n == made[g].tokens + 1
    IN  /\ Stepped(g)
        /\ \E renders, ends \in BOOLEAN, reason \in {"stop", "length"} :
             LET total == [text |-> IF renders THEN Append(made[g].text, n) ELSE made[g].text,
                           tokens |-> n]
                 final == left[g] - (IF ends THEN 1 ELSE 0) = 0
                 piece == [text |-> IF renders THEN <<n>> ELSE <<>>, tokens |-> 1]
             IN  /\ (n >= MaxTokens * Samples(c) - left[g] + 1) => ends
                 /\ Endpoint(c) = "embedding" => ends
                 /\ ~final => reason = "stop"
                 /\ made' = [made EXCEPT ![g] = total]
                 /\ left' = [left EXCEPT ![g] = @ - (IF ends THEN 1 ELSE 0)]
                 /\ live' = IF final THEN live \ {g} ELSE live
                 /\ inbox' = IF c \notin Streams /\ Samples(c) > 1 /\ ~final THEN inbox
                             ELSE [inbox EXCEPT ![g] = <<[output |-> IF c \in Streams THEN piece ELSE total,
                                                          final |-> final, reason |-> reason]>>]
    /\ Counted(g)
    /\ UNCHANGED <<queues, errored, handlerVars, storeVars, gone>>

\* An abandoned generator is closed by the event loop's hook: its finally runs.
CloseOrphan(g) ==
    /\ orphan[g] # "no"
    /\ Released({g})
    /\ orphan' = [orphan EXCEPT ![g] = "no"]
    /\ UNCHANGED <<made, left, inbox, errored, handlerVars, storeVars, gone, lag>>

\* The output handler's except: every registered queue is handed the failure.
EngineDies ==
    /\ MayDie /\ ~errored /\ live # {}
    /\ errored' = TRUE
    /\ live' = {}
    /\ inbox' = [g \in Gens |-> IF Registered(g) THEN Append(inbox[g], Failure) ELSE inbox[g]]
    /\ UNCHANGED <<queues, made, left, orphan, handlerVars, storeVars, gone, lag>>

------------------------------------------------------------------------------
(* Admission.                                                              *)

Minted(c) == <<"minted", Endpoint(c), counter[Endpoint(c)] + 1>>
Count(c) == counter' = [counter EXCEPT ![Endpoint(c)] = @ + 1]

\* create_response refuses, with nothing changed but, perhaps, its counter.
Reject(c) ==
    /\ pc' = [pc EXCEPT ![c] = "done"]
    /\ body' = [body EXCEPT ![c] = Failed(c)]
    /\ UNCHANGED <<rid, prompt, events, told, response_store, msg_store, engineVars, gone, lag>>

\* An unknown model, a parameter that is not modelled, a bad prompt.
Refuse(c) ==
    /\ pc[c] = "new"
    /\ Reject(c)
    /\ UNCHANGED counter

\* create_completion, create_chat_completion and create_embedding.
Create(c) ==
    /\ pc[c] = "new" /\ Endpoint(c) # "responses"
    /\ pc' = [pc EXCEPT ![c] = "open"]
    /\ rid' = [rid EXCEPT ![c] = Minted(c)]
    /\ Count(c)
    /\ UNCHANGED <<prompt, events, told, body, response_store, msg_store, engineVars, gone, lag>>

\* construct_input_messages: instructions are of one turn, so a stored conversation's
\* system messages are dropped.  A streamed answer without text has no content.
Message(role, c) == [role |-> role, of |-> c]
Messages(c, turns, answer) ==
    (IF wish[c].instructions THEN <<Message("system", c)>> ELSE <<>>)
    \o SelectSeq(turns, LAMBDA m : m.role # "system")
    \o (IF answer = NoBody \/ (answer.call \in Streams /\ answer.text = <<>>) THEN <<>>
        ELSE <<Message("assistant", answer.call)>>)
    \o <<Message("user", c)>>

WillStore(c) == StoreEnabled /\ wish[c].store

\* create_responses.
CreateResponse(c) ==
    LET answer   == IF wish[c].previous_response_id = NoId THEN NoBody ELSE response_store[wish[c].previous_response_id]
        id       == IF wish[c].request_id = NoId THEN Minted(c) ELSE wish[c].request_id
        turns    == IF answer = NoBody THEN <<>> ELSE msg_store[answer.id]
        messages == Messages(c, turns, answer)
    IN  /\ pc[c] = "new" /\ Endpoint(c) = "responses"
        /\ \/ /\ wish[c].previous_response_id # NoId /\ answer = NoBody
              /\ Reject(c) /\ UNCHANGED counter
           \/ /\ wish[c].previous_response_id # NoId => answer # NoBody
              /\ IF wish[c].request_id = NoId THEN Count(c) ELSE UNCHANGED counter
              /\ IF queues[id] # NoGen \/ Len(messages) > MaxMessages
                 THEN Reject(c)
                 ELSE /\ pc' = [pc EXCEPT ![c] = "open"]
                      /\ rid' = [rid EXCEPT ![c] = id]
                      /\ prompt' = [prompt EXCEPT ![c] = messages]
                      /\ msg_store' = IF WillStore(c) THEN [msg_store EXCEPT ![id] = messages]
                                      ELSE msg_store
                      /\ UNCHANGED <<events, told, body, response_store, engineVars, gone, lag>>

------------------------------------------------------------------------------
(* Streams.                                                                *)

\* stamp(): one counter, shared by every event of a response.
Stamped(c, frames) ==
    events[c] \o [k \in DOMAIN frames |-> <<frames[k][1], Len(events[c]) + k - 1, frames[k][2]>>]
Frame(type) == <<type, <<>>>>
Sent(c, frames) == events' = [events EXCEPT ![c] = Stamped(c, frames)]

Opening(c) ==
    CASE Endpoint(c) = "responses" -> <<Frame("response.created"), Frame("response.in_progress")>>
      [] Endpoint(c) = "chat"      -> <<Frame("role")>>
      [] OTHER                     -> <<>>

\* The error frame, and the sentinel that only the older endpoints send.
Closing(c, frames) ==
    IF Endpoint(c) = "responses" THEN frames ELSE frames \o <<Frame("[DONE]")>>
Broken(c) == Closing(c, <<Frame("error")>>)

\* The first pull of a stream, or the first await of a body: generate() registers the
\* call's queue, or raises.
Start(c) ==
    /\ pc[c] = "open" /\ Endpoint(c) # "embedding"
    /\ c \in gone => c \notin Streams \/ Opening(c) = <<>>
    /\ \/ /\ pc' = [pc EXCEPT ![c] = "done"]
          /\ body' = [body EXCEPT ![c] = Failed(c)]
          /\ IF c \in Streams THEN Sent(c, Opening(c) \o Broken(c)) ELSE UNCHANGED events
          /\ UNCHANGED engineVars
       \/ /\ ~errored /\ queues[rid[c]] = NoGen
          /\ pc' = [pc EXCEPT ![c] = "running"]
          /\ IF c \in Streams THEN Sent(c, Opening(c)) ELSE UNCHANGED events
          /\ Enter(<<c, 1>>)
          /\ UNCHANGED body
    /\ UNCHANGED <<rid, prompt, told, storeVars, gone, lag>>

\* The item the handler reads from its queue.
Item(c) == inbox[<<c, 1>>][1]
HasItem(c) == pc[c] = "running" /\ Endpoint(c) # "embedding" /\ inbox[<<c, 1>>] # <<>>
Reads(c) == HasItem(c) /\ Item(c) # Failure
Taken(c) == inbox' = [inbox EXCEPT ![<<c, 1>>] = Tail(@)]

\* queue.get() returns the failure: the generator raises it, after its finally.
ReadFailure(c) ==
    /\ HasItem(c) /\ Item(c) = Failure
    /\ Taken(c)
    /\ Released({<<c, 1>>})
    /\ pc' = [pc EXCEPT ![c] = "done"]
    /\ body' = [body EXCEPT ![c] = Failed(c)]
    /\ IF c \in Streams /\ c \notin gone THEN Sent(c, Broken(c)) ELSE UNCHANGED events
    /\ UNCHANGED <<rid, prompt, told, storeVars, made, left, orphan, errored, gone, lag>>

\* Mutant: an item is opened for every piece of text.
DeltaReopens(c, output) ==
    IF Endpoint(c) # "responses" THEN <<<<"chunk", output.text>>>>
    ELSE IF output.text = <<>> THEN <<>>
    ELSE <<Frame("output_item.added"), Frame("content_part.added"), <<"output_text.delta", output.text>>>>

\* The frames of one output.  A response opens its item on the first text; its usage
\* counts the tokens of the outputs that had text.
Delta(c, output) ==
    IF Endpoint(c) # "responses" THEN <<<<"chunk", output.text>>>>
    ELSE IF output.text = <<>> THEN <<>>
    ELSE (IF told[c].text = <<>> THEN <<Frame("output_item.added"), Frame("content_part.added")>>
          ELSE <<>>) \o <<<<"output_text.delta", output.text>>>>
\* Mutant: the closing events carry the last piece.
ToldLast(c, output) == output
ToldMore(c, output) ==
    IF Endpoint(c) = "responses" /\ output.text = <<>> THEN told[c]
    ELSE [text |-> told[c].text \o output.text, tokens |-> told[c].tokens + output.tokens]

Status(reason) == IF reason = "length" THEN "incomplete" ELSE "completed"

\* _stream and stream_responses, from one output to the next await.  The last output
\* ends the generator, whose finally runs; a response is stored before its last event.
StreamOutput(c) ==
    LET output == Item(c).output
        item_done == IF ToldMore(c, output).text = <<>> THEN <<>>
                     ELSE <<Frame("output_text.done"), Frame("content_part.done"),
                            Frame("output_item.done")>>
        result == Body(c, Status(Item(c).reason), ToldMore(c, output))
    IN  /\ Reads(c) /\ c \in Streams /\ c \notin gone
        /\ Taken(c)
        /\ told' = [told EXCEPT ![c] = ToldMore(c, output)]
        /\ IF ~Item(c).final
           THEN /\ Sent(c, Delta(c, output))
                /\ UNCHANGED <<pc, body, response_store, counter, queues, live>>
           ELSE /\ Released({<<c, 1>>})
                /\ IF Endpoint(c) = "responses"
                   THEN /\ Sent(c, Delta(c, output) \o item_done)
                        /\ pc' = [pc EXCEPT ![c] = "closing"]
                        /\ response_store' = IF WillStore(c)
                                             THEN [response_store EXCEPT ![rid[c]] = result]
                                             ELSE response_store
                   ELSE /\ Sent(c, Delta(c, output) \o Closing(c, <<Frame("usage")>>))
                        /\ pc' = [pc EXCEPT ![c] = "done"]
                        /\ UNCHANGED response_store
                /\ body' = [body EXCEPT ![c] = result]
                /\ UNCHANGED counter
    /\ UNCHANGED <<rid, prompt, msg_store, made, left, orphan, errored, gone, lag>>

LastEvent(c) ==
    /\ pc[c] = "closing"
    /\ Sent(c, <<Frame("response.completed")>>)
    /\ pc' = [pc EXCEPT ![c] = "done"]
    /\ UNCHANGED <<rid, prompt, told, body, storeVars, engineVars, gone, lag>>

------------------------------------------------------------------------------
(* Bodies.                                                                 *)

\* _complete: the last output is the response.
BodyOutput(c) ==
    LET result == Body(c, IF Endpoint(c) = "responses" THEN Status(Item(c).reason) ELSE "completed",
                       Item(c).output)
    IN  /\ Reads(c) /\ c \notin Streams /\ c \notin gone
        /\ Taken(c)
        /\ told' = [told EXCEPT ![c] = Item(c).output]
        /\ IF Item(c).final
           THEN /\ Released({<<c, 1>>})
                /\ pc' = [pc EXCEPT ![c] = "done"]
                /\ body' = [body EXCEPT ![c] = result]
                /\ response_store' = IF WillStore(c) THEN [response_store EXCEPT ![rid[c]] = result]
                                     ELSE response_store
           ELSE UNCHANGED <<pc, body, response_store, queues, live>>
    /\ UNCHANGED <<rid, prompt, events, msg_store, counter, made, left, orphan, errored, gone, lag>>

------------------------------------------------------------------------------
(* Embeddings: one task per document, until the first exception.           *)

Finished(g) == left[g] = 0 /\ g \notin live
Failing(c) == \E g \in GensOf(c) : inbox[g] # <<>> /\ inbox[g][1] = Failure

\* The handler's first await lets every task run up to its own await, or raise.
StartDocuments(c) == \E bad \in SUBSET GensOf(c) :
    LET good == GensOf(c) \ bad
    IN  /\ pc[c] = "open" /\ Endpoint(c) = "embedding"
        /\ errored => good = {}
        /\ pc' = [pc EXCEPT ![c] = "running"]
        /\ inbox' = [g \in Gens |-> IF g \in bad THEN <<Failure>> ELSE inbox[g]]
        /\ queues' = [i \in FlightIds |->
                        IF \E g \in good : GenId(g) = i THEN CHOOSE g \in good : GenId(g) = i
                        ELSE queues[i]]
        /\ live' = live \cup good
    /\ UNCHANGED <<rid, prompt, events, told, body, storeVars, made, left, orphan, errored, gone, lag>>

\* The task of a document gets its output and closes its generator.
DocumentDone(g) ==
    /\ Endpoint(g[1]) = "embedding" /\ pc[g[1]] = "running"
    /\ inbox[g] # <<>> /\ inbox[g][1] # Failure
    /\ inbox' = [inbox EXCEPT ![g] = Tail(@)]
    /\ Released({g})
    /\ UNCHANGED <<handlerVars, storeVars, made, left, orphan, errored, gone, lag>>

\* Mutant: the response does not wait for the siblings it cancels.
FailDocumentsAtOnce(c) ==
    /\ pc[c] = "running" /\ Endpoint(c) = "embedding" /\ Failing(c)
    /\ pc' = [pc EXCEPT ![c] = "done"]
    /\ body' = [body EXCEPT ![c] = Failed(c)]
    /\ UNCHANGED <<rid, prompt, events, told, storeVars, engineVars, gone, lag>>

\* One of them raised: the others are cancelled, and their generators closed, first.
FailDocuments(c) ==
    /\ pc[c] = "running" /\ Endpoint(c) = "embedding" /\ Failing(c)
    /\ pc' = [pc EXCEPT ![c] = "done"]
    /\ body' = [body EXCEPT ![c] = Failed(c)]
    /\ Released(GensOf(c))
    /\ inbox' = [g \in Gens |-> IF g[1] = c THEN <<>> ELSE inbox[g]]
    /\ UNCHANGED <<rid, prompt, events, told, storeVars, made, left, orphan, errored, gone, lag>>

AllDocuments(c) ==
    /\ pc[c] = "running" /\ Endpoint(c) = "embedding"
    /\ \A g \in GensOf(c) : Finished(g) /\ inbox[g] = <<>>
    /\ pc' = [pc EXCEPT ![c] = "done"]
    /\ body' = [body EXCEPT ![c] = Body(c, "completed", Nothing)]
    /\ UNCHANGED <<rid, prompt, events, told, storeVars, engineVars, gone, lag>>

------------------------------------------------------------------------------
(* Clients that leave, and the routes that read the store.                 *)

\* Nothing tells a handler at once: a stream's is cancelled by the server, a body's
\* asks after an output of its request, and that of an embedding never asks.
Leave(c) ==
    /\ pc[c] \in {"open", "running", "closing"} /\ c \notin gone
    /\ gone' = gone \cup {c}
    /\ UNCHANGED <<handlerVars, storeVars, engineVars, lag>>

Ends(c) ==
    /\ pc' = [pc EXCEPT ![c] = "done"]
    /\ body' = IF body[c] = NoBody THEN [body EXCEPT ![c] = Failed(c)] ELSE body
    /\ UNCHANGED <<rid, prompt, events, told, storeVars, errored, gone, lag>>

\* The server cancels a stream whose client left; the exception lands in the queue's
\* get, so the finally runs at once.  Of a stream not pulled yet nothing is left.
CancelStream(c) ==
    /\ c \in gone /\ c \in Streams /\ pc[c] \in {"open", "running", "closing"}
    /\ IF pc[c] = "running" THEN Released({<<c, 1>>}) ELSE UNCHANGED <<queues, live>>
    /\ Ends(c)
    /\ UNCHANGED <<made, left, inbox, orphan>>

\* is_disconnected() after an output, or a send that fails: the handler returns with
\* generate() suspended at its yield.  A responses stream aborts the id before that.
NoticeGone(c) ==
    /\ c \in gone /\ Reads(c)
    /\ Taken(c)
    /\ orphan' = [orphan EXCEPT ![<<c, 1>>] = "fresh"]
    /\ IF c \in Streams /\ Endpoint(c) = "responses" THEN Released({<<c, 1>>})
       ELSE UNCHANGED <<queues, live>>
    /\ Ends(c)
    /\ UNCHANGED <<made, left>>

\* cancel_responses.
Terminal == {"completed", "incomplete", "failed", "cancelled"}
CancelResponse(id) ==
    /\ response_store[id] # NoBody
    /\ IF response_store[id].status \in Terminal THEN UNCHANGED <<response_store, queues, live>>
       ELSE /\ response_store' = [response_store EXCEPT ![id].status = "cancelled"]
            /\ queues' = [queues EXCEPT ![id] = NoGen]
            /\ live' = live \ Holders({id})
    /\ UNCHANGED <<handlerVars, msg_store, counter, made, left, inbox, orphan, errored, gone, lag>>

ServingStep ==
    \/ \E c \in Calls :
         \/ Refuse(c) \/ Create(c) \/ CreateResponse(c) \/ Start(c)
         \/ StreamOutput(c) \/ LastEvent(c) \/ BodyOutput(c) \/ ReadFailure(c)
         \/ StartDocuments(c) \/ FailDocuments(c) \/ AllDocuments(c)
         \/ Leave(c) \/ CancelStream(c) \/ NoticeGone(c)
    \/ \E g \in Gens : EngineStep(g) \/ QuietStep(g) \/ DocumentDone(g) \/ CloseOrphan(g)
    \/ \E id \in CallIds : CancelResponse(id)
    \/ EngineDies

ServingNext == ServingStep /\ UNCHANGED wish

ServingSpec == ServingInit /\ [][ServingNext]_svars

------------------------------------------------------------------------------
(* Properties.                                                             *)

\* A stream is what its clients parse: events are numbered from 0 without a gap,
\* every delta lies inside the one item and part that were opened before it, what
\* was opened is closed before the end, and nothing follows the end, whichever of
\* the completion, a failure or a disconnect comes first (stream_responses, _stream,
\* convert_stream_to_sse_events).
EndTypes(c) == IF Endpoint(c) = "responses" THEN {"response.completed", "error"} ELSE {"[DONE]"}
TypesIn(frames) == {frames[k][1] : k \in DOMAIN frames}
InOrder(frames, ends) ==
    LET type(k) == frames[k][1]
        has(t, n) == \E k \in 1..n : type(k) = t
        len == Len(frames)
    IN  /\ \A k \in 1..len : frames[k][2] = k - 1
        /\ \A k \in 1..len : type(k) \in ends => k = len
        /\ \A k \in 1..len : type(k) = "output_text.delta" =>
             has("output_item.added", k) /\ has("content_part.added", k) /\ ~has("output_text.done", k)
        /\ \A j, k \in 1..len : type(j) = "output_item.added" /\ type(k) = "output_item.added" => j = k
EventsInOrder == \A c \in Streams :
    /\ InOrder(events[c], EndTypes(c))
    /\ "response.completed" \in TypesIn(events[c]) =>
         ("output_item.added" \in TypesIn(events[c]) <=> "output_item.done" \in TypesIn(events[c]))
    /\ pc[c] = "done" /\ rid[c] # NoId /\ c \notin gone =>
         events[c] # <<>> /\ Last(events[c])[1] \in EndTypes(c)

\* What a client is told is what was generated: the text of a body, of the last event
\* and of the stored copy is the text of every token of the call, and a stream's
\* pieces concatenate to it, however they were cut and whatever else ran; the tokens
\* billed are the tokens generated (but see UsageIsExact).
Pieces(frames) ==
    LET upto[k \in 0 .. Len(frames)] == IF k = 0 THEN <<>> ELSE upto[k - 1] \o frames[k][3]
    IN  upto[Len(frames)]
BodiesAreWhole ==
    /\ \A c \in Calls :
         body[c] # NoBody /\ body[c].status \in Terminal /\ Endpoint(c) # "embedding" =>
           /\ body[c].text = made[<<c, 1>>].text
           /\ c \in Streams => Pieces(events[c]) = made[<<c, 1>>].text
           /\ (Endpoint(c) = "responses" /\ c \in Streams) \/ body[c].tokens = made[<<c, 1>>].tokens
    /\ \A id \in CallIds : response_store[id] # NoBody =>
         response_store[id] = body[response_store[id].call]

\* A call that has been answered, or whose client is gone, leaves nothing in the
\* engine once its abandoned generator is closed: no queue under its id, no request
\* that still runs (the finally of generate and encode; the siblings of a document
\* that failed).
NothingLeftBehind == \A g \in Gens :
    pc[g[1]] = "done" /\ orphan[g] = "no" => g \notin live /\ ~Registered(g)

\* R2.4 (pretending_vllm_requirements.md:333): "Client disconnect aborts the request in
\* the engine and frees its blocks within one step".  The step that is under way when
\* the client leaves is not counted against it.  It does not hold: a handler that has a
\* body to return asks only after an output (completion/serving.py:137), so its request
\* runs on through every step that has none for it.
DisconnectFreesSoon == \A g \in Gens : lag[g] <= 2

\* A conversation is one thread: what a turn renders is its own instructions, then
\* the questions before it, each with the answer that was given to it and to no other
\* (construct_input_messages).
OneThread(c) ==
    LET turns == SelectSeq(prompt[c], LAMBDA m : m.role # "system")
        system == SelectSeq(prompt[c], LAMBDA m : m.role = "system")
    IN  /\ system \in {<<>>, <<Message("system", c)>>}
        /\ Last(turns) = Message("user", c)
        /\ \A k \in DOMAIN turns : turns[k].role = "assistant" =>
             k > 1 /\ turns[k - 1] = Message("user", turns[k].of)
        /\ \A k \in DOMAIN turns \ {1} : turns[k].role = "user" =>
             turns[k - 1].role = "assistant" \/ body[turns[k - 1].of].text = <<>>
ThreadsHold == \A c \in Calls : prompt[c] # <<>> => OneThread(c)

\* The same, and what the two stores keep under an id belongs together: a later turn
\* joins them, but one is written when a turn is admitted (serving.py:422) and the
\* other when it ends (serving.py:512, streaming.py:271), and other turns run between.
ReplayIsCoherent ==
    /\ ThreadsHold
    /\ \A id \in CallIds :
         response_store[id] # NoBody => msg_store[id] = prompt[response_store[id].call]

\* A call that waits for its engine is served by it: its request runs, or an item or a
\* failure waits for it.  It does not hold for a retry under the id of a stream whose
\* client left: the finally of the abandoned generator takes it down (async_llm.py:235).
ServedOrDone == \A c \in Calls :
    pc[c] = "running" /\ Endpoint(c) # "embedding" =>
        <<c, 1>> \in live \/ inbox[<<c, 1>>] # <<>>

\* test_responses_api.py:458 reads a stream's usage as the tokens it generated.
UsageIsExact == \A c \in Streams :
    body[c] # NoBody /\ body[c].status \in Terminal => body[c].tokens = made[<<c, 1>>].tokens
------------------------------------------------------------------------------
(* What the proofs need to know of every state (ServingProofs.tla).         *)

Outputs == [text : Seq(Nat), tokens : Nat]
Items == [output : Outputs, final : BOOLEAN, reason : {"stop", "length", "EngineDeadError"}]

OldTypes == {"role", "chunk", "usage", "error", "[DONE]"}
FrameTypes == OldTypes \cup
    {"response.created", "response.in_progress", "output_item.added", "content_part.added",
     "output_text.delta", "output_text.done", "content_part.done", "output_item.done",
     "response.completed"}
Frames == FrameTypes \X Nat \X Seq(Nat)

ServingTypeOK ==
    /\ wish \in Workloads
    /\ pc \in [Calls -> {"new", "open", "running", "closing", "done"}]
    /\ events \in [Calls -> Seq(Frames)] /\ told \in [Calls -> Outputs]
    /\ DOMAIN rid = Calls /\ DOMAIN body = Calls /\ DOMAIN response_store = CallIds
    /\ queues \in [FlightIds -> Gens \cup {NoGen}] /\ live \subseteq Gens
    /\ made \in [Gens -> Outputs] /\ left \in [Gens -> Int] /\ inbox \in [Gens -> Seq(Items)]
    /\ orphan \in [Gens -> {"no", "fresh", "due"}] /\ gone \subseteq Calls
    /\ lag \in [Gens -> Nat]

AtRest(g) == g \notin live /\ ~Registered(g)

\* Who is registered or runs: a generator of a call under way, under its own id.  An
\* embedding that is finished is registered until its output is taken.
FlightInv ==
    /\ \A i \in FlightIds : queues[i] # NoGen => i = GenId(queues[i])
    /\ \A g \in Gens : g \in GensOf(g[1]) \/ AtRest(g)
    /\ \A g \in Gens : pc[g[1]] \in {"new", "open", "closing"} => AtRest(g)
    /\ \A g \in Gens : pc[g[1]] \in {"new", "open"} => left[g] = Samples(g[1])
    /\ \A g \in Gens :
         Endpoint(g[1]) = "embedding" /\ Registered(g) /\ left[g] = 0 => inbox[g] # <<>>

\* A stream's frames, by where its handler is.
FramesInv ==
    \A c \in Streams :
      /\ pc[c] = "new" => rid[c] = NoId
      /\ pc[c] \in {"new", "open"} => events[c] = <<>> /\ told[c] = Nothing
      /\ pc[c] # "done" => TypesIn(events[c]) \cap EndTypes(c) = {}
      /\ Endpoint(c) # "responses" => TypesIn(events[c]) \subseteq OldTypes
      /\ pc[c] \in {"running", "closing"} /\ Endpoint(c) = "responses" =>
           /\ "output_item.added" \in TypesIn(events[c]) <=> told[c].text # <<>>
           /\ "content_part.added" \in TypesIn(events[c]) <=> told[c].text # <<>>
      /\ pc[c] = "running" =>
           "output_text.done" \notin TypesIn(events[c]) /\ "output_item.done" \notin TypesIn(events[c])
      /\ pc[c] = "closing" =>
           /\ Endpoint(c) = "responses"
           /\ "output_item.done" \in TypesIn(events[c]) <=> told[c].text # <<>>

\* What the handler has yet to add of what was made.
Waiting(c) ==
    LET q == inbox[<<c, 1>>] IN IF q = <<>> \/ q[1] = Failure THEN Nothing ELSE q[1].output
CallWhole(c) ==
    LET total == made[<<c, 1>>] IN
    /\ pc[c] \in {"new", "open"} => total = Nothing /\ inbox[<<c, 1>>] = <<>> /\ told[c] = Nothing
    /\ pc[c] = "running" /\ c \in Streams =>
         /\ total.text = told[c].text \o Waiting(c).text
         /\ Endpoint(c) = "responses" \/ total.tokens = told[c].tokens + Waiting(c).tokens
    /\ pc[c] = "running" /\ c \notin Streams =>
         inbox[<<c, 1>>] = <<>> \/ inbox[<<c, 1>>][1] = Failure \/ Waiting(c) = total
    /\ body[c] # NoBody /\ body[c].status \in Terminal =>
         /\ pc[c] \in {"closing", "done"} /\ <<c, 1>> \notin live
         /\ body[c].text = total.text /\ (c \in Streams => told[c].text = total.text)
         /\ (Endpoint(c) = "responses" /\ c \in Streams) \/ body[c].tokens = total.tokens
StoredWhole(id) == response_store[id] # NoBody =>
    LET r == response_store[id] IN
    r.call \in Calls /\ r = body[r.call] /\ r.status \in Terminal /\ pc[r.call] \in {"closing", "done"}
WholeInv ==
    /\ \A c \in Streams : Pieces(events[c]) = told[c].text
    /\ \A g \in Gens : \A k \in 2 .. Len(inbox[g]) : inbox[g][k] = Failure
    /\ \A c \in Calls : Endpoint(c) # "embedding" => CallWhole(c)
    /\ \A id \in CallIds : StoredWhole(id)

ServingInv ==
    ServingTypeOK /\ FlightInv /\ NothingLeftBehind /\ EventsInOrder /\ FramesInv /\ WholeInv

==============================================================================
