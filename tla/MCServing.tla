------------------------------ MODULE MCServing ------------------------------
(* Instances of Serving for TLC: pairs of calls that share an id, a           *)
(* conversation, or nothing but the engine.                                   *)
EXTENDS Serving, TLC

CONSTANTS one, two, three

X == <<"chosen", "X", 0>>
Wish(endpoint, width, stream) ==
    [endpoint |-> endpoint, width |-> width, stream |-> stream, store |-> FALSE,
     instructions |-> FALSE, request_id |-> NoId, previous_response_id |-> NoId]
Turn(stream, store, id, previous) ==
    [Wish("responses", 1, stream) EXCEPT !.store = store, !.instructions = TRUE,
                                         !.request_id = id, !.previous_response_id = previous]
Pair(first, second) == one :> first @@ two :> second

\* A turn and the one that follows it.
MCConversations ==
    {Pair(Turn(stream, TRUE, X, NoId), Turn(~stream, store, NoId, X)) :
        stream \in BOOLEAN, store \in BOOLEAN}
\* A retry under the id of a turn that is still running.
MCClashes == {Pair(Turn(stream, TRUE, X, NoId), Turn(TRUE, FALSE, X, NoId)) : stream \in BOOLEAN}
\* Calls of other kinds, side by side.
MCMixes == {Pair(Wish("embedding", 2, FALSE), Wish("chat", 2, TRUE)),
            Pair(Wish("completion", 1, FALSE), Wish("chat", 1, TRUE))}
\* Two turns that both continue a response, the first of them under its id.
MCTakeovers == {Pair(Turn(FALSE, TRUE, X, NoId), Turn(TRUE, TRUE, X, X)) @@ three :> Turn(FALSE, FALSE, NoId, X)}
\* Clients of bodies, one of several choices, and of a batch of documents.
MCBodies == {Pair(Wish("completion", 1, FALSE), Wish("chat", 2, FALSE)),
             Pair(Wish("embedding", 2, FALSE), Wish("responses", 1, FALSE))}
MCWorkloads == MCConversations \cup MCClashes \cup MCMixes
==============================================================================
