------------------------------ MODULE CoreClient ------------------------------
(***************************************************************************)
(* How the asynchronous front end reaches the engine core                   *)
(* (v1/engine/core_client.py, core_client_mp.py): in its own process        *)
(* (InprocClient), in another one behind two sockets (AsyncMPClient on this   *)
(* side, core_proc.py on the other), or as several replicas in this one      *)
(* (DPInprocClient, under expert parallelism in lockstep).                  *)
(*                                                                         *)
(* The core itself is abstracted to the requests it runs (EngineCore.tla    *)
(* has the rest): every step gives every running request an output, any of  *)
(* them may end with it, and one that has had MaxOutputs must.              *)
(***************************************************************************)
EXTENDS DataParallel

CONSTANTS
    MaxOutputs,   \* bound: the outputs each of a call's engine requests produces
    Transports,   \* the client classes considered: see TransportAssumption
    MayFail       \* whether an engine step may raise, and the process die

ASSUME TransportAssumption ==
    /\ Transports \subseteq {"inproc", "mp", "dp", "ep"}
    /\ MaxOutputs \in [Calls -> Nat \ {0}]
    /\ MayFail \in BOOLEAN

\* The DEAD frame.  A frame of outputs is never empty.
Dead == <<>>

VARIABLES
    transport,
    core,         \* the requests the core holds, by engine id, each as its call's
    produced,     \* the outputs each of them has had
    cleanup,      \* Scheduler.finished_req_ids is not empty
    batch,        \* in process: the requests of the step being awaited
    router,       \* of the replicas
    to_core,      \* frames on the input socket and in input_queue
    to_client,    \* frames in output_queue and on the output socket
    reader,       \* the frame the reader thread holds between its two steps, if any
    frames,       \* AsyncMPClient._frames
    outstanding,  \* AsyncMPClient._outstanding
    proc,         \* the core's process: "up", "crashed" (unwinding) or "exited"
    dead_error    \* MPClient._dead_error is set

socketVars == <<to_core, to_client, reader, frames, outstanding, proc, dead_error>>
coreVars == <<core, produced, cleanup, batch, router>>
clientVars == <<transport, coreVars, socketVars>>

ClientInit ==
    /\ transport \in Transports
    /\ core = [e \in EngineIds |-> NoCall]
    /\ produced = [e \in EngineIds |-> 0]
    /\ cleanup = FALSE
    /\ batch = {}
    /\ router = NewRouter
    /\ to_core = <<>>
    /\ to_client = <<>>
    /\ reader = <<>>
    /\ frames = <<>>
    /\ outstanding = 0
    /\ proc = "up"
    /\ dead_error = FALSE

------------------------------------------------------------------------------
(* The core.                                                               *)

Held == {e \in EngineIds : core[e] # NoCall}
CoreHasRequests == Held # {} \/ cleanup

\* The core is several replicas, or they are the shards of one set of experts.
Replicated == transport \in {"dp", "ep"}
Lockstep == transport = "ep"

\* One output per request of es, those in ending being their last.
Outputs(es, ending) ==
    SetToSeq({[eid |-> e, origin |-> core[e], final |-> e \in ending] : e \in es})

\* The ways a step over es can end its requests.
Endings(es) == {f \in SUBSET es : \A e \in es : produced[e] + 1 >= MaxOutputs[core[e]] => e \in f}

\* add_request and abort_requests, seen from the scheduler's tables.
WithRequests(k, es, c) == [e \in EngineIds |-> IF e \in es THEN c ELSE k[e]]
Without(k, es) == [e \in EngineIds |-> IF e \in es THEN NoCall ELSE k[e]]

------------------------------------------------------------------------------
(* The client's interface.                                                 *)

\* _check_alive passes.
Alive == transport = "mp" => ~dead_error /\ proc # "exited"

\* _send: a frame sent to a process that no longer reads is dropped here.
Send(ms) == to_core' = IF proc = "up" THEN to_core \o ms ELSE to_core

\* add_request for the children es of c.
Submit(es, c) ==
    /\ IF transport # "mp"
       THEN /\ core' = WithRequests(core, es, c)
            /\ produced' = [e \in EngineIds |-> IF e \in es THEN 0 ELSE produced[e]]
            /\ UNCHANGED <<to_core, outstanding>>
       ELSE /\ Send(SetToSeq({[kind |-> "ADD", eids |-> {e}, call |-> c] : e \in es}))
            /\ outstanding' = outstanding + Cardinality(es)
            /\ UNCHANGED <<core, produced>>
    /\ IF Replicated THEN \E to \in Routings(router, es) : router' = Routed(router, to)
                     ELSE UNCHANGED router
    /\ UNCHANGED <<transport, cleanup, batch, to_client, reader, frames, proc, dead_error>>

\* AsyncMPClient._note_aborted.
NoteAborted(k) == IF outstanding > k THEN outstanding - k ELSE 0

\* MPClient.abort_requests.
SendAbort(es) ==
    IF es = {} THEN UNCHANGED <<to_core, outstanding>>
    ELSE /\ Send(<<[kind |-> "ABORT", eids |-> es, call |-> NoCall]>>)
         /\ outstanding' = NoteAborted(Cardinality(es))

\* abort_requests: the core drops the ones it holds.
Abort(es) ==
    /\ CASE transport = "inproc" ->
              /\ core' = Without(core, es)
              /\ cleanup' = (cleanup \/ es \cap Held # {})
              /\ UNCHANGED <<router, to_core, outstanding>>
         [] transport = "mp" -> SendAbort(es) /\ UNCHANGED <<core, cleanup, router>>
         [] Replicated ->
              /\ core' = Without(core, Reached(router, es))
              /\ router' = AbortedAt(router, es)
              /\ UNCHANGED <<cleanup, to_core, outstanding>>
    /\ UNCHANGED <<transport, produced, batch, to_client, reader, frames, proc, dead_error>>

\* has_requests.
HasRequests ==
    CASE transport = "inproc" -> CoreHasRequests
      [] transport = "mp" -> outstanding > 0 \/ frames # <<>>
      [] Replicated -> Working(router) # {}

------------------------------------------------------------------------------
(* The replicas.                                                           *)

\* The replicas take their steps, in order: what they produce, merged.
Produced(ending) ==
    LET merged[n \in 0 .. Replicas] ==
          IF n = 0 THEN <<>> ELSE merged[n - 1] \o Outputs(PlacedAt(router, n - 1), ending)
    IN  merged[Replicas]

\* What the steps of ks leave, when the front end ends the requests of stops.
Round(ks, ending, stops) ==
    /\ core' = Without(core, ending \cup stops)
    /\ produced' = [e \in EngineIds |->
                      IF e \in ending THEN 0
                      ELSE IF router.placed[e] \in ks THEN produced[e] + 1 ELSE produced[e]]
    /\ router' = AbortedAt(Stepped(router, Lockstep, ks, ending), stops)
    /\ UNCHANGED <<transport, cleanup, batch, socketVars>>

------------------------------------------------------------------------------
(* The core's process: run_busy_loop.                                      *)

\* _process_input_queue, _handle: the next message.
CoreReceives ==
    /\ proc = "up" /\ to_core # <<>>
    /\ to_core' = Tail(to_core)
    /\ LET m == Head(to_core)
       IN  IF m.kind = "ADD"
           THEN /\ core' = WithRequests(core, m.eids, m.call)
                /\ produced' = [e \in EngineIds |-> IF e \in m.eids THEN 0 ELSE produced[e]]
                /\ UNCHANGED cleanup
           ELSE /\ core' = Without(core, m.eids)
                /\ cleanup' = (cleanup \/ m.eids \cap Held # {})
                /\ UNCHANGED produced
    /\ UNCHANGED <<transport, batch, router, to_client, reader, frames, outstanding, proc, dead_error>>

\* step(): one frame for the whole batch.
CoreSteps ==
    /\ transport = "mp" /\ proc = "up" /\ CoreHasRequests
    /\ \E ending \in Endings(Held) :
         /\ core' = Without(core, ending)
         /\ produced' = [e \in EngineIds |-> IF e \in Held \ ending THEN produced[e] + 1 ELSE 0]
         /\ cleanup' = (ending # {})
         /\ to_client' = IF Held = {} THEN to_client ELSE Append(to_client, Outputs(Held, ending))
    /\ UNCHANGED <<transport, batch, router, to_core, reader, frames, outstanding, proc, dead_error>>

\* The loop raises, or the process is killed: what the writer thread had not sent is
\* lost, and the DEAD frame may follow what it had.
CoreCrashes ==
    /\ MayFail /\ transport = "mp" /\ proc = "up"
    /\ proc' = "crashed"
    /\ \E sent \in 0..Len(to_client), last \in {<<>>, <<Dead>>} :
         to_client' = SubSeq(to_client, 1, sent) \o last
    /\ core' = Without(core, EngineIds)
    /\ produced' = [e \in EngineIds |-> 0]
    /\ cleanup' = FALSE
    /\ to_core' = <<>>
    /\ UNCHANGED <<transport, batch, router, reader, frames, outstanding, dead_error>>

CoreExits ==
    /\ proc = "crashed"
    /\ proc' = "exited"
    /\ UNCHANGED <<transport, coreVars, to_core, to_client, reader, frames, outstanding, dead_error>>

------------------------------------------------------------------------------
(* AsyncMPClient._read_frames, on its own thread.                           *)

NumFinal(outs) == Cardinality({i \in DOMAIN outs : outs[i].final})

\* A frame comes off the socket: a DEAD one ends the thread, another is counted.
ReaderTakes ==
    /\ reader = <<>> /\ ~dead_error /\ to_client # <<>>
    /\ to_client' = Tail(to_client)
    /\ IF Head(to_client) = Dead
       THEN /\ dead_error' = TRUE
            /\ UNCHANGED <<reader, outstanding>>
       ELSE /\ reader' = Head(to_client)
            /\ outstanding' = outstanding - NumFinal(Head(to_client))
            /\ UNCHANGED dead_error
    /\ UNCHANGED <<transport, coreVars, to_core, frames, proc>>

\* The lock is released before the frame is handed over.
ReaderPuts ==
    /\ reader # <<>>
    /\ frames' = Append(frames, reader)
    /\ reader' = <<>>
    /\ UNCHANGED <<transport, coreVars, to_core, to_client, outstanding, proc, dead_error>>

ProcessStep == CoreReceives \/ CoreSteps \/ CoreCrashes \/ CoreExits \/ ReaderTakes \/ ReaderPuts

==============================================================================
