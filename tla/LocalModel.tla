----------------------------- MODULE LocalModel -----------------------------
(***************************************************************************)
(* A local model seen by its callers (src/provider/local/mod.rs): the load *)
(* that starts the engine thread, the bounded queue of jobs, and one       *)
(* bounded channel of events per call.  What the engine computes is        *)
(* LocalEngine.                                                            *)
(***************************************************************************)
EXTENDS Naturals, SequencesExt

CONSTANTS LocalCalls, NoJob,
          JobQueue,       \* JOB_QUEUE
          EventBuffer,    \* EVENT_BUFFER
          MaxBlocks       \* blocks a job yields at most

VARIABLES thread,    \* the engine thread
          loader,    \* the caller of LocalModel::load
          handles,   \* is a LocalModel left?
          senders,   \* calls waiting for room in the queue, oldest first
          queue,     \* jobs
          engine,    \* the job being run: its step and blocks left
          call       \* each call: its state, channel, blocks read, usage

localVars == <<thread, loader, handles, senders, queue, engine, call>>

AtRest == [job |-> NoJob, pc |-> "idle", left |-> 0]

Init == /\ thread = "opening" /\ loader = "waiting" /\ handles = FALSE
        /\ senders = <<>> /\ queue = <<>> /\ engine = AtRest
        /\ call = [j \in LocalCalls |->
                      [pc |-> "new", events |-> <<>>, closed |-> FALSE,
                       read |-> 0, failed |-> FALSE, usage |-> FALSE, blocks |-> 0]]

-----------------------------------------------------------------------------
\* The engine opens, or fails; a panicking device is such a failure.
Opens ==
    /\ thread = "opening"
    /\ \/ /\ thread' = IF loader = "waiting" THEN "serving" ELSE "gone"
          /\ loader' = IF loader = "waiting" THEN "loaded" ELSE loader
          /\ handles' = (loader = "waiting")
       \/ /\ thread' = "gone"
          /\ loader' = IF loader = "waiting" THEN "failed" ELSE loader
          /\ UNCHANGED handles
    /\ UNCHANGED <<senders, queue, engine, call>>

\* The load future is dropped; the thread notices when it has opened.
LoadDropped ==
    /\ loader = "waiting"
    /\ loader' = "dropped"
    /\ UNCHANGED <<thread, handles, senders, queue, engine, call>>

\* dispatch_local up to the queue.
Dispatch(j) ==
    /\ handles /\ call[j].pc = "new"
    /\ call' = [call EXCEPT ![j].pc = "sending"]
    /\ senders' = Append(senders, j)
    /\ UNCHANGED <<thread, loader, handles, queue, engine>>

Enqueue ==
    /\ senders # <<>> /\ Len(queue) < JobQueue
    /\ queue' = Append(queue, Head(senders))
    /\ senders' = Tail(senders)
    /\ call' = [call EXCEPT ![Head(senders)].pc = "streaming"]
    /\ UNCHANGED <<thread, loader, handles, engine>>

\* The call's future, or its stream, is dropped.
Abandon(j) ==
    /\ call[j].pc \in {"sending", "streaming"}
    /\ call' = [call EXCEPT ![j].pc = "dropped", ![j].events = <<>>]
    /\ senders' = SelectSeq(senders, LAMBDA k : k # j)
    /\ UNCHANGED <<thread, loader, handles, queue, engine>>

\* The last client and model are dropped; a call under way holds one.
DropModel ==
    /\ handles /\ senders = <<>>
    /\ handles' = FALSE
    /\ UNCHANGED <<thread, loader, senders, queue, engine, call>>

-----------------------------------------------------------------------------

SendersGone == ~handles

\* blocking_recv: the next job, or the end once every sender is gone.
TakeJob ==
    /\ thread = "serving" /\ engine.pc = "idle"
    /\ IF queue # <<>>
       THEN /\ \E n \in 0 .. MaxBlocks :
                   engine' = [job |-> Head(queue), pc |-> "run", left |-> n]
            /\ queue' = Tail(queue)
            /\ UNCHANGED thread
       ELSE SendersGone /\ thread' = "gone" /\ UNCHANGED <<engine, queue>>
    /\ UNCHANGED <<loader, handles, senders, call>>

\* Slip: a dropped stream is not noticed.
NeverGone(j) == FALSE

Gone(j) == call[j].pc = "dropped"

\* blocking_send of one item: it waits for room, or learns the stream is gone.
Send(j, item) ==
    /\ ~Gone(j) /\ Len(call[j].events) < EventBuffer
    /\ call' = [call EXCEPT ![j].events = Append(@, item),
                            ![j].blocks = @ + IF item = "block" THEN 1 ELSE 0]

EmitBlock ==
    /\ engine.pc = "run" /\ engine.left > 0
    /\ Send(engine.job, "block")
    /\ engine' = [engine EXCEPT !.left = @ - 1]
    /\ UNCHANGED <<thread, loader, handles, senders, queue>>

\* Generation ends: the blocks are out, the usage comes next.
Generated ==
    /\ engine.pc = "run" /\ engine.left = 0
    /\ engine' = [engine EXCEPT !.pc = "usage"]
    /\ UNCHANGED <<thread, loader, handles, senders, queue, call>>

\* A pass fails, or panics: the error is the last item, no usage is reported.
JobFails ==
    /\ engine.pc = "run"
    /\ Send(engine.job, "error")
    /\ engine' = [engine EXCEPT !.pc = "close"]
    /\ UNCHANGED <<thread, loader, handles, senders, queue>>

\* A send fails, or the check between prefill chunks: nobody listens.
NobodyListens ==
    /\ engine.pc = "run" /\ Gone(engine.job)
    /\ engine' = [engine EXCEPT !.pc = "close"]
    /\ UNCHANGED <<thread, loader, handles, senders, queue, call>>

Usage(j) == [call EXCEPT ![j].usage = TRUE]

SetUsage ==
    /\ engine.pc = "usage"
    /\ call' = Usage(engine.job)
    /\ engine' = [engine EXCEPT !.pc = "close"]
    /\ UNCHANGED <<thread, loader, handles, senders, queue>>

\* The job is dropped, and its sender with it.
CloseEvents ==
    /\ engine.pc = "close"
    /\ call' = [call EXCEPT ![engine.job].closed = TRUE]
    /\ engine' = AtRest
    /\ UNCHANGED <<thread, loader, handles, senders, queue>>

\* The consumer polls its stream: an item, or the end.
Poll(j) ==
    /\ call[j].pc = "streaming"
    /\ IF call[j].events # <<>>
       THEN LET item == Head(call[j].events)
            IN  call' = [call EXCEPT ![j].events = Tail(@),
                            ![j].read = @ + IF item = "block" THEN 1 ELSE 0,
                            ![j].failed = @ \/ item = "error"]
       ELSE call[j].closed /\ call' = [call EXCEPT ![j].pc = "ended"]
    /\ UNCHANGED <<thread, loader, handles, senders, queue, engine>>

Engine == TakeJob \/ EmitBlock \/ Generated \/ JobFails \/ NobodyListens \/ SetUsage \/ CloseEvents

Next == \/ Opens \/ LoadDropped \/ Enqueue \/ DropModel \/ Engine
        \/ \E j \in LocalCalls : Dispatch(j) \/ Abandon(j) \/ Poll(j)

Spec == Init /\ [][Next]_localVars

\* The thread runs, and a caller that keeps its stream reads it.
FairSpec == Spec /\ WF_localVars(Engine) /\ WF_localVars(Opens) /\ WF_localVars(Enqueue)
                 /\ \A j \in LocalCalls : WF_localVars(Poll(j))

-----------------------------------------------------------------------------
\* A stream that ended without an error gave every block of its job, and its
\* usage is there for whoever asks after the end.
EndTellsAll ==
    \A j \in LocalCalls :
        (call[j].pc = "ended" /\ ~call[j].failed) =>
            call[j].usage /\ call[j].read = call[j].blocks

\* A call settles, behind whatever is queued, also when every handle of the
\* model is dropped after it was queued and when earlier callers go away.
CallsSettle ==
    \A j \in LocalCalls : call[j].pc = "sending" ~> call[j].pc \in {"ended", "dropped"}

\* The engine thread ends once nobody can give it work.
ThreadEnds == (loader # "waiting" /\ ~handles) ~> thread = "gone"
=============================================================================
