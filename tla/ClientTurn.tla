----------------------------- MODULE ClientTurn -----------------------------
(***************************************************************************)
(* The pipeline of CucaClient (src/client.rs): a turn runs the request     *)
(* hooks, looks its effective request up in the response cache, dispatches *)
(* to a provider or to the orchestrator, and hands its consumer a stream   *)
(* that runs the plugins on every block and once more at the end.          *)
(* Plugins are seen from the client: what a hook answers is open.          *)
(***************************************************************************)
EXTENDS Naturals, Sequences, FiniteSets

CONSTANTS Turns,       \* calls of generate_stream
          Requests,    \* effective requests, told apart by their digest
          Plugins,     \* number of registered plugins
          MaxItems     \* bound: items a provider stream yields before its end

VARIABLES client,      \* what the builder attached
          cache,       \* the prompt cache: a response per request, or none
          turn         \* each turn's stream and what came of it

turnVars == <<client, cache, turn>>

\* Only text and calls count as generated; a result stands for an image too.
Block == {"text", "call", "result"}
Generated == {"text", "call"}
Refused == "error"

NoResponse == [content |-> <<>>, tokens |-> 0, reported |-> FALSE, some |-> FALSE]
Empty == [NoResponse EXCEPT !.some = TRUE]

Fresh == [pc |-> "idle", request |-> "none", asked |-> 0,
          wants |-> FALSE, usage |-> FALSE, response |-> Empty, sawError |-> FALSE,
          done |-> FALSE, left |-> <<>>, handle |-> NoResponse,
          seen |-> <<>>, closed |-> 0]

Init == /\ client \in [cache : BOOLEAN, orchestrator : BOOLEAN]
        /\ cache = [r \in Requests |-> NoResponse]
        /\ turn = [t \in Turns |-> Fresh]

Set(t, rec) == turn' = [turn EXCEPT ![t] = rec]
At(t, pc) == turn[t].pc = pc

-----------------------------------------------------------------------------
(* run_pipeline *)

\* The hooks run in order and may rewrite the request; the first that refuses
\* (0: none) ends the turn before any later one is asked.
RunRequestHooks(t, request, refusing, wants) ==
    /\ At(t, "idle")
    /\ Set(t, IF refusing = 0
              THEN [turn[t] EXCEPT !.pc = "effective", !.asked = Plugins,
                                   !.request = request, !.wants = wants]
              ELSE [turn[t] EXCEPT !.pc = "failed", !.asked = refusing])
    /\ UNCHANGED <<client, cache>>

LookUp(t) ==
    LET entry == cache[turn[t].request] IN
    /\ At(t, "effective")
    /\ Set(t, IF client.cache /\ entry.some
              THEN [turn[t] EXCEPT !.pc = "replay", !.response = entry,
                                   !.left = entry.content]
              ELSE [turn[t] EXCEPT !.pc = "dispatch"])
    /\ UNCHANGED <<client, cache>>

\* An orchestrator without a cache returns its stream uninstrumented.
Dispatch(t) ==
    /\ At(t, "dispatch")
    /\ \/ Set(t, [turn[t] EXCEPT !.pc = "failed"])
       \/ Set(t, [turn[t] EXCEPT
                    !.pc = IF client.orchestrator /\ ~client.cache
                           THEN "bare" ELSE "stream"])
    /\ UNCHANGED <<client, cache>>

-----------------------------------------------------------------------------
(* PluginStream::poll_next *)

\* What a plugin may do to a block; any other replacement than a result is
\* treated as one. An answer is also invalid when the tool fails.
ChunkEdit == {"keep", "result", Refused}
ToolAnswer == {"pass", "result", "invalid"}

\* execute_local_tool: the first plugin that does not pass answers for all;
\* an answer that is no result of this call is an error.
LocalTool(block, answers) ==
    LET takers == {p \in 1..Plugins : answers[p] # "pass"}
    IN IF block # "call" \/ takers = {} THEN block
       ELSE CASE answers[CHOOSE p \in takers : \A q \in takers : p <= q] = "result"
                   -> "result"
              [] OTHER -> Refused

\* on_stream_chunk: each plugin gets what the one before it left, and the
\* first refusal wins.
ChunkHooks(block, edits) ==
    LET made == {edits[p] : p \in 1..Plugins} \ {"keep"}
    IN  IF block = Refused \/ Refused \in made THEN Refused
        ELSE IF made = {} THEN block ELSE "result"

Count(block) == IF block \in Generated THEN 1 ELSE 0

Yield(trn, item) ==
    [trn EXCEPT !.seen = Append(@, item),
                !.sawError = @ \/ item = Refused,
                !.response.content = IF item = Refused THEN @ ELSE Append(@, item),
                !.response.tokens = @ + Count(item)]

Room(t) == Len(turn[t].seen) < MaxItems

\* What the plugins may make of the blocks of the provider.
Outcomes == {ChunkHooks(LocalTool(block, answers), edits) :
                block \in Block, answers \in [1..Plugins -> ToolAnswer],
                edits \in [1..Plugins -> ChunkEdit]}

PollBlock(t) ==
    /\ At(t, "stream") /\ ~turn[t].done /\ Room(t)
    /\ \E item \in Outcomes : Set(t, Yield(turn[t], item))
    /\ UNCHANGED <<client, cache>>

\* An error of the provider is an item as well; the stream goes on.
PollError(t) ==
    /\ At(t, "stream") /\ ~turn[t].done /\ Room(t)
    /\ Set(t, Yield(turn[t], Refused))
    /\ UNCHANGED <<client, cache>>

\* ResponseMetadataHandle: the adapter records usage while it streams.
ReportUsage(t) ==
    /\ At(t, "stream") /\ ~turn[t].done /\ ~client.orchestrator
    /\ Set(t, [turn[t] EXCEPT !.usage = TRUE])
    /\ UNCHANGED <<client, cache>>

\* publish_response moves the content out of the stream's own response.
Publish(trn) ==
    IF trn.wants
    THEN [trn EXCEPT !.handle = trn.response, !.wants = FALSE,
                     !.response.content = <<>>]
    ELSE trn

\* The hooks at the end see the metadata taken once, errors of theirs change
\* nothing, then the cache is written, then the caller gets the response.
Completed(trn) ==
    [trn EXCEPT !.done = TRUE, !.closed = @ + 1, !.usage = FALSE,
                !.response.reported = trn.usage]

\* Slip: a second poll past the end runs the hooks again.
FirstEndAlways(t) == TRUE

FirstEnd(t) == ~turn[t].done

\* Slip: the response is handed over before the cache is written.
WriteBackPublished(t) ==
    IF client.cache /\ ~turn[t].sawError
    THEN [cache EXCEPT ![turn[t].request] = Publish(Completed(turn[t])).response]
    ELSE cache

WriteBack(t) ==
    IF client.cache /\ ~turn[t].sawError
    THEN [cache EXCEPT ![turn[t].request] = Completed(turn[t]).response]
    ELSE cache

PollEnd(t) ==
    /\ At(t, "stream")
    /\ IF FirstEnd(t)
       THEN Set(t, Publish(Completed(turn[t]))) /\ cache' = WriteBack(t)
       ELSE UNCHANGED <<turn, cache>>
    /\ UNCHANGED client

-----------------------------------------------------------------------------
(* CacheHitStream, the unwrapped stream of the orchestrator, and the caller *)

PollReplay(t) ==
    /\ At(t, "replay")
    /\ IF turn[t].left # <<>>
       THEN Set(t, [turn[t] EXCEPT !.seen = Append(@, Head(turn[t].left)),
                                   !.left = Tail(@)])
       ELSE IF FirstEnd(t)
            THEN Set(t, Publish([turn[t] EXCEPT !.done = TRUE, !.closed = @ + 1]))
            ELSE UNCHANGED turn
    /\ UNCHANGED <<client, cache>>

PollBare(t, item) ==
    /\ At(t, "bare") /\ ~turn[t].done /\ Room(t)
    /\ Set(t, [turn[t] EXCEPT !.seen = Append(@, item)])
    /\ UNCHANGED <<client, cache>>

EndBare(t) ==
    /\ At(t, "bare") /\ ~turn[t].done
    /\ Set(t, [turn[t] EXCEPT !.done = TRUE])
    /\ UNCHANGED <<client, cache>>

\* ResponseHandle::take.
TakeResponse(t) ==
    /\ turn[t].handle.some
    /\ Set(t, [turn[t] EXCEPT !.handle = NoResponse])
    /\ UNCHANGED <<client, cache>>

\* The consumer drops the stream: nothing of poll_next runs any more.
DropStream(t) ==
    /\ turn[t].pc \in {"stream", "replay", "bare"} /\ ~turn[t].done
    /\ Set(t, [turn[t] EXCEPT !.pc = "dropped"])
    /\ UNCHANGED <<client, cache>>

\* The cache loses an entry to its capacity or its clock (PromptCache).
Forget(r) ==
    /\ cache[r].some
    /\ cache' = [cache EXCEPT ![r] = NoResponse]
    /\ UNCHANGED <<client, turn>>

Next ==
    \/ \E t \in Turns :
          \/ \E r \in Requests, p \in 0..Plugins, w \in BOOLEAN :
                RunRequestHooks(t, r, p, w)
          \/ LookUp(t)
          \/ Dispatch(t)
          \/ PollBlock(t)
          \/ PollError(t)
          \/ ReportUsage(t)
          \/ PollEnd(t)
          \/ PollReplay(t)
          \/ \E item \in {"text", Refused} : PollBare(t, item)
          \/ EndBare(t)
          \/ TakeResponse(t)
          \/ DropStream(t)
    \/ \E r \in Requests : Forget(r)

Spec == Init /\ [][Next]_turnVars

-----------------------------------------------------------------------------
Instrumented(t) == turn[t].pc \in {"stream", "replay"}

\* The items of s without the errors among them, in the order of s, are c.
WithoutErrors(s, c) ==
    \E place \in [1..Len(c) -> 1..Len(s)] :
        /\ \A j, k \in 1..Len(c) : j < k => place[j] < place[k]
        /\ \A i \in 1..Len(s) : s[i] # Refused <=> \E k \in 1..Len(c) : place[k] = i
        /\ \A k \in 1..Len(c) : c[k] = s[place[k]]

NumGenerated(s) == Cardinality({i \in 1..Len(s) : s[i] \in Generated})

\* A response anyone may replay is one that a consumer has been given whole
\* and without a single refused block, hooks' edits included: a failed or a
\* dropped stream is never written back, however far it was polled.
CacheHoldsWhatWasSeen ==
    \A r \in Requests : cache[r].some =>
        \E t \in Turns : /\ At(t, "stream") /\ turn[t].done
                         /\ turn[t].request = r
                         /\ turn[t].seen = cache[r].content

\* A hit is indistinguishable from a live turn: what it replays to the end is
\* what some live turn of the same request was given.
ReplayEqualsALiveTurn ==
    \A t \in Turns : At(t, "replay") /\ turn[t].done =>
        \E u \in Turns : /\ At(u, "stream") /\ turn[u].request = turn[t].request
                         /\ turn[u].seen = turn[t].seen

\* Every plugin's terminal hook runs once for a stream that ended and never
\* for one that failed or was dropped, and only after every plugin was asked
\* about the request.
ClosedOnceIffEnded ==
    \A t \in Turns :
        /\ turn[t].closed = IF Instrumented(t) /\ turn[t].done THEN 1 ELSE 0
        /\ turn[t].closed = 1 => turn[t].asked = Plugins

\* The caller's handle stays empty until the end and then holds exactly the
\* blocks the stream yielded, counted, whatever was refused in between.
HandleIsTheStream ==
    \A t \in Turns : turn[t].handle.some =>
        /\ turn[t].done /\ turn[t].closed = 1
        /\ WithoutErrors(turn[t].seen, turn[t].handle.content)
        /\ turn[t].handle.tokens = NumGenerated(turn[t].seen)

\* A response that may be replayed is one a consumer was given whole, and its
\* replay is indistinguishable from that turn (PluginStream and CacheHitStream).
ReplayIsFaithful == CacheHoldsWhatWasSeen /\ ReplayEqualsALiveTurn

\* The terminal hooks run once for a stream that ended, never for one that
\* failed or was dropped, and the handle then holds what was yielded
\* (poll_next of both streams, publish_response).
EndIsToldOnce == ClosedOnceIffEnded /\ HandleIsTheStream
=============================================================================
