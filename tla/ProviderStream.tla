--------------------------- MODULE ProviderStream ---------------------------
(***************************************************************************)
(* How a remote provider's frames become content blocks (provider/         *)
(* openai_compat.rs, anthropic.rs, gemini.rs, llamacpp.rs): a translator   *)
(* per wire format, which gathers what a call or a thought is cut into,    *)
(* and the stream that feeds it one transport chunk per poll and yields    *)
(* one block per poll.  SseParser models how chunks become frames; here a  *)
(* chunk is the sequence of frames it completes.                           *)
(*                                                                         *)
(* A frame is a record of its kind.  A text is a sequence of characters, a *)
(* call's name is one with its id.                                         *)
(***************************************************************************)
EXTENDS SequencesExt, Integers

CONSTANTS
    Wires,          \* of "chat", "messages", "gemini" and "completion"
    Frames,         \* for each wire, what a server may send
    Json,           \* the texts that are JSON
    MaxFrames       \* bound: frames of a response

VARIABLES
    wire,           \* one of Wires
    translator,
    buffer,         \* blocks of the last chunk, not yet yielded
    ended,
    yielded,        \* blocks the consumer has got, and the error
    usage,          \* the usage published as metadata, 0 for none
    sent            \* frames received so far

vars == <<wire, translator, buffer, ended, yielded, usage, sent>>

NoCall == [id |-> "", args |-> <<>>]

Init ==
    /\ wire \in Wires
    /\ translator = [acc |-> <<>>, pending |-> <<>>, done |-> FALSE, usage |-> 0,
                     current |-> "none", call |-> NoCall, thought |-> <<>>]
    /\ buffer = <<>>
    /\ ended = FALSE
    /\ yielded = <<>>
    /\ usage = 0
    /\ sent = <<>>

-----------------------------------------------------------------------------
Block(kind, text) == [kind |-> kind, id |-> "", text |-> text]
Null == <<"null">>

\* Arguments that are not JSON become null; the call is never dropped.
CallBlock(call) ==
    [kind |-> "call", id |-> call.id,
     text |-> IF call.args \in Json THEN call.args ELSE Null]

Without(f, k) == [x \in DOMAIN f \ {k} |-> f[x]]

\* What a translator makes of a frame: itself, blocks, and whether it failed.
Told(t, blocks) == [t |-> t, blocks |-> blocks, failed |-> FALSE]
Failed(t) == [t |-> t, blocks |-> <<>>, failed |-> TRUE]

(* chat completions: calls are gathered by index until they end            *)

Flushed(t) ==
    [t EXCEPT !.acc = <<>>,
              !.pending = @ \o [k \in 1..Cardinality(DOMAIN t.acc) |->
                  CallBlock(t.acc[SetToSortSeq(DOMAIN t.acc, LAMBDA i, j : i < j)[k]])]]

\* One entry of delta.tool_calls; an empty fragment ends a call that is JSON.
AccumulateToolCall(t, e) ==
    CASE e.index \notin DOMAIN t.acc ->
             IF e.id = "" THEN Told(t, <<>>)
             ELSE Told([t EXCEPT !.acc = (e.index :> [id |-> e.id, args |-> e.args]) @@ @], <<>>)
      [] e.index \in DOMAIN t.acc /\ e.args # <<>> ->
             Told([t EXCEPT !.acc[e.index].args = @ \o e.args], <<>>)
      [] OTHER ->
             IF t.acc[e.index].args \in Json
             THEN Told([t EXCEPT !.acc = Without(@, e.index)], <<CallBlock(t.acc[e.index])>>)
             ELSE Told(t, <<>>)

\* The entries after one that ends a call are not read.
Accumulated(t, entries) ==
    FoldLeft(LAMBDA r, e : IF r.blocks # <<>> THEN r ELSE AccumulateToolCall(r.t, e),
             Told(t, <<>>), entries)

Reported(t, f) == IF f.usage # 0 THEN [t EXCEPT !.usage = f.usage] ELSE t

\* A frame that finds calls pending gives one of them and is read no further
\* than its usage.
ChatFrame(t, f) ==
    LET u == Reported(t, f)
        calls == Accumulated(u, f.calls)
    IN CASE f.kind = "done" -> Told([Flushed(t) EXCEPT !.done = TRUE], <<>>)
         [] f.kind # "done" /\ t.pending # <<>> ->
                Told([u EXCEPT !.pending = Tail(@)], <<Head(t.pending)>>)
         [] f.kind = "error" /\ t.pending = <<>> -> Failed(t)
         [] f.kind = "delta" /\ t.pending = <<>> /\ f.said # <<>> -> Told(u, <<Head(f.said)>>)
         [] OTHER -> IF f.finish /\ calls.blocks = <<>> THEN Told(Flushed(calls.t), <<>>) ELSE calls

(* messages: one block at a time, between its start and its stop           *)

OnBlockStart(t, f) ==
    CASE f.type = "text" -> [t EXCEPT !.current = "text"]
      [] f.type = "thinking" -> [t EXCEPT !.current = "thinking", !.thought = <<>>]
      [] f.type = "tool_use" ->
             [t EXCEPT !.current = "tool_use", !.call = [id |-> f.id, args |-> <<>>]]
      [] f.type = "other" -> t

OnBlockDelta(t, f) ==
    CASE f.type = "text" -> Told(t, IF f.text = <<>> THEN <<>> ELSE <<Block("text", f.text)>>)
      [] f.type = "thinking" -> Told([t EXCEPT !.thought = @ \o f.text], <<>>)
      [] f.type = "tool_use" ->
             Told(IF t.call = NoCall THEN t ELSE [t EXCEPT !.call.args = @ \o f.text], <<>>)

OnBlockStop(t) ==
    LET stopped == [t EXCEPT !.current = "none"]
    IN CASE t.current = "thinking" -> Told(stopped, <<Block("thinking", t.thought)>>)
         [] t.current = "tool_use" -> Told([stopped EXCEPT !.call = NoCall], <<CallBlock(t.call)>>)
         [] OTHER -> Told(stopped, <<>>)

MessagesFrame(t, f) ==
    CASE f.kind = "start" -> Told(OnBlockStart(t, f), <<>>)
      [] f.kind = "delta" -> OnBlockDelta(t, f)
      [] f.kind = "stop" -> OnBlockStop(t)
      [] f.kind = "usage" -> Told([t EXCEPT !.usage = f.usage], <<>>)
      [] f.kind = "done" -> Told([t EXCEPT !.done = TRUE], <<>>)
      [] f.kind = "error" -> Failed(t)

(* gemini and llama.cpp's own route keep nothing between frames            *)

PlainFrame(t, f) ==
    CASE f.kind = "error" -> Failed(t)
      [] OTHER -> Told(t, f.said)

Translate(t, f) ==
    CASE wire = "chat" -> ChatFrame(t, f)
      [] wire = "messages" -> MessagesFrame(t, f)
      [] OTHER -> PlainFrame(t, f)

-----------------------------------------------------------------------------
\* A chunk's frames in their order; one that fails takes the blocks of the
\* chunk with it.
Translated(chunk) ==
    FoldLeft(LAMBDA r, f :
                 IF r.failed THEN r
                 ELSE LET next == Translate(r.t, f)
                      IN [next EXCEPT !.blocks = IF next.failed THEN <<>> ELSE r.blocks \o @],
             Told(translator, <<>>), chunk)

\* Slip: the pending calls are handed over and kept.
DrainedNever(t) == t

\* Pending calls follow once the wire says it is done or the bytes end.
Drained(t) == [t EXCEPT !.pending = <<>>]

ErrorItem == Block("error", <<>>)

Fail ==
    /\ ended' = TRUE
    /\ yielded' = Append(yielded, ErrorItem)
    /\ UNCHANGED <<buffer, usage>>

Yield ==
    /\ buffer # <<>>
    /\ yielded' = Append(yielded, Head(buffer))
    /\ buffer' = Tail(buffer)
    /\ UNCHANGED <<wire, translator, ended, usage, sent>>

Reading == buffer = <<>> /\ ~ended

ReadChunk(chunk) ==
    LET r == Translated(chunk)
    IN /\ Reading
       /\ sent' = sent \o chunk
       /\ IF r.failed THEN Fail /\ translator' = r.t
          ELSE /\ buffer' = r.blocks \o (IF r.t.done THEN r.t.pending ELSE <<>>)
               /\ ended' = r.t.done
               /\ usage' = IF r.t.usage # 0 THEN r.t.usage ELSE usage
               /\ translator' = [(IF r.t.done THEN Drained(r.t) ELSE r.t) EXCEPT !.usage = 0]
               /\ UNCHANGED yielded
       /\ UNCHANGED wire

TransportFails == Reading /\ Fail /\ UNCHANGED <<wire, translator, sent>>

BytesEnd ==
    /\ Reading
    /\ ended' = TRUE
    /\ buffer' = translator.pending
    /\ translator' = Drained(translator)
    /\ UNCHANGED <<wire, yielded, usage, sent>>

\* What a server may send next: it seeds an index once, reports usage once,
\* and after it has finished it sends usage, an error or the end.
Seeds(f) == IF f.kind = "delta" /\ wire = "chat"
            THEN {f.calls[k].index : k \in {j \in DOMAIN f.calls : f.calls[j].id # ""}}
            ELSE {}
Finishing(f) == f.kind = "done" \/ (wire = "chat" /\ f.kind = "delta" /\ f.finish)
Quiet(f) == \/ f.kind \in {"done", "error"}
            \/ wire = "chat" /\ f.said = <<>> /\ f.calls = <<>> /\ ~f.finish

MaySend(before, f) ==
    /\ \A k \in DOMAIN before :
          /\ Seeds(before[k]) \cap Seeds(f) = {}
          /\ before[k].kind # "done"
          /\ Finishing(before[k]) => Quiet(f)
          /\ f.kind = "usage" => before[k].kind # "usage"

Next ==
    \/ \E f \in Frames[wire] :
          /\ MaySend(sent, f)
          /\ \/ Len(sent) < MaxFrames /\ ReadChunk(<<f>>)
             \/ /\ Len(sent) + 1 < MaxFrames
                /\ \E g \in Frames[wire] : MaySend(Append(sent, f), g) /\ ReadChunk(<<f, g>>)
    \/ Yield \/ TransportFails \/ BytesEnd

Spec == Init /\ [][Next]_vars
-----------------------------------------------------------------------------
\* What the frames say, read by position. A chat entry is [at, e].
Entries(index) ==
    LET of(k) == IF sent[k].kind = "delta"
                 THEN {[at |-> k, nth |-> j, e |-> sent[k].calls[j]] :
                           j \in {i \in DOMAIN sent[k].calls : sent[k].calls[i].index = index}}
                 ELSE {}
    IN SetToSortSeq(UNION {of(k) : k \in DOMAIN sent},
                    LAMBDA a, b : a.at < b.at \/ (a.at = b.at /\ a.nth < b.nth))

\* Of an index the call it opens and the frame that ends it.
CallOf(index) ==
    LET es == Entries(index)
        seeds == {k \in DOMAIN es : es[k].e.id # ""}
        seed == Min(seeds)
        args(k) == FlattenSeq([j \in 1..k - seed + 1 |-> es[seed + j - 1].e.args])
        ends == {k \in DOMAIN es : k > seed /\ es[k].e.args = <<>> /\ args(k) \in Json}
        flushes == {k \in DOMAIN sent : Finishing(sent[k])}
    IN CASE seeds = {} -> [at |-> 0]
         [] seeds # {} /\ ends # {} ->
                [at |-> es[Min(ends)].at, id |-> es[seed].e.id, args |-> args(Min(ends))]
         [] seeds # {} /\ ends = {} /\ flushes # {} ->
                [at |-> Min(flushes), id |-> es[seed].e.id, args |-> args(Len(es))]
         [] OTHER -> [at |-> 0]

ChatSays(k) ==
    LET indices == {0, 1}
        ending == SelectSeq(SetToSortSeq(indices, LAMBDA i, j : i < j), LAMBDA i : CallOf(i).at = k)
        calls == [n \in DOMAIN ending |-> CallBlock(CallOf(ending[n]))]
    IN IF sent[k].kind = "delta" /\ sent[k].said # <<>> THEN sent[k].said ELSE calls

\* Between a stop and the start before it nothing else begins or stops.
MessagesSay(k) ==
    LET starts == {s \in 1..k - 1 :
                      /\ sent[s].kind = "start" /\ sent[s].type # "other"
                      /\ \A j \in s + 1..k - 1 :
                            ~(sent[j].kind = "stop" \/ (sent[j].kind = "start" /\ sent[j].type # "other"))}
        s == CHOOSE x \in starts : TRUE
        deltas == SelectSeq(SubSeq(sent, s + 1, k - 1),
                            LAMBDA f : f.kind = "delta" /\ f.type = sent[s].type)
        text == FlattenSeq([j \in DOMAIN deltas |-> deltas[j].text])
        spoken == sent[k].kind = "delta" /\ sent[k].type = "text" /\ sent[k].text # <<>>
        closed(type) == sent[k].kind = "stop" /\ starts # {} /\ sent[s].type = type
    IN CASE spoken -> <<Block("text", sent[k].text)>>
         [] ~spoken /\ closed("thinking") -> <<Block("thinking", text)>>
         [] ~spoken /\ closed("tool_use") -> <<CallBlock([id |-> sent[s].id, args |-> text])>>
         [] OTHER -> <<>>

Says ==
    FlattenSeq([k \in DOMAIN sent |->
        CASE wire = "chat" -> ChatSays(k)
          [] wire = "messages" -> MessagesSay(k)
          [] OTHER -> IF sent[k].kind = "error" THEN <<>> ELSE sent[k].said])

Failure == yielded # <<>> /\ Last(yielded).kind = "error"
Given == (IF Failure THEN Front(yielded) ELSE yielded) \o buffer \o translator.pending

\* Whatever the chunks, the consumer is given what the frames say, each thing
\* once and in its order: all of it, or before an error a part from the start.
BlocksAreWhatWasSaid == IF Failure THEN IsPrefix(Given, Says) ELSE Given = Says

\* An error is told once and last; the usage published is the last reported.
EndsCleanly ==
    /\ \A k \in DOMAIN yielded : yielded[k].kind = "error" => k = Len(yielded) /\ ended
    /\ LET reports == {k \in DOMAIN sent : sent[k].usage # 0}
       IN ~Failure => usage = IF reports = {} THEN 0 ELSE sent[Max(reports)].usage

BlocksComeWhole == BlocksAreWhatWasSaid /\ EndsCleanly
=============================================================================
