----------------------------- MODULE SseParser ------------------------------
(***************************************************************************)
(* The parser of server-sent events (sse.rs): chunks are appended to one   *)
(* buffer and every frame that a blank line ends is taken off its front.   *)
(* A frame that is not UTF-8 fails the call: the frames the call had       *)
(* completed go with it, and the buffer still begins with the bad one.     *)
(*                                                                         *)
(* A field's name with its colon is one byte, Data or Id; other fields are *)
(* ignored, and of an event its data and its id are kept.                  *)
(***************************************************************************)
EXTENDS SequencesExt, Integers

CONSTANTS
    Chunks,         \* what the connection may deliver: sequences of bytes
    LF, CR, Data, Id, Space, Nul,
    Bad,            \* a byte that is not UTF-8
    MaxBytes        \* bound: bytes of a stream

VARIABLES
    buffer,         \* what no frame has taken
    lastId,         \* last_event_id
    events,         \* returned so far, as [data, id]
    failed,         \* whether a call has failed
    received        \* the whole stream so far

vars == <<buffer, lastId, events, failed, received>>

NoId == <<>>

Init ==
    /\ buffer = <<>>
    /\ lastId = NoId
    /\ events = <<>>
    /\ failed = FALSE
    /\ received = <<>>

-----------------------------------------------------------------------------
Unended(line) == IF line # <<>> /\ Last(line) = CR THEN Front(line) ELSE line

Value(line) ==
    LET rest == Tail(line) IN IF rest # <<>> /\ Head(rest) = Space THEN Tail(rest) ELSE rest

IsField(line, field) == line # <<>> /\ Head(line) = field

\* The lines of a frame, each ended by a line feed.
Lines(frame) ==
    LET step(s, b) == IF b = LF THEN [done |-> Append(s.done, Unended(s.line)), line |-> <<>>]
                      ELSE [s EXCEPT !.line = Append(@, b)]
    IN FoldLeft(step, [done |-> <<>>, line |-> <<>>], frame).done

ParseFrame(frame) ==
    LET joined(data, line) ==
            IF data = <<>> THEN Value(line) ELSE data \o <<LF>> \o Value(line)
        step(f, line) ==
            CASE IsField(line, Data) -> [f EXCEPT !.data = joined(@, line),
                                                  !.bad = @ \/ Bad \in Range(line)]
              [] IsField(line, Id) ->
                     [f EXCEPT !.id = IF Value(line) # <<>> /\ Nul \notin Range(line)
                                      THEN Value(line) ELSE @,
                               !.bad = @ \/ Bad \in Range(line)]
              [] OTHER -> f
    IN FoldLeft(step, [data |-> <<>>, id |-> NoId, bad |-> FALSE], Lines(frame))

EventOf(frame, last) ==
    [data |-> frame.data, id |-> IF frame.id = NoId THEN last ELSE frame.id]

IsBlank(line) == line \in {<<>>, <<CR>>}

\* One pass over the buffer, line by line, with what it completes.
Taken(bytes, last) ==
    LET step(s, i) ==
            LET line == SubSeq(bytes, s.line + 1, i - 1)
                frame == ParseFrame(SubSeq(bytes, s.frame + 1, s.line))
                event == EventOf(frame, s.last)
            IN CASE s.failed \/ bytes[i] # LF -> s
                 [] ~s.failed /\ bytes[i] = LF /\ ~IsBlank(line) -> [s EXCEPT !.line = i]
                 [] OTHER -> IF frame.bad THEN [s EXCEPT !.failed = TRUE]
                             ELSE [s EXCEPT !.frame = i, !.line = i, !.last = event.id,
                                            !.events = Append(@, event)]
    IN FoldLeft(step, [frame |-> 0, line |-> 0, last |-> last, events |-> <<>>, failed |-> FALSE],
                [i \in 1..Len(bytes) |-> i])

FeedChunk(chunk) ==
    LET bytes == buffer \o chunk
        taken == Taken(bytes, lastId)
    IN /\ Len(received) + Len(chunk) <= MaxBytes
       /\ received' = received \o chunk
       /\ buffer' = SubSeq(bytes, taken.frame + 1, Len(bytes))
       /\ lastId' = taken.last
       /\ failed' = taken.failed
       /\ events' = IF taken.failed THEN events ELSE events \o taken.events

Next == \E chunk \in Chunks : FeedChunk(chunk)

Spec == Init /\ [][Next]_vars
-----------------------------------------------------------------------------
\* Where a blank line of the stream ends.
BlankAt(i) ==
    /\ received[i] = LF
    /\ \/ i = 1 \/ received[i - 1] = LF
       \/ received[i - 1] = CR /\ (i = 2 \/ received[i - 2] = LF)

\* The frames of the whole stream, each up to its blank line.
Frames ==
    LET ends == SetToSortSeq({i \in DOMAIN received : BlankAt(i)}, LAMBDA a, b : a < b)
        lineStart(i) == IF i > 1 /\ received[i - 1] = CR THEN i - 1 ELSE i
        begin(k) == IF k = 1 THEN 1 ELSE ends[k - 1] + 1
    IN [k \in DOMAIN ends |-> ParseFrame(SubSeq(received, begin(k), lineStart(ends[k]) - 1))]

\* Their events, up to the first that is bad.
Whole ==
    FoldLeft(LAMBDA s, f : IF s.over \/ f.bad THEN [s EXCEPT !.over = TRUE]
                           ELSE [over |-> FALSE, last |-> EventOf(f, s.last).id,
                                 events |-> Append(s.events, EventOf(f, s.last))],
             [over |-> FALSE, last |-> NoId, events |-> <<>>], Frames)

\* However the stream is cut into chunks, the events are its frames, one each,
\* under the id last seen; a bad frame fails every call from then on, and
\* nothing after it is ever delivered.
EventsAreFrames ==
    /\ failed = Whole.over
    /\ lastId = Whole.last
    /\ IF failed THEN IsPrefix(events, Whole.events) ELSE events = Whole.events

\* What is kept is what has come since the last frame.
BufferIsTheRest ==
    /\ IsSuffix(buffer, received)
    /\ ~failed => \A i \in DOMAIN received : BlankAt(i) => i <= Len(received) - Len(buffer)

StreamsParseWhole == EventsAreFrames /\ BufferIsTheRest
=============================================================================
