---------------------------- MODULE OutputParser ----------------------------
(***************************************************************************)
(* How the local provider turns generated tokens into content blocks       *)
(* (provider/local/output/mod.rs): bytes wait until they are characters,   *)
(* text waits while it may still become a marker, and markers move the     *)
(* parser between answer, reasoning and tool-call text.  Every token is an *)
(* action, and so is the end of generation.                                *)
(*                                                                         *)
(* A format is [open, close, header, tools, toolClose, strip]: markers are *)
(* sequences of characters, <<>> for none; `tools` is the set of a tool    *)
(* call's openers.  One character, Wide, takes two bytes; all others are   *)
(* their byte.  Blocks of one kind that follow each other count as one.    *)
(* The formats that write a call as bare JSON are not among them.          *)
(***************************************************************************)
EXTENDS SequencesExt, Integers

CONSTANTS
    Formats,        \* as above, each with `inside`: whether it starts in reasoning
    Pieces,         \* what a token may decode to: sequences of bytes
    Lead, Trail, Wide,  \* the bytes of the wide character, and the character
    Invalid,        \* U+FFFD
    MaxFed          \* bound: bytes of an answer

VARIABLES
    format,         \* one of Formats
    parser,         \* [mode, body, pending, hold, trim, strip, out]
    fed,            \* the bytes so far
    finished

vars == <<format, parser, fed, finished>>

Init ==
    /\ format \in Formats
    /\ parser = [mode |-> IF format.inside THEN "thinking" ELSE "content",
                 body |-> <<>>, pending |-> <<>>, hold |-> <<>>,
                 trim |-> format.inside, strip |-> format.strip, out |-> <<>>]
    /\ fed = <<>>
    /\ finished = FALSE

-----------------------------------------------------------------------------
Dropped(s, n) == SubSeq(s, n + 1, Len(s))

\* Without its leading spaces.
TrimStart(s) ==
    Dropped(s, Max({n \in 0..Len(s) : \A i \in 1..n : s[i] = " "}))

\* The characters of the bytes, and the bytes still short of one.
Decoded(bytes) ==
    LET step(d, b) ==
            CASE d.rest # <<>> /\ b = Trail -> [text |-> Append(d.text, Wide), rest |-> <<>>]
              [] d.rest # <<>> /\ b = Lead -> [text |-> Append(d.text, Invalid), rest |-> <<Lead>>]
              [] d.rest # <<>> /\ b \notin {Lead, Trail} ->
                     [text |-> d.text \o <<Invalid, b>>, rest |-> <<>>]
              [] d.rest = <<>> /\ b = Lead -> [text |-> d.text, rest |-> <<Lead>>]
              [] d.rest = <<>> /\ b = Trail -> [text |-> Append(d.text, Invalid), rest |-> <<>>]
              [] OTHER -> [text |-> Append(d.text, b), rest |-> <<>>]
    IN FoldLeft(step, [text |-> <<>>, rest |-> <<>>], bytes)

\* An incomplete tail is let go as invalid.
Flushed(bytes) ==
    LET d == Decoded(bytes) IN IF d.rest = <<>> THEN d.text ELSE Append(d.text, Invalid)

Marker(text, action) == IF text = <<>> THEN {} ELSE {[text |-> text, action |-> action]}
ToolMarkers == UNION {Marker(t, "openTool") : t \in format.tools}
ActiveMarkers(mode) ==
    CASE mode = "content" -> Marker(format.open, "openReasoning")
                             \cup Marker(format.close, "strayClose") \cup ToolMarkers
      [] mode \in {"header", "thinking"} -> Marker(format.close, "closeReasoning") \cup ToolMarkers
      [] mode = "tool" -> Marker(format.toolClose, "closeTool")

Occurs(marker, text, i) ==
    i + Len(marker) <= Len(text) /\ SubSeq(text, i + 1, i + Len(marker)) = marker

\* The leftmost marker, the longest of those, as at most one [at, marker].
EarliestMarker(text, markers) ==
    LET hits == {h \in [at : 0..Len(text), marker : markers] : Occurs(h.marker.text, text, h.at)}
    IN {h \in hits : \A g \in hits :
            h.at < g.at \/ (h.at = g.at /\ Len(h.marker.text) >= Len(g.marker.text))}

\* How much of the end may still grow into a marker.
PartialMarkerSuffix(text, markers) ==
    Max({0} \cup {n \in 1..Len(text) : \E m \in markers :
                      n < Len(m.text) /\ Dropped(text, Len(text) - n) = SubSeq(m.text, 1, n)})

-----------------------------------------------------------------------------
Shown(out, kind, text) ==
    CASE text = <<>> -> out
      [] text # <<>> /\ out # <<>> /\ Last(out).kind = kind ->
             [out EXCEPT ![Len(out)].text = @ \o text]
      [] OTHER -> Append(out, [kind |-> kind, text |-> text])

\* Text of the answer or of reasoning, after the trims that are due.
Emit(p, kind, text) ==
    LET stripped == IF p.strip /\ text[1] = " " THEN Tail(text) ELSE text
        trimmed == IF p.trim THEN TrimStart(stripped) ELSE stripped
    IN IF text = <<>> THEN p
       ELSE [p EXCEPT !.strip = FALSE, !.trim = @ /\ trimmed = <<>>,
                      !.out = Shown(@, kind, trimmed)]

\* The header word is dropped with the space behind it; without force the
\* decision waits for text that makes it.
ResolveHeader(p, force) ==
    LET rest == TrimStart(Dropped(p.body, Len(format.header)))
        into(text) == Emit([p EXCEPT !.mode = "thinking", !.body = <<>>], "thinking", text)
    IN CASE p.mode # "header" -> p
         [] p.mode = "header" /\ IsPrefix(format.header, p.body) ->
                IF rest = <<>> /\ ~force THEN p ELSE into(rest)
         [] OTHER -> IF IsPrefix(p.body, format.header) /\ ~force THEN p ELSE into(p.body)

Route(p, text) ==
    CASE text = <<>> -> p
      [] text # <<>> /\ p.mode = "content" -> Emit(p, "text", text)
      [] text # <<>> /\ p.mode = "thinking" -> Emit(p, "thinking", text)
      [] text # <<>> /\ p.mode = "header" -> ResolveHeader([p EXCEPT !.body = @ \o text], FALSE)
      [] OTHER -> [p EXCEPT !.body = @ \o text]

FinishToolCall(p) ==
    [p EXCEPT !.mode = "content", !.body = <<>>, !.trim = TRUE,
              !.out = Append(@, [kind |-> "tool", text |-> p.body])]

Apply(p, action) ==
    CASE action = "openReasoning" ->
             [p EXCEPT !.trim = TRUE, !.mode = IF format.header = <<>> THEN "thinking" ELSE "header"]
      [] action = "closeReasoning" ->
             [ResolveHeader(p, TRUE) EXCEPT !.mode = "content", !.trim = TRUE]
      [] action = "strayClose" -> p
      [] action = "openTool" -> [ResolveHeader(p, TRUE) EXCEPT !.mode = "tool"]
      [] action = "closeTool" -> FinishToolCall(p)

\* Acts on the marker, once what stands before it has gone where it belongs.
PassMarker(p, h) ==
    Apply(Route([p EXCEPT !.hold = Dropped(@, h.at + Len(h.marker.text))],
                SubSeq(p.hold, 1, h.at)),
          h.marker.action)

Release(p, n) == Route([p EXCEPT !.hold = Dropped(@, n)], SubSeq(p.hold, 1, n))

ReleaseReady(p) ==
    Release(p, Len(p.hold) - PartialMarkerSuffix(p.hold, ActiveMarkers(p.mode)))

\* Marker after marker, then all that cannot be the start of one.
ProcessHold(p) ==
    LET step(q, i) ==
            LET hit == EarliestMarker(q.hold, ActiveMarkers(q.mode))
            IN IF hit = {} THEN q ELSE PassMarker(q, CHOOSE h \in hit : TRUE)
    IN ReleaseReady(FoldLeft(step, p, p.hold))

Feed(p, text) == ProcessHold([p EXCEPT !.hold = @ \o text])

-----------------------------------------------------------------------------
Grows(bytes) ==
    /\ ~finished
    /\ Len(fed) + Len(bytes) <= MaxFed
    /\ fed' = fed \o bytes

Push(piece) ==
    LET d == Decoded(parser.pending \o piece)
    IN /\ Grows(piece)
       /\ parser' = Feed([parser EXCEPT !.pending = d.rest], d.text)
       /\ UNCHANGED <<format, finished>>

\* A token that is a marker: its spelling is text, behind whatever is pending.
PushMarker(spelling) ==
    /\ Grows(spelling)
    /\ parser' = Feed([parser EXCEPT !.pending = <<>>], Flushed(parser.pending) \o spelling)
    /\ UNCHANGED <<format, finished>>

Closed(p) ==
    LET last == [p EXCEPT !.hold = <<>>]
    IN CASE p.mode = "header" -> ResolveHeader([last EXCEPT !.body = @ \o p.hold], TRUE)
         [] p.mode = "tool" -> FinishToolCall([last EXCEPT !.body = @ \o p.hold])
         [] OTHER -> Route(last, p.hold)

Finish ==
    /\ ~finished
    /\ finished' = TRUE
    /\ parser' = Closed(Feed([parser EXCEPT !.pending = <<>>], Flushed(parser.pending)))
    /\ UNCHANGED <<format, fed>>

Next ==
    \/ \E piece \in Pieces : Push(piece)
    \/ \E m \in ActiveMarkers("content") \cup ActiveMarkers("tool") : PushMarker(m.text)
    \/ Finish

Spec == Init /\ [][Next]_vars
-----------------------------------------------------------------------------
\* The text cut at its markers, read from the left: [mode, header, text] each.
Longest(markers) == {m \in markers : \A n \in markers : Len(m.text) >= Len(n.text)}
Here(mode, text, i) == Longest({m \in ActiveMarkers(mode) : Occurs(m.text, text, i - 1)})

ModeAfter(m) == CASE m.action = "openReasoning" -> "thinking"
                  [] m.action = "openTool" -> "tool"
                  [] OTHER -> "content"

Segment(mode, header) == [mode |-> mode, header |-> header, text |-> <<>>]

CutAt(s, i, m) ==
    [next |-> i + Len(m.text), mode |-> ModeAfter(m),
     cut |-> IF m.action = "strayClose" THEN s.cut
             ELSE Append(s.cut, Segment(ModeAfter(m), m.action = "openReasoning"))]

ReadCharacter(s, i, char, here) ==
    CASE i < s.next -> s
      [] i >= s.next /\ here = {} -> [s EXCEPT !.cut[Len(s.cut)].text = Append(@, char)]
      [] OTHER -> CutAt(s, i, CHOOSE m \in here : TRUE)

Segments(text) ==
    LET first == IF format.inside THEN "thinking" ELSE "content"
    IN FoldLeftDomain(LAMBDA s, i : ReadCharacter(s, i, text[i], Here(s.mode, text, i)),
                      [next |-> 1, mode |-> first, cut |-> <<Segment(first, FALSE)>>], text).cut

\* What the whole answer says: no header words, and no space at the start of
\* what follows a marker, or of all of it where the tokenizer put one.
WithoutHeader(segment) ==
    IF segment.header /\ IsPrefix(format.header, segment.text)
    THEN [segment EXCEPT !.text = TrimStart(Dropped(@, Len(format.header)))] ELSE segment

StripFirst(cut, said) ==
    IF ~format.strip \/ said = {} \/ cut[Min(said)].text[1] # " " THEN cut
    ELSE [cut EXCEPT ![Min(said)].text = Tail(@)]

WithoutLead(cut) == StripFirst(cut, {k \in DOMAIN cut : cut[k].mode # "tool" /\ cut[k].text # <<>>})

Say(out, segment, trim) ==
    CASE segment.mode = "tool" -> Append(out, [kind |-> "tool", text |-> segment.text])
      [] segment.mode # "tool" ->
             Shown(out, IF segment.mode = "content" THEN "text" ELSE "thinking",
                   IF trim THEN TrimStart(segment.text) ELSE segment.text)

SayAll(cut) ==
    FoldLeftDomain(LAMBDA out, k : Say(out, cut[k], k > 1 \/ format.inside), <<>>, cut)

Reading(bytes) ==
    LET cut == Segments(Flushed(bytes))
    IN SayAll(WithoutLead([k \in DOMAIN cut |-> WithoutHeader(cut[k])]))

\* However the answer is cut into tokens, its blocks say the same.
CutsDoNotShow == finished => parser.out = Reading(fed)

\* Until then nothing is held back but what may become a marker or a character.
HeldOnlyForMarkers ==
    /\ Len(parser.pending) <= 1
    /\ parser.hold = <<>> \/ \E m \in ActiveMarkers(parser.mode) :
                                 parser.hold # m.text /\ IsPrefix(parser.hold, m.text)

ParsesWhole == CutsDoNotShow /\ HeldOnlyForMarkers
=============================================================================
