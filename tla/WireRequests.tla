---------------------------- MODULE WireRequests ----------------------------
(***************************************************************************)
(* A unified request to the body of each wire: chat completions            *)
(* (openai_compat.rs), messages with their cache marks (anthropic.rs, and  *)
(* bridged by deepseek.rs), Gemini's contents (gemini.rs), and the array   *)
(* that a local model's template renders (local/chat/mod.rs).  A block is  *)
(* its kind and, of a call or a result, the call; on a wire it is known by *)
(* its place in the request.  Knobs and tool definitions are left out.     *)
(***************************************************************************)
EXTENDS Integers, SequencesExt

CONSTANTS Wires,           \* "chat", "messages", "bridge", "gemini", "local"
          Requests,        \* sequences of [role, blocks, answers]
          Breakpoints      \* sequences of places <<message, block>>

VARIABLES endpoint, request, breakpoints,
          at,              \* the message to translate
          marks,
          entries,         \* of the body
          sending          \* "marks", "messages", "sent", "refused"

requestVars == <<endpoint, request, breakpoints, at, marks, entries, sending>>

NONE == 0

BlockAt(place) == request[place[1]].blocks[place[2]]
RoleAt(place) == request[place[1]].role

\* The places of one message's blocks that are of some kinds.
Places(m, kinds) ==
    SelectSeq([i \in DOMAIN request[m].blocks |-> <<m, i>>], LAMBDA b : BlockAt(b).kind \in kinds)

AllKinds == {"text", "image", "thinking", "call", "result"}

Entry(m, role, places) ==
    [message |-> m, role |-> role, reasoning |-> <<>>, calls |-> <<>>, answers |-> NONE,
     content |-> places]

-----------------------------------------------------------------------------
(* Messages                                                                *)

\* The call that a tool message says it answers.
Annotated(m, candidates) ==
    IF request[m].answers # NONE THEN request[m].answers
    ELSE IF candidates = <<>> THEN NONE ELSE BlockAt(candidates[1]).call

Answer(m, candidates) ==
    [Entry(m, "tool", Places(m, {"result"})) EXCEPT !.answers = Annotated(m, candidates)]

IfOnly(places) == IF Len(places) = 1 THEN places ELSE <<>>

\* message_to_wire
ChatEntry(m) ==
    LET assistant == request[m].role = "assistant"
        first == SelectSeq(Places(m, AllKinds), LAMBDA b : b[2] = 1 /\ BlockAt(b).kind = "result")
        images == Places(m, {"image"})
    IN IF request[m].role = "tool" THEN Answer(m, first)
       ELSE [Entry(m, request[m].role,
                   Places(m, IF images = <<>> THEN {"text"} ELSE {"text", "image"})) EXCEPT
               !.reasoning = IF assistant THEN IfOnly(Places(m, {"thinking"})) ELSE <<>>,
               !.calls = IF assistant THEN Places(m, {"call"}) ELSE <<>>]

\* message_to_json
LocalEntry(m) ==
    LET assistant == request[m].role = "assistant"
    IN IF request[m].role = "tool" THEN Answer(m, Places(m, {"result"}))
       ELSE [Entry(m, request[m].role, Places(m, {"text"})) EXCEPT
               !.reasoning = IF assistant THEN Places(m, {"thinking"}) ELSE <<>>,
               !.calls = IF assistant THEN Places(m, {"call"}) ELSE <<>>]

LocalRefuses(m) ==
    \/ Places(m, {"image"}) # <<>>
    \/ /\ request[m].role = "assistant"
       /\ \E b \in ToSet(Places(m, {"call"})) : ~BlockAt(b).valid

\* A system message's text goes before the conversation.
SystemEntry(m) == Entry(m, "system", Places(m, {"text"}))

\* block_to_anthropic, block_to_part
WholeEntry(m, role) == Entry(m, role, Places(m, AllKinds))

EntriesOf(m) ==
    LET role == request[m].role
    IN CASE endpoint = "chat" -> <<ChatEntry(m)>>
         [] endpoint = "local" -> <<LocalEntry(m)>>
         [] endpoint \in {"messages", "bridge", "gemini"} /\ role = "system" -> <<SystemEntry(m)>>
         [] endpoint \in {"messages", "bridge"} /\ role = "tool" -> <<>>
         [] endpoint \in {"messages", "bridge"} /\ role \in {"user", "assistant"} ->
               <<WholeEntry(m, role)>>
         [] endpoint = "gemini" /\ role # "system" ->
               <<WholeEntry(m, IF role = "assistant" THEN "model" ELSE "user")>>

-----------------------------------------------------------------------------
(* Cache marks                                                             *)

\* cache_breakpoints: only where the endpoint itself is Anthropic's.
Honored == IF endpoint = "messages" THEN breakpoints ELSE <<>>

Exists(place) == place[1] \in DOMAIN request /\ place[2] \in DOMAIN request[place[1]].blocks

\* cache_marks refuses all others, and a place that is named twice.
MayMark(place) ==
    /\ Exists(place)
    /\ RoleAt(place) # "tool"
    /\ RoleAt(place) = "system" => BlockAt(place).kind = "text"

-----------------------------------------------------------------------------
Init ==
    /\ endpoint \in Wires /\ request \in Requests /\ breakpoints \in Breakpoints
    /\ at = 1 /\ marks = {} /\ entries = <<>>
    /\ sending = "marks"

Mark ==
    /\ sending = "marks"
    /\ IF IsInjective(Honored) /\ \A place \in ToSet(Honored) : MayMark(place)
       THEN marks' = ToSet(Honored) /\ sending' = "messages"
       ELSE sending' = "refused" /\ UNCHANGED marks
    /\ UNCHANGED <<endpoint, request, breakpoints, at, entries>>

Translate ==
    /\ sending = "messages" /\ at <= Len(request)
    /\ IF endpoint = "local" /\ LocalRefuses(at)
       THEN sending' = "refused" /\ UNCHANGED <<at, entries>>
       ELSE /\ entries' = entries \o EntriesOf(at)
            /\ at' = at + 1
            /\ UNCHANGED sending
    /\ UNCHANGED <<endpoint, request, breakpoints, marks>>

Send ==
    /\ sending = "messages" /\ at > Len(request)
    /\ sending' = "sent"
    /\ UNCHANGED <<endpoint, request, breakpoints, at, marks, entries>>

Next == Mark \/ Translate \/ Send

-----------------------------------------------------------------------------
(* What a body owes to its request                                         *)

SentOf(entry) == entry.reasoning \o entry.content \o entry.calls
Sent == UNION {ToSet(SentOf(entries[i])) : i \in DOMAIN entries}

\* A breakpoint is on the wire, on the block it names, and one that could not
\* be is refused rather than moved (cache_marks, build_anthropic_request).
MarksStayOnTheirBlocks ==
    /\ sending = "sent" => marks \subseteq Sent /\ marks = ToSet(Honored)
    /\ sending = "refused" /\ endpoint = "messages" =>
          \/ ~IsInjective(breakpoints)
          \/ \E place \in ToSet(breakpoints) :
                \/ ~Exists(place)
                \/ \A i \in DOMAIN EntriesOf(place[1]) :
                      place \notin ToSet(SentOf(EntriesOf(place[1])[i]))
    /\ endpoint = "bridge" => marks = {} /\ sending # "refused"

\* No wire sends a call twice, out of order or under another message, and each
\* sends every call of the assistant.
CallsAreSent ==
    sending = "sent" =>
        LET calls == FlattenSeq([i \in DOMAIN entries |->
                        SelectSeq(SentOf(entries[i]), LAMBDA b : BlockAt(b).kind = "call"
                                                                 /\ RoleAt(b) = "assistant")])
        IN calls = FlattenSeq([m \in DOMAIN request |->
                      IF request[m].role = "assistant" THEN Places(m, {"call"}) ELSE <<>>])

\* A result sent as a message of its own names the call it is of, when it is
\* the only one there and is not annotated with another.
AnswersAreTheirs ==
    sending = "sent" =>
        \A i \in DOMAIN entries :
            LET entry == entries[i]
            IN /\ entry.role = "tool" /\ Len(entry.content) = 1
                     /\ request[entry.message].answers = NONE
                     /\ (endpoint = "chat" => entry.content[1][2] = 1)
                  => entry.answers = BlockAt(entry.content[1]).call
               /\ \A b \in ToSet(SentOf(entry)) : b[1] = entry.message

\* What a request says reaches the wire where it belongs, or it is refused.
RequestsCarryAll == MarksStayOnTheirBlocks /\ CallsAreSent /\ AnswersAreTheirs
=============================================================================
