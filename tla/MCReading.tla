----------------------------- MODULE MCReading -----------------------------
(***************************************************************************)
(* What is read, and what is remembered of it: the bytes and frames of a   *)
(* remote answer, the text of a local one, the session that was recorded,  *)
(* the tokens of a prompt, a request on each wire; and the memory plugin's *)
(* messages, graph and vectors, what is extracted for the graph, and the   *)
(* envelopes of graph and cache.  They share no state; a behaviour         *)
(* exercises one, its `part`.                                              *)
(***************************************************************************)
EXTENDS Integers, SequencesExt

VARIABLES format, parser, fed, finished,                         \* OutputParser
          frameBuffer, lastId, events, failed, received,         \* SseParser
          wire, translator, blocks, ended, yielded, usage, sent, \* ProviderStream
          recorded, numbering, loaded,                           \* Replay
          vocab, text, step, fragments, words, afterSpecial, symbols, queue, ids,  \* Tokenizer
          endpoint, request, breakpoints, at, marks, body, sending,  \* WireRequests
          config, messages, offloaded, graphFilled, chapters,   \* Compaction
          graph,                                             \* MemoryGraph
          entries, arena, counts, stagedTurns, committed,    \* VectorStore
          schema, phase, entityRows, linkRows, nodes, links, \* EntityExtraction
          live, poisoned, imports, exports, clock,           \* Export
          part

outputVars == <<format, parser, fed, finished>>
sseVars == <<frameBuffer, lastId, events, failed, received>>
wireVars == <<wire, translator, blocks, ended, yielded, usage, sent>>
replayVars == <<recorded, numbering, loaded>>
tokenVars == <<vocab, text, step, fragments, words, afterSpecial, symbols, queue, ids>>
requestVars == <<endpoint, request, breakpoints, at, marks, body, sending>>
messageVars == <<config, messages, offloaded, graphFilled, chapters>>
vectorVars == <<entries, arena, counts, stagedTurns, committed>>
extractionVars == <<schema, phase, entityRows, linkRows, nodes, links>>
exportVars == <<live, poisoned, imports, exports, clock>>
allVars == <<outputVars, sseVars, wireVars, replayVars, tokenVars, requestVars, messageVars,
             graph, vectorVars, extractionVars, exportVars, part>>

-----------------------------------------------------------------------------
(* OutputParser: markers that begin alike, with a header and without, an   *)
(* answer that starts in its reasoning, and two tool markers of which one  *)
(* holds another marker's start.  A character may be two bytes.            *)

Format(open, close, header, tools, toolClose, strip, inside) ==
    [open |-> open, close |-> close, header |-> header, tools |-> tools,
     toolClose |-> toolClose, strip |-> strip, inside |-> inside]

Reasoning == Format(<<"<", "t">>, <<"<", "/">>, <<"t", "c">>, {<<"<", "c">>}, <<"/", "c">>,
                    FALSE, FALSE)
Formats ==
    {Reasoning,
     Format(<<"<", "t">>, <<"<", "/">>, <<>>, {<<"<", "c">>, <<"c", "<", "/">>}, <<>>, TRUE, TRUE),
     Format(<<>>, <<>>, <<>>, {<<"<", "<", "c">>}, <<"<", "c">>, TRUE, FALSE)}
Pieces == {<<"<">>, <<"/">>, <<"t">>, <<"c">>, <<" ">>, <<"c", " ">>, <<"b1">>, <<"b2">>}

-----------------------------------------------------------------------------
(* SseParser: fields and line ends cut anywhere.                           *)

SseChunks ==
    {<<"lf">>, <<"cr">>, <<"D">>, <<"x">>, <<"I", " ">>, <<"I", "x">>, <<"!", "lf">>, <<"0", "lf">>,
     <<"D", "x", "lf", "lf">>, <<"lf", "I", "x", "lf", "lf">>}

-----------------------------------------------------------------------------
(* ProviderStream: two calls gathered at once, thoughts and calls in       *)
(* blocks, and whole calls.                                                *)

Delta(said, calls, finish, reported) ==
    [kind |-> "delta", said |-> said, calls |-> calls, finish |-> finish, usage |-> reported]
Entry(index, id, args) == [index |-> index, id |-> id, args |-> args]
Signal(kind, reported) ==
    [kind |-> kind, said |-> <<>>, calls |-> <<>>, finish |-> FALSE, usage |-> reported]
Part(kind, type, id, s) == [kind |-> kind, type |-> type, id |-> id, text |-> s, usage |-> 0]
Spoken(kind, s) == [kind |-> kind, id |-> "", text |-> s]

JsonTexts == {<<"{", "}">>}
Word == <<Spoken("text", <<"x">>)>>
ChatFrames ==
    {Delta(Word, <<>>, FALSE, 0),
     Delta(<<>>, <<Entry(0, "c0", <<>>), Entry(1, "c1", <<"{">>)>>, FALSE, 0),
     Delta(<<>>, <<Entry(0, "", <<"{", "}">>)>>, FALSE, 0),
     Delta(<<>>, <<Entry(0, "", <<>>)>>, FALSE, 0),
     Delta(<<>>, <<Entry(1, "", <<"}">>)>>, FALSE, 0),
     Delta(<<>>, <<>>, TRUE, 1), Delta(<<>>, <<>>, FALSE, 2), Signal("done", 0)}
MessageFrames ==
    {Part("start", "thinking", "", <<>>), Part("start", "tool_use", "t1", <<>>),
     Part("start", "other", "", <<>>), Part("delta", "thinking", "", <<"y">>),
     Part("delta", "text", "", <<"x">>), Part("delta", "tool_use", "", <<"{", "}">>),
     Signal("stop", 0), Signal("done", 0)}
WholeFrames ==
    {Delta(Word, <<>>, FALSE, 0), Delta(Word \o <<Spoken("call", <<"{", "}">>)>>, <<>>, FALSE, 0),
     Delta(<<>>, <<>>, FALSE, 0), Signal("error", 0)}
WireFrames == [chat |-> ChatFrames, messages |-> MessageFrames, gemini |-> WholeFrames]

-----------------------------------------------------------------------------
(* Tokenizer: scores with a tie, merge rules of which one repeats and some *)
(* name no token, a special that begins a longer one, one that strips, and *)
(* a character of two bytes.  "n" is the newline and "_" the space mark.   *)

CharBytes == [c \in {"a", "b", " ", "<", "e", "n", "_", "b1", "b2"} |->
                 IF c = "e" THEN <<"b1", "b2">> ELSE <<c>>]
UpTo(chars, n) == UNION {[1..k -> chars] : k \in 0..n}
Texts == UpTo({"a", "b"}, 6) \cup UpTo({"a", "b", " ", "<", "e", "n"}, 3)

A == <<"a">>
B == <<"b">>
Pairs == {<<"a", "a">>, <<"a", "b">>, <<"b", "a">>, <<"_", "a">>, <<" ", "a">>, <<"n", "n">>}
VocabPieces == {A, B, <<"_">>, <<" ">>, <<"n">>, <<"b1">>} \cup Pairs
               \cup {<<"a", "b", "a">>, <<"a", "b", "a", "b">>}
Scores == [p \in VocabPieces |->
             CASE p \in {<<"a", "b">>, <<"b", "a">>} -> 1
               [] p \in Pairs -> 2
               [] Len(p) = 4 -> 0
               [] OTHER -> 3]
Rules == <<<<A, A>>, <<B, A>>, <<A, B>>, <<A, <<"b", "a">>>>, <<A, A>>,
           <<<<"a", "b">>, <<"a", "b">>>>, <<B, B>>, <<<<" ">>, A>>, <<<<"_">>, A>>>>

AddedToken(s, id, rstrip) == [text |-> s, id |-> id, lstrip |-> FALSE, rstrip |-> rstrip]
Vocabulary(kind, bytes, specials, prefix, whole, bos, eos) ==
    [kind |-> kind, pieces |-> VocabPieces, score |-> Scores, rules |-> Rules, bytes |-> bytes,
     specials |-> specials, prefix |-> prefix, whole |-> whole, bos |-> bos, eos |-> eos]
Plain == Vocabulary("spm", {"b2"}, {}, FALSE, FALSE, <<>>, <<>>)
Vocabularies ==
    {Plain,
     Vocabulary("spm", {"b1", "b2", "<"},
                {AddedToken(<<"<">>, 1, FALSE), AddedToken(<<"<", "a">>, 2, TRUE)},
                TRUE, FALSE, <<"<">>, <<>>),
     Vocabulary("byte", {}, {AddedToken(<<"<">>, 1, FALSE)}, FALSE, TRUE, <<>>, <<"<">>),
     Vocabulary("escaped", {"b1", "b2", "<"}, {AddedToken(<<"<", "<">>, 1, TRUE)},
                FALSE, FALSE, <<>>, <<>>)}

-----------------------------------------------------------------------------
(* WireRequests                                                            *)

Endpoints == {"chat", "messages", "bridge", "gemini", "local"}

Said(kind) == [kind |-> kind, call |-> 0, valid |-> TRUE]
OfCall(kind, id, valid) == [kind |-> kind, call |-> id, valid |-> valid]
Result(id) == OfCall("result", id, TRUE)
Turn(role, said) == [role |-> role, blocks |-> said, answers |-> 0]

RequestTurns ==
    {Turn("system", <<Said("text"), Said("image")>>), Turn("user", <<>>),
     Turn("user", <<Said("text"), Result(1)>>), Turn("user", <<Said("image"), Said("text")>>),
     Turn("assistant", <<Said("thinking"), OfCall("call", 1, TRUE), OfCall("call", 2, TRUE)>>),
     Turn("assistant", <<Said("thinking"), OfCall("call", 1, FALSE), Said("thinking")>>),
     Turn("tool", <<Result(1)>>), [Turn("tool", <<Result(1)>>) EXCEPT !.answers = 2],
     Turn("tool", <<Said("text"), Result(2)>>), Turn("tool", <<Result(1), Result(2)>>)}

Asked == {<<m>> : m \in RequestTurns} \cup {<<m, n>> : m \in RequestTurns, n \in RequestTurns}
OneQuestion == <<Turn("user", <<>>)>>

Spots == {<<1, 1>>, <<1, 2>>, <<2, 1>>, <<2, 2>>}
Breakpoints == {<<>>} \cup {<<s>> : s \in Spots} \cup {<<<<1, 1>>, s>> : s \in Spots}

-----------------------------------------------------------------------------
(* Compaction: a turn's messages, calls that read one file, their results  *)
(* in one message or two, and menus of strategies over both budgets.       *)

Message(role, calls, results, s) ==
    [id |-> 0, mark |-> "", role |-> role, calls |-> calls, results |-> results, text |-> s]
ReadOf(id) == [id |-> id, path |-> "f"]
ResultOf(id) == [call |-> id, out |-> 2]

Chapters ==
    {<<Message("system", {}, <<>>, 1), Message("user", {}, <<>>, 1)>>,
     <<Message("user", {}, <<>>, 3)>>,
     <<Message("assistant", {ReadOf(1), ReadOf(2)}, <<>>, 0),
       Message("tool", {}, <<ResultOf(1)>>, 0), Message("user", {}, <<ResultOf(2)>>, 1)>>,
     <<Message("assistant", {ReadOf(3)}, <<>>, 0),
       Message("tool", {}, <<ResultOf(3)>>, 0), Message("system", {}, <<>>, 1)>>}

Strategy(kind, n) == [kind |-> kind, n |-> n]
Menu(menu, by, n, filled) == [menu |-> menu, limit |-> [by |-> by, n |-> n], graph |-> filled]

Offloading == Menu(<<Strategy("offload", 1)>>, "messages", 3, FALSE)
Menus ==
    {Offloading,
     Menu(<<Strategy("dedup", 0), Strategy("slide", 3)>>, "messages", 4, TRUE),
     Menu(<<Strategy("clear", 1), Strategy("clamp", 2), Strategy("drop", 0)>>, "tokens", 8, FALSE),
     Menu(<<Strategy("summarize", 2), Strategy("observations", 0), Strategy("slide", 2)>>,
          "tokens", 8, TRUE)}

-----------------------------------------------------------------------------
(* MemoryGraph: a loop and a chain; snapshots that collide with both, that *)
(* repeat a relationship, and that name a node they do not have.           *)

Node(id, payload) == [id |-> id, payload |-> payload]
Link(from, to) == [from |-> from, to |-> to]
Relationship(id, from, to) == [id |-> id, from |-> from, to |-> to]

RelationshipIds == {<<1>>, <<2>>, <<1, 2>>}
Links == {Link(1, 2), Link(2, 3)}
Graphs ==
    {[nodes |-> <<Node(1, "q"), Node(2, "q")>>,
      rels |-> <<Relationship(<<1>>, 1, 2), Relationship(<<1, 2>>, 2, 2)>>],
     [nodes |-> <<Node(1, "p")>>, rels |-> <<Relationship(<<1>>, 1, 1), Relationship(<<1>>, 1, 1)>>],
     [nodes |-> <<Node(1, "p")>>, rels |-> <<Relationship(<<1>>, 1, 3)>>]}

-----------------------------------------------------------------------------
(* VectorStore: batches below, at and over the cap of two, with embeddings *)
(* of no length, and one with a turn that is too large.                    *)

Heard(s, vector) == [text |-> s, vector |-> vector, oversized |-> FALSE]
Batches ==
    {<<Heard("a", 1)>>, <<Heard("a", 0)>>, <<Heard("b", 0), Heard("c", -1)>>,
     <<Heard("d", 1), Heard("e", 1), Heard("f", 0)>>,
     <<Heard("a", 1), [Heard("b", 1) EXCEPT !.oversized = TRUE]>>}

-----------------------------------------------------------------------------
(* EntityExtraction: two tables, of which one is identified by a number and *)
(* a text and takes other properties; text that looks like an id's own      *)
(* parts; and a schema of each kind that is refused.                        *)

Column(name, type, required) == [name |-> name, type |-> type, required |-> required]
Text(s) == [kind |-> "string", text |-> s]
Number(kind, s) == [kind |-> kind, text |-> s]
Person == [name |-> <<"p">>, labels |-> {"P"}, identity |-> <<<<"k">>>>,
           columns |-> <<Column(<<"k">>, "number", TRUE), Column(<<"v">>, "integer", FALSE)>>,
           open |-> FALSE]
Place == [name |-> <<"p", "1:">>, labels |-> {}, identity |-> <<<<"k">>, <<"v">>>>,
          columns |-> <<Column(<<"k">>, "string", TRUE), Column(<<"v">>, "string", TRUE)>>,
          open |-> TRUE]
Visit == [name |-> <<"r">>, kind |-> "visits", from |-> <<"p">>, to |-> <<"p", "1:">>,
          columns |-> <<Column(<<"k">>, "null", FALSE)>>, open |-> FALSE]
Schema(name, entities, relationships) ==
    [name |-> name, entities |-> entities, relationships |-> relationships]
Towns == Schema(<<"s">>, <<Person, Place>>, <<Visit>>)
Schemas ==
    {Towns, Schema(<<" ">>, <<Person, Place>>, <<Visit>>),
     Schema(<<"s">>, <<Person, [Place EXCEPT !.name = <<"p">>]>>, <<>>),
     Schema(<<"s">>, <<Person, Place>>, <<[Visit EXCEPT !.name = <<"p">>]>>),
     Schema(<<"s">>, <<Person>>, <<Visit>>),
     Schema(<<"s">>, <<[Person EXCEPT !.identity = <<>>]>>, <<>>),
     Schema(<<"s">>, <<[Person EXCEPT !.identity = <<<<"k">>, <<"k">>>>]>>, <<>>),
     Schema(<<"s">>, <<[Person EXCEPT !.identity = <<<<"v">>>>]>>, <<>>),
     Schema(<<"s">>, <<[Person EXCEPT !.identity = <<<<"w">>>>]>>, <<>>),
     Schema(<<"s">>, <<[Person EXCEPT !.columns = @ \o @]>>, <<>>)}

Row(table, properties) == [table |-> table, properties |-> properties]
Keyed(value) == (<<"k">> :> value)
Located(s, t) == Keyed(Text(s)) @@ (<<"v">> :> Text(t))
One == Number("integer", <<"1">>)
OneAndNone == Number("number", <<"1", ".", "0">>)
Tags == [kind |-> "array", elems |-> <<One, [kind |-> "null"]>>]
Nest == <<"b", "k", "string:", "c">>
EntityRows ==
    {Row(<<"p">>, Keyed(One)), Row(<<"p">>, Keyed(OneAndNone)),
     Row(<<"p">>, Keyed(One) @@ (<<"v">> :> One)), Row(<<"p">>, Keyed(One) @@ (<<"v">> :> OneAndNone)),
     Row(<<"p">>, Keyed(One) @@ (<<"w">> :> One)), Row(<<"p">>, <<"v">> :> One),
     Row(<<"p", "1:">>, Located(Nest, <<"a">>)), 
     Row(<<"p", "1:">>, Located(<<"c">>, <<"a", "k", "string:", "b">>)),
     Row(<<"p", "1:">>, Located(Nest, <<"a">>) @@ (<<"w">> :> Tags)),
     Row(<<"q">>, Keyed(One))}
Joins(from, to, properties) ==
    [table |-> <<"r">>, from |-> [table |-> <<"p">>, identity |-> from],
     to |-> [table |-> <<"p", "1:">>, identity |-> to], properties |-> properties]
Bare == [name \in {} |-> One]
Visiting == Joins(Keyed(One), Located(Nest, <<"a">>), Bare)
RelationshipRows ==
    {Visiting, [Visiting EXCEPT !.properties = Keyed([kind |-> "null"])],
     [Visiting EXCEPT !.properties = Keyed(One)],
     Joins(Keyed(OneAndNone), Located(<<"c">>, <<"a", "k", "string:", "b">>), Bare),
     Joins(Keyed(One), Keyed(Text(Nest)), Bare), Joins(Keyed(Text(<<"1">>)), Located(Nest, <<"a">>), Bare),
     [Visiting EXCEPT !.table = <<"p">>], [Visiting EXCEPT !.to.table = <<"p">>]}

-----------------------------------------------------------------------------
(* The parts.                                                              *)

Output == INSTANCE OutputParser WITH
    Formats <- Formats, Pieces <- Pieces, Lead <- "b1", Trail <- "b2", Wide <- "w",
    Invalid <- "?", MaxFed <- 5

Sse == INSTANCE SseParser WITH
    buffer <- frameBuffer, Chunks <- SseChunks, LF <- "lf", CR <- "cr", Data <- "D",
    Id <- "I", Space <- " ", Nul <- "0", Bad <- "!", MaxBytes <- 7

Provider == INSTANCE ProviderStream WITH
    buffer <- blocks, Wires <- {"chat", "messages", "gemini"}, Frames <- WireFrames,
    Json <- JsonTexts, MaxFrames <- 5

Recorded == INSTANCE Replay WITH
    next <- numbering, Lists <- {"blocks"}, MaxLoaded <- 4, MaxTurnBlocks <- 1,
    MaxRecorded <- 5, MaxRenumbered <- 1

Tokens == INSTANCE Tokenizer WITH
    Vocabularies <- Vocabularies, Texts <- Texts, Bytes <- CharBytes,
    Space <- " ", Mark <- "_", Newline <- "n"

Bodies == INSTANCE WireRequests WITH
    entries <- body,
    Wires <- Endpoints, Requests <- Asked, Breakpoints <- Breakpoints

Messages == INSTANCE Compaction WITH
    stored <- offloaded,
    Configs <- Menus, Chapters <- Chapters, WarnAt <- 10, OffloadTurns <- 2,
    MaxObservations <- 1, MaxChapters <- 3

Graph == INSTANCE MemoryGraph WITH
    Nodes <- {1, 2, 3}, Ids <- RelationshipIds, Links <- Links, Payloads <- {"p"},
    Imports <- Graphs, MaxRelationships <- 3

Vectors == INSTANCE VectorStore WITH
    staged <- stagedTurns, Stores <- {1, 2}, Hints <- {"x", "y"}, Batches <- Batches,
    MaxEntries <- 2, MaxCommits <- 3

Extraction == INSTANCE EntityExtraction WITH
    Schemas <- Schemas, EntityRows <- EntityRows,
    RelationshipRows <- RelationshipRows, Blank <- " ", MaxRows <- 4

Envelopes == INSTANCE Export WITH Imports <- {"i1", "i2"}, Exports <- {"x"}, MaxClock <- 2

\* The idle ones have nothing to choose.
EitherInit ==
    /\ part \in {"output", "sse", "wire", "replay", "tokens", "requests",
                "messages", "graph", "vectors", "extraction", "export"}
    /\ part # "output" => format = Reasoning
    /\ part # "wire" => wire = "chat"
    /\ part # "tokens" => vocab = Plain /\ text = <<>>
    /\ part # "requests" =>
          endpoint = "chat" /\ request = OneQuestion /\ breakpoints = <<>>
    /\ part # "messages" => config = Offloading
    /\ part # "extraction" => schema = Towns
    /\ part # "export" => imports = [i \in {"i1", "i2"} |-> Envelopes!NewImport(TRUE)]
    /\ Output!Init /\ Sse!Init /\ Provider!Init /\ Recorded!Init
    /\ Tokens!Init /\ Bodies!Init /\ Messages!Init /\ Graph!Init /\ Vectors!Init /\ Extraction!Init
    /\ Envelopes!Init

EitherNext ==
    \/ /\ part = "output" /\ Output!Next
       /\ UNCHANGED <<sseVars, wireVars, replayVars, tokenVars, requestVars, messageVars,
                      graph, vectorVars, extractionVars, exportVars, part>>
    \/ /\ part = "sse" /\ Sse!Next
       /\ UNCHANGED <<outputVars, wireVars, replayVars, tokenVars, requestVars, messageVars,
                      graph, vectorVars, extractionVars, exportVars, part>>
    \/ /\ part = "wire" /\ Provider!Next
       /\ UNCHANGED <<outputVars, sseVars, replayVars, tokenVars, requestVars, messageVars,
                      graph, vectorVars, extractionVars, exportVars, part>>
    \/ /\ part = "replay" /\ Recorded!Next
       /\ UNCHANGED <<outputVars, sseVars, wireVars, tokenVars, requestVars, messageVars,
                      graph, vectorVars, extractionVars, exportVars, part>>
    \/ /\ part = "tokens" /\ Tokens!Next
       /\ UNCHANGED <<outputVars, sseVars, wireVars, replayVars, requestVars, messageVars,
                      graph, vectorVars, extractionVars, exportVars, part>>
    \/ /\ part = "requests" /\ Bodies!Next
       /\ UNCHANGED <<outputVars, sseVars, wireVars, replayVars, tokenVars, messageVars,
                      graph, vectorVars, extractionVars, exportVars, part>>
    \/ /\ part = "messages" /\ Messages!Next
       /\ UNCHANGED <<outputVars, sseVars, wireVars, replayVars, tokenVars, requestVars,
                      graph, vectorVars, extractionVars, exportVars, part>>
    \/ /\ part = "graph" /\ Graph!Next
       /\ UNCHANGED <<outputVars, sseVars, wireVars, replayVars, tokenVars, requestVars,
                      messageVars, vectorVars, extractionVars, exportVars, part>>
    \/ /\ part = "vectors" /\ Vectors!Next
       /\ UNCHANGED <<outputVars, sseVars, wireVars, replayVars, tokenVars, requestVars,
                      messageVars, graph, extractionVars, exportVars, part>>
    \/ /\ part = "extraction" /\ Extraction!Next
       /\ UNCHANGED <<outputVars, sseVars, wireVars, replayVars, tokenVars, requestVars,
                      messageVars, graph, vectorVars, exportVars, part>>
    \/ /\ part = "export" /\ Envelopes!Next
       /\ UNCHANGED <<outputVars, sseVars, wireVars, replayVars, tokenVars, requestVars,
                      messageVars, graph, vectorVars, extractionVars, part>>

EitherSpec == EitherInit /\ [][EitherNext]_allVars

\* However bytes, frames, text and records are cut, what is read of them is
\* what the whole says, and what is written of a request is what it says.
\* (OutputParser, SseParser, ProviderStream, Replay, Tokenizer, WireRequests)
ReadsWhole ==
    /\ part = "output" => Output!ParsesWhole
    /\ part = "sse" => Sse!StreamsParseWhole
    /\ part = "wire" => Provider!BlocksComeWhole
    /\ part = "replay" => Recorded!ReplaysWhole
    /\ part = "tokens" => Tokens!TokenizesGreedily
    /\ part = "requests" => Bodies!RequestsCarryAll

\* Whatever is compacted, the first system message and the newest question
\* stay, no result outlives its call, what stays keeps its order, and what an
\* offload takes out the vector store has. (Compaction)
CompactionKeeps == Messages!CompactionKeeps

\* The working graph's lists and positions are those of its relationships, the
\* vector store answers from the newest turns committed, an extraction is
\* accepted whole or not at all, and an import replaces what it says.
\* (MemoryGraph, VectorStore, EntityExtraction, Export)
MemoryHolds ==
    /\ part = "graph" => Graph!GraphIsWhole
    /\ part = "vectors" => Vectors!StoreIsTheNewest
    /\ part = "extraction" => Extraction!ExtractsTotally
    /\ part = "export" => Envelopes!EnvelopesStayWhole
=============================================================================
