----------------------------- MODULE Compaction -----------------------------
(***************************************************************************)
(* What the memory plugin does to a request's messages (plugins/memory/    *)
(* mod.rs): the near-limit warning, the compaction strategies in the order *)
(* they are configured, and the graph's message.  on_request and compress  *)
(* are actions; the caller goes on from the messages they left, or sends   *)
(* them again.                                                             *)
(*                                                                         *)
(* A message is its role, the tool calls it makes, the results it carries  *)
(* and the tokens of its text.  A tool message is one result, which counts *)
(* as text; the result blocks of a user message do not.  `id` tells        *)
(* messages apart and `mark` the plugin's own.                             *)
(***************************************************************************)
EXTENDS SequencesExt, Integers

CONSTANTS
    Configs,        \* [menu, limit, graph]: the strategies in order, each [kind, n], the
                    \* Budget, [by, n] by "messages" or "tokens", and graph_context
    WarnAt,         \* tokens of warn_fraction
    OffloadTurns, MaxObservations,   \* offload_turns, max_drop_system_observations
    Chapters,       \* what a caller adds: sequences of messages
    MaxChapters     \* bound: additions

VARIABLES
    config,         \* the plugin's configuration, one of Configs
    messages,       \* the request's messages
    stored,         \* ids of the messages the vector store was given
    graphFilled,    \* whether the working graph has a node
    chapters        \* additions so far

vars == <<config, messages, stored, graphFilled, chapters>>

Init ==
    /\ config \in Configs
    /\ messages = <<>>
    /\ stored = {}
    /\ graphFilled = FALSE
    /\ chapters = 0

Own(mark, role, text) ==
    [id |-> 0, mark |-> mark, role |-> role, calls |-> {}, results |-> <<>>, text |-> text]

-----------------------------------------------------------------------------
WithRole(ms, role) == {i \in DOMAIN ms : ms[i].role = role}
RecentUser(ms) == {i \in WithRole(ms, "user") : \A j \in WithRole(ms, "user") : j <= i}
FirstSystem(ms) == {i \in WithRole(ms, "system") : \A j \in WithRole(ms, "system") : j >= i}

\* The n first of a set of positions.
Oldest(S, n) == {i \in S : Cardinality({j \in S : j < i}) < n}

RemovableTurns(ms, n) ==
    Oldest(DOMAIN ms \ (WithRole(ms, "system") \cup RecentUser(ms)), n)

CallIds(m) == {c.id : c \in m.calls}
ResultIds(m) == {m.results[k].call : k \in DOMAIN m.results}

\* Slip: results stay when their call is dropped.
PairingCloseNot(ms, dropped) == dropped

\* Whatever carries the result of a dropped call goes with it.
PairingClose(ms, dropped) ==
    LET ids == UNION {CallIds(ms[i]) : i \in dropped}
    IN dropped \cup {i \in DOMAIN ms \ RecentUser(ms) : ResultIds(ms[i]) \cap ids # {}}

Without(ms, S) ==
    FoldLeftDomain(LAMBDA kept, i : IF i \in S THEN kept ELSE Append(kept, ms[i]), <<>>, ms)

TokensOf(m) == 1 + m.text + IF m.role = "tool" THEN m.results[1].out ELSE 0
CountTokens(ms) == FoldLeft(LAMBDA sum, m : sum + TokensOf(m), 0, ms)

OverBudget(ms, used, limit) ==
    CASE limit.by = "messages" -> Len(ms) > limit.n
      [] limit.by = "tokens" -> used >= limit.n
      [] OTHER -> FALSE

-----------------------------------------------------------------------------
(* The strategies: what is left of the messages, what the store is given,  *)
(* and whether the strategy acted.                                         *)

Acted(ms) == [messages |-> ms, stored |-> {}, acted |-> TRUE]
Passed(ms) == [messages |-> ms, stored |-> {}, acted |-> FALSE]

\* Removes, stores, and puts back what the store refuses.
Offload(ms, n, refused) ==
    LET closed == PairingClose(ms, RemovableTurns(ms, n))
    IN IF closed = {} \/ refused THEN Passed(ms)
       ELSE [Acted(Without(ms, closed)) EXCEPT !.stored = {ms[i].id : i \in closed}]

Summarize(ms, n) ==
    LET closed == PairingClose(ms, RemovableTurns(ms, n))
    IN IF closed = {} THEN Passed(ms)
       ELSE Acted(InsertAt(Without(ms, closed), Min(closed), Own("summary", "user", 1)))

DropTurns(ms) ==
    LET closed == PairingClose(ms, RemovableTurns(ms, OffloadTurns))
    IN IF closed = {} THEN Passed(ms) ELSE Acted(Without(ms, closed))

SlidingWindow(ms, keep) ==
    IF Len(ms) <= keep THEN Passed(ms)
    ELSE LET free == DOMAIN ms \ (FirstSystem(ms) \cup RecentUser(ms))
         IN Acted(Without(ms, PairingClose(ms, Oldest(free, Len(ms) - keep))))

DropObservations(ms) ==
    LET gone == Oldest(WithRole(ms, "system") \ FirstSystem(ms), MaxObservations)
    IN IF gone = {} THEN Passed(ms) ELSE Acted(Without(ms, gone))

\* Results are places <<message, result>>; blanking keeps the message.
Results(ms) == UNION {{i} \X DOMAIN ms[i].results : i \in DOMAIN ms}
Earlier(a, b) == a[1] < b[1] \/ (a[1] = b[1] /\ a[2] < b[2])

Blanked(ms, places) ==
    [i \in DOMAIN ms |-> [ms[i] EXCEPT !.results =
        [k \in DOMAIN @ |-> IF <<i, k>> \in places THEN [@[k] EXCEPT !.out = 0] ELSE @[k]]]]

Blank(ms, places) == IF places = {} THEN Passed(ms) ELSE Acted(Blanked(ms, places))

ClearToolResults(ms, keep) ==
    Blank(ms, {p \in Results(ms) : Cardinality({q \in Results(ms) : Earlier(p, q)}) >= keep})

\* Of the calls with a result that read one file, the last message's first
\* keeps its result.
DeduplicateFileReads(ms) ==
    LET answered == UNION {ResultIds(m) : m \in Range(ms)}
        reads == {r \in UNION {{[at |-> i, id |-> c.id, path |-> c.path] : c \in ms[i].calls}
                                   : i \in DOMAIN ms} : r.id \in answered}
        place(id) == CHOOSE p \in Results(ms) :
                        /\ ms[p[1]].results[p[2]].call = id
                        /\ \A q \in Results(ms) : ms[q[1]].results[q[2]].call = id => ~Earlier(q, p)
        newer(r) == {s \in reads : s.path = r.path /\ (s.at > r.at \/ (s.at = r.at /\ s.id < r.id))}
    IN Blank(ms, {place(r.id) : r \in {s \in reads : newer(s) # {}}})

\* Half of a text of more than n tokens goes, and a marker comes in.
Clamped(text, n) == IF text > n THEN text \div 2 + 1 ELSE text

ClampOversized(ms, n) ==
    LET clamped == [i \in DOMAIN ms |-> [ms[i] EXCEPT
                        !.text = Clamped(@, n),
                        !.results = [k \in DOMAIN @ |-> [@[k] EXCEPT !.out = Clamped(@, n)]]]]
        over(m) == m.text > n \/ \E k \in DOMAIN m.results : m.results[k].out > n
    IN IF \E m \in Range(ms) : over(m) THEN Acted(clamped) ELSE Passed(ms)

RunStrategy(strategy, ms, refused) ==
    CASE strategy.kind = "offload" -> Offload(ms, strategy.n, refused)
      [] strategy.kind = "summarize" -> Summarize(ms, strategy.n)
      [] strategy.kind = "dedup" -> DeduplicateFileReads(ms)
      [] strategy.kind = "clear" -> ClearToolResults(ms, strategy.n)
      [] strategy.kind = "clamp" -> ClampOversized(ms, strategy.n)
      [] strategy.kind = "slide" -> SlidingWindow(ms, strategy.n)
      [] strategy.kind = "observations" -> DropObservations(ms)
      [] strategy.kind = "drop" -> DropTurns(ms)

\* A run ends early once a strategy brought it under the budget.
AfterStrategy(run, r, limit) ==
    [messages |-> r.messages, stored |-> run.stored \cup r.stored, acted |-> run.acted \/ r.acted,
     done |-> /\ r.acted
              /\ limit.by # "none"
              /\ ~OverBudget(r.messages, CountTokens(r.messages), limit)]

RunPass(ms, limit, refused) ==
    FoldLeft(LAMBDA run, strategy :
                IF run.done THEN run
                ELSE AfterStrategy(run, RunStrategy(strategy, run.messages, refused), limit),
             [messages |-> ms, stored |-> {}, acted |-> FALSE, done |-> FALSE], config.menu)

MaxCompactionPasses == 4

\* Passes until the budget is met or a pass does nothing; without a budget one.
AfterPass(last, p, limit) ==
    [messages |-> p.messages, stored |-> last.stored \cup p.stored,
     again |-> /\ limit.by # "none" /\ p.acted
               /\ OverBudget(p.messages, CountTokens(p.messages), limit)]

CompressInner(ms, limit, refused) ==
    FoldLeft(LAMBDA last, pass :
                IF last.again THEN AfterPass(last, RunPass(last.messages, limit, refused), limit)
                ELSE last,
             [messages |-> ms, stored |-> {}, again |-> TRUE],
             [pass \in 1..MaxCompactionPasses |-> pass])

Marked(ms, mark) == {i \in DOMAIN ms : ms[i].mark = mark}

\* The warning, once usage is that high and none is there.
Warned(ms) ==
    IF CountTokens(ms) >= WarnAt /\ Marked(ms, "warning") = {}
    THEN Append(ms, Own("warning", "system", 1))
    ELSE ms

\* The graph's message: replaced where it is, else after the first system
\* message, else first; and taken out once the graph is empty.
GraphText == 2
WithGraph(ms) ==
    LET there == Oldest(Marked(ms, "graph"), 1)
        text == Own("graph", "system", GraphText)
    IN CASE ~config.graph -> ms
         [] config.graph /\ ~graphFilled -> Without(ms, there)
         [] config.graph /\ graphFilled /\ there # {} -> [ms EXCEPT ![Min(there)] = text]
         [] OTHER -> InsertAt(ms, IF FirstSystem(ms) = {} THEN 1 ELSE Min(FirstSystem(ms)) + 1, text)

-----------------------------------------------------------------------------
\* The caller goes on with the conversation, under ids of its own.
Fresh(chapter, base) ==
    [k \in DOMAIN chapter |-> [chapter[k] EXCEPT
        !.id = base + k,
        !.calls = {[c EXCEPT !.id = base + @] : c \in @},
        !.results = [j \in DOMAIN @ |-> [@[j] EXCEPT !.call = base + @]]]]

Extend(chapter) ==
    /\ chapters < MaxChapters
    /\ chapters' = chapters + 1
    /\ messages' = messages \o Fresh(chapter, 10 * chapters')
    /\ UNCHANGED <<config, stored, graphFilled>>

\* Usage is counted before the warning, the messages after it.
Compacted(warned, used, refused) ==
    IF OverBudget(warned, used, config.limit)
    THEN CompressInner(warned, config.limit, refused)
    ELSE [messages |-> warned, stored |-> {}]

Leave(left, final) ==
    /\ messages' = final
    /\ stored' = stored \cup left.stored
    /\ UNCHANGED <<config, graphFilled, chapters>>

OnRequest(refused) ==
    LET left == Compacted(Warned(messages), CountTokens(messages), refused)
    IN Leave(left, WithGraph(left.messages))

Compress(refused) ==
    LET left == CompressInner(messages, [by |-> "none", n |-> 0], refused)
    IN Leave(left, left.messages)

\* The caller merges into the working graph, or empties it.
ChangeGraph ==
    /\ config.graph
    /\ graphFilled' = ~graphFilled
    /\ UNCHANGED <<config, messages, stored, chapters>>

Next ==
    \/ \E chapter \in Chapters : Extend(chapter)
    \/ messages # <<>> /\ \E refused \in BOOLEAN : OnRequest(refused) \/ Compress(refused)
    \/ ChangeGraph

Spec == Init /\ [][Next]_vars
-----------------------------------------------------------------------------
Ids(ms) == {m.id : m \in Range(ms)}
Strategies == {config.menu[k].kind : k \in DOMAIN config.menu}
Orphans(ms) ==
    UNION {ResultIds(m) : m \in Range(ms)} \ UNION {CallIds(m) : m \in Range(ms)}

\* No result outlives its call, but for one that rides in the most recent user
\* message, which outranks the closure (pairing_close).
ResultsGoWithCalls ==
    \A i \in DOMAIN messages' :
        ResultIds(messages'[i]) \cap (Orphans(messages') \ Orphans(messages)) # {}
            => messages'[i].id \in {messages[u].id : u \in RecentUser(messages)}

\* The first system message stays, and the most recent user message unless a
\* summary has taken its place as the most recent one
\* (removable_turn_indices, strategy_sliding_window).
PinnedStay ==
    /\ \A i \in FirstSystem(messages) :
          messages[i].mark = "" => messages[i].id \in Ids(messages')
    /\ \A i \in RecentUser(messages) :
          \/ messages[i].id \in Ids(messages')
          \/ messages[i].mark # "" \/ "summarize" \in Strategies

\* What is kept stays in its order, and what a menu that only offloads took
\* out is in the store: a store that refuses leaves everything in place
\* (strategy_offload, remove_indices).
NothingElseMoves ==
    LET kept == SelectSeq(messages', LAMBDA m : m.mark = "" )
        before == SelectSeq(messages, LAMBDA m : m.id \in Ids(kept) /\ m.mark = "")
    IN /\ Len(before) <= Len(kept)
       /\ \A k \in DOMAIN before : kept[k].id = before[k].id
       /\ Strategies = {"offload"} =>
              (Ids(messages) \ Ids(messages')) \ {0} \subseteq stored'

\* The plugin's own messages are there once at most (on_request).
OneOfEach == \A mark \in {"warning", "graph"} : Cardinality(Marked(messages, mark)) <= 1

CompactionKeeps == []OneOfEach /\ [][ResultsGoWithCalls /\ PinnedStay /\ NothingElseMoves]_vars
=============================================================================
