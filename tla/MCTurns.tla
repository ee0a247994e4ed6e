------------------------------ MODULE MCTurns ------------------------------
(***************************************************************************)
(* What the turns of one client go through: the client and its prompt      *)
(* cache, the cost ledger, the session log, the chain of the tool plugins, *)
(* the redaction of their texts, the orchestrator that answers them, and   *)
(* the lanes of the backend they are sent to.  They share no state with    *)
(* one another, so a behaviour exercises one of them, its `part`, and the  *)
(* others stay as they began.                                              *)
(***************************************************************************)
EXTENDS ClientTurn, CostPlugin, SessionLog, ToolChain, Orchestrator, Integers, TLC

CONSTANTS t1, t2

\* SchedulerPool
CONSTANTS FirstExperiment, ExperimentCap, HistoryCapacity, Paces

VARIABLES waiting, running, runner, value, meta, tuner, pace, hold, step, future, nextId,
          paused, pauses, stale, unsaid, timers, beat,                 \* SchedulerPool
          policy, fields, at, pending, matches, tally, outcome, again, \* Redaction
          part

laneVars == <<waiting, running, runner, value, meta, tuner, pace, hold, step, future, nextId,
              paused, pauses, stale, unsaid, timers, beat>>
redactionVars == <<policy, fields, at, pending, matches, tally, outcome, again>>
allVars == <<turnVars, costVars, logVars, chainVars, laneVars, redactionVars, speculationVars,
             part>>

\* A priced and a free model; a prompt with parts that are not charged.
CostRates == [m1 |-> [in |-> 3, out |-> 2, read |-> 1], free |-> NoRates]
Sized(k, n) == [kind |-> k, size |-> n]
SmallPrompts == {<<Sized("text", 1)>>, <<Sized("text", 1), Sized("image", 9), Sized("result", 1)>>}
SmallCompletions == {<<>>, <<Sized("call", 1), Sized("result", 9), Sized("thinking", 1)>>}

LogHistories == {<<"system", "user">>, <<"user", "tool", "assistant">>}

\* The plugins in the order a chain registers them, and a tool of each.
ChainPlugins == <<"guard", "hitl", "mcp", "subagent", "local">>
Tool(risky, executor) == [risky |-> risky, executor |-> executor]
ChainTools == [write |-> Tool(TRUE, "mcp"), read |-> Tool(FALSE, "mcp"),
               spawn |-> Tool(FALSE, "subagent"), collect |-> Tool(FALSE, "subagent"),
               skill |-> Tool(FALSE, "local")]
ToolCall(id, tool, valid) == [id |-> id, tool |-> tool, valid |-> valid, child |-> 0]
ChainCalls == {ToolCall(1, "write", TRUE), ToolCall(1, "write", FALSE), ToolCall(2, "read", FALSE),
               ToolCall(2, "read", TRUE), ToolCall(2, "skill", TRUE), ToolCall(3, "spawn", TRUE),
               ToolCall(3, "collect", TRUE)}

\* Both lanes of one backend of three slots, the second lane's from level 2.
LaneCall(lane) == [priority |-> "low", lane |-> lane, allowed |-> {1}]

-----------------------------------------------------------------------------
(* Redaction: rules whose matches touch, nest and overlap, and a kind that *)
(* another rule matches; every text of up to three pieces.                 *)

Literal(kind, letters) == [kind |-> kind, by |-> "literal", value |-> letters]
Prefixed(kind, letters, min, max) ==
    [kind |-> kind, by |-> "prefixed", value |-> letters, min |-> min, max |-> max]
DigitRun(kind, min, max) == [kind |-> kind, by |-> "digits", min |-> min, max |-> max]
Email(kind) == [kind |-> kind, by |-> "email"]

Overlapping == <<Literal(<<"x">>, <<"k", "-">>), Email(<<"x">>), DigitRun(<<"x">>, 2, 3)>>
Policies ==
    {Overlapping,
     <<Prefixed(<<"x">>, <<"k">>, 1, 2), DigitRun(<<"x">>, 2, 4), Literal(<<"x">>, <<"9">>)>>,
     <<Email(<<"x">>), Prefixed(<<"k", "-", "9">>, <<"k", "-">>, 1, 3)>>}

Fragments == {<<"k">>, <<"-">>, <<"9">>, <<"9", "-", "9">>, <<"k", "@", "9", ".", "k">>,
              <<"@">>, <<".">>}
SpansOf(n) == {FlattenSeq(s) : s \in [1..n -> Fragments]}
Spans == {<<t>> : t \in UNION {SpansOf(n) : n \in 0..3}}
         \cup {<<<<"k", "-", "9">>, t>> : t \in SpansOf(2)}

-----------------------------------------------------------------------------
(* Orchestrator: what a tier may say.                                      *)

Sayings == {[id |-> "a", valid |-> TRUE], [id |-> "x", valid |-> FALSE],
            [id |-> "y", valid |-> FALSE]}

-----------------------------------------------------------------------------
Lanes == INSTANCE SchedulerPool WITH
    SampleCapacity <- 2, NumBackends <- 1, MaxCalls <- 4, Ceiling <- 3, MaxWaiting <- 4,
    Metas <- {LaneCall("shared"), LaneCall("reserved")},
    InitialValue <- [low |-> 1, medium |-> 10, high |-> 100, urgent |-> 10000],
    ReservedFrom <- 2, HoldTicks <- {}, Beats <- {}, MaxPauses <- 0,
    MayGoStale <- FALSE, MayDrop <- FALSE, MayFail <- TRUE

Scrubbing == INSTANCE Redaction WITH
    Policies <- Policies, Requests <- Spans, MaxMatches <- 3,
    Digits <- {"9"}, Alnum <- {"9", "k", "x"}

Swap == Permutations({t1, t2})

\* The idle ones have nothing to choose.
EitherInit ==
    /\ part \in {"client", "cost", "log", "chain", "lanes", "redaction", "tiers"}
    /\ Init /\ CostInit /\ LogInit /\ ChainInit /\ Lanes!Init
    /\ Scrubbing!Init /\ SpeculationInit
    /\ part # "client" => client = [cache |-> FALSE, orchestrator |-> FALSE]
    /\ part # "log" => store.kind = "memory"
    /\ part # "redaction" => policy = Overlapping
    /\ part # "tiers" => fallback

EitherNext ==
    \/ /\ part = "client" /\ Next
       /\ UNCHANGED <<costVars, logVars, chainVars, laneVars,
                      redactionVars, speculationVars, part>>
    \/ /\ part = "cost" /\ CostNext
       /\ UNCHANGED <<turnVars, logVars, chainVars, laneVars,
                      redactionVars, speculationVars, part>>
    \/ /\ part = "log" /\ LogNext
       /\ UNCHANGED <<turnVars, costVars, chainVars, laneVars,
                      redactionVars, speculationVars, part>>
    \/ /\ part = "chain" /\ ChainNext
       /\ UNCHANGED <<turnVars, costVars, logVars, laneVars,
                      redactionVars, speculationVars, part>>
    \/ /\ part = "lanes" /\ Lanes!Next
       /\ UNCHANGED <<turnVars, costVars, logVars, chainVars,
                      redactionVars, speculationVars, part>>
    \/ /\ part = "redaction" /\ Scrubbing!Next
       /\ UNCHANGED <<turnVars, costVars, logVars, chainVars,
                      laneVars, speculationVars, part>>
    \/ /\ part = "tiers" /\ SpeculationNext
       /\ UNCHANGED <<turnVars, costVars, logVars, chainVars,
                      laneVars, redactionVars, part>>

EitherSpec == EitherInit /\ [][EitherNext]_allVars

\* While the tuner moves the level across reserved_lane_from_level under the
\* running calls, no two share a bucket, the reserved lane keeps to its own,
\* and a trial counts the calls that started in it (queue.rs next_placement,
\* dispatch, tuner.rs on_complete). (SchedulerPool)
AcrossLevels == part = "lanes" => Lanes!TypeOK /\ Lanes!AcrossLevels

\* A request is sent with nothing left to redact, and only the matched text is
\* replaced. (Redaction)
ScrubLeavesNothing == part = "redaction" => Scrubbing!ScrubLeavesNothing
=============================================================================
