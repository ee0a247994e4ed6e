----------------------------- MODULE ToolChain -----------------------------
(***************************************************************************)
(* What happens to a tool call on its way through the registered plugins   *)
(* (PluginStream::poll_next in src/client.rs): guardrails check it, the    *)
(* human-in-the-loop gate asks, and MCP, the subagents and the local       *)
(* executors (skills, web search, sandbox) answer it in place.  The hooks  *)
(* are synchronous: a turn that waits in one of them keeps the runtime     *)
(* thread it is polled on, and children of the subagent plugin need one.   *)
(***************************************************************************)
EXTENDS Naturals, Sequences, FiniteSets, FiniteSetsExt, SequencesExt

CONSTANTS ChainTurns,
          Chain,            \* plugins in registration order
          Tools,            \* tool -> [risky, executor]
          Calls,            \* calls a model may make: [id, tool, valid, child]
          MaxCalls,         \* bound: calls of a turn
          MaxAttempts, MaxTrackedCalls,  \* JsonGuardrailPlugin
          MaxAudit,         \* HitlPlugin::max_audit_entries
          MaxPending,       \* SubagentPlugin::max_pending
          RuntimeThreads    \* worker threads of the tokio runtime

ASSUME ChainAssumption ==
    /\ Chain \in Seq(STRING)
    /\ MaxTrackedCalls \in Nat \ {0}
    /\ MaxAudit \in Nat /\ MaxPending \in Nat

VARIABLES walk,    \* each turn's block, its place in the chain and its output
          guard,   \* AttemptCounters
          audit,   \* HitlPlugin::audit
          mcp,     \* the worker thread: its queue, its replies, whether it lives
          sub,     \* SubagentPlugin: pending receivers and the children
          ran      \* calls that an executor ran

chainVars == <<walk, guard, audit, mcp, sub, ran>>

NoBlock == [kind |-> "none"]
Asked(call, by) == [kind |-> "call", call |-> call, by |-> by]
\* The block a plugin puts in the place of a call: the call's id, and what
\* the output reports: the call that ran, a child, or why nothing did.
Result(block, of) == [kind |-> "result", call |-> block.call, by |-> block.by, of |-> of]
Failure == [kind |-> "error"]
Note(what) == <<what, 0>>
RunOf(by) == <<"ran", by>>
ChildOf(id) == <<"child", id>>

ChainInit ==
    /\ walk = [t \in ChainTurns |-> [at |-> 0, block |-> NoBlock, wait |-> "no",
                                     made |-> 0, out |-> <<>>]]
    /\ guard = [counts |-> [id \in {} |-> 0], order |-> <<>>]
    /\ audit = <<>>
    /\ mcp = [up |-> TRUE, queue |-> <<>>, reply |-> [t \in ChainTurns |-> NoBlock]]
    /\ sub = [spawned |-> 0, pending |-> {}, child |-> <<>>, taken |-> {}]
    /\ ran = {}

Polled == {t \in ChainTurns : walk[t].at > 0}
FreeThread == Cardinality(Polled) < RuntimeThreads

\* A hook lets a block pass that is no call, or not its own; the gates look
\* at every call.
Mine(block, plugin) ==
    /\ block.kind = "call"
    /\ plugin \in {"guard", "hitl"} \/ Tools[block.call.tool].executor = plugin

NextHook(block, i) ==
    Min({j \in (i + 1)..Len(Chain) : Mine(block, Chain[j])} \cup {Len(Chain) + 1})

\* The next block of the provider's stream is a tool call.
Poll(t, call) ==
    /\ walk[t].at = 0 /\ walk[t].made < MaxCalls
    /\ FreeThread
    /\ LET block == Asked(call, <<t, walk[t].made + 1>>)
       IN walk' = [walk EXCEPT ![t].at = NextHook(block, 0), ![t].made = @ + 1,
                               ![t].block = block]
    /\ UNCHANGED <<guard, audit, mcp, sub, ran>>

\* The hook returns and the block goes on to the next plugin.
Passed(t, block) == [walk EXCEPT ![t].at = NextHook(block, @), ![t].block = block,
                                 ![t].wait = "no"]

\* The hook returns an error: the block is gone and the stream yields it.
Failed(t) == [walk EXCEPT ![t].at = 0, ![t].block = NoBlock, ![t].wait = "no",
                           ![t].out = Append(@, Failure)]

\* After the last plugin the consumer gets the block.
Deliver(t) ==
    /\ walk[t].at = Len(Chain) + 1
    /\ walk' = [walk EXCEPT ![t].at = 0, ![t].block = NoBlock,
                            ![t].out = Append(@, walk[t].block)]
    /\ UNCHANGED <<guard, audit, mcp, sub, ran>>

Reached(t, plugin) == /\ walk[t].at \in 1..Len(Chain)
                      /\ Chain[walk[t].at] = plugin
                      /\ walk[t].wait = "no"

-----------------------------------------------------------------------------
(* JsonGuardrailPlugin::on_stream_chunk *)

\* An id stands once in the order.
ClearAttempts(g, id) ==
    [counts |-> [i \in DOMAIN g.counts \ {id} |-> g.counts[i]],
     order |-> RemoveFirst(g.order, id)]

CountFailure(g, id) ==
    IF id \in DOMAIN g.counts THEN [g EXCEPT !.counts[id] = @ + 1]
    ELSE LET kept == SubSeq(g.order, IF Len(g.order) < MaxTrackedCalls THEN 1
                                     ELSE Len(g.order) - MaxTrackedCalls + 2, Len(g.order))
         IN [counts |-> [i \in ToSet(kept) \cup {id} |-> IF i = id THEN 1 ELSE g.counts[i]],
             order |-> Append(kept, id)]

Guard(t) ==
    LET block == walk[t].block
        id == block.call.id
    IN /\ Reached(t, "guard")
       /\ \/ /\ block.call.valid
             /\ guard' = ClearAttempts(guard, id)
             /\ walk' = Passed(t, block)
          \/ /\ ~block.call.valid
             /\ guard' = CountFailure(guard, id)
             /\ walk' = Passed(t, Result(block,
                            Note(IF guard'.counts[id] <= MaxAttempts THEN "retry" ELSE "exhausted")))
       /\ UNCHANGED <<audit, mcp, sub, ran>>

-----------------------------------------------------------------------------
(* HitlPlugin::on_stream_chunk *)

Ask(t) ==
    /\ Reached(t, "hitl")
    /\ walk' = IF Tools[walk[t].block.call.tool].risky
               THEN [walk EXCEPT ![t].wait = "ruling"]
               ELSE Passed(t, walk[t].block)
    /\ UNCHANGED <<guard, audit, mcp, sub, ran>>

\* Slip: a ruling that finds the log full counts all the same.
RuledUnrecorded(t, approved) ==
    LET block == walk[t].block IN
    /\ walk[t].wait = "ruling"
    /\ audit' = IF Len(audit) < MaxAudit
                THEN Append(audit, [by |-> block.by, approved |-> approved]) ELSE audit
    /\ walk' = Passed(t, IF approved THEN block ELSE Result(block, Note("denied")))
    /\ UNCHANGED <<guard, mcp, sub, ran>>

\* A channel that closes is a denial; a full log refuses either ruling.
Ruled(t, approved) ==
    LET block == walk[t].block IN
    /\ walk[t].wait = "ruling"
    /\ \/ /\ Len(audit) < MaxAudit
          /\ audit' = Append(audit, [by |-> block.by, approved |-> approved])
          /\ walk' = Passed(t, IF approved THEN block ELSE Result(block, Note("denied")))
       \/ /\ Len(audit) >= MaxAudit
          /\ walk' = Failed(t)
          /\ UNCHANGED audit
    /\ UNCHANGED <<guard, mcp, sub, ran>>

-----------------------------------------------------------------------------
(* McpPlugin: the hook sends to the worker thread and waits for its reply. *)

Send(t) ==
    /\ Reached(t, "mcp")
    /\ \/ /\ mcp.up
          /\ mcp' = [mcp EXCEPT !.queue = Append(@, walk[t].block), !.reply[t] = NoBlock]
          /\ walk' = [walk EXCEPT ![t].wait = "mcp"]
       \/ /\ ~mcp.up
          /\ walk' = Passed(t, Result(walk[t].block, Note("failed")))
          /\ UNCHANGED mcp
    /\ UNCHANGED <<guard, audit, sub, ran>>

\* Slip: the reply goes to whoever waits longest in the queue's order.
WorkerRepliesNext ==
    /\ mcp.up /\ mcp.queue # <<>>
    /\ LET block == mcp.queue[1]
           next == mcp.queue[Len(mcp.queue)]
       IN /\ mcp' = [mcp EXCEPT !.queue = Tail(@), !.reply[next.by[1]] = Result(next, RunOf(block.by))]
          /\ ran' = ran \cup {block}
    /\ UNCHANGED <<walk, guard, audit, sub>>

\* One request at a time, each with a reply channel of its own.
WorkerRuns ==
    /\ mcp.up /\ mcp.queue # <<>>
    /\ LET block == mcp.queue[1]
       IN /\ mcp' = [mcp EXCEPT !.queue = Tail(@), !.reply[block.by[1]] = Result(block, RunOf(block.by))]
          /\ ran' = ran \cup {block}
    /\ UNCHANGED <<walk, guard, audit, sub>>

\* Slip: the requests in the channel outlive the worker.
WorkerDiesKeeping == /\ mcp.up
                     /\ mcp' = [mcp EXCEPT !.up = FALSE]
                     /\ UNCHANGED <<walk, guard, audit, sub, ran>>

\* The thread ends (a panic, a lost server): the channel drops what it holds
\* and every waiting hook sees its reply channel close.
WorkerDies ==
    /\ mcp.up
    /\ mcp' = [mcp EXCEPT !.up = FALSE, !.queue = <<>>,
                  !.reply = [t \in ChainTurns |->
                      IF walk[t].wait = "mcp" /\ mcp.reply[t] = NoBlock
                      THEN Result(walk[t].block, Note("failed")) ELSE mcp.reply[t]]]
    /\ UNCHANGED <<walk, guard, audit, sub, ran>>

Received(t) ==
    /\ walk[t].wait = "mcp"
    /\ mcp.reply[t] # NoBlock
    /\ walk' = Passed(t, mcp.reply[t])
    /\ mcp' = [mcp EXCEPT !.reply[t] = NoBlock]
    /\ UNCHANGED <<guard, audit, sub, ran>>

-----------------------------------------------------------------------------
(* SubagentPlugin *)

\* spawn_subagent; at the cap the hook fails.  Children are numbered from 0.
Spawn(t) ==
    LET id == sub.spawned IN
    /\ Reached(t, "subagent")
    /\ walk[t].block.call.tool = "spawn"
    /\ \/ /\ Cardinality(sub.pending) < MaxPending
          /\ sub' = [sub EXCEPT !.spawned = @ + 1, !.child = Append(@, "ready"),
                                !.pending = @ \cup {id}]
          /\ walk' = Passed(t, Result(walk[t].block, ChildOf(id)))
       \/ /\ Cardinality(sub.pending) >= MaxPending
          /\ walk' = Failed(t)
          /\ UNCHANGED sub
    /\ UNCHANGED <<guard, audit, mcp, ran>>

\* collect takes the receiver out of the registry and waits on it.
Collect(t) ==
    LET id == walk[t].block.call.child IN
    /\ Reached(t, "subagent")
    /\ walk[t].block.call.tool = "collect"
    /\ \/ /\ id \in sub.pending
          /\ sub' = [sub EXCEPT !.pending = @ \ {id}]
          /\ walk' = [walk EXCEPT ![t].wait = "child"]
       \/ /\ id \notin sub.pending
          /\ walk' = Passed(t, Result(walk[t].block, Note("unknown")))
          /\ UNCHANGED sub
    /\ UNCHANGED <<guard, audit, mcp, ran>>

\* A child's task runs on a thread of the runtime to its end, or panics.
ChildRuns(id) ==
    /\ FreeThread
    /\ sub.child[id + 1] = "ready"
    /\ \E end \in {"done", "died"} : sub' = [sub EXCEPT !.child[id + 1] = end]
    /\ UNCHANGED <<walk, guard, audit, mcp, ran>>

Collected(t) ==
    LET id == walk[t].block.call.child IN
    /\ walk[t].wait = "child"
    /\ sub.child[id + 1] # "ready"
    /\ sub' = [sub EXCEPT !.taken = @ \cup {id}]
    /\ walk' = Passed(t, Result(walk[t].block,
                  IF sub.child[id + 1] = "done" THEN ChildOf(id) ELSE Note("failed")))
    /\ UNCHANGED <<guard, audit, mcp, ran>>

-----------------------------------------------------------------------------
\* Skills, web search and the sandbox answer within the hook: an error of
\* theirs is the output.
Execute(t) ==
    /\ Reached(t, "local")
    /\ walk' = Passed(t, Result(walk[t].block, RunOf(walk[t].block.by)))
    /\ ran' = ran \cup {walk[t].block}
    /\ UNCHANGED <<guard, audit, mcp, sub>>

Hook(t) == \/ Guard(t) \/ Ask(t) \/ Send(t) \/ Received(t)
           \/ Spawn(t) \/ Collect(t) \/ Collected(t) \/ Execute(t) \/ Deliver(t)

\* An approver who denies, or whose channel closes, and one who approves.
Ruling(t) == \E approved \in BOOLEAN : Ruled(t, approved)

ChainNext ==
    \/ \E t \in ChainTurns : \E call \in Calls : Poll(t, call)
    \/ \E t \in ChainTurns : Hook(t) \/ Ruling(t)
    \/ WorkerRuns \/ WorkerDies
    \/ \E id \in 0..(sub.spawned - 1) : ChildRuns(id)

\* A hook that can go on does, approvers rule, the worker serves its queue
\* and the runtime gives a free thread to every task that is ready.
ChainFairness ==
    /\ \A t \in ChainTurns : WF_chainVars(Hook(t)) /\ WF_chainVars(Ruling(t))
    /\ WF_chainVars(WorkerRuns)
    /\ \A id \in 0..(MaxCalls * Cardinality(ChainTurns) - 1) :
          WF_chainVars(id < sub.spawned /\ ChildRuns(id))

ChainSpec == ChainInit /\ [][ChainNext]_chainVars
FairChainSpec == ChainSpec /\ ChainFairness

-----------------------------------------------------------------------------
\* A gate that every place of the call's executor comes after.
Before(gate, block) ==
    \A j \in 1..Len(Chain) : Chain[j] = Tools[block.call.tool].executor =>
        \E i \in 1..(j - 1) : Chain[i] = gate

\* An executor runs a call only as the gates registered before it let it:
\* a risky one after a recorded approval of this very call, at a full audit
\* log none, and never one that failed its schema, however often it was
\* retried (hitl.rs record_audit, guardrails.rs on_stream_chunk).
NothingRunsUngated ==
    \A block \in ran :
        /\ Before("hitl", block) /\ Tools[block.call.tool].risky =>
              [by |-> block.by, approved |-> TRUE] \in ToSet(audit)
        /\ Before("guard", block) => block.call.valid

\* The output that stands in for a call reports that call and no other's:
\* the worker's replies, and the children's results, never cross turns, and
\* a child's result is handed out once (mcp.rs call_tool_sync, collect).
AnswersAreOwn ==
    \A t \in ChainTurns : \A i \in 1..Len(walk[t].out) :
        LET block == walk[t].out[i] IN
        /\ block.kind # "error" => block.by = <<t, i>>
        /\ block.kind = "result" =>
              /\ block.of[1] = "ran" => block.of = RunOf(block.by)
              /\ block.call.tool = "collect" /\ block.of[1] = "child" =>
                    /\ block.of = ChildOf(block.call.child)
                    /\ \A u \in ChainTurns : \A j \in 1..Len(walk[u].out) :
                          /\ <<u, j>> # <<t, i>>
                          /\ walk[u].out[j].kind = "result"
                          /\ walk[u].out[j].call.tool = "collect"
                          => walk[u].out[j].of # block.of

\* The attempt counters and their eviction order name the same ids, each
\* once, and no more than the cap (AttemptCounters).
CountersMatchOrder ==
    /\ ToSet(guard.order) = DOMAIN guard.counts
    /\ Len(guard.order) = Cardinality(DOMAIN guard.counts)
    /\ Len(guard.order) <= MaxTrackedCalls

\* Every child is still to be collected, is being waited for, or has been
\* collected: the cap drops none, and refuses what it cannot hold.
ChildrenKept ==
    LET waited == {walk[t].block.call.child : t \in {t \in ChainTurns : walk[t].wait = "child"}}
    IN /\ Cardinality(sub.pending) <= MaxPending
       /\ sub.pending \cup waited \cup sub.taken = 0..(sub.spawned - 1)
       /\ sub.pending \cap (waited \cup sub.taken) = {}
       /\ waited \cap sub.taken = {}

\* An executor runs only what the gates before it let through, and a gate's
\* attempt counters and their eviction order agree.
GatesHold == NothingRunsUngated /\ CountersMatchOrder

\* An output reports the call it stands in for, the worker's replies and the
\* children's results never cross turns, and no child is lost to the cap.
AnswersAreKept == AnswersAreOwn /\ ChildrenKept

\* Every block that is polled comes out of the chain, whatever the worker
\* and the children do, as long as a thread is left for the children.
BlocksComeOut == \A t \in ChainTurns : walk[t].at > 0 ~> walk[t].at = 0

=============================================================================
