----------------------------- MODULE MCProgress -----------------------------
(***************************************************************************)
(* What must come to an end: the calls of the dispatcher and of a local    *)
(* model, the blocks of the tool chain, the guests of the sandbox, and the *)
(* layer passes over tiered experts.  They share no state; a behaviour     *)
(* exercises one of them, its `part`.                                      *)
(***************************************************************************)
EXTENDS Dispatcher

\* LocalModel
CONSTANTS LocalCalls, NoJob, JobQueue, EventBuffer, MaxBlocks
\* ToolChain
CONSTANTS ChainTurns, MaxCalls, MaxAttempts, MaxTrackedCalls, MaxAudit, MaxPending,
          RuntimeThreads
\* Sandbox
CONSTANTS SandboxRuns, NoRun
\* ExpertTiers
CONSTANTS Experts, LoaderThreads, HeatDecayRows, MaxPasses

VARIABLES thread, loader, handles, senders, queue, engine, answer,  \* LocalModel
          block, guard, audit, mcp, sub, ran,                \* ToolChain
          epoch, held, exec,                                 \* Sandbox
          tier, ram, device, heat, pass, stats, passes,      \* ExpertTiers
          part

localVars == <<thread, loader, handles, senders, queue, engine, answer>>
chainVars == <<block, guard, audit, mcp, sub, ran>>
sandboxVars == <<epoch, held, exec>>
tierVars == <<tier, ram, device, heat, pass, stats, passes>>
allVars == <<vars, localVars, chainVars, sandboxVars, tierVars, part>>

\* The plugins in the order a chain registers them, and a tool of each.
Chain == <<"guard", "hitl", "mcp", "subagent", "local">>
Tool(risky, executor) == [risky |-> risky, executor |-> executor]
Tools == [write |-> Tool(TRUE, "mcp"), read |-> Tool(FALSE, "mcp"),
          spawn |-> Tool(FALSE, "subagent"), collect |-> Tool(FALSE, "subagent"),
          skill |-> Tool(FALSE, "local")]
ToolCall(id, tool, valid) == [id |-> id, tool |-> tool, valid |-> valid, child |-> 0]
Calls == {ToolCall(1, "write", TRUE), ToolCall(2, "read", FALSE), ToolCall(2, "read", TRUE),
          ToolCall(3, "spawn", TRUE), ToolCall(3, "collect", TRUE)}

\* Layers that need more experts than a tier holds, and fewer; a RAM tier
\* alone, under a device tier, and a device tier straight from the file.
Routings == {[needed |-> s, rows |-> 1] : s \in {t \in SUBSET Experts : Cardinality(t) = 2}}
            \cup {[needed |-> Experts, rows |-> 2]}
TierSetups == {[ram |-> 2, device |-> 0], [ram |-> 3, device |-> 2], [ram |-> 0, device |-> 2]}
WarmHeats == {[e \in Experts |-> 0], [e \in Experts |-> e]}

Local == INSTANCE LocalModel WITH call <- answer
Tooling == INSTANCE ToolChain WITH walk <- block
Guests == INSTANCE Sandbox
Tiers == INSTANCE ExpertTiers

Untiered == [ram |-> 2, device |-> 0]

\* The idle ones have nothing to choose.
EitherInit ==
    /\ part \in {"dispatch", "local", "chain", "sandbox", "tiers"}
    /\ part # "dispatch" => list = Backends
    /\ part # "tiers" => tier = Untiered /\ ram = <<>>
    /\ Init /\ Local!Init /\ Tooling!ChainInit /\ Guests!Init /\ Tiers!Init

DispatchStep(A) ==
    part = "dispatch" /\ A /\ UNCHANGED <<localVars, chainVars, sandboxVars, tierVars, part>>
LocalStep(A) ==
    part = "local" /\ A /\ UNCHANGED <<vars, chainVars, sandboxVars, tierVars, part>>
ChainStep(A) ==
    part = "chain" /\ A /\ UNCHANGED <<vars, localVars, sandboxVars, tierVars, part>>
SandboxStep(A) ==
    part = "sandbox" /\ A /\ UNCHANGED <<vars, localVars, chainVars, tierVars, part>>
TierStep(A) ==
    part = "tiers" /\ A /\ UNCHANGED <<vars, localVars, chainVars, sandboxVars, part>>

EitherNext ==
    \/ DispatchStep(Next)
    \/ LocalStep(Local!Next)
    \/ ChainStep(Tooling!ChainNext)
    \/ SandboxStep(Guests!Next)
    \/ TierStep(Tiers!Next)

PlaceStep(A) == A /\ UNCHANGED <<list, breaker, built, task, call>>

\* The fairness of Dispatcher, LocalModel, ToolChain, Sandbox and
\* ExpertTiers, each for its own part.
EitherSpec ==
    /\ EitherInit /\ [][EitherNext]_allVars
    /\ \A r \in Requests :
          WF_allVars(DispatchStep(Build(r))) /\ WF_allVars(DispatchStep(CallStep(r)))
    /\ \A a \in Attempts :
          /\ SF_allVars(DispatchStep(PlaceStep(Pool!Start(a))))
          /\ WF_allVars(DispatchStep(PlaceStep(\E b \in Backends : Pool!Give(a, b))))
    /\ WF_allVars(LocalStep(Local!Engine)) /\ WF_allVars(LocalStep(Local!Opens))
    /\ WF_allVars(LocalStep(Local!Enqueue))
    /\ \A j \in LocalCalls : WF_allVars(LocalStep(Local!Poll(j)))
    /\ \A t \in ChainTurns :
          WF_allVars(ChainStep(Tooling!Hook(t))) /\ WF_allVars(ChainStep(Tooling!Ruling(t)))
    /\ WF_allVars(ChainStep(Tooling!WorkerRuns))
    /\ \A id \in 0 .. (MaxCalls * Cardinality(ChainTurns) - 1) :
          WF_allVars(ChainStep(id < sub.spawned /\ Tooling!ChildRuns(id)))
    /\ \A r \in SandboxRuns :
          WF_allVars(SandboxStep(Guests!HostStep(r))) /\ WF_allVars(SandboxStep(Guests!TickerStep(r)))
    /\ WF_allVars(TierStep(Tiers!LoaderReads))
    /\ WF_allVars(TierStep(Tiers!Group \/ Tiers!NextExpert \/ Tiers!Receive \/ Tiers!TakeSlot
                     \/ Tiers!HandOver \/ Tiers!Compute))

\* A call of the local model settles, behind whatever is queued and whoever
\* goes away; a stream that ended gave every block and its usage; and the
\* thread ends once nobody can give it work (LocalModel).
CallsAreAnswered == [](part = "local" => Local!EndTellsAll)
                    /\ (part = "local" => Local!CallsSettle /\ Local!ThreadEnds)

\* Every block polled through the chain comes out (ToolChain).
BlocksComeOut == part = "chain" => Tooling!BlocksComeOut

\* Every run of a guest ends, and is interrupted only at its own deadline, by
\* its own ticker (Sandbox).
RunsEndOnTime == /\ [](part = "sandbox" => Guests!OwnTimeout)
                 /\ part = "sandbox" => Guests!RunsEnd

\* Every layer pass ends (ExpertTiers).
PassesEnd == part = "tiers" => Tiers!PassesEnd
=============================================================================
