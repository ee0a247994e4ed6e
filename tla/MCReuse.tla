------------------------------ MODULE MCReuse ------------------------------
(***************************************************************************)
(* What is kept for later: the responses of the prompt cache, the          *)
(* positions the local engine has decoded, the experts it has read and the *)
(* model file it has downloaded; and how the engine draws its tokens.      *)
(* They share no state; a behaviour exercises one of them, its `part`.     *)
(***************************************************************************)
EXTENDS PromptCache, Download, SequencesExt

CONSTANTS k1, k2, k3, r1

\* LocalEngine
CONSTANTS Tokens, Eog, Junk, Budgets, ContextLength, RingRollback, RingRows, Chunk,
          MaxVerifyRows, DraftTokens, MaxJobs
\* ExpertTiers
CONSTANTS Experts, LoaderThreads, HeatDecayRows, MaxPasses

VARIABLES setup, model, cached, head, job, jobs,             \* LocalEngine
          tier, ram, device, heat, pass, stats, passes,      \* ExpertTiers
          topK, topP, adaptive, trunkLogits, draftLogits, stage, drafterShare, targetShare,
          drafted, skipped, rejected, drawn,                 \* Sampling
          part

engineVars == <<setup, model, cached, head, job, jobs>>
tierVars == <<tier, ram, device, heat, pass, stats, passes>>
samplingVars == <<topK, topP, adaptive, trunkLogits, draftLogits, stage, drafterShare,
                  targetShare, drafted, skipped, rejected, drawn>>
allVars == <<vars, engineVars, tierVars, downloadVars, samplingVars, part>>

Entry(key, request, stored, expires, rank) ==
    [key |-> key, request |-> request, response |-> r1, stored |-> stored,
     expires |-> expires, rank |-> rank]

\* One that overflows the capacity, and one of each kind that is refused.
Snapshots ==
    {{Entry(k1, k1, 0, 2, 0), Entry(k2, k2, 0, 1, 2), Entry(k3, k3, 0, 3, 1)},
     {Entry(k1, k1, 0, 2, 0), Entry(k1, k1, 0, 3, 1)},
     {Entry(k1, k2, 0, 2, 0)},
     {Entry(k1, k1, 2, 2, 0)},
     {Entry(k1, k1, 0, 2, 0), Entry(k2, k2, 0, 2, 0)},
     {Entry(k1, k1, 0, 2, 1)}}

\* A model that decodes something else after every prefix.
SumOf(s) == FoldLeft(+, 0, s)
SmallTarget(s) == (SumOf(s) + Len(s) * Len(s) + s[1]) % 3

\* Prompts that extend, cut and fork one another.
Prompts == {<<0, 1>>, <<0, 2, 1>>, <<0, 2, 1, 0, 0>>, <<0, 2, 0, 1>>}

\* Windowed attention with a drafter file; a hybrid model with its head,
\* greedy or not; a hybrid model on a GPU.
Setup(hybrid, gpu, drafter, greedy, window) ==
    [hybrid |-> hybrid, gpu |-> gpu, drafter |-> drafter, greedy |-> greedy, window |-> window]
Setups == {Setup(FALSE, FALSE, "file", TRUE, 2), Setup(TRUE, FALSE, "trunk", TRUE, 8),
                Setup(TRUE, FALSE, "trunk", FALSE, 8), Setup(TRUE, TRUE, "none", TRUE, 8)}

\* Layers that need more experts than a tier holds, and fewer; a RAM tier
\* alone, under a device tier, and a device tier straight from the file.
Routings == {[needed |-> s, rows |-> 1] : s \in {t \in SUBSET Experts : Cardinality(t) = 2}}
            \cup {[needed |-> Experts, rows |-> 2]}
Untiered == [ram |-> 2, device |-> 0]
TierSetups == {Untiered, [ram |-> 3, device |-> 2], [ram |-> 0, device |-> 2]}
WarmHeats == {[e \in Experts |-> 0], [e \in Experts |-> e]}

Engine == INSTANCE LocalEngine WITH Target <- SmallTarget, served <- jobs
Tiers == INSTANCE ExpertTiers

Sampler == INSTANCE Sampling WITH
    target <- trunkLogits, drafter <- draftLogits, q <- drafterShare, p <- targetShare,
    Ids <- 1..3, Weights <- [1..3 -> 1..3],
    TopKs <- {0, 2}, TopPs <- {2, 4}, Whole <- 4, NucleusFirst <- 1, Widening <- 2

\* The idle ones have nothing to choose.
EitherInit ==
    /\ part \in {"cache", "engine", "tiers", "download", "sampling"}
    /\ part # "engine" => setup = Setup(TRUE, TRUE, "none", TRUE, 8)
    /\ part # "tiers" => tier = Untiered /\ ram = <<>>
    /\ part # "download" => pin = Unpinned /\ served = CHOOSE v \in Versions : TRUE
    /\ part # "sampling" =>
          /\ topK = 0 /\ topP = 4 /\ adaptive = FALSE
          /\ trunkLogits = <<1, 1, 1>> /\ draftLogits = <<1, 1, 1>>
    /\ Init /\ Engine!Init /\ Tiers!Init /\ DownloadInit /\ Sampler!Init

EitherNext ==
    \/ /\ part = "cache" /\ Next
       /\ UNCHANGED <<engineVars, tierVars, downloadVars, samplingVars, part>>
    \/ /\ part = "engine" /\ Engine!Next
       /\ UNCHANGED <<vars, tierVars, downloadVars, samplingVars, part>>
    \/ /\ part = "tiers" /\ Tiers!Next
       /\ UNCHANGED <<vars, engineVars, downloadVars, samplingVars, part>>
    \/ /\ part = "download" /\ DownloadNext
       /\ UNCHANGED <<vars, engineVars, tierVars, samplingVars, part>>
    \/ /\ part = "sampling" /\ Sampler!Next
       /\ UNCHANGED <<vars, engineVars, tierVars, downloadVars, part>>

EitherSpec == EitherInit /\ [][EitherNext]_allVars

\* Between passes the engine's rows, recurrent state and head pairs are those
\* of the ids it remembers, and a round can be rolled back to what was
\* accepted; and drafting above temperature 0 draws what plain sampling would
\* (LocalEngine, Sampling).
EngineConsistent ==
    /\ part = "engine" =>
          Engine!CacheIsOfCached /\ Engine!RoundsRollBack /\ Engine!HeadPairsAreTheTrunks
    /\ part = "sampling" => Sampler!SamplesTheTarget

\* Drafting and reuse decode what plain decoding does (LocalEngine).
DecodesPlainly == Engine!DecodesPlainly

\* No tier holds more than its slots and no two experts one, every expert of a
\* layer is computed once, and the gauges are what the tables hold (ExpertTiers).
TiersConsistent ==
    part = "tiers" => Tiers!TiersWithinSlots /\ Tiers!EachExpertOnce /\ Tiers!StatsAddUp
=============================================================================
