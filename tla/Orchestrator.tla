---------------------------- MODULE Orchestrator ----------------------------
(***************************************************************************)
(* One turn of the fast/slow orchestrator (services/orchestrator.rs).      *)
(*                                                                         *)
(* A complex request goes to the slow tier as it is.  Any other is drafted *)
(* by the fast tier, and the stream the caller polls validates each block  *)
(* and leaves the tier it reads for a new run of the slow one when a block *)
(* is refused, or when the fast tier is quiet past the latency threshold.  *)
(* A run is a spawned task whose stream comes through a oneshot; what a    *)
(* tier answers is arbitrary.  A block is its identity and the validator's *)
(* verdict; the clock is whether the threshold has passed since the draft  *)
(* began.                                                                  *)
(***************************************************************************)
EXTENDS Integers, Sequences

CONSTANTS
    Said,             \* what a tier may say: [id, valid]
    MaxSaid,          \* bound: blocks of one run
    FallbackAttempts  \* FALLBACK_ATTEMPTS

\* The error a stream ends with is no block of a tier.
TierFailed == [id |-> "error", valid |-> FALSE]

ASSUME SpeculationAssumption ==
    /\ TierFailed \notin Said
    /\ \A b \in Said : b.valid \in BOOLEAN
    /\ FallbackAttempts \in Nat

VARIABLES
    fallback,         \* config.fallback_on_tool_error
    draft,            \* OrchestratorState: [state, left, late]
    working,          \* what working_request has beyond the request: the blocks refused
    runs,             \* every execute of a tier: [tier, saw, phase, said]
    got,              \* what the caller was handed: [run, block], or [run, error]
    swaps             \* the ModelSwap reasons recorded

speculationVars == <<fallback, draft, working, runs, got, swaps>>

Turn(state, left, late) == [state |-> state, left |-> left, late |-> late]
Run(tier, saw) == [tier |-> tier, saw |-> saw, phase |-> "spawned", said |-> <<>>]

SpeculationInit ==
    /\ fallback \in BOOLEAN
    /\ draft = Turn("idle", FallbackAttempts, FALSE)
    /\ working = <<>> /\ runs = <<>> /\ got = <<>> /\ swaps = <<>>

Current == Len(runs)
Serving == draft.state \in {"drafting", "slow", "routed"}

Hand(block) == got' = Append(got, [run |-> Current, block |-> block])

\* executor.execute: the tier's run on `request`, or an error that ends the draft.
Executed(tier, request, state, left) ==
    \/ /\ runs' = Append(runs, Run(tier, request))
       /\ draft' = Turn(state, left, draft.late)
       /\ UNCHANGED got
    \/ /\ draft' = Turn("done", left, draft.late)
       /\ Hand(TierFailed)
       /\ UNCHANGED runs

\* execute_adaptive_turn.
ExecuteTurn ==
    /\ draft.state = "idle"
    /\ \/ Executed("slow", working, "routed", draft.left)
       \/ Executed("fast", working, "drafting", draft.left)
    /\ UNCHANGED <<fallback, working, swaps>>

\* The spawned task sends its outcome: a stream, an error, or nothing at all.
Resolve(phase) ==
    /\ Serving /\ runs[Current].phase = "spawned"
    /\ runs' = [runs EXCEPT ![Current].phase = phase]
    /\ UNCHANGED <<fallback, draft, working, got, swaps>>

\* started.elapsed() > latency_threshold_ms.
TimePasses ==
    /\ draft.state = "drafting" /\ ~draft.late
    /\ draft' = [draft EXCEPT !.late = TRUE]
    /\ UNCHANGED <<fallback, working, runs, got, swaps>>

\* The tier's stream gives the error of its task, which ends it, or one of its own.
TierError ==
    /\ Serving /\ runs[Current].phase \in {"open", "failed"}
    /\ runs' = IF runs[Current].phase = "failed"
                  THEN [runs EXCEPT ![Current].phase = "over"] ELSE runs
    /\ \A i \in DOMAIN got : got[i].run = Current => got[i].block # TierFailed  \* bound: one error
    /\ Hand(TierFailed)
    /\ UNCHANGED <<fallback, draft, working, swaps>>

Hears == runs[Current].phase = "open" /\ Len(runs[Current].said) < MaxSaid
With(block) == [runs EXCEPT ![Current].said = Append(@, block)]

\* A block of a tier that is not validated, or that the validator lets through.
TierBlock(block) ==
    /\ Serving /\ Hears
    /\ draft.state = "routed" \/ block.valid
    /\ runs' = With(block)
    /\ Hand(block)
    /\ UNCHANGED <<fallback, draft, working, swaps>>

\* Slip: a new run is told of the last refusal only.
RejectionAlone(block) == <<block>>

\* rejection_message.
Rejection(block) == Append(working, block)

\* A refused block: the slow tier is run with it, while the budget lasts.
TierRejected(block) ==
    /\ draft.state \in {"drafting", "slow"} /\ Hears /\ ~block.valid
    /\ IF draft.left > 0 /\ fallback
         THEN /\ working' = Rejection(block)
              /\ swaps' = Append(swaps, "fallback_validation")
              /\ \/ /\ runs' = Append(With(block), Run("slow", working'))
                    /\ draft' = Turn("slow", draft.left - 1, draft.late)
                    /\ UNCHANGED got
                 \/ /\ runs' = With(block)
                    /\ draft' = Turn("done", draft.left - 1, draft.late)
                    /\ Hand(TierFailed)
         ELSE /\ runs' = With(block)
              /\ draft' = [draft EXCEPT !.state = "done"]
              /\ Hand(TierFailed)
              /\ UNCHANGED <<working, swaps>>
    /\ UNCHANGED fallback

\* The latency guard: the fast tier has nothing when it is polled.
LatencySwap ==
    /\ draft.state = "drafting" /\ draft.late
    /\ runs[Current].phase \in {"spawned", "open"}
    /\ swaps' = Append(swaps, "latency_threshold")
    /\ Executed("slow", working, "slow", draft.left)
    /\ UNCHANGED <<fallback, working>>

\* The tier's stream has ended.
TierEnd ==
    /\ Serving /\ runs[Current].phase \in {"open", "over"}
    /\ runs' = [runs EXCEPT ![Current].phase = "over"]
    /\ draft' = [draft EXCEPT !.state = "done"]
    /\ UNCHANGED <<fallback, working, got, swaps>>

SpeculationNext ==
    \/ ExecuteTurn \/ TimePasses \/ LatencySwap \/ TierError \/ TierEnd
    \/ \E phase \in {"open", "failed"} : Resolve(phase)
    \/ \E b \in Said : TierBlock(b) \/ TierRejected(b)

SpeculationSpec == SpeculationInit /\ [][SpeculationNext]_speculationVars

-----------------------------------------------------------------------------

\* The members of s that are in T, in their order.
Only(s, T) ==
    LET only[n \in 0 .. Len(s)] ==
            IF n = 0 THEN <<>>
            ELSE IF s[n] \in T THEN Append(only[n - 1], s[n]) ELSE only[n - 1]
    IN  only[Len(s)]

Accepted(said) == Only(said, {b \in Said : b.valid})
Refusals(said) == Only(said, {b \in Said : ~b.valid})
Delivered(r) == Only(got, {[run |-> r, block |-> b] : b \in Said})
Drafted == runs # <<>> /\ runs[1].tier = "fast"

\* What a new run has to be told: what the last one was, and what it said.
RefusedSoFar(r) == runs[r].saw \o Refusals(runs[r].said)

\* A drafted turn hands over nothing the validator refused, and of each run all
\* that came before what ended it; runs never interleave; every run of the slow
\* tier is told of every block refused before it, in order; at most two are for
\* a refused block and one for the latency threshold; each was recorded; and a
\* refusal is either told to a tier or ends the turn in an error
\* (OrchestratorStream::poll_next, rejection_message).
SpeculationKeeps ==
    Drafted =>
        /\ \A r \in DOMAIN runs :
              Delivered(r) = [i \in DOMAIN Accepted(runs[r].said) |->
                                 [run |-> r, block |-> Accepted(runs[r].said)[i]]]
        /\ \A i, j \in DOMAIN got : i < j => got[i].run <= got[j].run
        /\ runs[1].saw = <<>>
        /\ \A r \in DOMAIN runs \ {1} : runs[r].saw = RefusedSoFar(r - 1)
        /\ Len(swaps) <= FallbackAttempts + 1
        /\ Len(runs) - 1 <= Len(swaps)
        /\ \/ RefusedSoFar(Current) = working
           \/ draft.state = "done" /\ got[Len(got)].block = TierFailed
        /\ draft.state # "done" => Len(swaps) = Len(runs) - 1
=============================================================================
