------------------------------- MODULE Sampling -------------------------------
(***************************************************************************)
(* One token drawn after one draft (src/provider/local/sampler.rs and the  *)
(* rounds of engine.rs).  A state holds not what was drawn but how often   *)
(* each token is: probabilities are whole numbers over a common sum, so    *)
(* that the model is exact where the code rounds.  What softmax makes of   *)
(* the logits at a temperature is a weight for each id.                    *)
(***************************************************************************)
EXTENDS Integers, SequencesExt

CONSTANTS Ids,             \* 1..n, in the vocabulary's order
          Weights,         \* of the ids, for one distribution
          TopKs, TopPs,    \* top_p in parts of Whole
          Whole,
          NucleusFirst, Widening    \* NUCLEUS_FIRST, and the factor 4

VARIABLES topK, topP,
          adaptive,            \* this draft may be left out (not seeded, not the first)
          target, drafter,     \* their weights
          stage,               \* "draft", "verify", "resample", "done"
          q, p,                \* warped
          drafted, skipped,    \* how often each id is drafted and kept, or none is
          rejected,            \* how often a draft is
          drawn                \* how often each id is the next token

samplingVars ==
    <<topK, topP, adaptive, target, drafter, stage, q, p, drafted, skipped, rejected, drawn>>

SumOf(w) == FoldFunction(+, 0, w)
SumOver(w, S) == FoldFunctionOnSet(+, 0, w, S)
Lowest(a, b) == IF a < b THEN a ELSE b
Zero == [x \in Ids |-> 0]
Support(w) == {x \in Ids : w[x] > 0}

-----------------------------------------------------------------------------
(* warp_candidates                                                         *)

\* by_logit_desc
Before(w, x, y) ==
    \/ w[x] > w[y]
    \/ w[x] = w[y] /\ x < y

Ranked(w) == SetToSortSeq(Ids, LAMBDA x, y : Before(w, x, y))

FirstOf(ranked, m) == {ranked[i] : i \in 1..m}

Reaches(mass, total, share) == mass * Whole >= share * total

\* cut_top_p, of the first m: the shortest prefix that reaches top_p.
CutTopP(w, ranked, m, total, share) ==
    LET enough == {i \in 1..m : Reaches(SumOver(w, FirstOf(ranked, i)), total, share)}
    IN FirstOf(ranked, IF enough = {} THEN m ELSE Min(enough))

\* How many the nucleus search ranks before their mass suffices.
Widened(w, ranked, share) ==
    LET Wider(m, i) ==
            IF Reaches(SumOver(w, FirstOf(ranked, m)), SumOf(w), share) THEN m
            ELSE Lowest(m * Widening, Len(ranked))
    IN FoldLeft(Wider, Lowest(NucleusFirst, Len(ranked)), ranked)

Survivors(w, k, share) ==
    LET ranked == Ranked(w)
        best == FirstOf(ranked, k)
    IN CASE k > 0 /\ k < Len(ranked) -> CutTopP(w, ranked, k, SumOver(w, best), share)
         [] (k = 0 \/ k >= Len(ranked)) /\ share >= Whole -> Ids
         [] OTHER -> CutTopP(w, ranked, Widened(w, ranked, share), SumOf(w), share)

\* Dist::warp, not yet over a common sum.
Warped(w, k, share) == [x \in Ids |-> IF x \in Survivors(w, k, share) THEN w[x] ELSE 0]

-----------------------------------------------------------------------------
Init ==
    /\ topK \in TopKs /\ topP \in TopPs /\ adaptive \in BOOLEAN
    /\ target \in Weights /\ drafter \in Weights
    /\ stage = "draft"
    /\ q = Zero /\ p = Zero
    /\ drafted = Zero /\ skipped = 0 /\ rejected = 0 /\ drawn = Zero

\* Both distributions over one sum.
DrafterShare ==
    [x \in Ids |-> Warped(drafter, topK, topP)[x] * SumOf(Warped(target, topK, topP))]
TargetShare ==
    [x \in Ids |-> Warped(target, topK, topP)[x] * SumOf(Warped(drafter, topK, topP))]

\* `pick`: an id is drawn from q; where the length adapts, take_draft keeps it
\* if its own probability is high enough for what a row costs.
Draft ==
    /\ stage = "draft"
    /\ q' = DrafterShare
    /\ \E least \in IF adaptive THEN {q'[x] : x \in Ids} \cup {SumOf(q') + 1} ELSE {0} :
          drafted' = [x \in Ids |-> IF q'[x] >= least THEN q'[x] ELSE 0]
    /\ skipped' = SumOf(q') - SumOf(drafted')
    /\ stage' = "verify"
    /\ UNCHANGED <<topK, topP, adaptive, target, drafter, p, rejected, drawn>>

\* Accepted with min(1, p/q).
Verify ==
    /\ stage = "verify"
    /\ p' = TargetShare
    /\ drawn' = [x \in Ids |-> Lowest(drafted[x], p'[x])]
    /\ rejected' = SumOf(drafted) - SumOf(drawn')
    /\ stage' = "resample"
    /\ UNCHANGED <<topK, topP, adaptive, target, drafter, q, drafted, skipped>>

\* Dist::residual; empty where p and q coincide.
Residual == [x \in Ids |-> IF p[x] > q[x] THEN p[x] - q[x] ELSE 0]

\* What is rejected is drawn again, and what was not drafted is sampled.
Resample ==
    /\ stage = "resample"
    /\ LET again == IF Support(Residual) = {} THEN p ELSE Residual
       IN drawn' = [x \in Ids |-> drawn[x] * SumOf(again) * SumOf(p)
                                  + rejected * again[x] * SumOf(p)
                                  + skipped * p[x] * SumOf(again)]
    /\ stage' = "done"
    /\ UNCHANGED <<topK, topP, adaptive, target, drafter, q, p, drafted, skipped, rejected>>

Next == Draft \/ Verify \/ Resample

-----------------------------------------------------------------------------
\* What a cut keeps: no id before a likelier one, enough for top_p, and not
\* with one id less, whatever the search ranked.
IsNucleus(w, kept) ==
    LET best == {x \in Ids : Cardinality({y \in Ids : Before(w, y, x)})
                                < IF topK = 0 THEN Cardinality(Ids) ELSE topK}
        worst == {x \in kept : \A y \in kept \ {x} : Before(w, y, x)}
    IN /\ kept # {} /\ kept \subseteq best
       /\ \A x \in kept, y \in Ids \ kept : Before(w, x, y)
       /\ Reaches(SumOver(w, kept), SumOver(w, best), topP)
       /\ topP < Whole /\ kept # worst =>
             ~Reaches(SumOver(w, kept \ worst), SumOver(w, best), topP)

\* A token is drawn as often as plain sampling draws it, drafted or not, when
\* every draft is verified or none is; and whatever is left out, only one that
\* plain sampling may draw.
SamplesTheTarget ==
    stage = "done" =>
        /\ IsNucleus(target, Support(p))
        /\ Support(drawn) \subseteq Support(p)
        /\ skipped \in {0, SumOf(q)} =>
              \A x \in Ids : drawn[x] * SumOf(p) = p[x] * SumOf(drawn)
=============================================================================
