----------------------------- MODULE CostPlugin -----------------------------
(***************************************************************************)
(* The ledger of src/plugins/cost.rs under concurrent turns: on_request    *)
(* charges the prompt estimate against the caps and shows the reading to   *)
(* the observers, who may refuse the turn; on_response_complete charges    *)
(* the completion and prices the cached part of the prompt again. A turn   *)
(* that breaks off keeps its charge; a reset may come at any time.         *)
(***************************************************************************)
EXTENDS Naturals, Sequences, FiniteSets, FiniteSetsExt, Functions

CONSTANTS CostTurns, Models,
          Rates,         \* per model [in, out, read] for PerMtok tokens
          NoRates,
          PerMtok,       \* TOKENS_PER_MTOK
          RejectUnpriced,\* UnpricedModelPolicy::Reject
          TokenCap, MicrosCap, MaxTracked,
          WarnAt,        \* tokens from which a reading is near the cap
          Prompts, Completions, \* contents: sequences of [kind, size]
          Reads,         \* cached tokens a provider may report
          MaxResets      \* bound: calls of reset

Content == Seq([kind : {"text", "thinking", "call", "result", "image"}, size : Nat])

ASSUME CostAssumption ==
    /\ IsFiniteSet(CostTurns)
    /\ \A model \in Models :
          Rates[model] # NoRates => Rates[model] \in [in : Nat, out : Nat, read : Nat]
    /\ PerMtok \in Nat \ {0}
    /\ {TokenCap, MicrosCap, MaxTracked, WarnAt} \subseteq Nat
    /\ Prompts \cup Completions \subseteq Content
    /\ Reads \subseteq Nat

Overflow == "overflow"

VARIABLES ledger,        \* CostLedger
          charge,        \* each turn's RequestCharge and where the turn is
          period         \* resets so far, and whether a refund crossed one

costVars == <<ledger, charge, period>>

\* CostEntry
Fields == {"prompt", "completion", "read", "spent", "turns"}
NoEntry == [f \in Fields |-> 0]

\* A text tokenizer cannot count an image; a result was not generated.
BlocksOf(content, kinds) == {i \in DOMAIN content : content[i].kind \in kinds}

SizeOf(content, kinds) ==
    SumFunctionOnSet([i \in DOMAIN content |-> content[i].size], BlocksOf(content, kinds))

EstimatePrompt(content) == SizeOf(content, {"text", "thinking", "call", "result"})
EstimateCompletion(content) == SizeOf(content, {"text", "thinking", "call"})
ImageBlocks(content) == Cardinality(BlocksOf(content, {"image"}))

Minus(a, b) == IF a < b THEN 0 ELSE a - b

Price(tokens, rate) == (tokens * rate) \div PerMtok

Priced(model, tokens, which) ==
    IF Rates[model] = NoRates THEN 0 ELSE Price(tokens, Rates[model][which])

Add(e, d) == [f \in DOMAIN e |-> e[f] + d[f]]
Sub(e, d) == [f \in DOMAIN e |-> Minus(e[f], d[f])]
Commit(e, d, refund) == Add([e EXCEPT !.spent = Minus(@, refund)], d)

-----------------------------------------------------------------------------
(* CostLedger *)

Tracked(l) == DOMAIN l.perModel \ {Overflow}

KeyFor(l, model) ==
    IF model \in DOMAIN l.perModel \/ Cardinality(Tracked(l)) < MaxTracked
    THEN model ELSE Overflow

\* add_to_bucket, and the same for a commit: the bucket is made on demand.
Bucket(l, key) == IF key \in DOMAIN l.perModel THEN l.perModel[key] ELSE NoEntry
WithBucket(l, key, entry) ==
    [k \in DOMAIN l.perModel \cup {key} |-> IF k = key THEN entry ELSE l.perModel[k]]

ChargeRequest(l, model, entry, images) ==
    LET key == KeyFor(l, model)
    IN [l EXCEPT !.totals = Add(@, entry), !.images = @ + images,
                 !.unpriced = @ + (IF Rates[model] = NoRates THEN 1 ELSE 0),
                 !.perModel = WithBucket(l, key, Add(Bucket(l, key), entry))]

\* A bucket left at zero goes, and with it its tracked slot.
RefundRequest(l, model, entry, images) ==
    LET key == KeyFor(l, model)
        rest == Sub(Bucket(l, key), entry)
        others == [k \in DOMAIN l.perModel \ {key} |-> l.perModel[k]]
    IN [l EXCEPT !.totals = Sub(@, entry), !.images = Minus(@, images),
                 !.unpriced = Minus(@, IF Rates[model] = NoRates THEN 1 ELSE 0),
                 !.perModel = IF key \notin DOMAIN @ \/ rest = NoEntry THEN others
                              ELSE WithBucket(l, key, rest)]

CommitResponse(l, model, delta, refund) ==
    LET key == KeyFor(l, model)
    IN [l EXCEPT !.totals = Commit(@, delta, refund),
                 !.overflowTurns = @ + (IF key = Overflow THEN 1 ELSE 0),
                 !.perModel = WithBucket(l, key, Commit(Bucket(l, key), delta, refund))]

TotalTokens(l) == l.totals.prompt + l.totals.completion

-----------------------------------------------------------------------------
NewLedger == [totals |-> NoEntry, unpriced |-> 0, overflowTurns |-> 0, images |-> 0,
              perModel |-> [k \in {} |-> NoEntry]]

NoCharge == [pc |-> "idle", model |-> "none", entry |-> NoEntry, images |-> 0, since |-> 0,
             warned |-> FALSE]

Over(pc) == [NoCharge EXCEPT !.pc = pc]

CostInit ==
    /\ ledger = NewLedger
    /\ charge = [t \in CostTurns |-> NoCharge]
    /\ period = [resets |-> 0, torn |-> FALSE]

\* Slip: the cap is compared with the total before this turn.
OverCapLate(l, entry) ==
    \/ TotalTokens(l) > TokenCap
    \/ l.totals.spent > MicrosCap

\* Enforcement is against the projected total.
OverCap(l, entry) ==
    \/ TotalTokens(l) + entry.prompt > TokenCap
    \/ l.totals.spent + entry.spent > MicrosCap

\* on_request up to the release of the ledger, and the near-cap message.
OnRequest(t, model, content) ==
    LET tokens == EstimatePrompt(content)
        entry == [NoEntry EXCEPT !.prompt = tokens, !.spent = Priced(model, tokens, "in")]
    IN /\ charge[t].pc = "idle"
       /\ IF (Rates[model] = NoRates /\ RejectUnpriced) \/ OverCap(ledger, entry)
          THEN /\ charge' = [charge EXCEPT ![t] = Over("refused")]
               /\ UNCHANGED ledger
          ELSE /\ ledger' = ChargeRequest(ledger, model, entry, ImageBlocks(content))
               /\ charge' = [charge EXCEPT ![t] =
                    [pc |-> "observed", model |-> model, entry |-> entry,
                     images |-> ImageBlocks(content), since |-> period.resets, warned |-> TotalTokens(ledger') >= WarnAt]]
       /\ UNCHANGED period

\* The observers of on_request: all content, or one refuses and the charge is
\* taken back under a second lock.
ObserversPass(t) ==
    /\ charge[t].pc = "observed"
    /\ charge' = [charge EXCEPT ![t].pc = "running"]
    /\ UNCHANGED <<ledger, period>>

ObserverRefuses(t) ==
    /\ charge[t].pc = "observed"
    /\ ledger' = RefundRequest(ledger, charge[t].model, charge[t].entry, charge[t].images)
    /\ charge' = [charge EXCEPT ![t] = Over("refused")]
    /\ period' = [period EXCEPT !.torn = @ \/ charge[t].since # period.resets]

\* on_response_complete; `read` is what the provider says it had cached.
OnResponseComplete(t, content, read) ==
    LET model == charge[t].model
        completion == EstimateCompletion(content)
        cached == Min({read, Bucket(ledger, KeyFor(ledger, model)).prompt})
        delta == [NoEntry EXCEPT !.completion = completion, !.turns = 1,
                    !.read = cached,
                    !.spent = Priced(model, completion, "out")
                                + Priced(model, cached, "read")]
    IN /\ charge[t].pc = "running"
       /\ ledger' = CommitResponse(ledger, model, delta, Priced(model, cached, "in"))
       /\ charge' = [charge EXCEPT ![t].pc = "over", ![t].model = "none",
                               ![t].images = 0]
       /\ UNCHANGED period

\* A provider error, a later plugin's refusal, a dropped stream: no hook runs.
BreakOff(t) ==
    /\ charge[t].pc = "running"
    /\ charge' = [charge EXCEPT ![t].pc = "over", ![t].model = "none",
                               ![t].images = 0]
    /\ UNCHANGED <<ledger, period>>

Reset ==
    /\ period.resets < MaxResets
    /\ ledger' = NewLedger
    /\ period' = [resets |-> period.resets + 1, torn |-> FALSE]
    /\ UNCHANGED charge

CostNext ==
    \/ \E t \in CostTurns :
          \/ \E model \in Models, c \in Prompts : OnRequest(t, model, c)
          \/ ObserversPass(t)
          \/ ObserverRefuses(t)
          \/ \E c \in Completions, n \in Reads : OnResponseComplete(t, c, n)
          \/ BreakOff(t)
    \/ Reset

CostSpec == CostInit /\ [][CostNext]_costVars

-----------------------------------------------------------------------------
\* Turns of this billing period whose charge stands.
Standing == {t \in CostTurns : /\ charge[t].pc \in {"observed", "running", "over"}
                               /\ charge[t].since = period.resets}

Charged ==
    SumFunctionOnSet([t \in CostTurns |-> charge[t].entry.prompt], Standing)

\* However turns interleave, the prompt total is exactly what the turns that
\* were let through have been charged, lost ones included, as long as no
\* refused turn's refund falls into a later period than its charge; so the
\* prompts let through never add up to more than the cap.
BudgetKept == /\ ~period.torn => ledger.totals.prompt = Charged
              /\ ledger.totals.prompt <= TokenCap

SumOf(l, f) == SumFunction([k \in DOMAIN l.perModel |-> l.perModel[k][f]])

\* Nothing recorded disappears from the breakdown: folding into the overflow
\* bucket, freeing a slot and refunding under another key than the charge's
\* may attribute wrongly, and the buckets still cover the totals.
BreakdownCoversTotals ==
    /\ \A f \in Fields : SumOf(ledger, f) >= ledger.totals[f]
    /\ Cardinality(DOMAIN ledger.perModel) <= MaxTracked + 1

\* Charges and refunds of concurrent turns keep the prompt total exact and
\* within the cap, and the per-model buckets cover the totals (cost.rs
\* charge_request, refund_request, commit_response, key_for).
LedgerBalances == BudgetKept /\ BreakdownCoversTotals

=============================================================================
