---------------------------- MODULE LocalEngine ----------------------------
(***************************************************************************)
(* The engine thread of the local provider: Engine::generate of            *)
(* src/provider/local/engine.rs over the K/V cache, the recurrent state    *)
(* and the prediction head of src/provider/local/model.  A row, a          *)
(* recurrent state and a hidden row stand for the tokens they summarise,   *)
(* so a wrong one is visible; the network is Target, any function of the   *)
(* tokens so far, and a drafter proposes anything.                         *)
(***************************************************************************)
EXTENDS Naturals, SequencesExt

CONSTANTS Tokens, Eog,      \* the vocabulary and its end-of-generation ids
          Junk,             \* not a token: what a half-done pass leaves
          Prompts, Budgets,
          ContextLength, RingRollback, RingRows, Chunk, MaxVerifyRows, DraftTokens,
          Setups,           \* [hybrid, gpu, drafter, greedy, window]
          MaxJobs,
          Target(_)

VARIABLES setup,   \* the loaded model and drafter
          model,   \* Transformer: cache length, slab, recurrent states, rollback
          cached,  \* Engine::cached
          head,    \* NextnHead: committed pairs and tail
          job,     \* the running generate()
          served

engineVars == <<setup, model, cached, head, job, served>>

Garbage == <<Junk>>
Least(a, b) == IF a < b THEN a ELSE b
Drafts == setup.drafter # "none"
Observes == setup.drafter = "trunk"

-----------------------------------------------------------------------------
(* The model's cache.  Position p is at slot p - base + 1.                 *)

\* A full-attention layer has window ContextLength + 1.
Slots == Least(ContextLength, (setup.window - 1) + RingRollback + RingRows)

NoRecord == [first |-> 0, rows |-> 0]

EmptyModel == [len |-> 0, base |-> 0, slab |-> [s \in 1 .. Slots |-> Garbage],
               live |-> <<>>, pre |-> <<>>, log |-> <<>>, saved |-> <<>>,
               checkpoint |-> 0, verify |-> NoRecord]

RowAt(m, p) == m.slab[(p - m.base) + 1]

WindowStart(p) == IF p + 1 > setup.window THEN (p + 1) - setup.window ELSE 0

\* What the row of tok computes from the rows it attends to and the state.
Attend(m, tok) ==
    LET p == m.len
        before == IF p = 0 THEN <<>> ELSE RowAt(m, p - 1)
        sound == /\ WindowStart(p) >= m.base
                 /\ Len(before) = p
                 /\ \A q \in WindowStart(p) .. p - 1 : RowAt(m, q) = SubSeq(before, 1, q + 1)
                 /\ setup.hybrid => m.live = before
    IN  IF sound THEN Append(before, tok) ELSE Garbage

Feed(m, tok) ==
    LET row == Attend(m, tok)
    IN  [m EXCEPT !.slab[(m.len - m.base) + 1] = row, !.live = row, !.len = @ + 1]

MakeRoom(m, t) ==
    IF m.len + t <= m.base + Slots THEN m
    ELSE LET keep == Least((setup.window - 1) + RingRollback, m.len - m.base)
             from == (m.len - keep) - m.base
         IN  [m EXCEPT !.base = m.len - keep,
                       !.slab = [s \in 1 .. Slots |-> IF s <= keep THEN m.slab[s + from]
                                                      ELSE m.slab[s]]]

Fits(m, t) == LET r == MakeRoom(m, t) IN r.len + t <= r.base + Slots

\* Slip: no room in the record for the pending token.
RecordedLess(n) == n \in 2 .. MaxVerifyRows - 1

Recorded(n) == n \in 2 .. MaxVerifyRows

Forward(m, toks, all) ==
    LET roomy == MakeRoom(m, Len(toks))
        record == setup.hybrid /\ ~setup.gpu /\ all /\ Recorded(Len(toks))
        before == [roomy EXCEPT !.pre = IF record THEN roomy.live ELSE @,
                                !.log = IF record THEN toks ELSE @]
    IN  [FoldLeft(Feed, before, toks) EXCEPT
            !.verify = IF record THEN [first |-> m.len, rows |-> Len(toks)] ELSE NoRecord]

\* A pass that dies half-way; a hybrid model then discards its state.
Torn(m) == [m EXCEPT !.live = Garbage,
                     !.slab = [s \in 1 .. Slots |-> IF s > m.len - m.base THEN Garbage
                                                    ELSE m.slab[s]]]

Discarded(m) == [m EXCEPT !.len = 0, !.live = <<>>, !.checkpoint = 0, !.verify = NoRecord]

RingFloor(m) == IF m.base > 0 THEN m.base + setup.window - 1 ELSE 0

InRecord(m, n) == n >= m.verify.first /\ n < m.verify.first + m.verify.rows

Shortened(m, n) == [m EXCEPT !.len = n,
                             !.checkpoint = IF @ > n THEN 0 ELSE @]

RestorePrefix(m, n) ==
    [Shortened(m, n) EXCEPT !.live = m.pre \o SubSeq(m.log, 1, n - m.verify.first)]

RestoreCheckpoint(m) ==
    [Shortened(m, m.checkpoint) EXCEPT !.live = m.saved, !.verify = NoRecord]

TruncatePositions(m, n) ==
    CASE setup.hybrid /\ n = 0 -> Discarded(m)
      [] n >= m.len /\ ~(setup.hybrid /\ n = 0) -> m
      [] n < m.len /\ ~setup.hybrid -> [m EXCEPT !.len = n]
      [] n < m.len /\ setup.hybrid /\ n > 0 ->
            IF InRecord(m, n) THEN RestorePrefix(m, n)
            ELSE IF m.checkpoint # 0 /\ m.checkpoint <= n THEN RestoreCheckpoint(m)
            ELSE [Shortened(m, 0) EXCEPT !.live = <<>>, !.verify = NoRecord]

\* The longest prefix of at most n positions the cache can keep.
TruncateCache(m, n) ==
    LET kept == TruncatePositions(m, IF n < RingFloor(m) THEN 0 ELSE n)
    IN  IF kept.len = 0 THEN [kept EXCEPT !.base = 0] ELSE kept

Checkpoint(m) == IF setup.hybrid /\ m.len > 0
                 THEN [m EXCEPT !.saved = m.live, !.checkpoint = m.len] ELSE m

RollbackRows == IF ~setup.hybrid THEN ContextLength
                ELSE IF setup.gpu THEN 1 ELSE MaxVerifyRows

-----------------------------------------------------------------------------
(* The in-trunk head: pairs of a hidden row and the token that follows.    *)

NoHead == [pairs |-> <<>>, tail |-> <<>>]

PairsBelow(h, n) == SelectSeq(h.pairs, LAMBDA pair : pair.j < n)

HeadTruncate(h, shared) ==
    [pairs |-> SelectSeq(h.pairs, LAMBDA pair : pair.j + 1 < shared),
     tail |-> IF h.tail # <<>> /\ h.tail[1] >= shared THEN <<>> ELSE h.tail]

\* The rows of toks, from position pos, become pairs and the next tail.
HeadObserve(h, pos, toks, hidden) ==
    LET joined == h.tail # <<>> /\ h.tail[1] + 1 = pos
        first == IF joined THEN pos - 1 ELSE pos
        rows == IF joined THEN <<h.tail[2]>> \o Front(hidden) ELSE Front(hidden)
        next == IF joined THEN toks ELSE Tail(toks)
    IN  [pairs |-> PairsBelow(h, first)
                   \o [i \in 1 .. Len(rows) |->
                          [j |-> first + i - 1, hid |-> rows[i], tok |-> next[i]]],
         tail |-> <<pos + Len(toks) - 1, Last(hidden)>>]

Observed(m, pos, toks) ==
    IF Observes
    THEN HeadObserve(head, pos, toks, [i \in 1 .. Len(toks) |-> RowAt(m, pos + i - 1)])
    ELSE head

-----------------------------------------------------------------------------
NoJob == [phase |-> "idle", prompt |-> <<>>, budget |-> 0, out |-> <<>>, read |-> 0,
          stop |-> 0, logits |-> <<>>, forced |-> <<>>, next |-> Junk, pend |-> <<>>,
          end |-> "none"]

Init == /\ setup \in Setups
        /\ model = EmptyModel
        /\ cached = <<>>
        /\ head = NoHead
        /\ job = NoJob
        /\ served = 0

Ends(how) == [job EXCEPT !.phase = "idle", !.end = how]

\* Engine::reset.
ResetTo(m) == /\ model' = TruncateCache(m, 0)
              /\ cached' = <<>>
              /\ head' = NoHead

Shared(prompt) ==
    CHOOSE n \in 0 .. Least(Len(prompt), Len(cached)) :
        /\ IsPrefix(SubSeq(prompt, 1, n), cached)
        /\ n < Least(Len(prompt), Len(cached)) => prompt[n + 1] # cached[n + 1]

\* After the last end-of-turn token, or at the end.
CheckpointPosition(prompt) ==
    LET ends == {i \in DOMAIN prompt : prompt[i] \in Eog}
    IN  IF ends = {} THEN Len(prompt) ELSE Max(ends)

Reuse(prompt) == IF Shared(prompt) = Len(prompt) THEN Len(prompt) - 1 ELSE Shared(prompt)

Start(prompt, budget) ==
    /\ job.phase = "idle" /\ served < MaxJobs
    /\ Len(prompt) \in 1 .. ContextLength - 1
    /\ LET m == TruncateCache(model, Reuse(prompt))
           at == CheckpointPosition(prompt)
       IN  /\ model' = m
           /\ cached' = SubSeq(cached, 1, m.len)
           /\ head' = IF Observes THEN HeadTruncate(head, Shared(prompt)) ELSE head
           /\ job' = [NoJob EXCEPT !.phase = "prefill", !.prompt = prompt, !.read = m.len,
                         !.budget = Least(budget, ContextLength - Len(prompt)),
                         !.stop = IF setup.hybrid /\ at > m.len THEN at ELSE 0]
    /\ served' = served + 1
    /\ UNCHANGED setup

ChunkEnd ==
    LET pos == Len(cached)
        end == Least(pos + Chunk, Len(job.prompt))
    IN  IF pos < job.stop /\ job.stop < end THEN job.stop ELSE end

Prefill ==
    /\ job.phase = "prefill"
    /\ LET pos == Len(cached)
           toks == SubSeq(job.prompt, pos + 1, ChunkEnd)
           m == Forward(model, toks, FALSE)
       IN  /\ Fits(model, Len(toks))
           /\ head' = Observed(m, pos, toks)
           /\ cached' = cached \o toks
           /\ model' = IF job.stop = ChunkEnd THEN Checkpoint(m) ELSE m
           /\ job' = IF ChunkEnd = Len(job.prompt)
                     THEN [job EXCEPT !.phase = "sample", !.logits = RowAt(m, ChunkEnd - 1)]
                     ELSE job
    /\ UNCHANGED <<setup, served>>

Sampled == IF job.forced # <<>> THEN {job.forced[1]}
           ELSE IF setup.greedy THEN {Target(job.logits)} ELSE Tokens

Sample ==
    /\ job.phase = "sample" /\ Len(job.out) < job.budget
    /\ \E id \in Sampled :
          LET out == Append(job.out, id)
          IN  job' = IF id \in Eog THEN Ends("done")
                     ELSE IF Len(out) = job.budget \/ Len(cached) = ContextLength
                     THEN [Ends("done") EXCEPT !.out = out]
                     ELSE [job EXCEPT !.phase = "round", !.out = out, !.next = id,
                                      !.forced = <<>>]
    /\ UNCHANGED <<setup, model, cached, head, served>>

DraftRoom == Least(Least(DraftTokens, job.budget - Len(job.out)),
                   Least(ContextLength - Len(cached) - 1, RollbackRows - 1))

\* The governor may skip drafting; a drafter may stop early.
Proposals == {<<>>} \cup (IF Drafts THEN BoundedSeq(Tokens, DraftRoom) ELSE {})

\* Slip: the first draft is taken unverified.
AgreedFromSecond(drafts, m, start) ==
    LET target(j) == Target(RowAt(m, start + j - 1))
    IN  {n \in 0 .. Len(drafts) :
            setup.greedy => /\ \A j \in 2 .. n : target(j) = drafts[j]
                            /\ n < Len(drafts) => target(n + 1) # drafts[n + 1]}

\* How many drafts verification may keep, given the rows of the pass.
Agreed(drafts, m, start) ==
    LET target(j) == Target(RowAt(m, start + j - 1))
    IN  {n \in 0 .. Len(drafts) :
            setup.greedy => /\ \A j \in 1 .. n : target(j) = drafts[j]
                            /\ n < Len(drafts) => target(n + 1) # drafts[n + 1]}

\* The token drawn when sampling rejects a draft.
Residual(drafts, n) ==
    IF setup.greedy \/ n = Len(drafts) THEN {<<>>} ELSE {<<t>> : t \in Tokens}

\* Draft, verify in one pass, roll the rejected positions back, observe.
Round ==
    /\ job.phase = "round"
    /\ \E drafts \in Proposals :
          LET start == Len(cached)
              batch == <<job.next>> \o drafts
              m == Forward(model, batch, drafts # <<>>)
          IN  /\ Fits(model, Len(batch))
              /\ \E n \in Agreed(drafts, m, start) :
                    LET keep == start + 1 + n
                        kept == TruncateCache(m, keep)
                    IN  IF kept.len # keep
                        THEN ResetTo(kept) /\ job' = Ends("stuck")
                        ELSE /\ model' = kept
                             /\ cached' = cached \o SubSeq(batch, 1, n + 1)
                             /\ head' = Observed(m, start, SubSeq(batch, 1, n + 1))
                             /\ \E forced \in Residual(drafts, n) :
                                   job' = [job EXCEPT !.phase = "emit", !.forced = forced,
                                              !.logits = RowAt(m, keep - 1),
                                              !.pend = SubSeq(drafts, 1, n)]
    /\ UNCHANGED <<setup, served>>

Emit ==
    /\ job.phase = "emit"
    /\ LET out == Append(job.out, Head(job.pend))
       IN  job' = IF job.pend = <<>> THEN [job EXCEPT !.phase = "sample"]
                  ELSE IF Head(job.pend) \in Eog THEN Ends("done")
                  ELSE IF Len(out) = job.budget THEN [Ends("done") EXCEPT !.out = out]
                  ELSE [job EXCEPT !.out = out, !.pend = Tail(@)]
    /\ UNCHANGED <<setup, model, cached, head, served>>

\* The consumer dropped the stream: seen between chunks and on a send.
ConsumerGone ==
    /\ \/ job.phase = "prefill" /\ Len(cached) > job.read
       \/ job.phase = "round"
       \/ job.phase = "emit" /\ Len(job.pend) < Len(cached) - Len(job.prompt)
    /\ job' = Ends("dropped")
    /\ UNCHANGED <<setup, model, cached, head, served>>

\* A failed or panicking pass.
Fail ==
    /\ job.phase \in {"prefill", "round"}
    /\ ResetTo(Torn(model))
    /\ job' = Ends("error")
    /\ UNCHANGED <<setup, served>>

Next == \/ \E prompt \in Prompts, budget \in Budgets : Start(prompt, budget)
        \/ Prefill \/ Sample \/ Round \/ Emit
        \/ ConsumerGone \/ Fail

Spec == Init /\ [][Next]_engineVars

-----------------------------------------------------------------------------
\* Between passes the model's cache is that of the remembered ids, at every
\* position it still holds, and the recurrent state is theirs: reuse,
\* rollback, compaction, checkpoints and resets never mix two prompts.
CacheIsOfCached ==
    /\ model.len = Len(cached)
    /\ cached # <<>> => WindowStart(Len(cached)) >= model.base
    /\ \A p \in model.base .. model.len - 1 : RowAt(model, p) = SubSeq(cached, 1, p + 1)
    /\ setup.hybrid => model.live = cached

Plain == INSTANCE PlainDecoder WITH
             prompt <- job.prompt, budget <- job.budget, out <- job.out,
             running <- job.phase # "idle", ended <- job.end

\* Whatever the drafter proposes, however the cache was filled, a greedy job
\* emits what decoding one token at a time would: each step of the engine is
\* one of PlainDecoder's, or none.
DecodesPlainly ==
    [][setup.greedy => (Plain!Next \/ UNCHANGED Plain!decoderVars)]_engineVars

\* A verification round can always be rolled back: to the rows it kept, in a
\* compacted slab and in a recurrent state, and every pass finds its slots.
RoundsRollBack ==
    /\ job.end # "stuck"
    /\ job.phase = "prefill" => Fits(model, Least(Chunk, ChunkEnd - Len(cached)))
    /\ job.phase = "round" => Fits(model, DraftRoom + 1)

\* The tokens the trunk has, or is about to replay.
TrunkTokens == IF job.phase = "prefill" THEN job.prompt ELSE cached

\* The head holds a pair only while its hidden row and its token are the
\* ones the trunk now has; a draft starts from every earlier one.
HeadPairsAreTheTrunks ==
    Observes =>
      /\ \A i \in DOMAIN head.pairs :
            LET pair == head.pairs[i]
            IN  pair.j + 1 < Len(TrunkTokens)
                  => /\ pair.hid = SubSeq(TrunkTokens, 1, pair.j + 1)
                     /\ pair.tok = TrunkTokens[pair.j + 2]
      /\ job.phase \in {"sample", "round"}
            => \A i \in DOMAIN head.pairs : head.pairs[i].j + 1 < Len(cached)
      /\ head.pairs # <<>> => Len(head.pairs) <= ContextLength
=============================================================================
