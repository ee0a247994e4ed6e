------------------------------ MODULE Tokenizer ------------------------------
(***************************************************************************)
(* Text to token ids (src/provider/local/tokenizer/): the text is cut      *)
(* around special tokens, the rest into words, and the symbols of a word   *)
(* are merged from a work queue whose entries go stale and are never       *)
(* removed.  A token is its text; text is a sequence of characters, and a  *)
(* character that no token spells is its bytes.  A vocabulary has          *)
(*   kind        "spm" (scores), "byte" or "escaped" (merge rules)         *)
(*   pieces      the texts of its normal tokens                            *)
(*   score       of a piece, the least first (spm); rules: pairs, in order *)
(*   bytes       the bytes it has a token for                              *)
(*   specials    [text, lstrip, rstrip]                                    *)
(*   prefix, whole, bos, eos     add_space_prefix, ignore_merges, Config   *)
(***************************************************************************)
EXTENDS Integers, SequencesExt

CONSTANTS Vocabularies, Texts,
          Bytes,                   \* of each character
          Space, Mark, Newline     \* " ", SPACE_MARK, "\n"

VARIABLES vocab, text,
          step,            \* "cut", "read", "merge", "done"
          fragments,       \* still to be encoded
          words,           \* of the fragment being encoded
          afterSpecial,
          symbols, queue,  \* of the word being merged
          ids

tokenizerVars ==
    <<vocab, text, step, fragments, words, afterSpecial, symbols, queue, ids>>

NONE == 0

IsBlank(c) == c \in {Space, Newline}

Spelled(s) == FlattenSeq([i \in 1..Len(s) |-> Bytes[s[i]]])

-----------------------------------------------------------------------------
(* Special tokens                                                          *)

Raw(s) == [special |-> FALSE, text |-> s]
Special(s) == [special |-> TRUE, text |-> s]

\* The longest first, then by id.
InOrder(specials) ==
    SetToSortSeq(specials, LAMBDA s, t :
        \/ Len(s.text) > Len(t.text)
        \/ Len(s.text) = Len(t.text) /\ s.id < t.id)

Finds(s, sub) ==
    {p \in 0..(Len(s) - Len(sub)) : SubSeq(s, p + 1, p + Len(sub)) = sub}

TrimStart(s) == LET kept == {i \in DOMAIN s : ~IsBlank(s[i])}
                IN IF kept = {} THEN <<>> ELSE SubSeq(s, Min(kept), Len(s))
TrimEnd(s) == LET kept == {i \in DOMAIN s : ~IsBlank(s[i])}
              IN IF kept = {} THEN <<>> ELSE SubSeq(s, 1, Max(kept))

NonEmpty(s) == IF s = <<>> THEN <<>> ELSE <<Raw(s)>>

\* One round of `while let Some(pos) = rest.find(special)`.
CutOnce(special, cut) ==
    LET found == Finds(cut.rest, special.text)
        p == Min(found)
        left == SubSeq(cut.rest, 1, p)
        right == SubSeq(cut.rest, p + Len(special.text) + 1, Len(cut.rest))
    IN IF found = {} THEN cut
       ELSE [done |-> cut.done
                \o NonEmpty(IF special.lstrip THEN TrimEnd(left) ELSE left)
                \o <<Special(special.text)>>,
             rest |-> IF special.rstrip THEN TrimStart(right) ELSE right]

CutRaw(special, s) ==
    LET cut == FoldLeft(LAMBDA c, i : CutOnce(special, c), [done |-> <<>>, rest |-> s],
                        [i \in 1..Len(s) |-> i])
    IN cut.done \o NonEmpty(cut.rest)

CutFragments(frags, special) ==
    FlattenSeq([i \in 1..Len(frags) |->
        IF frags[i].special THEN <<frags[i]>> ELSE CutRaw(special, frags[i].text)])

PartitionSpecials(v, s) == FoldLeft(CutFragments, NonEmpty(s), InOrder(v.specials))

-----------------------------------------------------------------------------
(* Words of a raw fragment                                                 *)

\* The runs of s that a cut before each position of `at` leaves.
CutAt(s, at) ==
    LET starts == SetToSortSeq({p \in at \cup {1} : p \in DOMAIN s}, LAMBDA p, q : p < q)
    IN [i \in 1..Len(starts) |->
          SubSeq(s, starts[i], IF i = Len(starts) THEN Len(s) ELSE starts[i + 1] - 1)]

Escaped(s) == [i \in DOMAIN s |-> IF s[i] = Space THEN Mark ELSE s[i]]

\* A pre-tokenizer keeps a space with the word behind it.
PreSplit(s) == CutAt(s, {p \in DOMAIN s : s[p] = Space})

EscapedWords(s) ==
    CutAt(Escaped(s), {p \in 2..Len(s) : (s[p] = Newline) # (s[p - 1] = Newline)})

WordsOf(v, s, first) ==
    CASE v.kind = "spm" -> <<(IF v.prefix /\ first THEN <<Mark>> ELSE <<>>) \o Escaped(s)>>
      [] v.kind = "byte" -> [i \in DOMAIN PreSplit(s) |-> Spelled(PreSplit(s)[i])]
      [] v.kind = "escaped" -> EscapedWords(s)

\* A word that is looked up before it is merged.
IsWhole(v, word) ==
    /\ word \in v.pieces
    /\ \/ v.kind = "byte" /\ v.whole
       \/ v.kind = "escaped" /\ word[1] = Newline

-----------------------------------------------------------------------------
(* Merging                                                                 *)

\* The rules that Merges::new keeps of a pair; the first wins.
RulesFor(v, left, right) ==
    IF {left, right, left \o right} \subseteq v.pieces
    THEN {i \in DOMAIN v.rules : v.rules[i] = <<left, right>>} ELSE {}

MayMerge(v, left, right) ==
    IF v.kind = "spm" THEN left \o right \in v.pieces ELSE RulesFor(v, left, right) # {}

RankOf(v, left, right) ==
    IF v.kind = "spm" THEN v.score[left \o right] ELSE Min(RulesFor(v, left, right))

\* push_pair, try_add_bigram: the entry for two neighbours, if they may merge.
Pair(v, syms, left, right) ==
    IF left = NONE \/ right = NONE \/ ~MayMerge(v, syms[left].text, syms[right].text) THEN {}
    ELSE {[rank |-> RankOf(v, syms[left].text, syms[right].text), left |-> left,
           right |-> right, size |-> Len(syms[left].text) + Len(syms[right].text)]}

SymbolsOf(word) ==
    [i \in 1..Len(word) |->
        [text |-> <<word[i]>>, prev |-> i - 1, next |-> IF i = Len(word) THEN NONE ELSE i + 1]]

FirstQueue(v, syms) == UNION {Pair(v, syms, i, i + 1) : i \in 1..(Len(syms) - 1)}

IsAlive(syms, i) == syms[i].text # <<>>

\* Neither side changed since the pair was queued.
IsFresh(v, syms, entry) ==
    LET left == syms[entry.left]
        right == syms[entry.right]
    IN /\ IsAlive(syms, entry.left) /\ IsAlive(syms, entry.right)
       /\ IF v.kind = "spm" THEN Len(left.text) + Len(right.text) = entry.size
          ELSE /\ left.next = entry.right
               /\ MayMerge(v, left.text, right.text)
               /\ RankOf(v, left.text, right.text) = entry.rank

Joined(syms, entry) ==
    LET after == syms[entry.right].next
        linked == [syms EXCEPT ![entry.left].text = @ \o syms[entry.right].text,
                               ![entry.left].next = after,
                               ![entry.right].text = <<>>]
    IN IF after = NONE THEN linked ELSE [linked EXCEPT ![after].prev = entry.left]

\* The lowest rank and then the leftmost is the next of the heap.
IsNext(entry) ==
    \A e \in queue : \/ entry.rank < e.rank
                     \/ entry.rank = e.rank /\ entry.left <= e.left

\* What a symbol becomes: a token, its bytes, or nothing.
Emitted(v, s) ==
    IF s = <<>> THEN <<>>
    ELSE IF s \in v.pieces THEN <<s>>
    ELSE IF v.kind = "byte" THEN <<>>
    ELSE LET known == SelectSeq(Spelled(s), LAMBDA b : b \in v.bytes)
         IN [i \in DOMAIN known |-> <<known[i]>>]

-----------------------------------------------------------------------------
Init ==
    /\ vocab \in Vocabularies /\ text \in Texts
    /\ step = "cut"
    /\ fragments = <<>> /\ words = <<>> /\ afterSpecial = TRUE
    /\ symbols = <<>> /\ queue = {} /\ ids = <<>>

Cut ==
    /\ step = "cut"
    /\ fragments' = PartitionSpecials(vocab, text)
    /\ step' = "read"
    /\ UNCHANGED <<vocab, text, words, afterSpecial, symbols, queue, ids>>

ReadSpecial ==
    /\ step = "read" /\ words = <<>> /\ fragments # <<>>
    /\ Head(fragments).special
    /\ ids' = Append(ids, Head(fragments).text)
    /\ afterSpecial' = TRUE
    /\ fragments' = Tail(fragments)
    /\ UNCHANGED <<vocab, text, step, words, symbols, queue>>

ReadRaw ==
    /\ step = "read" /\ words = <<>> /\ fragments # <<>>
    /\ ~Head(fragments).special
    /\ words' = WordsOf(vocab, Head(fragments).text, afterSpecial)
    /\ afterSpecial' = FALSE
    /\ fragments' = Tail(fragments)
    /\ UNCHANGED <<vocab, text, step, symbols, queue, ids>>

ReadWord ==
    /\ step = "read" /\ words # <<>>
    /\ IF IsWhole(vocab, Head(words))
       THEN /\ ids' = Append(ids, Head(words))
            /\ UNCHANGED <<step, symbols, queue>>
       ELSE /\ symbols' = SymbolsOf(Head(words))
            /\ queue' = FirstQueue(vocab, symbols')
            /\ step' = "merge"
            /\ UNCHANGED ids
    /\ words' = Tail(words)
    /\ UNCHANGED <<vocab, text, fragments, afterSpecial>>

Pop(entry) ==
    /\ step = "merge" /\ IsNext(entry)
    /\ IF IsFresh(vocab, symbols, entry)
       THEN /\ symbols' = Joined(symbols, entry)
            /\ queue' = (queue \ {entry})
                   \cup Pair(vocab, symbols', symbols[entry.left].prev, entry.left)
                   \cup Pair(vocab, symbols', entry.left, symbols'[entry.left].next)
       ELSE /\ queue' = queue \ {entry}
            /\ UNCHANGED symbols
    /\ UNCHANGED <<vocab, text, step, fragments, words, afterSpecial, ids>>

\* From the first symbol on along `next`: the dead ones are not linked.
Emit ==
    /\ step = "merge" /\ queue = {}
    /\ ids' = ids \o FlattenSeq([i \in DOMAIN symbols |-> Emitted(vocab, symbols[i].text)])
    /\ step' = "read"
    /\ symbols' = <<>>
    /\ UNCHANGED <<vocab, text, fragments, words, afterSpecial, queue>>

\* encode_prompt: a beginning or an end that is there is not added again.
WithEnds(v, s) ==
    LET begun == IF v.bos # <<>> /\ (s = <<>> \/ s[1] # v.bos) THEN <<v.bos>> \o s ELSE s
    IN IF v.eos # <<>> /\ (begun = <<>> \/ Last(begun) # v.eos) THEN Append(begun, v.eos) ELSE begun

Finish ==
    /\ step = "read" /\ words = <<>> /\ fragments = <<>>
    /\ ids' = WithEnds(vocab, ids)
    /\ step' = "done"
    /\ UNCHANGED <<vocab, text, fragments, words, afterSpecial, symbols, queue>>

Next ==
    \/ Cut \/ ReadSpecial \/ ReadRaw \/ ReadWord
    \/ \E entry \in queue : Pop(entry)
    \/ Emit \/ Finish

-----------------------------------------------------------------------------
(* What encoding promises                                                  *)

\* The merge of a word by definition: the best pair of all, until there is none.
Mergeable(v, s) == {i \in 1..(Len(s) - 1) : MayMerge(v, s[i], s[i + 1])}

MergeBest(v, s) ==
    LET best == {i \in Mergeable(v, s) : \A j \in Mergeable(v, s) :
                    RankOf(v, s[i], s[i + 1]) <= RankOf(v, s[j], s[j + 1])}
        at == Min(best)
    IN IF best = {} THEN s
       ELSE SubSeq(s, 1, at - 1) \o <<s[at] \o s[at + 1]>> \o SubSeq(s, at + 2, Len(s))

Greedy(v, word) ==
    LET single == [i \in DOMAIN word |-> <<word[i]>>]
        merged == FoldLeft(LAMBDA s, c : MergeBest(v, s), single, word)
    IN IF IsWhole(v, word) THEN <<word>>
       ELSE FlattenSeq([i \in DOMAIN merged |-> Emitted(v, merged[i])])

Tokens(v, frags) ==
    FlattenSeq([i \in DOMAIN frags |->
        IF frags[i].special THEN <<frags[i].text>>
        ELSE LET own == WordsOf(v, frags[i].text, i = 1 \/ frags[i - 1].special)
             IN FlattenSeq([j \in DOMAIN own |-> Greedy(v, own[j])])])

Occurs(v, s) == {sp \in v.specials : Finds(s, sp.text) # {}}

\* Specials leave no special behind, take nothing else with them but the
\* blanks they strip, and a longer one is not taken apart by a shorter.
CutsAreRight(v, s, frags) ==
    /\ \A i \in DOMAIN frags : ~frags[i].special => Occurs(v, frags[i].text) = {}
    /\ LET joined == FlattenSeq([i \in DOMAIN frags |-> frags[i].text])
       IN IF \A sp \in v.specials : ~sp.lstrip /\ ~sp.rstrip THEN joined = s
          ELSE SelectSeq(joined, LAMBDA c : ~IsBlank(c)) = SelectSeq(s, LAMBDA c : ~IsBlank(c))
    /\ \A sp \in Occurs(v, s) :
          (\A other \in v.specials : Len(other.text) <= Len(sp.text))
             => Special(sp.text) \in ToSet(frags)

\* Every live pair that may merge is queued as it is now, and the live symbols
\* spell the word, linked both ways.
QueueIsComplete ==
    LET live == SelectSeq([i \in DOMAIN symbols |-> i], LAMBDA i : IsAlive(symbols, i))
    IN \A k \in 1..(Len(live) - 1) :
          /\ symbols[live[k]].next = live[k + 1]
          /\ symbols[live[k + 1]].prev = live[k]
          /\ Pair(vocab, symbols, live[k], live[k + 1]) \subseteq queue

\* Text that its vocabulary can spell is spelled by its tokens.
SpellsText(v, frags, tokens) ==
    LET spelt == [i \in DOMAIN tokens |-> Spelled(tokens[i])]
        wanted == [i \in DOMAIN frags |->
                     IF frags[i].special \/ v.kind = "byte" THEN Spelled(frags[i].text)
                     ELSE Spelled((IF v.kind = "spm" /\ v.prefix /\ (i = 1 \/ frags[i - 1].special)
                                   THEN <<Mark>> ELSE <<>>) \o Escaped(frags[i].text))]
        Known(c) == \/ <<c>> \in v.pieces
                    \/ v.kind = "byte" /\ \A b \in ToSet(Bytes[c]) : <<b>> \in v.pieces
                    \/ v.kind # "byte" /\ ToSet(Bytes[c]) \subseteq v.bytes
    IN (\A c \in ToSet(text) \cup {Mark} : Known(c)) => FlattenSeq(spelt) = FlattenSeq(wanted)

\* Merging from a queue with stale entries gives the tokens that merging the
\* best pair each time would, around specials cut whole, and no text is lost.
TokenizesGreedily ==
    /\ step = "merge" => QueueIsComplete
    /\ step = "done" =>
         LET frags == PartitionSpecials(vocab, text)
             tokens == Tokens(vocab, frags)
         IN /\ ids = WithEnds(vocab, tokens)
            /\ CutsAreRight(vocab, text, frags)
            /\ SpellsText(vocab, frags, tokens)
=============================================================================
