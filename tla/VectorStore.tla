---------------------------- MODULE VectorStore ----------------------------
(***************************************************************************)
(* The bounded in-process vector store (services/vector_store.rs).         *)
(*                                                                         *)
(* store_turns embeds outside the lock and commits a whole batch under it: *)
(* the oldest entries give their slots of the arena to the newest turns.   *)
(* A query scans entries and arena together.  Unit vectors are the numbers *)
(* -1 and 1, an embedding of no length is 0, and the dot product is their  *)
(* product.                                                                *)
(***************************************************************************)
EXTENDS Integers, FiniteSets, SequencesExt

CONSTANTS
    Stores,          \* calls of store_turns under way
    Hints,           \* session hints
    Batches,         \* batches of turns: [text, vector, oversized]
    MaxEntries,      \* config.max_entries
    MaxCommits       \* bound: batches committed

VARIABLES
    entries,         \* StoreState.entries, oldest first: [text, slot, zero, sequence, hint]
    arena,           \* StoreState.arena, by slot from 1
    counts,          \* next_sequence, evicted, zero_norm
    staged,          \* per store: what it has embedded, [hint, skipped, rows], or none
    committed        \* history: every turn committed, [text, vector, hint]

storeVars == <<entries, arena, counts, staged, committed>>

NoBatch == [hint |-> "", skipped |-> <<>>, rows |-> <<>>]

Init ==
    /\ entries = <<>> /\ arena = <<>>
    /\ counts = [next |-> 0, evicted |-> 0, zero |-> 0, commits |-> 0]
    /\ staged = [s \in Stores |-> NoBatch]
    /\ committed = <<>>

Later(n) == IF n > 0 THEN n ELSE 0

\* The sizes of the whole batch are checked, its newest turns embedded.
Stage(s, hint, batch) ==
    /\ staged[s] = NoBatch /\ batch # <<>>
    /\ counts.commits + Cardinality({x \in Stores : staged[x] # NoBatch}) < MaxCommits
    /\ \A i \in DOMAIN batch : ~batch[i].oversized
    /\ LET skipped == Later(Len(batch) - MaxEntries)
       IN  staged' = [staged EXCEPT ![s] =
               [hint |-> hint, skipped |-> SubSeq(batch, 1, skipped),
                rows |-> SubSeq(batch, skipped + 1, Len(batch))]]
    /\ UNCHANGED <<entries, arena, counts, committed>>

IsZero(turn) == turn.vector = 0
Ones(b) == IF b THEN 1 ELSE 0

\* One turn of a commit: the front entry's slot, or a fresh one.
Pushed(st, turn, hint) ==
    LET full == Len(st.entries) >= MaxEntries
        victim == Head(st.entries)
        slot == IF full THEN victim.slot ELSE Len(st.arena) + 1
        entry == [text |-> turn.text, slot |-> slot, zero |-> IsZero(turn),
                  sequence |-> st.counts.next, hint |-> hint]
    IN  [entries |-> Append(IF full THEN Tail(st.entries) ELSE st.entries, entry),
         arena |-> IF full THEN [st.arena EXCEPT ![slot] = turn.vector]
                           ELSE Append(st.arena, turn.vector),
         counts |-> [st.counts EXCEPT !.next = @ + 1,
                                      !.evicted = @ + Ones(full),
                                      !.zero = @ + Ones(IsZero(turn))
                                                 - Ones(full /\ victim.zero)]]

Told(turns, hint) == [i \in DOMAIN turns |->
    [text |-> turns[i].text, vector |-> turns[i].vector, hint |-> hint]]

\* The batch, under the write lock.
Commit(s) ==
    /\ staged[s] # NoBatch
    /\ LET batch == staged[s]
           before == [entries |-> entries, arena |-> arena,
                      counts |-> [counts EXCEPT !.evicted = @ + Len(batch.skipped),
                                                !.commits = @ + 1]]
           after == FoldLeft(LAMBDA st, turn : Pushed(st, turn, batch.hint),
                             before, batch.rows)
       IN  /\ entries' = after.entries
           /\ arena' = after.arena
           /\ counts' = after.counts
           /\ committed' = committed \o Told(batch.skipped \o batch.rows, batch.hint)
    /\ staged' = [staged EXCEPT ![s] = NoBatch]

Next == \E s \in Stores :
            \/ Commit(s)
            \/ \E hint \in Hints, batch \in Batches : Stage(s, hint, batch)

Spec == Init /\ [][Next]_storeVars

\* scan: the k best of the entries of `hint` ("" is every one), newest first
\* among equals, as positions of `entries`.
Score(query, i) == query * arena[entries[i].slot]
Scan(hint, query, k) ==
    LET matching == SelectSeq([i \in DOMAIN entries |-> i],
                              LAMBDA i : hint \in {"", entries[i].hint})
        ranked == SortSeq(matching, LAMBDA i, j :
                      \/ Score(query, i) > Score(query, j)
                      \/ Score(query, i) = Score(query, j) /\ i > j)
    IN  SubSeq(ranked, 1, IF Len(ranked) < k THEN Len(ranked) ELSE k)

-----------------------------------------------------------------------------

\* The newest of all that was committed, the best matches of a query among
\* them, and the order of those.
Kept == SubSeq(committed, Later(Len(committed) - MaxEntries) + 1, Len(committed))
Better(query, i, j) ==
    \/ query * Kept[i].vector > query * Kept[j].vector
    \/ query * Kept[i].vector = query * Kept[j].vector /\ i > j
Best(hint, query, k) ==
    LET found == {i \in DOMAIN Kept : hint \in {"", Kept[i].hint}}
    IN  {i \in found : Cardinality({j \in found : Better(query, j, i)}) < k}

\* Whichever order batches commit in, the store holds the newest turns with
\* each one's own vector, a query finds the best of those, newest first among
\* equals, and the evictions and empty embeddings it reports are all there were
\* (vector_store.rs store_turns, scan, usage).
StoreIsTheNewest ==
    /\ Len(entries) = Len(Kept)
    /\ \A i \in DOMAIN Kept :
          [text |-> entries[i].text, vector |-> arena[entries[i].slot], hint |-> entries[i].hint]
              = Kept[i]
    /\ \A hint \in Hints \cup {""}, query \in {-1, 1}, k \in 1 .. MaxEntries :
          LET hits == Scan(hint, query, k)
          IN  /\ ToSet(hits) = Best(hint, query, k)
              /\ \A a, b \in DOMAIN hits : a < b => Better(query, hits[a], hits[b])
    /\ \A i, j \in DOMAIN entries : i < j => entries[i].sequence < entries[j].sequence
    /\ counts.evicted = Len(committed) - Len(entries)
    /\ counts.zero = Cardinality({i \in DOMAIN Kept : Kept[i].vector = 0})
    /\ Len(arena) <= MaxEntries
=============================================================================
