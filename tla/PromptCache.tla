---------------------------- MODULE PromptCache ----------------------------
(***************************************************************************)
(* The response cache of services/prompt_cache.rs: entries by digest, a    *)
(* recency map from touch counter to digest, the counter, and a lower      *)
(* bound on the stored expiries that lets an insert skip the sweep.        *)
(*                                                                         *)
(* Every method reads the wall clock before it takes the lock, so two      *)
(* methods may apply their readings out of order and a reading may be      *)
(* older than the last one: each step takes any reading.  A request is     *)
(* its digest.  An import stages without the lock and commits later.       *)
(***************************************************************************)
EXTENDS Naturals, Sequences, FiniteSets, Functions, FiniteSetsExt

CONSTANTS Keys,        \* digests of requests
          Responses,
          Capacity,    \* PromptCacheConfig::capacity
          Ttl,         \* PromptCacheConfig::ttl
          Forever,     \* u64::MAX
          Readings,    \* what the clock may say
          Foreign,     \* snapshots of other caches that may be imported
          MaxTick      \* bound: touches between two imports

\* CacheSnapshotEntry.
SnapshotEntry == [key : Keys, request : Keys, response : Responses,
                  stored : Nat, expires : 0..Forever, rank : Nat]

ASSUME CacheAssumption ==
    /\ {Capacity, Ttl} \subseteq Nat \ {0}
    /\ {Forever, MaxTick} \subseteq Nat
    /\ Readings \subseteq 0..(Forever - 1)
    /\ \A snapshot \in Foreign : IsFiniteSet(snapshot) /\ snapshot \subseteq SnapshotEntry

VARIABLES state,    \* PromptCacheState
          staged    \* the StagedCacheState an import has not committed yet, if any

vars == <<state, staged>>

Empty == [entries |-> <<>>, lru |-> <<>>, next |-> 0, earliest |-> Forever]

Init == state = Empty /\ staged = {}

-----------------------------------------------------------------------------
Lesser(a, b) == IF a < b THEN a ELSE b

\* HashMap::insert and BTreeMap::insert.
With(f, x, y) == [z \in DOMAIN f \cup {x} |-> IF z = x THEN y ELSE f[z]]
Minus(f, S) == Restrict(f, DOMAIN f \ S)

Expired(s, now) == {k \in DOMAIN s.entries : s.entries[k].expires <= now}

PruneExpired(s, now) ==
    IF now < s.earliest THEN s
    ELSE LET gone == Expired(s, now)
             kept == Minus(s.entries, gone)
         IN  [s EXCEPT !.entries = kept,
                       !.lru = Minus(@, {s.entries[k].tick : k \in gone}),
                       !.earliest = Min({kept[k].expires : k \in DOMAIN kept} \cup {Forever})]

\* The n oldest ticks of the recency map.
Oldest(lru, n) == {t \in DOMAIN lru : Cardinality({u \in DOMAIN lru : u < t}) < n}

\* The loop that ends insert: one pop_first per entry above the capacity.
EvictOldest(s) ==
    LET size == Cardinality(DOMAIN s.entries)
        old == Oldest(s.lru, IF size > Capacity THEN size - Capacity ELSE 0)
    IN  [s EXCEPT !.entries = Minus(@, {s.lru[t] : t \in old}), !.lru = Minus(@, old)]

\* push_recent, and the pair stored under its tick.
Stored(s, k, entry) ==
    LET before == IF k \in DOMAIN s.entries THEN {s.entries[k].tick} ELSE {}
    IN  [entries |-> With(s.entries, k, [entry EXCEPT !.tick = s.next]),
         lru |-> With(Minus(s.lru, before), s.next, k),
         next |-> s.next + 1,
         earliest |-> s.earliest]

\* Slip: the bound on the expiries is only renewed by a sweep.
BoundedBySweep(s, expires) == s

Bounded(s, expires) == [s EXCEPT !.earliest = Lesser(@, expires)]

Inserted(s, k, response, now) ==
    LET expires == Lesser(now + Ttl, Forever)
        entry == [response |-> response, stored |-> now, expires |-> expires, tick |-> 0]
    IN  EvictOldest(Bounded(Stored(PruneExpired(s, now), k, entry), expires))

\* lookup of a key that is there: expired it leaves, live it becomes newest.
LookedUp(s, k, now) ==
    IF s.entries[k].expires <= now
    THEN [s EXCEPT !.entries = Minus(@, {k}), !.lru = Minus(@, {s.entries[k].tick})]
    ELSE Stored(s, k, s.entries[k])

-----------------------------------------------------------------------------
(* Snapshots: sets of entries [key, request, response, stored, expires,    *)
(* rank].                                                                  *)

Below(S, t) == Cardinality({u \in S : u < t})

Exported(s, k, rank) ==
    [key |-> k, request |-> k, response |-> s.entries[k].response,
     stored |-> s.entries[k].stored, expires |-> s.entries[k].expires, rank |-> rank]

\* Slip: ranks count the expired entries that are left out.
SnapshotWithGaps(s, now) ==
    {Exported(s, k, Below(DOMAIN s.lru, s.entries[k].tick)) :
        k \in DOMAIN s.entries \ Expired(s, now)}

\* snapshot_at: live entries only, ranked from 0 by their last use.
SnapshotAt(s, now) ==
    LET live == {t \in DOMAIN s.lru : s.lru[t] \in DOMAIN s.entries \ Expired(s, now)}
    IN  {Exported(s, s.lru[t], Below(live, t)) : t \in live}

\* validate_snapshot.
Valid(snapshot) ==
    /\ \A e \in snapshot : e.request = e.key /\ e.stored < e.expires
    /\ \A e, f \in snapshot : e # f => e.key # f.key
    /\ {e.rank : e \in snapshot} = 0..(Cardinality(snapshot) - 1)

\* stage_snapshot: the newest live entries that fit, counted from 0.
Staged(snapshot, now) ==
    LET live == {e \in snapshot : e.expires > now}
        newer(e) == Cardinality({f \in live : f.rank > e.rank})
        kept == {e \in live : newer(e) < Capacity}
        tick(e) == Cardinality(kept) - 1 - newer(e)
        newest(k) == CHOOSE e \in kept : e.key = k /\ \A f \in kept : f.key = k => f.rank <= e.rank
    IN  [entries |-> [k \in {e.key : e \in kept} |->
                         [response |-> newest(k).response, stored |-> newest(k).stored,
                          expires |-> newest(k).expires, tick |-> tick(newest(k))]],
         lru |-> [t \in {tick(e) : e \in kept} |-> (CHOOSE e \in kept : tick(e) = t).key],
         next |-> Cardinality(kept),
         earliest |-> Min({e.expires : e \in kept} \cup {Forever})]

-----------------------------------------------------------------------------
\* A miss changes nothing.
Lookup(k, now) ==
    /\ k \in DOMAIN state.entries
    /\ state.next <= MaxTick
    /\ state' = LookedUp(state, k, now)
    /\ UNCHANGED staged

Insert(k, response, now) ==
    /\ state.next <= MaxTick
    /\ state' = Inserted(state, k, response, now)
    /\ UNCHANGED staged

\* replace_snapshot, import_into: a snapshot of this cache, taken at some
\* reading, or of another one; a rejected one changes nothing.
Stage(snapshot, now) ==
    /\ staged = {}
    /\ Valid(snapshot)
    /\ staged' = {Staged(snapshot, now)}
    /\ UNCHANGED state

CommitStaged ==
    /\ state' \in staged
    /\ staged' = {}

Next ==
    \/ \E now \in Readings, k \in Keys :
          Lookup(k, now) \/ \E response \in Responses : Insert(k, response, now)
    \/ \E now \in Readings :
          \/ \E taken \in Readings : Stage(SnapshotAt(state, taken), now)
          \/ \E snapshot \in Foreign : Stage(snapshot, now)
    \/ CommitStaged

Spec == Init /\ [][Next]_vars

-----------------------------------------------------------------------------
(* Properties.                                                             *)

SlotType == [response : Responses, stored : Nat, expires : 0..Forever, tick : Nat]

\* The cache keeps to its capacity, and every touch has used up its number.
TypeOK ==
    \A s \in {state} \cup staged :
        /\ DOMAIN s.entries \subseteq Keys
        /\ \A k \in DOMAIN s.entries : s.entries[k] \in SlotType
        /\ Cardinality(DOMAIN s.entries) <= Capacity
        /\ DOMAIN s.lru \subseteq Nat
        /\ \A t \in DOMAIN s.lru : t < s.next

\* The recency map and the entries name each other: an entry's tick leads to
\* its key and every tick to an entry that has it, so no eviction pops a
\* digest that is gone and none misses an entry (push_recent, prune_expired,
\* lookup, insert, stage_snapshot).
RecencyMatchesEntries ==
    \A s \in {state} \cup staged :
        /\ \A k \in DOMAIN s.entries :
              s.entries[k].tick \in DOMAIN s.lru /\ s.lru[s.entries[k].tick] = k
        /\ \A t \in DOMAIN s.lru :
              s.lru[t] \in DOMAIN s.entries /\ s.entries[s.lru[t]].tick = t

\* An insert that skips the sweep leaves nothing expired behind: the bound
\* lies at or below every stored expiry (prune_expired, insert).
EarliestIsABound ==
    \A s \in {state} \cup staged :
        \A k \in DOMAIN s.entries : s.earliest <= s.entries[k].expires

\* The entries by last use, oldest first.
Recency(s) ==
    [i \in 1..Cardinality(DOMAIN s.lru) |->
        LET t == CHOOSE t \in DOMAIN s.lru : Below(DOMAIN s.lru, t) = i - 1
            k == s.lru[t]
        IN  [key |-> k, response |-> s.entries[k].response, expires |-> s.entries[k].expires]]

Lru == INSTANCE LruCache WITH
           line <- Recency(state),
           pending <- {Recency(s) : s \in staged}

\* Whatever the readings, maps, counter and bound do to the cache what a
\* plain least-recently-used line does.
ImplementsLru == Lru!Spec

\* An export is never refused by an import, and brings back exactly the live
\* entries, in the order of their use (snapshot_at, validate_snapshot,
\* stage_snapshot).
RoundTrips ==
    \A now \in Readings :
        LET snapshot == SnapshotAt(state, now)
            live == DOMAIN state.entries \ Expired(state, now)
            back == Staged(snapshot, now).entries
            Content(e) == <<e.response, e.stored, e.expires>>
        IN  /\ Valid(snapshot)
            /\ DOMAIN back = live
            /\ \A k \in live : Content(back[k]) = Content(state.entries[k])
            /\ \A j, k \in live : back[j].tick < back[k].tick
                                  <=> state.entries[j].tick < state.entries[k].tick

\* The cache's two maps name each other, its bound lets no insert skip a sweep
\* it needed, and its exports import to what was live.
CacheConsistent == TypeOK /\ RecencyMatchesEntries /\ EarliestIsABound /\ RoundTrips
=============================================================================
