----------------------------- MODULE ReuseProofs -----------------------------
(***************************************************************************)
(* What is kept for later stays sound.  The prompt cache, for any keys,    *)
(* capacity, lifetime and readings of the clock, whatever is imported and  *)
(* when it is committed; the model file, for any loaders, versions, length,*)
(* attempts and crashes.                                                   *)
(***************************************************************************)
EXTENDS PromptCache, Download, FiniteLemmas, SequenceTheorems

\* The invariant of one cache state, in parts.
Shape(s) ==
    /\ s = [entries |-> s.entries, lru |-> s.lru, next |-> s.next, earliest |-> s.earliest]
    /\ DOMAIN s.entries \subseteq Keys
    /\ s.entries \in [DOMAIN s.entries -> SlotType]
    /\ s.next \in Nat
    /\ DOMAIN s.lru \subseteq 0..(s.next - 1)
    /\ s.lru \in [DOMAIN s.lru -> Keys]
    /\ s.earliest \in 0..Forever

Named(s) ==
    /\ \A k \in DOMAIN s.entries :
          s.entries[k].tick \in DOMAIN s.lru /\ s.lru[s.entries[k].tick] = k
    /\ \A t \in DOMAIN s.lru :
          s.lru[t] \in DOMAIN s.entries /\ s.entries[s.lru[t]].tick = t

\* Every entry was stored before it expires, as an import demands.
Dated(s) == \A k \in DOMAIN s.entries : s.entries[k].stored < s.entries[k].expires

Bounding(s) == \A k \in DOMAIN s.entries : s.earliest <= s.entries[k].expires

Fits(s) == Cardinality(DOMAIN s.entries) <= Capacity

Tidy(s) == Shape(s) /\ Named(s) /\ Dated(s)

Sound(s) == Tidy(s) /\ Bounding(s) /\ Fits(s)

Inv == \A s \in {state} \cup staged : Sound(s)

-----------------------------------------------------------------------------
\* Some fields of a cache state replaced.
LEMMA Rewritten ==
    ASSUME NEW s,
           s = [entries |-> s.entries, lru |-> s.lru, next |-> s.next, earliest |-> s.earliest],
           NEW entries, NEW lru, NEW earliest
    PROVE  /\ [s EXCEPT !.entries = entries, !.lru = lru]
                 = [entries |-> entries, lru |-> lru, next |-> s.next, earliest |-> s.earliest]
           /\ [s EXCEPT !.earliest = earliest]
                 = [entries |-> s.entries, lru |-> s.lru, next |-> s.next, earliest |-> earliest]
<1> DEFINE r == [s EXCEPT !.entries = entries]
<1>1. r = [entries |-> entries, lru |-> s.lru, next |-> s.next, earliest |-> s.earliest]
  BY SMT
<1>2. [s EXCEPT !.entries = entries, !.lru = lru] = [r EXCEPT !.lru = lru]
  OBVIOUS
<1>3. [s EXCEPT !.earliest = earliest]
         = [entries |-> s.entries, lru |-> s.lru, next |-> s.next, earliest |-> earliest]
  BY SMT
<1> HIDE DEF r
<1>4. [r EXCEPT !.lru = lru]
         = [entries |-> entries, lru |-> lru, next |-> s.next, earliest |-> s.earliest]
  BY <1>1, SMT
<1>5. QED
  BY <1>2, <1>3, <1>4

\* As many ticks as entries, finitely many of both.
LEMMA Sizes ==
    ASSUME NEW s, Shape(s), Named(s)
    PROVE  /\ IsFiniteSet(DOMAIN s.lru)
           /\ IsFiniteSet(DOMAIN s.entries)
           /\ Cardinality(DOMAIN s.entries) = Cardinality(DOMAIN s.lru)
           /\ Cardinality(DOMAIN s.entries) \in Nat
<1>1. IsFiniteSet(DOMAIN s.lru)
  <2>1. IsFiniteSet(0..(s.next - 1))
    <3>1. s.next - 1 \in Int
      BY DEF Shape
    <3>2. QED
      BY <3>1, FS_Interval
  <2>2. QED
    BY <2>1, FS_Subset DEF Shape
<1>2. {s.lru[t] : t \in DOMAIN s.lru} = DOMAIN s.entries
  BY DEF Named
<1>3. \A t, u \in DOMAIN s.lru : s.lru[t] = s.lru[u] => t = u
  BY DEF Named
<1>4. QED
  BY <1>1, <1>2, <1>3, ImageOfInjection, FS_CardinalityType

-----------------------------------------------------------------------------
\* The sweep (prune_expired) leaves exactly the live entries and renews the
\* bound; skipped, it leaves them too, since none had expired.
LEMMA PruneKeeps ==
    ASSUME NEW s, Tidy(s), Bounding(s), NEW now \in Nat
    PROVE  LET p == PruneExpired(s, now)
           IN  /\ Tidy(p) /\ Bounding(p)
               /\ DOMAIN p.entries = DOMAIN s.entries \ Expired(s, now)
               /\ \A k \in DOMAIN p.entries : p.entries[k] = s.entries[k]
               /\ p.next = s.next
<1> DEFINE gone == Expired(s, now)
           kept == Minus(s.entries, gone)
           ticks == {s.entries[k].tick : k \in gone}
           p == PruneExpired(s, now)
           dates == {kept[k].expires : k \in DOMAIN kept} \cup {Forever}
<1>1. CASE now < s.earliest
  <2>1. gone = {}
    BY <1>1 DEF Expired, Bounding, Tidy, Shape, SlotType
  <2>2. p = s
    BY <1>1 DEF PruneExpired
  <2>3. QED
    BY <2>1, <2>2
<1>2. CASE ~(now < s.earliest)
  <2>1. /\ DOMAIN kept = DOMAIN s.entries \ gone
        /\ \A k \in DOMAIN kept : kept[k] = s.entries[k]
    BY DEF Minus, Restrict, Expired
  <2>2. p = [entries |-> kept, lru |-> Minus(s.lru, ticks), next |-> s.next,
             earliest |-> Min(dates)]
    BY <1>2 DEF PruneExpired, Tidy, Shape
  <2>3. Min(dates) \in dates /\ \A d \in dates : Min(dates) <= d
    <3>1. dates \in SUBSET Nat /\ dates # {}
      BY <2>1, CacheAssumption DEF Tidy, Shape, SlotType
    <3>2. QED
      BY <3>1, MinOfNats
  <2>4. Min(dates) \in 0..Forever
    BY <2>1, <2>3, CacheAssumption DEF Tidy, Shape, SlotType
  <2>5. /\ DOMAIN Minus(s.lru, ticks) = DOMAIN s.lru \ ticks
        /\ \A t \in DOMAIN s.lru \ ticks : Minus(s.lru, ticks)[t] = s.lru[t]
    BY DEF Minus, Restrict
  <2>6. \A t \in DOMAIN s.lru : t \in ticks <=> s.lru[t] \in gone
    BY DEF Tidy, Named, Expired
  <2>7. Shape(p)
    <3>1. kept \in [DOMAIN kept -> SlotType] /\ DOMAIN kept \subseteq Keys
      BY <2>1 DEF Tidy, Shape, Minus, Restrict
    <3>2. Minus(s.lru, ticks) \in [DOMAIN s.lru \ ticks -> Keys]
      BY <2>5 DEF Tidy, Shape, Minus, Restrict
    <3> HIDE DEF kept, ticks, gone, dates
    <3>3. QED
      BY <2>2, <2>4, <2>5, <3>1, <3>2 DEF Tidy, Shape
  <2>8. Named(p)
    <3> HIDE DEF kept, ticks, gone, dates, p
    <3>1. QED
      BY <2>1, <2>2, <2>5, <2>6 DEF Tidy, Named
  <2>9. Dated(p) /\ Bounding(p)
    <3>1. \A k \in DOMAIN kept : kept[k].expires \in dates
      OBVIOUS
    <3> HIDE DEF kept, ticks, gone, dates, p
    <3>2. QED
      BY <2>1, <2>2, <2>3, <3>1 DEF Tidy, Dated, Bounding
  <2>10. QED
    BY <2>1, <2>2, <2>7, <2>8, <2>9 DEF Tidy
<1>3. QED
  BY <1>1, <1>2

\* Storing a pair under the next tick (push_recent, insert, a hit).
LEMMA StoreKeeps ==
    ASSUME NEW s, Tidy(s), NEW k \in Keys, NEW entry \in SlotType,
           entry.stored < entry.expires
    PROVE  LET q == Stored(s, k, entry)
           IN  /\ Tidy(q)
               /\ DOMAIN q.entries = DOMAIN s.entries \cup {k}
               /\ q.entries[k] = [entry EXCEPT !.tick = s.next]
               /\ \A j \in DOMAIN s.entries \ {k} : q.entries[j] = s.entries[j]
               /\ q.earliest = s.earliest
               /\ q.next = s.next + 1
<1> DEFINE slot == [entry EXCEPT !.tick = s.next]
           old == IF k \in DOMAIN s.entries THEN {s.entries[k].tick} ELSE {}
           entries == With(s.entries, k, slot)
           lru == With(Minus(s.lru, old), s.next, k)
           q == Stored(s, k, entry)
<1>1. q = [entries |-> entries, lru |-> lru, next |-> s.next + 1, earliest |-> s.earliest]
  BY DEF Stored
<1>2. /\ DOMAIN entries = DOMAIN s.entries \cup {k}
      /\ entries[k] = slot
      /\ \A j \in DOMAIN s.entries \ {k} : entries[j] = s.entries[j]
  BY DEF With
<1>3. /\ DOMAIN lru = (DOMAIN s.lru \ old) \cup {s.next}
      /\ lru[s.next] = k
      /\ \A t \in DOMAIN s.lru \ old : t # s.next /\ lru[t] = s.lru[t]
  BY DEF With, Minus, Restrict, Tidy, Shape
<1>4. slot \in SlotType /\ slot.tick = s.next /\ slot.stored = entry.stored
      /\ slot.expires = entry.expires
  BY DEF SlotType, Tidy, Shape
<1>5. Shape(q)
  <2>1. entries \in [DOMAIN entries -> SlotType]
    BY <1>2, <1>4 DEF Tidy, Shape, With
  <2>2. lru \in [DOMAIN lru -> Keys]
    BY <1>3 DEF Tidy, Shape, With
  <2>3. DOMAIN lru \subseteq 0..s.next
    <3>1. s.next \in Nat /\ DOMAIN s.lru \subseteq 0..(s.next - 1)
      BY DEF Tidy, Shape
    <3> HIDE DEF lru
    <3>2. QED
      BY <1>3, <3>1
  <2> HIDE DEF entries, lru, slot, old
  <2>4. QED
    BY <1>1, <1>2, <2>1, <2>2, <2>3 DEF Tidy, Shape
<1>6. Named(q)
  <2>1. \A j \in DOMAIN s.entries \ {k} : s.entries[j].tick \in DOMAIN s.lru \ old
    BY DEF Tidy, Named
  <2>2. \A t \in DOMAIN s.lru \ old : s.lru[t] # k
    BY DEF Tidy, Named
  <2> HIDE DEF entries, lru, slot, old, q
  <2>3. QED
    BY <1>1, <1>2, <1>3, <1>4, <2>1, <2>2 DEF Tidy, Named
<1>7. Dated(q)
  <2> HIDE DEF entries, lru, slot, old, q
  <2>1. QED
    BY <1>1, <1>2, <1>4 DEF Tidy, Dated
<1>8. QED
  BY <1>1, <1>2, <1>5, <1>6, <1>7 DEF Tidy

\* Names for what leaves when entries leave together with their ticks.
LEMMA RemoveKeeps ==
    ASSUME NEW s, Tidy(s), NEW gone \in SUBSET (DOMAIN s.entries), NEW q,
           NEW ticks \in SUBSET (DOMAIN s.lru),
           \A t \in DOMAIN s.lru : t \in ticks <=> s.lru[t] \in gone,
           q = [entries |-> Minus(s.entries, gone), lru |-> Minus(s.lru, ticks),
                next |-> s.next, earliest |-> s.earliest]
    PROVE  /\ Tidy(q)
           /\ DOMAIN q.entries = DOMAIN s.entries \ gone
           /\ \A k \in DOMAIN q.entries : q.entries[k] = s.entries[k]
           /\ Bounding(s) => Bounding(q)
<1> DEFINE kept == Minus(s.entries, gone)
           lru == Minus(s.lru, ticks)
<1>1. /\ DOMAIN kept = DOMAIN s.entries \ gone
      /\ \A k \in DOMAIN kept : kept[k] = s.entries[k]
      /\ kept \in [DOMAIN kept -> SlotType]
  BY DEF Minus, Restrict, Tidy, Shape
<1>2. /\ DOMAIN lru = DOMAIN s.lru \ ticks
      /\ \A t \in DOMAIN lru : lru[t] = s.lru[t]
      /\ lru \in [DOMAIN lru -> Keys]
  BY DEF Minus, Restrict, Tidy, Shape
<1>3. q = [entries |-> kept, lru |-> lru, next |-> s.next, earliest |-> s.earliest]
  OBVIOUS
<1> HIDE DEF kept, lru
<1>4. Shape(q)
  BY <1>1, <1>2, <1>3 DEF Tidy, Shape
<1>5. Named(q)
  BY <1>1, <1>2, <1>3 DEF Tidy, Named
<1>6. Dated(q) /\ (Bounding(s) => Bounding(q))
  BY <1>1, <1>3 DEF Tidy, Dated, Bounding
<1>7. QED
  BY <1>1, <1>3, <1>4, <1>5, <1>6 DEF Tidy

\* A lookup (lookup): an expired entry leaves with its tick, a live one is
\* stored again under the next.
LEMMA LookupKeeps ==
    ASSUME NEW s, Sound(s), NEW k \in DOMAIN s.entries, NEW now \in Nat
    PROVE  Sound(LookedUp(s, k, now))
<1> DEFINE q == LookedUp(s, k, now)
<1>1. CASE s.entries[k].expires <= now
  <2> DEFINE gone == {k}
             ticks == {s.entries[k].tick}
  <2>1. q = [entries |-> Minus(s.entries, gone), lru |-> Minus(s.lru, ticks),
             next |-> s.next, earliest |-> s.earliest]
    BY <1>1, Zenon DEF LookedUp, Sound, Tidy, Shape
  <2>2. \A t \in DOMAIN s.lru : t \in ticks <=> s.lru[t] \in gone
    BY DEF Sound, Tidy, Named
  <2>3. ticks \in SUBSET (DOMAIN s.lru) /\ gone \in SUBSET (DOMAIN s.entries)
    BY DEF Sound, Tidy, Named
  <2>4. /\ Tidy(q) /\ Bounding(q)
        /\ DOMAIN q.entries = DOMAIN s.entries \ {k}
    <3>1. Tidy(s) /\ Bounding(s)
      BY DEF Sound
    <3> HIDE DEF q, gone, ticks
    <3>2. /\ Tidy(q) /\ Bounding(q)
          /\ DOMAIN q.entries = DOMAIN s.entries \ gone
      BY <2>1, <2>2, <2>3, <3>1, RemoveKeeps, SMTT(60)
    <3>3. QED
      BY <3>2 DEF gone
  <2>5. Fits(q)
    <3>1. IsFiniteSet(DOMAIN s.entries) /\ Cardinality(DOMAIN s.entries) \in Nat
      BY Sizes DEF Sound, Tidy
    <3>2. Cardinality(DOMAIN q.entries) = Cardinality(DOMAIN s.entries) - 1
      BY <2>4, <3>1, FS_RemoveElement
    <3>3. QED
      BY <3>1, <3>2, CacheAssumption DEF Fits, Sound
  <2>6. QED
    BY <2>4, <2>5 DEF Sound, q
<1>2. CASE ~(s.entries[k].expires <= now)
  <2>1. q = Stored(s, k, s.entries[k])
    BY <1>2 DEF LookedUp
  <2>2. /\ k \in Keys /\ s.entries[k] \in SlotType
        /\ s.entries[k].stored < s.entries[k].expires
    BY DEF Sound, Tidy, Shape, Dated
  <2>3. /\ Tidy(q)
        /\ DOMAIN q.entries = DOMAIN s.entries \cup {k}
        /\ q.entries[k] = [s.entries[k] EXCEPT !.tick = s.next]
        /\ \A j \in DOMAIN s.entries \ {k} : q.entries[j] = s.entries[j]
        /\ q.earliest = s.earliest
    <3> HIDE DEF q
    <3>1. QED
      BY <2>1, <2>2, StoreKeeps DEF Sound
  <2>4. q.entries[k].expires = s.entries[k].expires
    BY <2>2, <2>3, Zenon DEF SlotType
  <2>5. Bounding(q) /\ Fits(q)
    <3>1. DOMAIN q.entries = DOMAIN s.entries
      BY <2>3
    <3> HIDE DEF q
    <3>2. QED
      BY <2>3, <2>4, <3>1 DEF Sound, Bounding, Fits
  <2>6. QED
    BY <2>3, <2>5 DEF Sound
<1>3. QED
  BY <1>1, <1>2

\* The loop that ends an insert leaves no more entries than fit, whatever was
\* there before it.
LEMMA EvictKeeps ==
    ASSUME NEW s, Tidy(s), Bounding(s)
    PROVE  Sound(EvictOldest(s))
<1> DEFINE size == Cardinality(DOMAIN s.entries)
           over == IF size > Capacity THEN size - Capacity ELSE 0
           old == Oldest(s.lru, over)
           gone == {s.lru[t] : t \in old}
           self == [t \in DOMAIN s.lru |-> t]
           q == EvictOldest(s)
<1>1. /\ IsFiniteSet(DOMAIN s.lru) /\ IsFiniteSet(DOMAIN s.entries)
      /\ size = Cardinality(DOMAIN s.lru)
      /\ size \in Nat /\ Capacity \in Nat /\ over \in Nat
  BY Sizes, CacheAssumption DEF Tidy
<1>2. old = Lowest(DOMAIN s.lru, self, over)
  <2>1. \A t \in DOMAIN s.lru :
           {u \in DOMAIN s.lru : u < t} = {u \in DOMAIN s.lru : self[u] < self[t]}
    OBVIOUS
  <2>2. \A t \in DOMAIN s.lru :
           Cardinality({u \in DOMAIN s.lru : u < t}) = PlaceIn(DOMAIN s.lru, self, t)
    BY <2>1, Zenon DEF PlaceIn
  <2>3. QED
    BY <2>2, Zenon DEF Oldest, Lowest
<1>3. IsFiniteSet(old) /\ Cardinality(old) = over
  <2>1. \A t \in DOMAIN s.lru : self[t] \in Int
    BY DEF Tidy, Shape
  <2>2. \A t, u \in DOMAIN s.lru : self[t] = self[u] => t = u
    OBVIOUS
  <2>3. ~(Cardinality(DOMAIN s.lru) < over)
    BY <1>1
  <2> HIDE DEF over, self, old, size
  <2>4. QED
    BY <1>1, <1>2, <2>1, <2>2, <2>3, LowestPlaces
<1>4. q = [entries |-> Minus(s.entries, gone), lru |-> Minus(s.lru, old),
           next |-> s.next, earliest |-> s.earliest]
  <2>1. q = [s EXCEPT !.entries = Minus(s.entries, gone), !.lru = Minus(s.lru, old)]
    BY Zenon DEF EvictOldest
  <2> HIDE DEF q, gone, old
  <2>2. QED
    BY <2>1, Rewritten DEF Tidy, Shape
<1>5. /\ old \in SUBSET (DOMAIN s.lru)
      /\ gone \in SUBSET (DOMAIN s.entries)
      /\ \A t \in DOMAIN s.lru : t \in old <=> s.lru[t] \in gone
  <2>1. old \in SUBSET (DOMAIN s.lru)
    BY DEF Oldest
  <2> HIDE DEF old
  <2>2. QED
    BY <2>1 DEF Tidy, Named
<1>6. Cardinality(gone) = over
  <2>1. \A t, u \in old : s.lru[t] = s.lru[u] => t = u
    BY <1>5 DEF Tidy, Named
  <2> HIDE DEF old, over
  <2>2. QED
    BY <1>3, <2>1, ImageOfInjection
<1>7. /\ Tidy(q) /\ Bounding(q)
      /\ DOMAIN q.entries = DOMAIN s.entries \ gone
  <2> HIDE DEF gone, old, q
  <2>1. QED
    BY <1>4, <1>5, RemoveKeeps
<1>8. Cardinality(DOMAIN q.entries) = size - over
  <2>1. DOMAIN s.entries \cap gone = gone
    BY <1>5
  <2> HIDE DEF gone, q, over
  <2>2. Cardinality(DOMAIN s.entries \ gone)
           = Cardinality(DOMAIN s.entries) - Cardinality(DOMAIN s.entries \cap gone)
    BY <1>1, FS_Difference
  <2>3. QED
    BY <1>6, <1>7, <2>1, <2>2
<1>9. Fits(q)
  BY <1>1, <1>8 DEF Fits
<1>10. QED
  BY <1>7, <1>9 DEF Sound

\* An insert, from the sweep to the eviction.
LEMMA InsertKeeps ==
    ASSUME NEW s, Sound(s), NEW k \in Keys, NEW response \in Responses,
           NEW now \in Readings
    PROVE  Sound(Inserted(s, k, response, now))
<1> DEFINE expires == Lesser(now + Ttl, Forever)
           entry == [response |-> response, stored |-> now, expires |-> expires, tick |-> 0]
           p == PruneExpired(s, now)
           st == Stored(p, k, entry)
           b == Bounded(st, expires)
<1>1. /\ now \in Nat /\ now < Forever /\ Ttl \in Nat \ {0} /\ Forever \in Nat
      /\ expires \in 0..Forever /\ now < expires
  BY CacheAssumption DEF Lesser
<1>2. Tidy(p) /\ Bounding(p)
  BY <1>1, PruneKeeps DEF Sound
<1>3. entry \in SlotType /\ entry.stored < entry.expires /\ entry.expires = expires
  BY <1>1 DEF SlotType
<1> HIDE DEF p, entry
<1>4. /\ Tidy(st)
      /\ DOMAIN st.entries = DOMAIN p.entries \cup {k}
      /\ st.entries[k] = [entry EXCEPT !.tick = p.next]
      /\ \A j \in DOMAIN p.entries \ {k} : st.entries[j] = p.entries[j]
      /\ st.earliest = p.earliest
  BY <1>2, <1>3, StoreKeeps
<1>5. st.entries[k].expires = expires
  BY <1>3, <1>4, Zenon DEF SlotType
<1> HIDE DEF st, expires
<1>6. b = [entries |-> st.entries, lru |-> st.lru, next |-> st.next,
           earliest |-> Lesser(st.earliest, expires)]
  <2>1. b = [st EXCEPT !.earliest = Lesser(st.earliest, expires)]
    BY Zenon DEF Bounded
  <2> HIDE DEF b
  <2>2. QED
    BY <1>4, <2>1, Rewritten DEF Tidy, Shape
<1> HIDE DEF b
<1>7. /\ Lesser(st.earliest, expires) \in 0..Forever
      /\ Lesser(st.earliest, expires) <= st.earliest
      /\ Lesser(st.earliest, expires) <= expires
  BY <1>1, <1>4 DEF Lesser, Tidy, Shape
<1>8. Tidy(b)
  <2>1. Shape(b)
    BY <1>4, <1>6, <1>7 DEF Tidy, Shape
  <2>2. Named(b) /\ Dated(b)
    BY <1>4, <1>6 DEF Tidy, Named, Dated
  <2>3. QED
    BY <2>1, <2>2 DEF Tidy
<1>9. Bounding(b)
  <2>1. SUFFICES ASSUME NEW j \in DOMAIN st.entries
                 PROVE  b.earliest <= st.entries[j].expires
    BY <1>6 DEF Bounding
  <2>2. CASE j = k
    BY <1>5, <1>6, <1>7, <2>2
  <2>3. CASE j # k
    <3>1. /\ p.earliest <= st.entries[j].expires
          /\ st.entries[j].expires \in Nat /\ p.earliest \in Nat
      BY <1>1, <1>2, <1>4, <2>3 DEF Bounding, Tidy, Shape, SlotType
    <3>2. QED
      BY <1>4, <1>6, <1>7, <3>1
  <2>4. QED
    BY <2>2, <2>3
<1>10. Sound(EvictOldest(b))
  BY <1>8, <1>9, EvictKeeps
<1>11. QED
  BY <1>10 DEF Inserted, b, st, p, entry, expires

-----------------------------------------------------------------------------
\* The parts of stage_snapshot.
LiveOf(snapshot, now) == {e \in snapshot : e.expires > now}
Newer(snapshot, now, e) == Cardinality({f \in LiveOf(snapshot, now) : f.rank > e.rank})
KeptOf(snapshot, now) == {e \in LiveOf(snapshot, now) : Newer(snapshot, now, e) < Capacity}
TickOf(snapshot, now, e) == Cardinality(KeptOf(snapshot, now)) - 1 - Newer(snapshot, now, e)

Importable(snapshot) ==
    IsFiniteSet(snapshot) /\ snapshot \subseteq SnapshotEntry /\ Valid(snapshot)

\* The ranks of a valid snapshot tell its entries apart, as its keys do.
LEMMA ValidTellsApart ==
    ASSUME NEW S, Importable(S)
    PROVE  /\ \A e, f \in S : e.rank = f.rank => e = f
           /\ \A e, f \in S : e.key = f.key => e = f
           /\ \A e \in S : e.rank \in Nat /\ e.expires \in 0..Forever /\ e.key \in Keys
<1> DEFINE ranks == {e.rank : e \in S}
           rank == [e \in S |-> e.rank]
<1>1. ranks = 0..(Cardinality(S) - 1) /\ Cardinality(S) \in Nat
  BY FS_CardinalityType DEF Importable, Valid
<1>2. Cardinality(ranks) = Cardinality(S)
  <2> HIDE DEF ranks
  <2>1. Cardinality(0..(Cardinality(S) - 1)) = Cardinality(S)
    BY <1>1, FS_Interval
  <2>2. QED
    BY <1>1, <2>1
<1>3. rank \in Surjection(S, ranks)
  BY DEF Surjection
<1>4. rank \in Injection(S, ranks)
  <2> HIDE DEF rank, ranks
  <2>1. QED
    BY <1>2, <1>3, FS_SurjSameCardinalityImpliesInj DEF Importable
<1>5. \A e, f \in S : e.rank = f.rank => e = f
  BY <1>4 DEF Injection, IsInjective
<1>6. QED
  BY <1>5 DEF Importable, Valid, SnapshotEntry

\* The entries an import keeps are numbered from 0 in the order of their
\* ranks; it keeps all the live ones when they fit.
LEMMA KeptAreNumbered ==
    ASSUME NEW S, Importable(S), NEW now \in Nat
    PROVE  LET kept == KeptOf(S, now) IN
           /\ kept \subseteq LiveOf(S, now)
           /\ Cardinality(kept) \in Nat
           /\ Cardinality(kept) <= Capacity
           /\ Cardinality(LiveOf(S, now)) <= Capacity => kept = LiveOf(S, now)
           /\ \A e \in kept : TickOf(S, now, e) \in 0..(Cardinality(kept) - 1)
           /\ \A e, f \in kept : e.rank < f.rank <=> TickOf(S, now, e) < TickOf(S, now, f)
           /\ \A e, f \in kept : TickOf(S, now, e) = TickOf(S, now, f) => e = f
           /\ \A n \in 0..(Cardinality(kept) - 1) : \E e \in kept : TickOf(S, now, e) = n
<1> DEFINE live == LiveOf(S, now)
           kept == KeptOf(S, now)
           down == [e \in live |-> 0 - e.rank]
<1>1. IsFiniteSet(live) /\ live \subseteq S
  BY FS_Subset DEF LiveOf, Importable
<1>2. \A e, f \in live : e.rank = f.rank => e = f
  BY <1>1, ValidTellsApart
<1>3. \A e \in live : e.rank \in Nat /\ down[e] = 0 - e.rank /\ down[e] \in Int
  BY <1>1, ValidTellsApart
<1>4. \A e, f \in live : (down[e] = down[f] => e = f) /\ (down[e] < down[f] <=> f.rank < e.rank)
  BY <1>2, <1>3
<1>5. \A e \in live : Newer(S, now, e) = PlaceIn(live, down, e)
  <2>1. SUFFICES ASSUME NEW e \in live
                 PROVE  Newer(S, now, e) = PlaceIn(live, down, e)
    OBVIOUS
  <2>2. {f \in live : f.rank > e.rank} = {f \in live : down[f] < down[e]}
    BY <1>3, <1>4
  <2>3. QED
    BY <2>2, Zenon DEF Newer, PlaceIn
<1> HIDE DEF down
<1>6. kept = Lowest(live, down, Capacity)
  BY <1>5 DEF KeptOf, Lowest
<1>7. Capacity \in Nat \ {0}
  BY CacheAssumption
<1>8. /\ Cardinality(live) \in Nat
      /\ \A e \in live : PlaceIn(live, down, e) \in 0..(Cardinality(live) - 1)
      /\ \A e, f \in live : down[e] < down[f] <=> PlaceIn(live, down, e) < PlaceIn(live, down, f)
      /\ \A e, f \in live : PlaceIn(live, down, e) = PlaceIn(live, down, f) => e = f
      /\ \A n \in 0..(Cardinality(live) - 1) : \E e \in live : PlaceIn(live, down, e) = n
  <2> HIDE DEF live
  <2>1. QED
    BY <1>1, <1>3, <1>4, Places
<1>9. /\ IsFiniteSet(kept)
      /\ Cardinality(kept) = IF Cardinality(live) < Capacity THEN Cardinality(live) ELSE Capacity
  <2> HIDE DEF live, kept
  <2>1. QED
    BY <1>1, <1>3, <1>4, <1>6, <1>7, LowestPlaces
<1> DEFINE size == Cardinality(kept)
           place(e) == PlaceIn(live, down, e)
<1>10. /\ size \in Nat /\ size <= Capacity
       /\ kept \subseteq live
       /\ \A e \in kept : TickOf(S, now, e) = size - 1 - place(e)
       /\ \A e \in kept : place(e) \in 0..(size - 1)
       /\ \A n \in 0..(size - 1) : \E e \in kept : place(e) = n
  <2>1. size \in Nat /\ size <= Capacity /\ size <= Cardinality(live)
    BY <1>7, <1>8, <1>9
  <2>2. kept \subseteq live /\ \A e \in live : e \in kept <=> place(e) < Capacity
    BY <1>6 DEF Lowest
  <2>3. \A e \in kept : TickOf(S, now, e) = size - 1 - place(e)
    BY <1>5, <2>2 DEF TickOf
  <2>4. \A e \in kept : place(e) \in 0..(size - 1)
    <3> HIDE DEF kept, live, size, place
    <3>1. \A e \in kept : place(e) \in 0..(Cardinality(live) - 1) /\ place(e) < Capacity
      BY <1>8, <2>2 DEF place
    <3>2. size = IF Cardinality(live) < Capacity THEN Cardinality(live) ELSE Capacity
      BY <1>9 DEF size
    <3>3. QED
      BY <1>7, <1>8, <3>1, <3>2
  <2>5. \A n \in 0..(size - 1) : \E e \in kept : place(e) = n
    <3> HIDE DEF kept, live, size
    <3>1. QED
      BY <1>7, <1>8, <2>1, <2>2
  <2>6. QED
    BY <2>1, <2>2, <2>3, <2>4, <2>5
<1>11. Cardinality(live) <= Capacity => kept = live
  <2>1. SUFFICES ASSUME Cardinality(live) <= Capacity
                 PROVE  Cardinality(kept) = Cardinality(live)
    BY <1>1, <1>10, FS_Subset
  <2>2. QED
    BY <1>7, <1>8, <1>9, <2>1
<1>12. ASSUME NEW e \in kept, NEW f \in kept
       PROVE  /\ TickOf(S, now, e) \in 0..(size - 1)
              /\ e.rank < f.rank <=> TickOf(S, now, e) < TickOf(S, now, f)
              /\ TickOf(S, now, e) = TickOf(S, now, f) => e = f
  <2>1. /\ e \in live /\ f \in live
        /\ place(e) \in 0..(size - 1) /\ place(f) \in 0..(size - 1) /\ size \in Nat
        /\ TickOf(S, now, e) = size - 1 - place(e)
        /\ TickOf(S, now, f) = size - 1 - place(f)
    BY <1>10
  <2>2. /\ e.rank < f.rank <=> place(f) < place(e)
        /\ place(e) = place(f) => e = f
    BY <1>4, <1>8, <2>1
  <2> HIDE DEF place, size, live, kept
  <2>3. QED
    BY <2>1, <2>2
<1>13. ASSUME NEW n \in 0..(size - 1)
       PROVE  \E e \in kept : TickOf(S, now, e) = n
  <2>1. size - 1 - n \in 0..(size - 1)
    BY <1>10
  <2>2. PICK e \in kept : place(e) = size - 1 - n
    BY <1>10, <2>1
  <2>3. TickOf(S, now, e) = size - 1 - (size - 1 - n)
    BY <1>10, <2>2
  <2>4. QED
    BY <1>10, <2>3
<1>14. QED
  BY <1>10, <1>11, <1>12, <1>13

\* What an import installs (stage_snapshot): the kept entries under their keys
\* and their numbers.
LEMMA StagedIs ==
    ASSUME NEW S, Importable(S), NEW now \in Nat
    PROVE  LET kept == KeptOf(S, now)
               q == Staged(S, now)
           IN  /\ q = [entries |-> q.entries, lru |-> q.lru, next |-> Cardinality(kept),
                       earliest |-> Min({e.expires : e \in kept} \cup {Forever})]
               /\ DOMAIN q.entries = {e.key : e \in kept}
               /\ q.entries = [k \in {e.key : e \in kept} |-> q.entries[k]]
               /\ \A e \in kept :
                     q.entries[e.key] = [response |-> e.response, stored |-> e.stored,
                                         expires |-> e.expires, tick |-> TickOf(S, now, e)]
               /\ DOMAIN q.lru = {TickOf(S, now, e) : e \in kept}
               /\ q.lru = [t \in {TickOf(S, now, e) : e \in kept} |-> q.lru[t]]
               /\ \A e \in kept : q.lru[TickOf(S, now, e)] = e.key
<1> DEFINE kept == KeptOf(S, now)
           tick(e) == TickOf(S, now, e)
           newest(k) == CHOOSE e \in kept :
                           e.key = k /\ \A f \in kept : f.key = k => f.rank <= e.rank
           entries == [k \in {e.key : e \in kept} |->
                          [response |-> newest(k).response, stored |-> newest(k).stored,
                           expires |-> newest(k).expires, tick |-> tick(newest(k))]]
           lru == [t \in {tick(e) : e \in kept} |-> (CHOOSE e \in kept : tick(e) = t).key]
<1>1. Staged(S, now) = [entries |-> entries, lru |-> lru, next |-> Cardinality(kept),
                        earliest |-> Min({e.expires : e \in kept} \cup {Forever})]
  BY Zenon DEF Staged, KeptOf, TickOf, Newer, LiveOf
<1>2. kept \subseteq S
  BY DEF KeptOf, LiveOf
<1>3. ASSUME NEW e \in kept
      PROVE  newest(e.key) = e
  <2>1. \A f \in kept : f.key = e.key => f = e
    BY <1>2, ValidTellsApart
  <2>2. e.rank <= e.rank
    BY <1>2, ValidTellsApart
  <2>3. QED
    BY <2>1, <2>2
<1>4. ASSUME NEW e \in kept
      PROVE  (CHOOSE f \in kept : tick(f) = tick(e)) = e
  <2>1. \A f \in kept : tick(f) = tick(e) => f = e
    BY KeptAreNumbered
  <2>2. QED
    BY <2>1
<1> HIDE DEF kept, newest, tick
<1>5. \A e \in kept :
         entries[e.key] = [response |-> e.response, stored |-> e.stored,
                           expires |-> e.expires, tick |-> tick(e)]
  BY <1>3
<1>6. \A e \in kept : lru[tick(e)] = e.key
  BY <1>4
<1> HIDE DEF entries, lru
<1>7. Staged(S, now).entries = entries /\ Staged(S, now).lru = lru
  BY <1>1
<1>8. /\ DOMAIN entries = {e.key : e \in kept}
      /\ entries = [k \in {e.key : e \in kept} |-> entries[k]]
      /\ DOMAIN lru = {tick(e) : e \in kept}
      /\ lru = [t \in {tick(e) : e \in kept} |-> lru[t]]
  BY DEF entries, lru
<1>9. QED
  BY <1>1, <1>5, <1>6, <1>7, <1>8 DEF kept, tick

\* An import that is accepted installs a sound cache.
LEMMA StagedKeeps ==
    ASSUME NEW S, Importable(S), NEW now \in Nat
    PROVE  Sound(Staged(S, now))
<1> DEFINE kept == KeptOf(S, now)
           size == Cardinality(kept)
           tick(e) == TickOf(S, now, e)
           dates == {e.expires : e \in kept} \cup {Forever}
           q == Staged(S, now)
<1>1. /\ q = [entries |-> q.entries, lru |-> q.lru, next |-> size, earliest |-> Min(dates)]
      /\ DOMAIN q.entries = {e.key : e \in kept}
      /\ q.entries = [k \in {e.key : e \in kept} |-> q.entries[k]]
      /\ \A e \in kept :
            q.entries[e.key] = [response |-> e.response, stored |-> e.stored,
                                expires |-> e.expires, tick |-> tick(e)]
      /\ DOMAIN q.lru = {tick(e) : e \in kept}
      /\ q.lru = [t \in {tick(e) : e \in kept} |-> q.lru[t]]
      /\ \A e \in kept : q.lru[tick(e)] = e.key
  BY StagedIs
<1>2. /\ size \in Nat /\ size <= Capacity
      /\ \A e \in kept : tick(e) \in 0..(size - 1)
  BY KeptAreNumbered
<1>3. \A e \in kept : /\ e \in SnapshotEntry /\ e.stored < e.expires
                      /\ e.key \in Keys /\ e.response \in Responses
                      /\ e.stored \in Nat /\ e.expires \in 0..Forever
  <2>1. \A e \in kept : e \in S
    BY DEF KeptOf, LiveOf
  <2>2. QED
    BY <2>1 DEF Importable, Valid, SnapshotEntry
<1>4. /\ Min(dates) \in dates
      /\ \A d \in dates : Min(dates) <= d
      /\ dates \subseteq 0..Forever
  <2>1. dates \subseteq 0..Forever /\ dates # {}
    BY <1>3, CacheAssumption
  <2>2. dates \in SUBSET Nat
    BY <2>1
  <2> HIDE DEF dates
  <2>3. QED
    BY <2>1, <2>2, MinOfNats
<1>5. \A e \in kept : e.expires \in dates
  OBVIOUS
<1>6. \A e, f \in kept : (tick(e) = tick(f) => e = f) /\ (e.key = f.key => e = f)
  <2>1. kept \subseteq S
    BY DEF KeptOf, LiveOf
  <2>2. QED
    BY <2>1, KeptAreNumbered, ValidTellsApart
<1> HIDE DEF kept, size, tick, dates, q
<1>7. \A e \in kept : /\ q.entries[e.key] \in SlotType
                      /\ q.entries[e.key].tick = tick(e)
                      /\ q.entries[e.key].stored = e.stored
                      /\ q.entries[e.key].expires = e.expires
  <2>1. SUFFICES ASSUME NEW e \in kept
                 PROVE  /\ q.entries[e.key] \in SlotType
                        /\ q.entries[e.key].tick = tick(e)
                        /\ q.entries[e.key].stored = e.stored
                        /\ q.entries[e.key].expires = e.expires
    OBVIOUS
  <2> DEFINE slot == q.entries[e.key]
  <2>2. slot = [response |-> e.response, stored |-> e.stored,
                expires |-> e.expires, tick |-> tick(e)]
    BY <1>1
  <2>3. e.response \in Responses /\ e.stored \in Nat /\ e.expires \in 0..Forever
        /\ tick(e) \in Nat
    BY <1>2, <1>3
  <2> HIDE DEF slot
  <2>4. slot \in SlotType
    BY <2>2, <2>3 DEF SlotType
  <2>5. slot.tick = tick(e) /\ slot.stored = e.stored /\ slot.expires = e.expires
    BY <2>2
  <2>6. QED
    BY <2>4, <2>5 DEF slot
<1>8. q.earliest = Min(dates) /\ q.next = size
  BY <1>1
<1>9. Shape(q)
  <2>1. q.entries \in [DOMAIN q.entries -> SlotType]
    BY <1>1, <1>7
  <2>2. q.lru \in [DOMAIN q.lru -> Keys]
    <3>1. ASSUME NEW t \in DOMAIN q.lru
          PROVE  q.lru[t] \in Keys
      <4>1. PICK e \in kept : t = tick(e)
        BY <1>1
      <4>2. q.lru[t] = e.key
        BY <1>1, <4>1
      <4>3. QED
        BY <1>3, <4>2
    <3>2. q.lru = [t \in DOMAIN q.lru |-> q.lru[t]]
      <4>1. DOMAIN q.lru = {tick(e) : e \in kept}
        BY <1>1
      <4>2. q.lru = [t \in {tick(e) : e \in kept} |-> q.lru[t]]
        BY <1>1
      <4>3. QED
        BY <4>1, <4>2
    <3>3. QED
      BY <3>1, <3>2
  <2>3. DOMAIN q.lru \subseteq 0..(size - 1) /\ DOMAIN q.entries \subseteq Keys
    BY <1>1, <1>2, <1>3
  <2>4. q = [entries |-> q.entries, lru |-> q.lru, next |-> q.next, earliest |-> q.earliest]
    BY <1>1, <1>8
  <2>5. QED
    BY <1>2, <1>4, <1>8, <2>1, <2>2, <2>3, <2>4 DEF Shape
<1>10. Named(q)
  <2>1. \A k \in DOMAIN q.entries : \E e \in kept : k = e.key
    BY <1>1
  <2>2. \A t \in DOMAIN q.lru : \E e \in kept : t = tick(e)
    BY <1>1
  <2>3. \A e \in kept : e.key \in DOMAIN q.entries /\ tick(e) \in DOMAIN q.lru
    BY <1>1
  <2>4. \A e \in kept : q.lru[tick(e)] = e.key
    BY <1>1
  <2>5. QED
    BY <1>7, <2>1, <2>2, <2>3, <2>4 DEF Named
<1>11. Dated(q) /\ Bounding(q)
  <2>1. \A k \in DOMAIN q.entries : \E e \in kept : k = e.key
    BY <1>1
  <2>2. QED
    BY <1>3, <1>4, <1>5, <1>7, <1>8, <2>1 DEF Dated, Bounding
<1>12. Fits(q)
  <2>1. DOMAIN q.lru = 0..(size - 1)
    <3>1. \A n \in 0..(size - 1) : \E e \in kept : tick(e) = n
      BY KeptAreNumbered DEF kept, tick, size
    <3>2. QED
      BY <1>1, <1>2, <3>1
  <2>2. Cardinality(DOMAIN q.lru) = size
    BY <1>2, <2>1, FS_Interval
  <2>3. QED
    BY <1>2, <1>9, <1>10, <2>2, Sizes DEF Fits
<1>13. QED
  BY <1>9, <1>10, <1>11, <1>12 DEF Sound, Tidy, q

-----------------------------------------------------------------------------
\* The ticks whose entries an export takes.
LiveTicks(s, now) == {t \in DOMAIN s.lru : s.lru[t] \in DOMAIN s.entries \ Expired(s, now)}

\* What an export holds (snapshot_at): each live entry, under its rank by last
\* use.  No import refuses it.
LEMMA ExportIs ==
    ASSUME NEW s, Tidy(s), NEW now \in Nat
    PROVE  LET snapshot == SnapshotAt(s, now)
               live == LiveTicks(s, now)
           IN  /\ Importable(snapshot)
               /\ Cardinality(snapshot) <= Cardinality(DOMAIN s.entries)
               /\ \A e \in snapshot :
                     /\ e.key \in DOMAIN s.entries \ Expired(s, now)
                     /\ e = Exported(s, e.key, Below(live, s.entries[e.key].tick))
               /\ \A k \in DOMAIN s.entries \ Expired(s, now) :
                     Exported(s, k, Below(live, s.entries[k].tick)) \in snapshot
               /\ \A j, k \in DOMAIN s.entries \ Expired(s, now) :
                     s.entries[j].tick < s.entries[k].tick
                     <=> Below(live, s.entries[j].tick) < Below(live, s.entries[k].tick)
<1> DEFINE snapshot == SnapshotAt(s, now)
           live == LiveTicks(s, now)
           liveKeys == DOMAIN s.entries \ Expired(s, now)
           self == [t \in live |-> t]
           ex(t) == Exported(s, s.lru[t], Below(live, t))
           out == [t \in live |-> ex(t)]
           size == Cardinality(live)
<1>1. /\ IsFiniteSet(DOMAIN s.lru) /\ live \in SUBSET (DOMAIN s.lru) /\ IsFiniteSet(live)
      /\ size \in Nat
      /\ size <= Cardinality(DOMAIN s.lru)
      /\ Cardinality(DOMAIN s.lru) = Cardinality(DOMAIN s.entries)
  <2>1. /\ IsFiniteSet(DOMAIN s.lru)
        /\ Cardinality(DOMAIN s.lru) = Cardinality(DOMAIN s.entries)
    BY Sizes DEF Tidy
  <2>2. live \in SUBSET (DOMAIN s.lru)
    BY DEF LiveTicks
  <2> HIDE DEF live
  <2>3. QED
    BY <2>1, <2>2, FS_Subset, FS_CardinalityType
<1>2. \A t \in live : Below(live, t) = PlaceIn(live, self, t)
  <2>1. SUFFICES ASSUME NEW t \in live
                 PROVE  Below(live, t) = PlaceIn(live, self, t)
    OBVIOUS
  <2>2. {u \in live : u < t} = {u \in live : self[u] < self[t]}
    OBVIOUS
  <2>3. QED
    BY <2>2, Zenon DEF Below, PlaceIn
<1>3. /\ \A t \in live : Below(live, t) \in 0..(size - 1)
      /\ \A t, u \in live : t < u <=> Below(live, t) < Below(live, u)
      /\ \A n \in 0..(size - 1) : \E t \in live : Below(live, t) = n
  <2>1. \A t \in live : self[t] \in Int /\ self[t] = t
    BY <1>1 DEF Tidy, Shape
  <2>2. \A t, u \in live : self[t] = self[u] => t = u
    OBVIOUS
  <2> HIDE DEF live, self
  <2>3. QED
    BY <1>1, <1>2, <2>1, <2>2, Places
<1>4. snapshot = {ex(t) : t \in live}
  BY Zenon DEF SnapshotAt, LiveTicks
<1>5. \A t \in live : s.lru[t] \in liveKeys /\ s.entries[s.lru[t]].tick = t
  BY DEF LiveTicks, Tidy, Named
<1>6. \A k \in liveKeys : s.entries[k].tick \in live /\ s.lru[s.entries[k].tick] = k
  BY DEF LiveTicks, Tidy, Named
<1>7. \A k \in liveKeys : /\ k \in Keys /\ s.entries[k].response \in Responses
                          /\ s.entries[k].stored \in Nat /\ s.entries[k].expires \in 0..Forever
                          /\ s.entries[k].stored < s.entries[k].expires
  BY DEF Tidy, Shape, Dated, SlotType
<1> HIDE DEF live, liveKeys, self
<1>8. \A t \in live : ex(t) = [key |-> s.lru[t], request |-> s.lru[t],
                               response |-> s.entries[s.lru[t]].response,
                               stored |-> s.entries[s.lru[t]].stored,
                               expires |-> s.entries[s.lru[t]].expires,
                               rank |-> Below(live, t)]
  BY DEF Exported
<1> HIDE DEF ex
<1>9. \A t \in live : /\ ex(t).key = s.lru[t] /\ ex(t).request = s.lru[t]
                      /\ ex(t).stored = s.entries[s.lru[t]].stored
                      /\ ex(t).expires = s.entries[s.lru[t]].expires
                      /\ ex(t).rank = Below(live, t)
                      /\ ex(t) \in SnapshotEntry
  <2>1. SUFFICES ASSUME NEW t \in live
                 PROVE  /\ ex(t).key = s.lru[t] /\ ex(t).request = s.lru[t]
                        /\ ex(t).stored = s.entries[s.lru[t]].stored
                        /\ ex(t).expires = s.entries[s.lru[t]].expires
                        /\ ex(t).rank = Below(live, t)
                        /\ ex(t) \in SnapshotEntry
    OBVIOUS
  <2>2. /\ s.lru[t] \in Keys /\ s.entries[s.lru[t]].response \in Responses
        /\ s.entries[s.lru[t]].stored \in Nat /\ s.entries[s.lru[t]].expires \in 0..Forever
        /\ Below(live, t) \in Nat
    BY <1>1, <1>3, <1>5, <1>7
  <2>3. QED
    BY <1>8, <2>2 DEF SnapshotEntry
<1>10. \A t, u \in live : ex(t) = ex(u) => t = u
  BY <1>5, <1>9
<1>11. IsFiniteSet(snapshot) /\ Cardinality(snapshot) = size
  <2>1. {out[t] : t \in live} = snapshot
    BY <1>4
  <2>2. \A t, u \in live : out[t] = out[u] => t = u
    BY <1>10
  <2> HIDE DEF out, snapshot
  <2>3. QED
    BY <1>1, <2>1, <2>2, ImageOfInjection
<1>12. Valid(snapshot)
  <2>1. \A e \in snapshot : e.request = e.key /\ e.stored < e.expires
    BY <1>4, <1>5, <1>7, <1>9
  <2>2. \A e, f \in snapshot : e # f => e.key # f.key
    BY <1>4, <1>5, <1>9
  <2>3. {e.rank : e \in snapshot} = {Below(live, t) : t \in live}
    BY <1>4, <1>9
  <2>4. {Below(live, t) : t \in live} = 0..(size - 1)
    BY <1>3
  <2>5. QED
    BY <1>11, <2>1, <2>2, <2>3, <2>4 DEF Valid
<1>13. Importable(snapshot)
  BY <1>4, <1>9, <1>11, <1>12 DEF Importable
<1>14. \A e \in snapshot : /\ e.key \in liveKeys
                           /\ e = Exported(s, e.key, Below(live, s.entries[e.key].tick))
  <2>1. \A t \in live : ex(t) = Exported(s, ex(t).key, Below(live, s.entries[ex(t).key].tick))
    BY <1>5, <1>9 DEF ex
  <2>2. QED
    BY <1>4, <1>5, <1>9, <2>1
<1>15. \A k \in liveKeys : Exported(s, k, Below(live, s.entries[k].tick)) \in snapshot
  BY <1>4, <1>6 DEF ex
<1>16. \A j, k \in liveKeys : s.entries[j].tick < s.entries[k].tick
                 <=> Below(live, s.entries[j].tick) < Below(live, s.entries[k].tick)
  BY <1>3, <1>6
<1>17. QED
  BY <1>1, <1>11, <1>13, <1>14, <1>15, <1>16 DEF live, liveKeys

\* What is exported and imported at one reading comes back.
LEMMA ExportsComeBack ==
    ASSUME NEW s, Sound(s), NEW now \in Nat
    PROVE  LET live == DOMAIN s.entries \ Expired(s, now)
               snapshot == SnapshotAt(s, now)
               back == Staged(snapshot, now).entries
           IN  /\ Valid(snapshot)
               /\ DOMAIN back = live
               /\ \A k \in live : /\ back[k].response = s.entries[k].response
                                  /\ back[k].stored = s.entries[k].stored
                                  /\ back[k].expires = s.entries[k].expires
               /\ \A j, k \in live : back[j].tick < back[k].tick
                                     <=> s.entries[j].tick < s.entries[k].tick
<1> DEFINE live == DOMAIN s.entries \ Expired(s, now)
           snapshot == SnapshotAt(s, now)
           back == Staged(snapshot, now).entries
           rank(k) == Below(LiveTicks(s, now), s.entries[k].tick)
           ex(k) == Exported(s, k, rank(k))
           tick(k) == TickOf(snapshot, now, ex(k))
<1>1. Tidy(s) /\ Cardinality(DOMAIN s.entries) <= Capacity
      /\ Cardinality(DOMAIN s.entries) \in Nat
  BY Sizes DEF Sound, Fits, Tidy
<1>2. /\ Importable(snapshot)
      /\ Cardinality(snapshot) <= Cardinality(DOMAIN s.entries)
      /\ \A e \in snapshot : e.key \in live /\ e = ex(e.key)
      /\ \A k \in live : ex(k) \in snapshot
      /\ \A j, k \in live : s.entries[j].tick < s.entries[k].tick <=> rank(j) < rank(k)
  BY <1>1, ExportIs
<1>3. \A k \in live : /\ ex(k).key = k /\ ex(k).rank = rank(k)
                      /\ ex(k).response = s.entries[k].response
                      /\ ex(k).stored = s.entries[k].stored
                      /\ ex(k).expires = s.entries[k].expires
  BY DEF Exported
<1>4. KeptOf(snapshot, now) = snapshot
  <2>1. \A k \in live : s.entries[k].expires > now
    BY <1>1 DEF Expired, Tidy, Shape, SlotType
  <2>2. LiveOf(snapshot, now) = snapshot
    <3> HIDE DEF snapshot, ex, live
    <3>1. \A e \in snapshot : e.expires > now
      BY <1>2, <1>3, <2>1
    <3>2. QED
      BY <3>1 DEF LiveOf
  <2>3. Cardinality(snapshot) \in Nat /\ Cardinality(snapshot) <= Capacity
    BY <1>1, <1>2, FS_CardinalityType, CacheAssumption DEF Importable
  <2>4. QED
    BY <1>2, <2>2, <2>3, KeptAreNumbered
<1> HIDE DEF snapshot, ex, live, rank
<1>5. /\ DOMAIN back = {e.key : e \in snapshot}
      /\ \A e \in snapshot :
            back[e.key] = [response |-> e.response, stored |-> e.stored,
                           expires |-> e.expires, tick |-> TickOf(snapshot, now, e)]
  <2>1. back = [k \in {e.key : e \in KeptOf(snapshot, now)} |-> back[k]]
        /\ \A e \in KeptOf(snapshot, now) :
              back[e.key] = [response |-> e.response, stored |-> e.stored,
                             expires |-> e.expires, tick |-> TickOf(snapshot, now, e)]
    BY <1>2, StagedIs
  <2> HIDE DEF back
  <2>2. QED
    BY <1>4, <2>1
<1>6. \A e, f \in snapshot :
         e.rank < f.rank <=> TickOf(snapshot, now, e) < TickOf(snapshot, now, f)
  BY <1>2, <1>4, KeptAreNumbered
<1> HIDE DEF back
<1>7. DOMAIN back = live
  BY <1>2, <1>3, <1>5
<1>8. \A k \in live : back[k] = [response |-> s.entries[k].response,
                                 stored |-> s.entries[k].stored,
                                 expires |-> s.entries[k].expires, tick |-> tick(k)]
  BY <1>2, <1>3, <1>5
<1>9. \A j, k \in live : rank(j) < rank(k) <=> tick(j) < tick(k)
  BY <1>2, <1>3, <1>6
<1> HIDE DEF tick
<1>10. \A k \in live : /\ back[k].response = s.entries[k].response
                       /\ back[k].stored = s.entries[k].stored
                       /\ back[k].expires = s.entries[k].expires
                       /\ back[k].tick = tick(k)
  <2>1. SUFFICES ASSUME NEW k \in live
                 PROVE  /\ back[k].response = s.entries[k].response
                        /\ back[k].stored = s.entries[k].stored
                        /\ back[k].expires = s.entries[k].expires
                        /\ back[k].tick = tick(k)
    OBVIOUS
  <2> DEFINE slot == back[k]
  <2>2. slot = [response |-> s.entries[k].response, stored |-> s.entries[k].stored,
                expires |-> s.entries[k].expires, tick |-> tick(k)]
    BY <1>8
  <2> HIDE DEF slot
  <2>3. /\ slot.response = s.entries[k].response /\ slot.stored = s.entries[k].stored
        /\ slot.expires = s.entries[k].expires /\ slot.tick = tick(k)
    BY <2>2
  <2>4. QED
    BY <2>3 DEF slot
<1>11. Valid(snapshot)
  BY <1>2 DEF Importable
<1>12. QED
  BY <1>2, <1>7, <1>9, <1>10, <1>11 DEF live, snapshot, back
-----------------------------------------------------------------------------
\* Importing either kind of snapshot leads to a sound state.
LEMMA StageKeeps ==
    ASSUME Inv, NEW now \in Readings, NEW snapshot, Stage(snapshot, now),
           \/ \E taken \in Readings : snapshot = SnapshotAt(state, taken)
           \/ snapshot \in Foreign
    PROVE  Inv'
<1>1. Readings \subseteq Nat
  BY CacheAssumption
<1>2. Importable(snapshot)
  <2>1. CASE \E taken \in Readings : snapshot = SnapshotAt(state, taken)
    BY <1>1, <2>1, ExportIs DEF Inv, Sound
  <2>2. CASE snapshot \in Foreign
    BY <2>2, CacheAssumption DEF Stage, Importable
  <2>3. QED
    BY <2>1, <2>2
<1>3. Sound(Staged(snapshot, now))
  BY <1>1, <1>2, StagedKeeps
<1>4. QED
  BY <1>3 DEF Stage, Inv

\* The invariant holds at first: an empty cache.
LEMMA InitEstablishes == Init => Inv
<1> SUFFICES ASSUME Init PROVE Sound(Empty)
  BY DEF Init, Inv
<1>1. Cardinality(DOMAIN Empty.entries) = 0
  BY FS_EmptySet DEF Empty
<1>2. DOMAIN Empty.entries = {} /\ DOMAIN Empty.lru = {}
  BY DEF Empty
<1>3. Shape(Empty)
  BY <1>2, CacheAssumption DEF Shape, Empty
<1>4. QED
  BY <1>1, <1>2, <1>3, CacheAssumption DEF Sound, Tidy, Named, Dated, Bounding, Fits

\* Every step keeps it.
LEMMA NextPreserves == Inv /\ [Next]_vars => Inv'
<1> SUFFICES ASSUME Inv, [Next]_vars PROVE Inv'
  OBVIOUS
<1>1. Readings \subseteq Nat /\ Sound(state)
  BY CacheAssumption DEF Inv
<1>2. ASSUME NEW now \in Readings, NEW k \in Keys, Lookup(k, now)
      PROVE  Inv'
  BY <1>1, <1>2, LookupKeeps DEF Lookup, Inv
<1>3. ASSUME NEW now \in Readings, NEW k \in Keys, NEW response \in Responses,
             Insert(k, response, now)
      PROVE  Inv'
  BY <1>1, <1>3, InsertKeeps DEF Insert, Inv
<1>4. ASSUME NEW now \in Readings, NEW taken \in Readings, Stage(SnapshotAt(state, taken), now)
      PROVE  Inv'
  BY <1>4, StageKeeps
<1>5. ASSUME NEW now \in Readings, NEW snapshot \in Foreign, Stage(snapshot, now)
      PROVE  Inv'
  BY <1>5, StageKeeps
<1>6. CASE CommitStaged
  BY <1>6 DEF CommitStaged, Inv
<1>7. CASE UNCHANGED vars
  BY <1>7 DEF vars, Inv
<1>8. QED
  BY <1>2, <1>3, <1>4, <1>5, <1>6, <1>7 DEF Next

\* What the invariant says of the cache.
LEMMA InvImplies == Inv => CacheConsistent
<1> SUFFICES ASSUME Inv PROVE CacheConsistent
  OBVIOUS
<1>1. TypeOK
  BY DEF Inv, Sound, Tidy, Shape, Fits, TypeOK
<1>2. RecencyMatchesEntries
  BY DEF Inv, Sound, Tidy, Named, RecencyMatchesEntries
<1>3. EarliestIsABound
  BY DEF Inv, Sound, Bounding, EarliestIsABound
<1>4. RoundTrips
  <2>1. Sound(state) /\ Readings \subseteq Nat
    BY CacheAssumption DEF Inv
  <2>2. QED
    BY <2>1, ExportsComeBack DEF RoundTrips
<1>5. QED
  BY <1>1, <1>2, <1>3, <1>4 DEF CacheConsistent

\* Whatever is looked up, inserted, exported and imported, at whatever readings
\* of the clock: the two maps name each other, the cache keeps to its capacity,
\* no insert skips a sweep it needed, and an export is never refused and brings
\* back the live entries in the order of their use.
THEOREM CacheCorrect == Spec => []CacheConsistent
<1>1. QED
  BY InitEstablishes, NextPreserves, InvImplies, PTL DEF Spec

-----------------------------------------------------------------------------
(* The model file.                                                         *)

Working == {"request", "write", "stream"}

FetchType ==
    [pc : {"idle", "ok", "failed", "lock"} \cup Working, offset : Nat, hashed : Seq(Versions),
     restarted : BOOLEAN, buffer : Seq(Versions), rest : Seq(Versions), total : Nat, done : Nat]

\* A body is on its way: what was hashed and what is to come make up the file.
Underway(f) ==
    /\ f.done = Len(f.hashed) /\ f.total = FileLen
    /\ f.done + Len(f.rest) = FileLen

\* The hasher was fed what the file holds, or will hold once it is opened,
\* and what the writer has yet to write.
InPhase(f, file) ==
    /\ f.pc = "request" => f.hashed = file /\ f.offset = Len(file) /\ f.buffer = <<>>
    /\ f.pc = "write" => /\ Underway(f) /\ f.offset = f.done /\ f.buffer = <<>>
                         /\ f.offset > 0 => f.hashed = file
    /\ f.pc = "stream" => Underway(f) /\ f.hashed = file \o f.buffer

\* The lock is with the loader at work, and nobody works on a file that is there.
LockedAtWork ==
    /\ lockHolder \in Loaders \cup {NoLoader}
    /\ \A l \in Loaders : fetch[l].pc \in Working <=> lockHolder = l
    /\ lockHolder # NoLoader => final = Absent

DownloadInv ==
    /\ fetch \in [Loaders -> FetchType]
    /\ served \in Versions /\ partial \in Seq(Versions)
    /\ LockedAtWork
    /\ \A l \in Loaders : InPhase(fetch[l], partial)
    /\ FinalIsVerified

\* A loader that does not work holds nothing.
LEMMA RestingHoldsNothing ==
    ASSUME NEW how \in {"idle", "ok", "failed", "lock"}
    PROVE  /\ [Idle EXCEPT !.pc = how] \in FetchType
           /\ [Idle EXCEPT !.pc = how].pc = how
           /\ \A file : InPhase([Idle EXCEPT !.pc = how], file)
<1> DEFINE f == [Idle EXCEPT !.pc = how]
<1>1. <<>> \in Seq(Versions)
  OBVIOUS
<1>2. f \in FetchType /\ f.pc = how
  BY <1>1 DEF Idle, FetchType, Working
<1>3. how \notin Working
  BY DEF Working
<1> HIDE DEF f
<1>4. \A file : InPhase(f, file)
  BY <1>2, <1>3 DEF InPhase, Working
<1> QED BY <1>2, <1>4 DEF f

\* A step of one loader: the others rest whenever it touches the file.
LEMMA OneLoads ==
    ASSUME DownloadInv, NEW l \in Loaders, NEW f \in FetchType,
           fetch' = [fetch EXCEPT ![l] = f],
           served' \in Versions, partial' \in Seq(Versions),
           \/ f.pc \in Working /\ lockHolder' = l /\ final' = Absent
              /\ lockHolder \in {l, NoLoader}
           \/ f.pc \notin Working /\ lockHolder' = (IF lockHolder = l THEN NoLoader ELSE lockHolder)
              /\ (lockHolder # l => final' = final),
           partial' = partial \/ lockHolder = l,
           InPhase(f, partial'), FinalIsVerified'
    PROVE  DownloadInv'
<1>1. /\ fetch' \in [Loaders -> FetchType] /\ fetch'[l] = f
      /\ \A u \in Loaders : u # l => fetch'[u] = fetch[u]
  BY DEF DownloadInv
<1>2. /\ lockHolder \in Loaders \cup {NoLoader} /\ NoLoader \notin Loaders
      /\ \A u \in Loaders : fetch[u].pc \in Working <=> lockHolder = u
      /\ lockHolder # NoLoader => final = Absent
  BY DownloadAssumption DEF DownloadInv, LockedAtWork
<1>3. LockedAtWork'
  <2>1. CASE f.pc \in Working /\ lockHolder' = l /\ final' = Absent /\ lockHolder \in {l, NoLoader}
    BY <1>1, <1>2, <2>1 DEF LockedAtWork
  <2>2. CASE /\ f.pc \notin Working
             /\ lockHolder' = (IF lockHolder = l THEN NoLoader ELSE lockHolder)
             /\ (lockHolder # l => final' = final)
    BY <1>1, <1>2, <2>2 DEF LockedAtWork
  <2> QED BY <2>1, <2>2
<1>4. ASSUME NEW u \in Loaders
      PROVE  InPhase(fetch'[u], partial')
  <2>1. CASE u = l
    BY <1>1, <2>1
  <2>2. CASE u # l /\ partial' = partial
    BY <1>1, <2>2 DEF DownloadInv
  <2>3. CASE u # l /\ lockHolder = l
    <3>1. fetch[u].pc \notin Working
      BY <1>2, <2>3
    <3> QED BY <1>1, <2>3, <3>1 DEF InPhase, Working
  <2> QED BY <2>1, <2>2, <2>3
<1> QED BY <1>1, <1>3, <1>4 DEF DownloadInv

\* A loader returns, and another may take the lock.
LEMMA Returning ==
    ASSUME DownloadInv, NEW l \in Loaders, NEW how \in {"idle", "ok", "failed", "lock"},
           Returns(l, how), Unlocked(l) \/ (lockHolder # l /\ lockHolder' = lockHolder),
           served' = served, partial' \in Seq(Versions), partial' = partial \/ lockHolder = l,
           lockHolder # l => final' = final, FinalIsVerified'
    PROVE  DownloadInv'
<1>1. PICK f : f = [Idle EXCEPT !.pc = how]
  OBVIOUS
<1>2. f \in FetchType /\ f.pc = how /\ InPhase(f, partial')
  BY <1>1, RestingHoldsNothing
<1>3. fetch' = [fetch EXCEPT ![l] = f]
  BY <1>1 DEF Returns
<1>4. f.pc \notin Working
  BY <1>2 DEF Working
<1>5. lockHolder' = (IF lockHolder = l THEN NoLoader ELSE lockHolder)
  BY DEF Unlocked
<1>6. served' \in Versions
  BY DEF DownloadInv
<1> QED BY <1>2, <1>3, <1>4, <1>5, <1>6, OneLoads

\* The file's parts of the served version, from a place on.
LEMMA BodyIs ==
    ASSUME NEW v \in Versions, NEW from \in 0..FileLen
    PROVE  /\ SubSeq(Content(v), from + 1, FileLen) \in Seq(Versions)
           /\ Len(SubSeq(Content(v), from + 1, FileLen)) = FileLen - from
<1>1. PICK c, n, m : c = Content(v) /\ n = FileLen /\ m = from + 1
  OBVIOUS
<1>2. c \in Seq(Versions) /\ Len(c) = n /\ n \in Nat /\ m \in Nat \ {0} /\ m <= n + 1
  BY <1>1, DownloadAssumption DEF Content
<1>3. SubSeq(c, m, n) \in Seq(Versions) /\ Len(SubSeq(c, m, n)) = n - m + 1
  BY <1>2
<1>4. n - m + 1 = FileLen - from
  BY <1>1, DownloadAssumption
<1> QED BY <1>1, <1>3, <1>4

\* Returns at once, or goes for the lock.
LEMMA BeginKeeps ==
    ASSUME DownloadInv, NEW l \in Loaders, Begin(l)
    PROVE  DownloadInv'
<1>1. PICK how \in {"ok", "lock"} : Returns(l, how)
  BY DEF Begin
<1>2. /\ fetch[l].pc \notin Working
      /\ UNCHANGED <<pin, served, final, partial, lockHolder>>
  BY DEF Begin, Working
<1>3. lockHolder # l
  BY <1>2 DEF DownloadInv, LockedAtWork
<1>4. FinalIsVerified'
  BY <1>2 DEF DownloadInv, FinalIsVerified
<1>5. partial' \in Seq(Versions)
  BY <1>2 DEF DownloadInv
<1> QED BY <1>1, <1>2, <1>3, <1>4, <1>5, Returning

\* The one who gets the lock has fed the hasher what the partial file holds.
LEMMA LockKeeps ==
    ASSUME DownloadInv, NEW l \in Loaders, Lock(l)
    PROVE  DownloadInv'
<1>1. /\ fetch[l].pc = "lock" /\ lockHolder = NoLoader /\ lockHolder # l
      /\ UNCHANGED <<pin, served, final, partial>>
  BY DownloadAssumption DEF Lock
<1>2. FinalIsVerified' /\ partial' \in Seq(Versions) /\ served' \in Versions
  BY <1>1 DEF DownloadInv, FinalIsVerified
<1>3. CASE LooksAgain
  <2>1. Returns(l, "ok") /\ lockHolder' = lockHolder
    BY <1>3 DEF Lock
  <2> QED BY <1>1, <1>2, <2>1, Returning
<1>4. CASE ~LooksAgain
  <2>1. PICK h, n, f : /\ h = partial /\ n = Len(partial)
                       /\ f = [Idle EXCEPT !.pc = "request", !.offset = n, !.hashed = h]
    OBVIOUS
  <2>2. lockHolder' = l /\ fetch' = [fetch EXCEPT ![l] = f]
    BY <1>4, <2>1 DEF Lock
  <2>3. h \in Seq(Versions) /\ n \in Nat /\ <<>> \in Seq(Versions)
    BY <2>1 DEF DownloadInv
  <2>4. /\ f \in FetchType /\ f.pc = "request" /\ f.hashed = h /\ f.offset = n /\ f.buffer = <<>>
    BY <2>1, <2>3 DEF Idle, FetchType, Working
  <2>5. InPhase(f, partial')
    BY <1>1, <2>1, <2>4 DEF InPhase
  <2>6. final' = Absent
    BY <1>1, <1>4 DEF LooksAgain
  <2>7. f.pc \in Working
    BY <2>4 DEF Working
  <2> QED BY <1>1, <1>2, <2>2, <2>4, <2>5, <2>6, <2>7, OneLoads
<1> QED BY <1>3, <1>4

\* A loader at work has the lock, and nobody has the file.
LEMMA WorkerHolds ==
    ASSUME DownloadInv, NEW l \in Loaders, fetch[l].pc \in Working
    PROVE  /\ lockHolder = l /\ final = Absent
           /\ fetch[l] \in FetchType /\ InPhase(fetch[l], partial)
BY DownloadAssumption DEF DownloadInv, LockedAtWork

\* The loader at work goes on working.
LEMMA GoesOn ==
    ASSUME DownloadInv, NEW l \in Loaders, fetch[l].pc \in Working, NEW f \in FetchType,
           f.pc \in Working, fetch' = [fetch EXCEPT ![l] = f],
           UNCHANGED <<pin, served, final, lockHolder>>, partial' \in Seq(Versions),
           InPhase(f, partial')
    PROVE  DownloadInv'
<1>1. lockHolder = l /\ final = Absent
  BY WorkerHolds
<1>2. FinalIsVerified' /\ served' \in Versions
  BY DEF DownloadInv, FinalIsVerified
<1>3. lockHolder' = l /\ final' = Absent
  BY <1>1
<1> QED BY <1>1, <1>2, <1>3, OneLoads

\* The loader at work stops, and no file comes of it.
LEMMA Stops ==
    ASSUME DownloadInv, NEW l \in Loaders, fetch[l].pc \in Working,
           NEW how \in {"idle", "failed"}, Returns(l, how), Unlocked(l),
           UNCHANGED <<pin, served, final>>, partial' \in Seq(Versions)
    PROVE  DownloadInv'
<1>1. lockHolder = l
  BY WorkerHolds
<1>2. FinalIsVerified'
  BY DEF DownloadInv, FinalIsVerified
<1> QED BY <1>1, <1>2, Returning

\* A body that goes on from the partial file, or replaces it, with the hasher to match.
LEMMA AnswerKeeps ==
    ASSUME DownloadInv, NEW l \in Loaders, AnswerAsked(l) \/ AnswerWhole(l)
    PROVE  DownloadInv'
<1>1. /\ fetch[l].pc = "request" /\ UNCHANGED <<pin, served, final, partial, lockHolder>>
  BY DEF AnswerAsked, AnswerWhole
<1>2. fetch[l].pc \in Working
  BY <1>1 DEF Working
<1>3. /\ fetch[l] \in FetchType /\ fetch[l].buffer = <<>>
      /\ fetch[l].hashed = partial /\ fetch[l].offset = Len(partial)
      /\ partial \in Seq(Versions)
  BY <1>1, <1>2, WorkerHolds DEF InPhase, DownloadInv
<1>4. PICK from, hashed :
         /\ from \in 0..FileLen /\ hashed \in Seq(Versions)
         /\ Body(l, from, hashed) /\ from = Len(hashed)
         /\ from > 0 => hashed = partial
  <2>1. CASE AnswerAsked(l)
    <3>1. PICK n, h : n = fetch[l].offset /\ h = fetch[l].hashed
      OBVIOUS
    <3>2. Body(l, n, h) /\ n < FileLen
      BY <2>1, <3>1 DEF AnswerAsked
    <3>3. h \in Seq(Versions) /\ n = Len(h) /\ h = partial /\ n \in 0..FileLen
      BY <1>3, <3>1, <3>2, DownloadAssumption
    <3> WITNESS n, h
    <3> QED BY <3>2, <3>3
  <2>2. CASE AnswerWhole(l)
    <3>1. PICK h : h = <<>>
      OBVIOUS
    <3>2. Body(l, 0, h)
      BY <2>2, <3>1 DEF AnswerWhole, FreshHash
    <3>3. h \in Seq(Versions) /\ Len(h) = 0 /\ 0 \in 0..FileLen
      BY <3>1, DownloadAssumption
    <3> WITNESS 0, h
    <3> QED BY <3>2, <3>3
  <2> QED BY <2>1, <2>2
<1>5. PICK rest : /\ rest = SubSeq(Content(served), from + 1, FileLen)
                  /\ rest \in Seq(Versions) /\ Len(rest) = FileLen - from
  BY <1>4, BodyIs DEF DownloadInv
<1>6. PICK g : g = fetch[l]
  OBVIOUS
<1>7. PICK f : f = [g EXCEPT !.pc = "write", !.offset = from, !.hashed = hashed, !.done = from,
                             !.rest = rest, !.total = FileLen]
  OBVIOUS
<1>8. fetch' = [fetch EXCEPT ![l] = f]
  BY <1>4, <1>5, <1>6, <1>7 DEF Body, DownloadInv
<1>9. /\ g \in FetchType
      /\ f = [pc |-> "write", offset |-> from, hashed |-> hashed, restarted |-> g.restarted,
              buffer |-> g.buffer, rest |-> rest, total |-> FileLen, done |-> from]
  BY <1>3, <1>6, <1>7 DEF FetchType
<1>10. /\ f \in FetchType /\ f.pc = "write" /\ f.buffer = g.buffer
       /\ f.offset = from /\ f.hashed = hashed /\ f.done = from /\ f.rest = rest
       /\ f.total = FileLen
  <2>1. from \in Nat /\ FileLen \in Nat /\ g.restarted \in BOOLEAN /\ g.buffer \in Seq(Versions)
    BY <1>4, <1>9, DownloadAssumption DEF FetchType
  <2>2. hashed \in Seq(Versions) /\ rest \in Seq(Versions)
    BY <1>4, <1>5
  <2> QED BY <1>9, <2>1, <2>2 DEF FetchType, Working
<1>11. from + Len(rest) = FileLen
  BY <1>4, <1>5, DownloadAssumption
<1>12. InPhase(f, partial')
  BY <1>1, <1>3, <1>4, <1>6, <1>10, <1>11 DEF InPhase, Underway
<1>13. f.pc \in Working /\ partial' \in Seq(Versions)
  BY <1>1, <1>3, <1>10 DEF Working
<1> QED BY <1>1, <1>2, <1>8, <1>10, <1>12, <1>13, GoesOn

\* An unusable answer drops the partial file and the hash together.
LEMMA UnusableKeeps ==
    ASSUME DownloadInv, NEW l \in Loaders, AnswerUnusable(l)
    PROVE  DownloadInv'
<1>1. fetch[l].pc = "request" /\ UNCHANGED <<pin, served, final>> /\ fetch[l].pc \in Working
  BY DEF AnswerUnusable, Working
<1>2. CASE fetch[l].restarted
  <2>1. Returns(l, "failed") /\ Unlocked(l) /\ partial' = partial
    BY <1>2 DEF AnswerUnusable
  <2>2. partial' \in Seq(Versions)
    BY <2>1 DEF DownloadInv
  <2> QED BY <1>1, <2>1, <2>2, Stops
<1>3. CASE ~fetch[l].restarted
  <2>1. PICK f : f = [Idle EXCEPT !.pc = "request", !.restarted = TRUE]
    OBVIOUS
  <2>2. fetch' = [fetch EXCEPT ![l] = f] /\ partial' = <<>> /\ lockHolder' = lockHolder
    BY <1>3, <2>1 DEF AnswerUnusable, Absent
  <2>3. <<>> \in Seq(Versions) /\ Len(<<>>) = 0
    OBVIOUS
  <2>4. /\ f \in FetchType /\ f.pc = "request" /\ f.hashed = <<>> /\ f.offset = 0
        /\ f.buffer = <<>>
    BY <2>1, <2>3 DEF Idle, FetchType, Working
  <2>5. InPhase(f, partial')
    BY <2>2, <2>3, <2>4 DEF InPhase
  <2>6. f.pc \in Working /\ partial' \in Seq(Versions)
    BY <2>2, <2>3, <2>4 DEF Working
  <2> QED BY <1>1, <2>2, <2>4, <2>5, <2>6, GoesOn
<1> QED BY <1>2, <1>3

\* An error leaves the partial file to the next loader.
LEMMA ErrorKeeps ==
    ASSUME DownloadInv, NEW l \in Loaders, AnswerError(l)
    PROVE  DownloadInv'
<1>1. /\ fetch[l].pc \in Working /\ Returns(l, "failed") /\ Unlocked(l)
      /\ UNCHANGED <<pin, served, final, partial>>
  BY DEF AnswerError, Working
<1>2. partial' \in Seq(Versions)
  BY <1>1 DEF DownloadInv
<1> QED BY <1>1, <1>2, Stops

\* The file is opened to append just when the hasher was fed what it holds.
LEMMA OpenKeeps ==
    ASSUME DownloadInv, NEW l \in Loaders, Open(l)
    PROVE  DownloadInv'
<1>1. /\ fetch[l].pc = "write" /\ partial' = Opened(l)
      /\ UNCHANGED <<pin, served, final, lockHolder>>
  BY DEF Open
<1>2. fetch[l].pc \in Working
  BY <1>1 DEF Working
<1>3. PICK g : g = fetch[l]
  OBVIOUS
<1>4. PICK f : f = [g EXCEPT !.pc = "stream"]
  OBVIOUS
<1>5. fetch' = [fetch EXCEPT ![l] = f]
  BY <1>3, <1>4 DEF Open
<1>6. /\ g \in FetchType /\ Underway(g) /\ g.offset = g.done /\ g.buffer = <<>>
      /\ g.offset > 0 => g.hashed = partial
  BY <1>1, <1>2, <1>3, WorkerHolds DEF InPhase
<1>7. /\ f \in FetchType /\ f.pc = "stream" /\ f.hashed = g.hashed /\ f.buffer = g.buffer
      /\ f.done = g.done /\ f.total = g.total /\ f.rest = g.rest
  BY <1>4, <1>6 DEF FetchType, Working
<1>8. Underway(f)
  BY <1>6, <1>7 DEF Underway
<1>9. partial \in Seq(Versions) /\ g.hashed \in Seq(Versions) /\ g.offset \in Nat
  BY <1>6 DEF DownloadInv, FetchType
<1>10. partial' = g.hashed
  <2>1. CASE g.offset > 0
    BY <1>1, <1>3, <1>6, <2>1 DEF Opened
  <2>2. CASE ~(g.offset > 0)
    <3>1. Len(g.hashed) = 0
      BY <1>6, <1>9, <2>2 DEF Underway
    <3>2. g.hashed = <<>>
      BY <1>9, <3>1
    <3> QED BY <1>1, <1>3, <2>2, <3>2 DEF Opened, Absent
  <2> QED BY <2>1, <2>2
<1>11. g.hashed = g.hashed \o <<>>
  BY <1>9
<1>12. InPhase(f, partial')
  BY <1>6, <1>7, <1>8, <1>10, <1>11 DEF InPhase
<1>13. f.pc \in Working /\ partial' \in Seq(Versions)
  BY <1>7, <1>9, <1>10 DEF Working
<1> QED BY <1>1, <1>2, <1>5, <1>7, <1>12, <1>13, GoesOn

\* A writer may hold a chunk back, and the file ends the same.
LEMMA FlushedLater ==
    ASSUME NEW S, NEW s \in Seq(S), NEW t \in Seq(S), NEW u \in Seq(S)
    PROVE  (s \o t) \o u = s \o (t \o u)
BY ConcatAssociative

\* A chunk goes to the hasher and the buffer, the buffer to the file before it.
LEMMA ReceiveKeeps ==
    ASSUME DownloadInv, NEW l \in Loaders, Receive(l)
    PROVE  DownloadInv'
<1>1. /\ fetch[l].pc = "stream" /\ fetch[l].rest # <<>>
      /\ UNCHANGED <<pin, served, final, lockHolder>>
  BY DEF Receive
<1>2. fetch[l].pc \in Working
  BY <1>1 DEF Working
<1>3. PICK g, chunk : g = fetch[l] /\ chunk = <<Head(g.rest)>>
  OBVIOUS
<1>4. PICK rest, hashed, done : rest = Tail(g.rest) /\ hashed = g.hashed \o chunk /\ done = g.done + 1
  OBVIOUS
<1>5. PICK next : next = [g EXCEPT !.rest = rest, !.hashed = hashed, !.done = done]
  OBVIOUS
<1>6. \/ fetch' = [fetch EXCEPT ![l] = [next EXCEPT !.buffer = @ \o chunk]] /\ partial' = partial
      \/ /\ fetch' = [fetch EXCEPT ![l] = [next EXCEPT !.buffer = chunk]]
         /\ partial' = partial \o g.buffer
  BY <1>3, <1>4, <1>5 DEF Receive
<1>7. /\ g \in FetchType /\ Underway(g) /\ g.hashed = partial \o g.buffer /\ g.pc = "stream"
      /\ partial \in Seq(Versions) /\ g.rest # <<>>
  BY <1>1, <1>2, <1>3, WorkerHolds DEF InPhase, DownloadInv
<1>8. /\ g.rest \in Seq(Versions) /\ g.hashed \in Seq(Versions) /\ g.buffer \in Seq(Versions)
      /\ g.done \in Nat /\ g.total \in Nat /\ g.offset \in Nat /\ g.restarted \in BOOLEAN
  BY <1>7 DEF FetchType
<1>9. /\ chunk \in Seq(Versions) /\ Len(chunk) = 1
      /\ rest \in Seq(Versions) /\ Len(rest) = Len(g.rest) - 1
  BY <1>3, <1>4, <1>7, <1>8
<1>10. hashed \in Seq(Versions) /\ Len(hashed) = Len(g.hashed) + 1 /\ done \in Nat
  <2>1. /\ g.hashed \o chunk \in Seq(Versions)
        /\ Len(g.hashed \o chunk) = Len(g.hashed) + Len(chunk)
    BY <1>8, <1>9, ConcatProperties
  <2> QED BY <1>4, <1>8, <1>9, <2>1
<1>11. /\ next = [pc |-> "stream", offset |-> g.offset, hashed |-> hashed,
                  restarted |-> g.restarted, buffer |-> g.buffer, rest |-> rest,
                  total |-> g.total, done |-> done]
  BY <1>5, <1>7 DEF FetchType
<1>12. done = Len(hashed) /\ g.total = FileLen /\ done + Len(rest) = FileLen
  <2>1. PICK n, m, k : n = Len(g.hashed) /\ m = Len(g.rest) /\ k = Len(rest)
    OBVIOUS
  <2>2. n \in Nat /\ m \in Nat /\ k \in Nat /\ k = m - 1
    BY <1>8, <1>9, <2>1
  <2>3. g.done = n /\ g.total = FileLen /\ g.done + m = FileLen
    BY <1>7, <2>1 DEF Underway
  <2>4. done = n + 1 /\ done + k = FileLen
    BY <1>4, <2>2, <2>3, DownloadAssumption
  <2> QED BY <1>10, <2>1, <2>3, <2>4
<1>13. ASSUME NEW buffer \in Seq(Versions), fetch' = [fetch EXCEPT ![l] = [next EXCEPT !.buffer = buffer]],
              partial' \in Seq(Versions), hashed = partial' \o buffer
       PROVE  DownloadInv'
  <2>1. PICK f : f = [next EXCEPT !.buffer = buffer]
    OBVIOUS
  <2>2. f = [pc |-> "stream", offset |-> g.offset, hashed |-> hashed,
             restarted |-> g.restarted, buffer |-> buffer, rest |-> rest,
             total |-> g.total, done |-> done]
    BY <1>11, <2>1
  <2>3. /\ f \in FetchType /\ f.pc = "stream" /\ f.hashed = hashed /\ f.buffer = buffer
        /\ f.done = done /\ f.total = g.total /\ f.rest = rest
    BY <1>8, <1>9, <1>10, <2>2 DEF FetchType, Working
  <2>4. InPhase(f, partial')
    BY <1>12, <1>13, <2>3 DEF InPhase, Underway
  <2>5. f.pc \in Working /\ fetch' = [fetch EXCEPT ![l] = f]
    BY <1>13, <2>1, <2>3 DEF Working
  <2> QED BY <1>1, <1>2, <1>13, <2>3, <2>4, <2>5, GoesOn
<1>14. CASE /\ fetch' = [fetch EXCEPT ![l] = [next EXCEPT !.buffer = @ \o chunk]]
            /\ partial' = partial
  <2>1. PICK buffer : buffer = g.buffer \o chunk
    OBVIOUS
  <2>2. next.buffer = g.buffer
    BY <1>11
  <2>3. fetch' = [fetch EXCEPT ![l] = [next EXCEPT !.buffer = buffer]]
    BY <1>14, <2>1, <2>2
  <2>4. buffer \in Seq(Versions)
    BY <1>8, <1>9, <2>1
  <2>5. hashed = partial \o buffer
    <3>1. partial \in Seq(Versions) /\ g.buffer \in Seq(Versions) /\ chunk \in Seq(Versions)
      BY <1>7, <1>8, <1>9
    <3>2. PICK p, b : p = partial /\ b = g.buffer
      OBVIOUS
    <3>3. p \in Seq(Versions) /\ b \in Seq(Versions) /\ chunk \in Seq(Versions)
      BY <3>1, <3>2
    <3>4. (p \o b) \o chunk = p \o (b \o chunk)
      BY <3>3, FlushedLater
    <3> QED BY <1>4, <1>7, <2>1, <3>2, <3>4
  <2> QED BY <1>7, <1>13, <1>14, <2>3, <2>4, <2>5
<1>15. CASE /\ fetch' = [fetch EXCEPT ![l] = [next EXCEPT !.buffer = chunk]]
            /\ partial' = partial \o g.buffer
  <2>1. partial' \in Seq(Versions)
    BY <1>7, <1>8, <1>15
  <2>2. hashed = partial' \o chunk
    BY <1>4, <1>7, <1>15
  <2> QED BY <1>9, <1>13, <1>15, <2>1, <2>2
<1> QED BY <1>6, <1>14, <1>15

\* A body cut short is flushed and left to a later resume.
LEMMA CutKeeps ==
    ASSUME DownloadInv, NEW l \in Loaders, Cut(l)
    PROVE  DownloadInv'
<1>1. /\ fetch[l].pc = "stream" /\ Returns(l, "failed") /\ Unlocked(l)
      /\ UNCHANGED <<pin, served, final>> /\ partial' = partial \o fetch[l].buffer
  BY DEF Cut
<1>2. fetch[l].pc \in Working
  BY <1>1 DEF Working
<1>3. PICK b : b = fetch[l].buffer
  OBVIOUS
<1>4. b \in Seq(Versions) /\ partial \in Seq(Versions)
  BY <1>2, <1>3, WorkerHolds DEF FetchType, DownloadInv
<1>5. partial \o b \in Seq(Versions)
  BY <1>4, ConcatProperties
<1>6. partial' \in Seq(Versions)
  BY <1>1, <1>3, <1>5
<1> QED BY <1>1, <1>2, <1>6, Stops

\* What is renamed has the announced length, and the digest was taken over it.
LEMMA FinishKeeps ==
    ASSUME DownloadInv, NEW l \in Loaders, Finish(l)
    PROVE  DownloadInv' /\ final = Absent
<1>1. PICK g, written : g = fetch[l] /\ written = partial \o g.buffer
  OBVIOUS
<1>2. PICK short, wrong : /\ short = (g.done # g.total)
                          /\ wrong = (pin # Unpinned /\ g.hashed # Content(pin))
  OBVIOUS
<1>3. /\ g.pc = "stream" /\ g.rest = <<>> /\ Unlocked(l) /\ UNCHANGED <<pin, served>>
      /\ partial' = IF short THEN written ELSE Absent
      /\ final' = IF short \/ wrong THEN final ELSE written
      /\ Returns(l, IF short \/ wrong THEN "failed" ELSE "ok")
  BY <1>1, <1>2 DEF Finish
<1>4. fetch[l].pc \in Working
  BY <1>1, <1>3 DEF Working
<1>5. /\ lockHolder = l /\ final = Absent
      /\ g \in FetchType /\ Underway(g) /\ g.hashed = written
  BY <1>1, <1>3, <1>4, WorkerHolds DEF InPhase
<1>6. /\ g.buffer \in Seq(Versions) /\ g.hashed \in Seq(Versions) /\ partial \in Seq(Versions)
      /\ g.done \in Nat
  BY <1>5 DEF FetchType, DownloadInv
<1>7. written \in Seq(Versions) /\ Len(written) = FileLen
  <2>1. g.done = Len(g.hashed) /\ g.done + Len(<<>>) = FileLen
    BY <1>3, <1>5 DEF Underway
  <2>2. g.done = FileLen
    BY <1>6, <2>1
  <2> QED BY <1>5, <1>6, <2>1, <2>2
<1>8. partial' \in Seq(Versions)
  <2>1. <<>> \in Seq(Versions)
    OBVIOUS
  <2> QED BY <1>3, <1>7, <2>1 DEF Absent
<1>9. FinalIsVerified'
  <2>1. CASE short \/ wrong
    BY <1>3, <1>5, <2>1 DEF FinalIsVerified
  <2>2. CASE ~(short \/ wrong)
    <3>1. final' = written /\ pin' = pin
      BY <1>3, <2>2
    <3>2. pin # Unpinned => written = Content(pin)
      BY <1>2, <1>5, <2>2
    <3>3. Content(pin)' = Content(pin)
      BY <3>1 DEF Content
    <3> QED BY <1>7, <3>1, <3>2, <3>3 DEF FinalIsVerified
  <2> QED BY <2>1, <2>2
<1>10. PICK how \in {"ok", "failed"} : Returns(l, how)
  BY <1>3
<1>11. DownloadInv'
  BY <1>3, <1>5, <1>8, <1>9, <1>10, Returning
<1> QED BY <1>5, <1>11

\* The lock goes with the process, and with it all that was not on disk.
LEMMA CrashKeeps ==
    ASSUME DownloadInv, NEW l \in Loaders, Crash(l)
    PROVE  DownloadInv'
<1>1. Returns(l, "idle") /\ Unlocked(l) /\ UNCHANGED <<pin, served, final, partial>>
  BY DEF Crash
<1>2. partial' \in Seq(Versions) /\ FinalIsVerified'
  BY <1>1 DEF DownloadInv, FinalIsVerified
<1> QED BY <1>1, <1>2, Returning

\* What the server has now is told by no file on disk.
LEMMA PublishKeeps ==
    ASSUME DownloadInv, Publish
    PROVE  DownloadInv'
<1>1. served' \in Versions /\ UNCHANGED <<pin, final, partial, lockHolder, fetch>>
  BY DEF Publish
<1> QED BY <1>1 DEF DownloadInv, LockedAtWork, FinalIsVerified

\* Nobody loads, and there is no file.
LEMMA DownloadStarts ==
    ASSUME DownloadInit
    PROVE  DownloadInv
<1>1. PICK f : f = [Idle EXCEPT !.pc = "idle"]
  OBVIOUS
<1>2. f \in FetchType /\ f.pc = "idle" /\ \A file : InPhase(f, file)
  BY <1>1, RestingHoldsNothing
<1>3. f = Idle
  BY <1>1 DEF Idle
<1>4. /\ fetch \in [Loaders -> FetchType]
      /\ \A l \in Loaders : fetch[l] = f
  BY <1>2, <1>3 DEF DownloadInit
<1>5. \A l \in Loaders : fetch[l].pc \notin Working /\ InPhase(fetch[l], partial)
  BY <1>2, <1>4 DEF Working
<1>6. final = Absent /\ partial = <<>> /\ lockHolder = NoLoader /\ served \in Versions
  BY DEF DownloadInit, Absent
<1>7. partial \in Seq(Versions)
  BY <1>6
<1>8. LockedAtWork
  BY <1>5, <1>6, DownloadAssumption DEF LockedAtWork
<1>9. FinalIsVerified
  BY <1>6 DEF FinalIsVerified
<1> QED BY <1>4, <1>5, <1>6, <1>7, <1>8, <1>9 DEF DownloadInv

\* Every step of a loader, a crash and a new version keep it.
LEMMA DownloadStep ==
    ASSUME DownloadInv, [DownloadNext]_downloadVars
    PROVE  DownloadInv' /\ (final # Absent => final' = final)
<1>1. ASSUME NEW l \in Loaders, Begin(l)
      PROVE  DownloadInv' /\ final' = final
  BY <1>1, BeginKeeps DEF Begin
<1>2. ASSUME NEW l \in Loaders, Lock(l)
      PROVE  DownloadInv' /\ final' = final
  BY <1>2, LockKeeps DEF Lock
<1>3. ASSUME NEW l \in Loaders, AnswerAsked(l) \/ AnswerWhole(l)
      PROVE  DownloadInv' /\ final' = final
  BY <1>3, AnswerKeeps DEF AnswerAsked, AnswerWhole
<1>4. ASSUME NEW l \in Loaders, AnswerUnusable(l)
      PROVE  DownloadInv' /\ final' = final
  BY <1>4, UnusableKeeps DEF AnswerUnusable
<1>5. ASSUME NEW l \in Loaders, AnswerError(l)
      PROVE  DownloadInv' /\ final' = final
  BY <1>5, ErrorKeeps DEF AnswerError
<1>6. ASSUME NEW l \in Loaders, Open(l)
      PROVE  DownloadInv' /\ final' = final
  BY <1>6, OpenKeeps DEF Open
<1>7. ASSUME NEW l \in Loaders, Receive(l)
      PROVE  DownloadInv' /\ final' = final
  BY <1>7, ReceiveKeeps DEF Receive
<1>8. ASSUME NEW l \in Loaders, Cut(l)
      PROVE  DownloadInv' /\ final' = final
  BY <1>8, CutKeeps DEF Cut
<1>9. ASSUME NEW l \in Loaders, Finish(l)
      PROVE  DownloadInv' /\ final = Absent
  BY <1>9, FinishKeeps
<1>10. ASSUME NEW l \in Loaders, Crash(l)
       PROVE  DownloadInv' /\ final' = final
  BY <1>10, CrashKeeps DEF Crash
<1>11. CASE Publish
  BY <1>11, PublishKeeps DEF Publish
<1>12. CASE UNCHANGED downloadVars
  BY <1>12 DEF downloadVars, DownloadInv, LockedAtWork, FinalIsVerified
<1> QED BY <1>1, <1>2, <1>3, <1>4, <1>5, <1>6, <1>7, <1>8, <1>9, <1>10, <1>11, <1>12
        DEF DownloadNext

\* What a run checks of it.
LEMMA DownloadShows ==
    DownloadInv => FinalIsVerified /\ HashFollowsFile
BY DEF DownloadInv, InPhase, HashFollowsFile

\* ensure_downloaded: a model file with a digest is what the digest is of,
\* the digest is taken over what the file holds, and a file in use is never
\* replaced, for any number of loaders, versions, crashes and attempts.
THEOREM FileAlwaysSafe == DownloadSpec => ModelFileSafe
<1>1. DownloadInit => DownloadInv
  BY DownloadStarts
<1>2. DownloadInv /\ [DownloadNext]_downloadVars
      => DownloadInv' /\ [final # Absent => final' = final]_downloadVars
  BY DownloadStep
<1>3. DownloadInv => FinalIsVerified /\ HashFollowsFile
  BY DownloadShows
<1> QED BY <1>1, <1>2, <1>3, PTL DEF DownloadSpec, ModelFileSafe, FinalStays

=============================================================================
