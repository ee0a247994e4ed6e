---------------------------- MODULE ExpertTiers ----------------------------
(***************************************************************************)
(* One layer's experts under ExpertPlacement::Tiered: the RAM tier and its *)
(* loader threads (Pass, ExpertStore and SlotTable of                      *)
(* src/provider/local/model/tier.rs) and, on a GPU, the device tier above  *)
(* it (TieredBank of model/gpu.rs).  A table is the sequence of its        *)
(* experts, least recently used first.                                     *)
(***************************************************************************)
EXTENDS Naturals, FiniteSets, SequencesExt

CONSTANTS Experts,        \* 0 .. n_expert - 1
          TierSetups,     \* [ram, device]: slots of each tier, 0 for none
          LoaderThreads,
          HeatDecayRows,
          Routings,       \* [needed, rows]: the experts a pass needs
          WarmHeats,      \* heat a session may start from
          MaxPasses

VARIABLES tier,     \* slots of each tier
          ram,      \* SlotTable of the RAM tier
          device,   \* [table, free]: expert and slot pairs, and free slots
          heat,     \* LayerHeat
          pass,     \* the layer pass under way
          stats,    \* TierShared's counters
          passes

tierVars == <<tier, ram, device, heat, pass, stats, passes>>

MaxInFlight == 2 * LoaderThreads
Ascending(S) == SetToSortSeq(S, <)
Without(s, e) == SelectSeq(s, LAMBDA x : x # e)
DeviceExperts == {device.table[i].e : i \in DOMAIN device.table}

NoPass == [pc |-> "idle", want |-> {}, later |-> <<>>, pending |-> <<>>, flying |-> <<>>,
           ready |-> {}, group |-> {}, todo |-> <<>>, done |-> <<>>, needed |-> {}]

NoStats == [lookups |-> 0, deviceHits |-> 0, ramHits |-> 0, reads |-> 0, warmed |-> 0,
            ramHeld |-> 0, deviceHeld |-> 0, failed |-> 0]

\* The hottest experts, at most n after the first skip; never a cold one.
Ranked(h, skip, n) ==
    LET order == SetToSortSeq({e \in Experts : h[e] > 0},
                              LAMBDA a, b : h[a] > h[b] \/ (h[a] = h[b] /\ a < b))
        last == IF skip + n < Len(order) THEN skip + n ELSE Len(order)
    IN  SubSeq(order, skip + 1, last)

\* A session starts cold, or warm from an earlier session's heat.
Init ==
    \E t \in TierSetups, warm \in WarmHeats :
        LET onDevice == Ranked(warm, 0, t.device)
            inRam == Ranked(warm, t.device, t.ram)
            n == Len(onDevice)
        IN  /\ tier = t
            /\ heat = [counts |-> warm, rows |-> 0]
            /\ ram = inRam
            /\ device = [table |-> [i \in 1 .. n |-> [e |-> onDevice[i], slot |-> i]],
                         free |-> [i \in 1 .. t.device - n |-> t.device + 1 - i]]
            /\ stats = [NoStats EXCEPT !.warmed = n + Len(inRam),
                           !.reads = n + Len(inRam), !.ramHeld = Len(inRam), !.deviceHeld = n]
            /\ pass = NoPass
            /\ passes = 0

-----------------------------------------------------------------------------

\* The coldest, then least recent, expert not needed later; else the one
\* needed farthest ahead.
Victim(table, later) ==
    LET idle == {i \in DOMAIN table : table[i] \notin later}
        colder(i, j) == \/ heat.counts[table[i]] < heat.counts[table[j]]
                        \/ heat.counts[table[i]] = heat.counts[table[j]] /\ i <= j
    IN  IF idle # {} THEN table[CHOOSE i \in idle : \A j \in idle : colder(i, j)]
        ELSE Max({table[i] : i \in DOMAIN table})

SlotsTaken(s) == Len(s.ram) + Len(s.flying)

\* Slip: the resident bytes are not given back.
EvictUncounted(s, victim) == [s EXCEPT !.ram = Without(@, victim)]

Evict(s, victim) == [EvictUncounted(s, victim) EXCEPT !.held = @ - 1]

\* One turn of Pass::issue's loop: request the first pending expert if the
\* table and the reads in flight leave, or can be made to leave, a slot.
IssueOne(s, later) ==
    LET next == Head(s.pending)
        victim == Victim(s.ram, later)
        requested == [s EXCEPT !.pending = Tail(@), !.flying = Append(@, next)]
    IN  IF s.pending = <<>> \/ Len(s.flying) >= MaxInFlight THEN s
        ELSE IF tier.ram = 0
        THEN IF Len(s.flying) < LoaderThreads THEN requested ELSE s
        ELSE IF SlotsTaken(s) < tier.ram THEN requested
        ELSE IF s.ram = <<>> \/ (victim \in later /\ victim < next) THEN s
        ELSE [Evict(requested, victim) EXCEPT
                 !.pending = IF victim \in later
                             THEN Ascending(ToSet(@) \cup {victim}) ELSE @]

Issue(s, later) ==
    FoldLeft(LAMBDA acc, i : IssueOne(acc, later), s, [i \in 1 .. MaxInFlight |-> i])

Apply(p, s) ==
    /\ ram' = s.ram
    /\ pass' = [p EXCEPT !.pending = s.pending, !.flying = s.flying]

-----------------------------------------------------------------------------
Decayed(counts, rows) ==
    IF rows >= HeatDecayRows
    THEN [counts |-> [e \in Experts |-> counts[e] \div 2], rows |-> 0]
    ELSE [counts |-> counts, rows |-> rows]

\* The router's picks: heat, then the lookups, then the first reads.
Route(r) ==
    /\ pass.pc = "idle" /\ passes < MaxPasses
    /\ heat' = Decayed([e \in Experts |-> heat.counts[e] + IF e \in r.needed THEN 1 ELSE 0],
                       heat.rows + r.rows)
    /\ LET missing == Ascending(r.needed \ DeviceExperts)
           absent == SelectSeq(missing, LAMBDA e : e \notin ToSet(ram))
           s == Issue([ram |-> ram, pending |-> absent, flying |-> <<>>, held |-> stats.ramHeld],
                      ToSet(missing))
       IN  /\ Apply([NoPass EXCEPT !.pc = "group", !.want = r.needed, !.needed = r.needed,
                        !.later = missing], s)
           /\ stats' = [stats EXCEPT !.lookups = @ + Cardinality(r.needed), !.ramHeld = s.held,
                           !.deviceHits = @ + Cardinality(r.needed) - Len(missing)]
    /\ passes' = passes + 1
    /\ UNCHANGED <<tier, device>>

\* Slip: the hits keep their slots too.
RoomBesides(hits) == tier.device

Room(hits) == IF tier.device = 0 THEN 1 ELSE tier.device - Cardinality(hits)

\* Without a device tier the experts come one by one.  With one, a group is
\* the hits and as many misses as the pool has room for.
Group ==
    /\ pass.pc = "group" /\ pass.want # {}
    /\ LET hits == pass.want \cap DeviceExperts
           misses == Ascending(pass.want \ DeviceExperts)
           new == SubSeq(misses, 1, Min({Room(hits), Len(misses)}))
       IN  pass' = [pass EXCEPT !.group = hits \cup ToSet(new), !.todo = new, !.pc = "next"]
    /\ UNCHANGED <<tier, ram, device, heat, stats, passes>>

\* Pass::next: a resident expert is used; else its read is in flight, or is
\* put first and requested.
NextExpert ==
    /\ pass.pc = "next" /\ pass.todo # <<>>
    /\ LET e == Head(pass.todo)
           later == Tail(pass.later)
           s == [ram |-> ram, pending |-> pass.pending, flying |-> pass.flying,
                 held |-> stats.ramHeld]
           hit == Issue([s EXCEPT !.ram = Append(Without(ram, e), e)], ToSet(later))
           first == Issue([s EXCEPT !.pending = <<e>> \o Without(@, e)], ToSet(later))
       IN  IF e \in ToSet(ram)
           THEN /\ Apply([pass EXCEPT !.later = later, !.pc = "got"], hit)
                /\ stats' = [stats EXCEPT !.ramHits = @ + 1, !.ramHeld = hit.held]
           ELSE IF e \in ToSet(pass.flying)
           THEN /\ pass' = [pass EXCEPT !.later = later, !.pc = "await"]
                /\ UNCHANGED <<ram, stats>>
           ELSE /\ Apply([pass EXCEPT !.later = later,
                             !.pc = IF e \in ToSet(first.flying) THEN "await" ELSE "stuck"], first)
                /\ stats' = [stats EXCEPT !.ramHeld = first.held]
    /\ UNCHANGED <<tier, device, heat, passes>>

\* A loader thread answers one of the oldest requests, out of order.
LoaderReads ==
    /\ \E i \in DOMAIN pass.flying :
          LET e == pass.flying[i]
              older == {j \in 1 .. i - 1 : pass.flying[j] \notin pass.ready}
          IN  /\ e \notin pass.ready
              /\ Cardinality(older) < LoaderThreads
              /\ pass' = [pass EXCEPT !.ready = @ \cup {e}]
    /\ UNCHANGED <<tier, ram, device, heat, stats, passes>>

Receive ==
    /\ pass.pc = "await" /\ Head(pass.todo) \in pass.ready
    /\ LET e == Head(pass.todo)
           s == Issue([ram |-> IF tier.ram > 0 THEN Append(ram, e) ELSE ram,
                       pending |-> pass.pending, flying |-> Without(pass.flying, e),
                       held |-> stats.ramHeld + IF tier.ram > 0 THEN 1 ELSE 0],
                      ToSet(pass.later))
       IN  /\ Apply([pass EXCEPT !.ready = @ \ {e}, !.pc = "got"], s)
           /\ stats' = [stats EXCEPT !.reads = @ + 1, !.ramHeld = s.held]
    /\ UNCHANGED <<tier, device, heat, passes>>

\* The read or the build failed: the whole pass does, its reads abandoned.
ReceiveFailed ==
    /\ pass.pc = "await" /\ Head(pass.todo) \in pass.ready
    /\ pass' = NoPass
    /\ stats' = [stats EXCEPT !.failed = @ + 1]
    /\ UNCHANGED <<tier, ram, device, heat, passes>>

\* Slip: only what is still to load is kept.
KeptLoading == ToSet(pass.todo)

Kept == pass.group

\* A free slot, else the one of a victim outside the group.
TakeSlot ==
    /\ pass.pc = "got" /\ tier.device > 0
    /\ LET e == Head(pass.todo)
           order == [i \in DOMAIN device.table |-> device.table[i].e]
           victim == Victim(order, Kept)
           at == CHOOSE i \in DOMAIN order : order[i] = victim
           slot == IF device.free # <<>> THEN Last(device.free) ELSE device.table[at].slot
       IN  IF device.free = <<>> /\ victim \in Kept
           THEN /\ pass' = [pass EXCEPT !.pc = "stuck"]
                /\ UNCHANGED <<device, stats>>
           ELSE /\ device' =
                      [free |-> IF device.free = <<>> THEN <<>> ELSE Front(device.free),
                       table |-> Append(IF device.free # <<>> THEN device.table
                                        ELSE RemoveAt(device.table, at),
                                        [e |-> e, slot |-> slot])]
                /\ pass' = [pass EXCEPT !.todo = Tail(@), !.pc = "next"]
                /\ stats' = [stats EXCEPT !.deviceHeld = @ + IF device.free = <<>> THEN 0 ELSE 1]
    /\ UNCHANGED <<tier, ram, heat, passes>>

HandOver ==
    /\ pass.pc = "got" /\ tier.device = 0
    /\ pass' = [pass EXCEPT !.todo = Tail(@), !.pc = "next"]
    /\ UNCHANGED <<tier, ram, device, heat, stats, passes>>

\* The group's kernels run over the slots the table gives, in expert order.
Compute ==
    /\ pass.pc = "next" /\ pass.todo = <<>>
    /\ LET here == IF tier.device = 0 THEN pass.group ELSE pass.group \cap DeviceExperts
           left == pass.want \ pass.group
           used == Ascending(here)
           touched == SelectSeq(device.table, LAMBDA d : d.e \in here)
           other == SelectSeq(device.table, LAMBDA d : d.e \notin here)
       IN  /\ pass' = IF left = {} THEN [NoPass EXCEPT !.done = pass.done \o used,
                                                       !.needed = pass.needed]
                      ELSE [pass EXCEPT !.pc = "group", !.want = left,
                                        !.done = @ \o used]
           /\ device' = [device EXCEPT !.table =
                            other \o SortSeq(touched, LAMBDA a, b : a.e < b.e)]
    /\ UNCHANGED <<tier, ram, heat, stats, passes>>

Next == \/ \E r \in Routings : Route(r)
        \/ Group \/ NextExpert \/ LoaderReads \/ Receive \/ ReceiveFailed
        \/ TakeSlot \/ HandOver \/ Compute

Spec == Init /\ [][Next]_tierVars

\* The loader threads read what they were asked, and the engine goes on.
FairSpec == Spec /\ WF_tierVars(LoaderReads)
                 /\ WF_tierVars(Group \/ NextExpert \/ Receive \/ TakeSlot \/ HandOver \/ Compute)

-----------------------------------------------------------------------------
\* A tier holds no more than its slots, reads in flight counted; no two
\* experts share a device slot, and no slot is both free and held.
TiersWithinSlots ==
    /\ tier.ram > 0 => Len(ram) + Len(pass.flying) <= tier.ram
    /\ LET held == [i \in DOMAIN device.table |-> device.table[i].slot] \o device.free
       IN  ToSet(held) = 1 .. tier.device /\ Len(held) = tier.device

\* Every expert of a layer is computed exactly once, its group's tokens never
\* skipping one whose slot was taken meanwhile; a pass asks for the experts
\* in the order it announced, and never finds the one it is at neither in a
\* tier nor requested, nor a group without a slot for one of its own.
EachExpertOnce ==
    /\ pass.pc # "stuck"
    /\ (pass.pc = "next" /\ pass.todo # <<>>) => Head(pass.todo) = Head(pass.later)
    /\ (pass.pc = "idle" /\ pass.needed # {}) =>
          Len(pass.done) = Cardinality(pass.needed) /\ ToSet(pass.done) = pass.needed

\* The gauges are what the tables hold, and every lookup is a hit or a read.
StatsAddUp ==
    /\ stats.ramHeld = Len(ram)
    /\ stats.deviceHeld = Len(device.table)
    /\ (pass.pc = "idle" /\ stats.failed = 0) =>
          stats.lookups + stats.warmed = stats.deviceHits + stats.ramHits + stats.reads

\* A pass ends.
PassesEnd == pass.pc # "idle" ~> pass.pc = "idle"
=============================================================================
