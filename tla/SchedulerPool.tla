--------------------------- MODULE SchedulerPool ---------------------------
(***************************************************************************)
(* The schedulers of one pool (services/scheduler/queue.rs): every backend *)
(* queues its calls under a lock of its own, a call's future finds its     *)
(* place by scanning the members one lock at a time, dropped futures and   *)
(* slots give their place back, the dispatch gate pauses and withdraws,    *)
(* and rebalance passes (dispatch.rs rebalance, queue.rs move_waiting)     *)
(* carry waiting calls from one backend to another.                        *)
(*                                                                         *)
(* A method that holds a backend's lock and ends in Scheduler::step is     *)
(* modelled by its own action, which opens step[b] (the lock is held),     *)
(* by one StartNext per turn of the loop in Queue::dispatch, and by        *)
(* StepDone, which returns from the method and frees the lock.  Nothing    *)
(* else touches backend b in between.  Time is relative, as in TunerOps.   *)
(***************************************************************************)
EXTENDS TunerOps

-----------------------------------------------------------------------------
(* The dispatch rules as operators: which waiting call is best, which      *)
(* bucket it starts in, and how two backends' loads compare.  A call is    *)
(* its id; ids grow with arrival.                                          *)

Priority == {"low", "medium", "high", "urgent"}
Lane == {"shared", "reserved"}

Minimum(S) == CHOOSE x \in S : \A y \in S : x <= y

\* Queue::best: biggest value, earliest arrival; the empty set is None.
BestOf(S, value) ==
    {i \in S : \A j \in S \ {i} :
                  value[i] > value[j] \/ (value[i] = value[j] /\ i < j)}

\* Queue::next_placement: at most one <<call, bucket>>.  `free` holds the
\* buckets below the level that run nothing.
NextPlacement(eligible, value, lane, free, level, reservedFrom) ==
    LET reserved == {i \in eligible : lane[i] = "reserved"}
        shared == eligible \ reserved
    IN  IF free = {} THEN {}
        ELSE IF level < reservedFrom
        THEN BestOf(eligible, value) \X {Minimum(free)}
        ELSE IF 0 \in free /\ reserved # {}
        THEN BestOf(reserved, value) \X {0}
        ELSE BestOf(shared, value) \X
                 {Minimum(IF free \ {0} # {} THEN free \ {0} ELSE free)}

-----------------------------------------------------------------------------
(* A Load is [calls, level, pace].                                         *)

\* Load::start_ms, and the closure `start` of lowers_the_worst.
StartMs(load) == (load.calls * load.pace) \div load.level

\* The loads after one waiting call moved.
AfterMove(loads, source, target) ==
    [loads EXCEPT ![source].calls = IF @ > 0 THEN @ - 1 ELSE 0,
                  ![target].calls = @ + 1]

Worst(loads) ==
    CHOOSE w \in {StartMs(loads[b]) : b \in DOMAIN loads} :
        \A b \in DOMAIN loads : StartMs(loads[b]) <= w

LowersTheWorst(loads, source, target) ==
    IF loads[target].calls = 0
    THEN loads[source].calls > 0
    ELSE Worst(AfterMove(loads, source, target)) < Worst(loads)

-----------------------------------------------------------------------------
CONSTANTS NumBackends,    \* members of the pool, in the order they joined
          MaxCalls,       \* bound: calls ever enqueued
          Metas,          \* [priority, lane, allowed] a caller may ask for
          InitialValue,   \* Priority::initial_value
          Ceiling,        \* SchedulerConfig::ceiling
          MaxWaiting,     \* SchedulerConfig::max_waiting
          ReservedFrom,   \* SchedulerConfig::reserved_lane_from_level
          Paces,          \* the mean durations a backend may measure
          HoldTicks,      \* lengths a hold on the reserved lane may have
          MaxPauses,      \* bound: how often the gate is paused
          MayGoStale,     \* whether the gate may find a task stale
          MayDrop,        \* whether a caller may drop a future or a slot
          MayFail,        \* whether a call may fail
          Beats           \* the tasks that run rebalance

Backends == 1..NumBackends
Ids == 1..MaxCalls

ASSUME PoolAssumption ==
    /\ NumBackends \in Nat \ {0}
    /\ MaxCalls \in Nat
    /\ Ceiling \in Nat \ {0}
    /\ MaxWaiting \in Nat \ {0}
    /\ ReservedFrom \in Nat \ {0}
    /\ MaxPauses \in Nat
    /\ InitialValue \in [Priority -> Nat]
    /\ Metas \subseteq [priority : Priority, lane : Lane, allowed : SUBSET Backends]
    /\ Metas # {}
    /\ Paces \subseteq Nat \ {0}
    /\ Paces # {}
    /\ HoldTicks \subseteq Nat \ {0}
    /\ Beats \subseteq Nat \ {0}
    /\ {MayGoStale, MayDrop, MayFail} \subseteq BOOLEAN

VARIABLES
    waiting,   \* Queue::waiting of each backend, as ids
    running,   \* Queue::running of each backend, as ids
    runner,    \* the bucket and the level a call started in
    value,     \* Waiter::value
    meta,      \* CallMeta
    tuner,     \* State::tuner
    pace,      \* State::pace
    hold,      \* State::reserved_hold_until, as ticks left, or Elapsed
    step,      \* the method that holds the backend's lock, if one does
    future,    \* await_placement, CallSlot and their Drop, per call
    nextId,    \* NEXT_WAITER
    paused,    \* DispatchGate::paused
    pauses,    \* how often it was paused
    stale,     \* the calls whose task DispatchGate::is_stale
    unsaid,    \* the gate changed and has not called notify_waiters yet
    timers,    \* ticks left before each hold's spawned timer notifies
    beat       \* the rebalance pass of each beat

queueVars == <<waiting, running, runner, value, meta, nextId>>
gateVars == <<paused, pauses, stale, unsaid>>
vars == <<queueVars, tuner, pace, hold, step, future, gateVars, timers, beat>>

NoHold == -2
Elapsed == -1    \* a hold that a reading one tick old finds over, too
NoMeta == CHOOSE m \in Metas : TRUE
NoRunner == [bucket |-> 0, level |-> 0]
Unlocked == [on |-> FALSE, paused |-> FALSE, held |-> FALSE, for |-> 0, notify |-> FALSE]
NoFuture == [pc |-> "none", home |-> 1, at |-> 1, woken |-> FALSE, late |-> FALSE]
NoLoad == [calls |-> 0, level |-> 1, pace |-> 1]
Resting == [pc |-> "rest", live |-> {}, unread |-> {}, budget |-> 0,
            loads |-> [b \in Backends |-> NoLoad],
            sources |-> {}, source |-> 0, target |-> 0, cargo |-> 0]

\* Where a future listens to the notifier it registered with.
Listening == {"place", "placing", "scan", "await"}

Init ==
    /\ waiting = [b \in Backends |-> {}]
    /\ running = [b \in Backends |-> {}]
    /\ runner = [i \in Ids |-> NoRunner]
    /\ value = [i \in Ids |-> 0]
    /\ meta = [i \in Ids |-> NoMeta]
    /\ tuner = [b \in Backends |-> NewTuner(Ceiling)]
    /\ pace \in [Backends -> {CHOOSE p \in Paces : TRUE}]
    /\ hold = [b \in Backends |-> NoHold]
    /\ step = [b \in Backends |-> Unlocked]
    /\ future = [i \in Ids |-> NoFuture]
    /\ nextId = 1
    /\ paused = FALSE
    /\ pauses = 0
    /\ stale = {}
    /\ unsaid = FALSE
    /\ timers = {}
    /\ beat = [k \in Beats |-> Resting]

-----------------------------------------------------------------------------
\* A rebalance pass keeps its source locked until the target took the call.
Free(b) == /\ ~step[b].on
           /\ \A k \in Beats : beat[k].pc \in {"put", "putting"} => beat[k].source # b

Urgent(i) == meta[i].priority = "urgent"

\* Slip: a future that is looking is not registered yet.
WokenAwaiting(f) == [i \in Ids |-> IF f[i].pc = "await" THEN [f[i] EXCEPT !.woken = TRUE]
                                                       ELSE f[i]]

\* Notify::notify_waiters: whoever is registered now wakes.
Woken(f) == [i \in Ids |-> IF f[i].pc \in Listening THEN [f[i] EXCEPT !.woken = TRUE]
                                                   ELSE f[i]]

\* The head of Scheduler::step, with tuner record t and `backlog` calls; the
\* clock was read `late` ticks ago.  The method returns to `for`: a call's
\* future, a beat (negative), or nobody (0).
BeginStep(b, t, backlog, late, for, notify) ==
    LET held == hold[b] # NoHold /\ hold[b] + late > 0
    IN  /\ tuner' = [tuner EXCEPT ![b] = Poll(t, backlog, paused)]
        /\ hold' = [hold EXCEPT ![b] = IF held THEN @ ELSE NoHold]
        /\ step' = [step EXCEPT ![b] = [on |-> TRUE, paused |-> paused, held |-> held,
                                        for |-> for, notify |-> notify]]

\* The closure step hands to dispatch: pause and hold were read once, the
\* gate is asked about staleness every time.
Eligible(b, isPaused, isHeld) ==
    {i \in waiting[b] :
        /\ isPaused => Urgent(i)
        /\ isHeld /\ meta[i].lane = "reserved" => Urgent(i)
        /\ i \notin stale}

\* Slip: the next bucket is the number of running calls.
FreeBucketsByCount(b) ==
    {k \in 0..(tuner[b].level - 1) : k >= Cardinality(running[b])}

FreeBuckets(b) ==
    {k \in 0..(tuner[b].level - 1) : \A i \in running[b] : runner[i].bucket # k}

Placement(b, isPaused, isHeld) ==
    IF Cardinality(running[b]) < tuner[b].level
    THEN NextPlacement(Eligible(b, isPaused, isHeld), value,
                       [i \in Ids |-> meta[i].lane], FreeBuckets(b),
                       tuner[b].level, ReservedFrom)
    ELSE {}

\* One turn of the loop in Queue::dispatch, with the tuner's on_dispatch and
\* the notify_waiters that follow a start.
StartNext(b) ==
    /\ step[b].on
    /\ \E p \in Placement(b, step[b].paused, step[b].held) :
          /\ waiting' = [waiting EXCEPT ![b] = @ \ {p[1]}]
          /\ running' = [running EXCEPT ![b] = @ \cup {p[1]}]
          /\ runner' = [runner EXCEPT ![p[1]] = [bucket |-> p[2], level |-> tuner[b].level]]
          /\ tuner' = [tuner EXCEPT ![b] = OnDispatch(@, p[1])]
          /\ future' = Woken(future)
    /\ UNCHANGED <<value, meta, nextId, pace, hold, step, gateVars, timers, beat>>

\* The future of call i has its CallSlot, which belongs to member b.
Claimed(f, i, b) == [f EXCEPT ![i].pc = "slot", ![i].at = b]

\* What place() answers to the future it was called by, once step is over.
Answered(f, i, b) ==
    CASE f[i].pc = "enter" -> [f EXCEPT ![i].pc = "register"]
      [] f[i].pc = "placing" /\ i \in running[b] -> Claimed(f, i, b)
      [] f[i].pc = "placing" /\ i \notin running[b] -> [f EXCEPT ![i].pc = "await"]

\* A beat's move is over: another one while its budget lasts.
MoveOver(k) ==
    IF beat[k].budget > 1
    THEN [Resting EXCEPT !.pc = "read", !.live = beat[k].live, !.unread = beat[k].live,
                         !.budget = beat[k].budget - 1]
    ELSE Resting

\* Nothing more starts: the method returns.
StepDone(b) ==
    /\ step[b].on
    /\ Placement(b, step[b].paused, step[b].held) = {}
    /\ step' = [step EXCEPT ![b] = Unlocked]
    /\ LET told == IF step[b].notify THEN Woken(future) ELSE future
       IN  future' = IF step[b].for > 0 THEN Answered(told, step[b].for, b) ELSE told
    /\ beat' = IF step[b].for < 0 THEN [beat EXCEPT ![-step[b].for] = MoveOver(-step[b].for)]
                                  ELSE beat
    /\ UNCHANGED <<queueVars, tuner, pace, hold, gateVars, timers>>

-----------------------------------------------------------------------------
(* A call: Scheduler::enqueue, then Scheduler::await_placement.            *)

\* A full queue refuses and changes nothing, so it is no step.
Enqueue(b, m) ==
    LET i == nextId IN
    /\ Free(b)
    /\ nextId \in Ids
    /\ Cardinality(waiting[b]) < MaxWaiting
    /\ nextId' = i + 1
    /\ waiting' = [waiting EXCEPT ![b] = @ \cup {i}]
    /\ value' = [value EXCEPT ![i] = InitialValue[m.priority]]
    /\ meta' = [meta EXCEPT ![i] = m]
    /\ future' = [future EXCEPT ![i] = [NoFuture EXCEPT !.pc = "enter", !.home = b]]
    /\ BeginStep(b, tuner[b], Cardinality(waiting[b]) + 1 + Cardinality(running[b]), 0, i, FALSE)
    /\ UNCHANGED <<running, runner, pace, gateVars, timers, beat>>

\* The top of the loop: listen before looking.
Register(i) ==
    /\ \/ future[i].pc = "register"
       \/ future[i].pc = "await" /\ future[i].woken
    /\ future' = [future EXCEPT ![i].pc = "place", ![i].woken = FALSE, ![i].late = FALSE]
    /\ UNCHANGED <<queueVars, tuner, pace, hold, step, gateVars, timers, beat>>

\* This member does not hold the call: on to the pool's scan, or to its end,
\* where the call is Gone and the future keeps waiting.
NotHere(f) ==
    CASE f.pc = "place" -> [f EXCEPT !.pc = "scan", !.at = 1]
      [] f.pc = "scan" /\ f.at < NumBackends -> [f EXCEPT !.at = @ + 1]
      [] f.pc = "scan" /\ f.at = NumBackends -> [f EXCEPT !.pc = "await"]

\* Queue::withdraw: the call leaves unsent and its future is over.
Withdraw(b, i) ==
    /\ waiting' = [waiting EXCEPT ![b] = @ \ {i}]
    /\ value' = [value EXCEPT ![i] = 0]
    /\ meta' = [meta EXCEPT ![i] = NoMeta]
    /\ future' = [future EXCEPT ![i] = [NoFuture EXCEPT !.pc = "done"]]

\* Scheduler::place on the call's own scheduler, then on each member in turn.
Look(i) ==
    LET f == future[i]
        b == IF f.pc = "place" THEN f.home ELSE f.at
    IN  /\ f.pc \in {"place", "scan"}
        /\ Free(b)
        /\ \/ /\ i \in running[b]
              /\ future' = Claimed(future, i, b)
              /\ UNCHANGED <<waiting, value, meta, tuner, hold, step>>
           \/ /\ i \notin running[b] \cup waiting[b]
              /\ future' = [future EXCEPT ![i] = NotHere(f)]
              /\ UNCHANGED <<waiting, value, meta, tuner, hold, step>>
           \/ /\ i \in waiting[b] \cap stale
              /\ Withdraw(b, i)
              /\ UNCHANGED <<tuner, hold, step>>
           \/ /\ i \in waiting[b] \ stale
              /\ future' = [future EXCEPT ![i].pc = "placing"]
              /\ \E late \in IF f.late THEN {0, 1} ELSE {0} :
                    BeginStep(b, tuner[b], Cardinality(waiting[b]) + Cardinality(running[b]),
                              late, i, FALSE)
              /\ UNCHANGED <<waiting, value, meta>>
        /\ UNCHANGED <<running, runner, nextId, pace, gateVars, timers, beat>>

-----------------------------------------------------------------------------
(* Ends: CallSlot::finish, and the Drop of a slot or of a pending call.    *)

\* Scheduler::finish, under the lock: the bucket is freed, every waiting
\* call ages by one, the tuner is told, and the freed bucket is filled.
Finish(b, i, outcome, accepted) ==
    /\ Free(b)
    /\ i \in running[b]
    /\ running' = [running EXCEPT ![b] = @ \ {i}]
    /\ runner' = [runner EXCEPT ![i] = NoRunner]
    /\ value' = [j \in Ids |-> IF j = i THEN 0
                               ELSE IF j \in waiting[b] THEN value[j] + 1 ELSE value[j]]
    /\ IF outcome = "ok" THEN \E p \in Paces : pace' = [pace EXCEPT ![b] = p]
                         ELSE UNCHANGED pace
    /\ BeginStep(b, OnComplete(tuner[b], i, runner[i].level, outcome, accepted),
                 Cardinality(waiting[b]) + Cardinality(running[b]) - 1, 0, 0, TRUE)
    /\ meta' = [meta EXCEPT ![i] = NoMeta]
    /\ future' = [future EXCEPT ![i] = [NoFuture EXCEPT !.pc = "done"]]
    /\ UNCHANGED <<waiting, nextId, gateVars, timers, beat>>

\* A slot is finished, or dropped unreported.
EndSlot(i, outcome, accepted) ==
    /\ future[i].pc = "slot"
    /\ outcome = "cancelled" => MayDrop
    /\ outcome = "failed" => MayFail
    /\ Finish(future[i].at, i, outcome, accepted)

\* A future is dropped where it is suspended.
DropPending(i) ==
    /\ MayDrop
    /\ future[i].pc = "await"
    /\ future' = [future EXCEPT ![i].pc = "dropHome"]
    /\ UNCHANGED <<queueVars, tuner, pace, hold, step, gateVars, timers, beat>>

\* PendingCall::drop: Scheduler::abandon on its own scheduler, then on each
\* member in turn until one held the call.
Abandon(i) ==
    LET f == future[i]
        b == IF f.pc = "dropHome" THEN f.home ELSE f.at
    IN  /\ f.pc \in {"dropHome", "dropScan"}
        /\ Free(b)
        /\ \/ /\ i \in waiting[b]
              /\ Withdraw(b, i)
           \/ /\ i \in running[b]
              /\ future' = [future EXCEPT ![i].pc = "dropFinish", ![i].at = b]
              /\ UNCHANGED <<waiting, value, meta>>
           \/ /\ i \notin waiting[b] \cup running[b]
              /\ future' = [future EXCEPT ![i] =
                    IF f.pc = "dropHome" THEN [f EXCEPT !.pc = "dropScan", !.at = 1]
                    ELSE IF f.at < NumBackends THEN [f EXCEPT !.at = @ + 1]
                    ELSE [NoFuture EXCEPT !.pc = "done"]]
              /\ UNCHANGED <<waiting, value, meta>>
        /\ UNCHANGED <<running, runner, nextId, tuner, pace, hold, step,
                       gateVars, timers, beat>>

\* abandon() found the call running, released the lock and finishes it.
FinishAbandoned(i, accepted) ==
    /\ future[i].pc = "dropFinish"
    /\ Finish(future[i].at, i, "cancelled", accepted)

-----------------------------------------------------------------------------
(* The gate, which the caller owns, and the hold on the reserved lane.     *)

SetPaused(v) ==
    /\ paused # v
    /\ v => pauses < MaxPauses
    /\ paused' = v
    /\ pauses' = IF v THEN pauses + 1 ELSE pauses
    /\ unsaid' = TRUE
    /\ UNCHANGED <<queueVars, tuner, pace, hold, step, future, stale, timers, beat>>

GoStale(i) ==
    /\ MayGoStale
    /\ future[i].pc \notin {"none", "done"}
    /\ i \notin stale
    /\ stale' = stale \cup {i}
    /\ unsaid' = TRUE
    /\ UNCHANGED <<queueVars, tuner, pace, hold, step, future, paused, pauses, timers, beat>>

\* "A caller that changes the gate's state calls wake().notify_waiters()."
GateNotify ==
    /\ unsaid
    /\ unsaid' = FALSE
    /\ future' = Woken(future)
    /\ UNCHANGED <<queueVars, tuner, pace, hold, step, paused, pauses, stale, timers, beat>>

\* Slip: no timer is spawned, so nobody wakes when the hold ends.
HoldReservedUntimed(b, ticks) ==
    /\ Free(b)
    /\ hold' = [hold EXCEPT ![b] = ticks]
    /\ UNCHANGED <<queueVars, tuner, pace, step, future, gateVars, timers, beat>>

HoldReserved(b, ticks) ==
    /\ Free(b)
    /\ hold' = [hold EXCEPT ![b] = ticks]
    /\ timers' = timers \cup {ticks}
    /\ UNCHANGED <<queueVars, tuner, pace, step, future, gateVars, beat>>

ClearReservedHold(b) ==
    /\ Free(b)
    /\ hold[b] # NoHold
    /\ tuner' = [tuner EXCEPT ![b] = Poll(@, Cardinality(waiting[b]) + Cardinality(running[b]),
                                          paused)]
    /\ hold' = [hold EXCEPT ![b] = NoHold]
    /\ step' = [step EXCEPT ![b] = [on |-> TRUE, paused |-> paused, held |-> FALSE,
                                    for |-> 0, notify |-> TRUE]]
    /\ UNCHANGED <<queueVars, pace, future, gateVars, timers, beat>>

\* A hold's timer comes due and notifies.
TimerFires ==
    /\ 0 \in timers
    /\ timers' = timers \ {0}
    /\ future' = Woken(future)
    /\ UNCHANGED <<queueVars, tuner, pace, hold, step, gateVars, beat>>

OneLess(n) == IF n > 0 THEN n - 1 ELSE n
HoldLess(n) == IF n > Elapsed THEN n - 1 ELSE n

\* The clock, which a future may have read before this.
Tick ==
    /\ \/ \E b \in Backends : (tuner[b].dueIn > 0 /\ Ceiling > 1) \/ hold[b] > Elapsed
       \/ \E t \in timers : t > 0
    /\ tuner' = [b \in Backends |-> Elapse(tuner[b])]
    /\ hold' = [b \in Backends |-> HoldLess(hold[b])]
    /\ timers' = {OneLess(t) : t \in timers}
    /\ future' = [i \in Ids |->
                    IF future[i].pc \in {"place", "scan"} /\ HoldTicks # {}
                    THEN [future[i] EXCEPT !.late = TRUE] ELSE future[i]]
    /\ UNCHANGED <<queueVars, pace, step, gateVars, beat>>

-----------------------------------------------------------------------------
(* Dispatcher::rebalance over the backends `live`, and move_waiting.       *)

LoadOf(b) == [calls |-> Cardinality(waiting[b]) + Cardinality(running[b]),
              level |-> tuner[b].level, pace |-> pace[b]]

\* A pass begins whenever its interval is over, which is the caller's affair.
BeginRebalance(k, live) ==
    /\ beat[k].pc = "rest"
    /\ Cardinality(live) >= 2
    /\ beat' = [beat EXCEPT ![k] = [Resting EXCEPT !.pc = "count", !.live = live,
                                                   !.unread = live]]
    /\ UNCHANGED <<queueVars, tuner, pace, hold, step, future, gateVars, timers>>

\* The calls still waiting bound the moves; they are counted one lock at a
\* time, and a pass with nothing to move is over.
CountWaiting(k) ==
    LET b == Minimum(beat[k].unread)
        budget == beat[k].budget + Cardinality(waiting[b])
    IN  /\ beat[k].pc = "count"
        /\ Free(b)
        /\ beat' = [beat EXCEPT ![k] =
              IF beat[k].unread # {b}
              THEN [beat[k] EXCEPT !.unread = beat[k].unread \ {b}, !.budget = budget]
              ELSE IF budget = 0 THEN Resting
              ELSE [beat[k] EXCEPT !.pc = "read", !.unread = beat[k].live, !.budget = budget]]
        /\ UNCHANGED <<queueVars, tuner, pace, hold, step, future, gateVars, timers>>

\* The loads are read one backend's lock at a time, in their order.
ReadLoad(k) ==
    LET b == Minimum(beat[k].unread) IN
    /\ beat[k].pc = "read"
    /\ Free(b)
    /\ beat' = [beat EXCEPT ![k].loads[b] = LoadOf(b),
                            ![k].unread = @ \ {b},
                            ![k].pc = IF beat[k].unread = {b} THEN "pick" ELSE "read"]
    /\ UNCHANGED <<queueVars, tuner, pace, hold, step, future, gateVars, timers>>

\* min_by_key(start_ms): the first of the lightest.
Lightest(loads, live) ==
    Minimum({b \in live : \A c \in live : StartMs(loads[b]) <= StartMs(loads[c])})

\* sort_by_key(Reverse(start_ms)), a stable sort: the first of the heaviest.
Heaviest(loads, sources) ==
    Minimum({b \in sources : \A c \in sources : StartMs(loads[b]) >= StartMs(loads[c])})

PickTarget(k) ==
    LET live == beat[k].live
        loads == [b \in live |-> beat[k].loads[b]]
        target == Lightest(loads, live)
        sources == {b \in live \ {target} : LowersTheWorst(loads, b, target)}
    IN  /\ beat[k].pc = "pick"
        /\ beat' = [beat EXCEPT ![k] =
              IF sources = {} THEN Resting
              ELSE [beat[k] EXCEPT !.pc = "take", !.target = target, !.sources = sources]]
        /\ UNCHANGED <<queueVars, tuner, pace, hold, step, future, gateVars, timers>>

\* Slip: a call goes to any backend.
MovableAnywhere(source, target) == waiting[source] \ stale

\* The waiting calls of `source` that `target` may have.
Movable(source, target) == {i \in waiting[source] : target \in meta[i].allowed} \ stale

\* move_waiting under the source's lock: the best waiting call the target may
\* have leaves the queue and the lock stays taken; with none, the next source.
TakeWaiting(k) ==
    LET source == Heaviest(beat[k].loads, beat[k].sources)
        best == BestOf(Movable(source, beat[k].target), value)
    IN  /\ beat[k].pc = "take"
        /\ Free(source)
        /\ \/ /\ best = {}
              /\ beat' = [beat EXCEPT ![k] =
                    IF beat[k].sources = {source} THEN Resting
                    ELSE [beat[k] EXCEPT !.sources = beat[k].sources \ {source}]]
              /\ UNCHANGED waiting
           \/ \E i \in best :
              /\ waiting' = [waiting EXCEPT ![source] = @ \ {i}]
              /\ beat' = [beat EXCEPT ![k].pc = "put", ![k].source = source, ![k].cargo = i]
        /\ UNCHANGED <<running, runner, value, meta, nextId, tuner, pace, hold, step,
                       future, gateVars, timers>>

\* Then, holding both locks, the call joins the target's queue.
PutWaiting(k) ==
    LET b == beat[k].target IN
    /\ beat[k].pc = "put"
    /\ Free(b)
    /\ waiting' = [waiting EXCEPT ![b] = @ \cup {beat[k].cargo}]
    /\ BeginStep(b, tuner[b], Cardinality(waiting[b]) + 1 + Cardinality(running[b]), 0, -k, TRUE)
    /\ beat' = [beat EXCEPT ![k].pc = "putting", ![k].cargo = 0]
    /\ UNCHANGED <<running, runner, value, meta, nextId, pace, future, gateVars, timers>>

-----------------------------------------------------------------------------
FutureStep(i) == \/ Register(i) \/ Look(i) \/ Abandon(i)
                 \/ \E accepted \in BOOLEAN : FinishAbandoned(i, accepted)

EndOfCall(i) == \E outcome \in Outcome, accepted \in BOOLEAN : EndSlot(i, outcome, accepted)

BeatStep(k) == CountWaiting(k) \/ ReadLoad(k) \/ PickTarget(k) \/ TakeWaiting(k) \/ PutWaiting(k)

LockStep(b) == StartNext(b) \/ StepDone(b)

\* What the caller, the gate's owner and the clock do.
Environment ==
    \/ \E i \in Ids : DropPending(i) \/ GoStale(i)
    \/ \E v \in BOOLEAN : SetPaused(v)
    \/ GateNotify
    \/ \E b \in Backends, ticks \in HoldTicks : HoldReserved(b, ticks)
    \/ \E b \in Backends : ClearReservedHold(b)
    \/ TimerFires
    \/ Tick

Next == \/ \E b \in Backends, m \in Metas : Enqueue(b, m)
        \/ \E i \in Ids : FutureStep(i) \/ EndOfCall(i)
        \/ \E b \in Backends : LockStep(b)
        \/ \E k \in Beats : BeginRebalance(k, Backends) \/ BeatStep(k)
        \/ Environment

\* A thread that holds a lock goes on, a runnable future is polled, a call
\* that was sent ends, a gate that was paused reopens and says so, and time
\* passes.  Nobody has to enqueue, to drop, or to start a rebalance.
Fairness ==
    /\ \A b \in Backends : WF_vars(LockStep(b))
    /\ \A i \in Ids : WF_vars(FutureStep(i)) /\ WF_vars(EndOfCall(i))
    /\ \A k \in Beats : WF_vars(BeatStep(k))
    /\ WF_vars(SetPaused(FALSE))
    /\ WF_vars(GateNotify)
    /\ WF_vars(TimerFires)
    /\ WF_vars(Tick)

Spec == Init /\ [][Next]_vars

FairSpec == Spec /\ Fairness

-----------------------------------------------------------------------------
(* Properties.                                                             *)

FutureType ==
    [pc : {"none", "enter", "register", "place", "placing", "scan", "await", "slot",
           "dropHome", "dropScan", "dropFinish", "done"},
     home : Backends, at : Backends, woken : BOOLEAN, late : BOOLEAN]

\* The state is what the Rust types allow, and no level leaves [1, ceiling].
TypeOK ==
    /\ waiting \in [Backends -> SUBSET Ids]
    /\ running \in [Backends -> SUBSET Ids]
    /\ runner \in [Ids -> [bucket : 0..(Ceiling - 1), level : 0..Ceiling]]
    /\ value \in [Ids -> Nat]
    /\ meta \in [Ids -> Metas]
    /\ \A b \in Backends : tuner[b].level \in 1..Ceiling
    /\ pace \in [Backends -> Paces]
    /\ \A b \in Backends : hold[b] \in {NoHold, Elapsed} \cup Nat
    /\ future \in [Ids -> FutureType]
    /\ nextId \in 1..(MaxCalls + 1)
    /\ stale \subseteq Ids
    /\ timers \subseteq Nat

\* How many places hold call i: queues, buckets, and hands that carry it.
Holders(i) == {<<"waiting", b>> : b \in {c \in Backends : i \in waiting[c]}}
         \cup {<<"running", b>> : b \in {c \in Backends : i \in running[c]}}
         \cup {<<"moving", k>> : k \in {l \in Beats : beat[l].cargo = i}}

\* A call whose caller still waits for it is in exactly one place, whichever
\* member that is: no scan, start, withdrawal or move loses or doubles it
\* (queue.rs place, await_placement, move_waiting).
HeldOnce ==
    \A i \in Ids :
        /\ Cardinality(Holders(i)) <= 1
        /\ future[i].pc \in {"enter", "register", "place", "placing", "scan", "await"}
              => Cardinality(Holders(i)) = 1
        /\ future[i].pc \in {"slot", "dropFinish"} => i \in running[future[i].at]

\* "dropping it unsent withdraws it, whichever member holds it": nothing
\* holds a call that is over, so no bucket or queue slot leaks
\* (queue.rs PendingCall::drop, CallSlot::drop).
NothingHoldsTheDead ==
    \A i \in Ids : future[i].pc \in {"none", "done"} => Holders(i) = {}

\* Two calls of one backend never share a bucket, whatever the tuner did to
\* the level in between, and no bucket is beyond the ceiling
\* (queue.rs next_placement, dispatch).
BucketsDistinct ==
    \A b \in Backends :
        /\ Cardinality(running[b]) <= Ceiling
        /\ \A i, j \in running[b] : runner[i].bucket = runner[j].bucket => i = j

\* Once bucket 0 is reserved, a reserved call only ever starts there, so at
\* most one of them runs beside those an earlier, lower level started
\* (queue.rs next_placement).
ReservedStaysInItsBucket ==
    \A b \in Backends : \A i \in running[b] :
        meta[i].lane = "reserved" /\ runner[i].level >= ReservedFrom
            => runner[i].bucket = 0

\* The calls of a running trial are accounted for across finish, cancel and
\* move: what the tuner has not counted still runs on this very backend.
TrialsAccounted ==
    \A b \in Backends :
        LET trial == tuner[b].trial IN
        trial # NoTrial =>
            /\ trial.completed = Cardinality(trial.dispatched \ running[b])
            /\ trial.completed < trial.window

\* While the tuner moves the level across reserved_lane_from_level under the
\* running calls, no two share a bucket, the reserved lane keeps to its own,
\* and a trial counts the calls that started in it (queue.rs next_placement,
\* dispatch, tuner.rs on_complete).
AcrossLevels == BucketsDistinct /\ ReservedStaysInItsBucket /\ TrialsAccounted

\* Someone will look at backend b on behalf of call i, or take it away.
WillLook(i, b) ==
    LET f == future[i] IN
    \/ f.woken
    \/ f.pc \in {"dropHome", "dropScan"}
    \/ f.pc = "register"
    \/ f.pc = "place"
    \/ f.pc = "scan" /\ f.at <= b

\* No lost wake-up: whenever a backend could start a call and nobody holds
\* its lock, a future of one of its waiting calls is on its way there, or a
\* notification that reaches all of them is pending (queue.rs
\* await_placement registers before it looks; hold_reserved_for's timer).
NoLostWakeup ==
    \A b \in Backends :
        Free(b) /\ Placement(b, paused, hold[b] > 0) # {} =>
            \/ unsaid
            \/ 0 \in timers
            \/ \E i \in waiting[b] : WillLook(i, b)

\* Behind the gate nothing is held for a future that is gone, and whoever
\* waits for a slot that could be had will be woken, though pauses, holds and
\* stale tasks end with nobody completing a call (queue.rs await_placement).
BehindTheGate == NothingHoldsTheDead /\ NoLostWakeup

\* A call that was started is claimed: as long as its future has no slot, the
\* future is on its way to the member that runs it, however often the call
\* was moved while the future looked elsewhere (queue.rs await_placement
\* scans members one lock at a time, move_waiting, step).
StartIsSeen ==
    \A b \in Backends : \A i \in running[b] :
        future[i].pc \in {"enter", "placing", "slot", "dropFinish"} \/ WillLook(i, b)

\* However a rebalance interleaves with the scans of the waiting futures, a
\* call is held in one place, and its start does not go unseen.
HeldAndSeen == HeldOnce /\ StartIsSeen

\* Every call that was queued gets its slot, goes stale, or is dropped: none
\* waits for ever, and every bucket is given back.
EveryCallEnds == \A i \in Ids : (future[i].pc # "none") ~> (future[i].pc = "done")

-----------------------------------------------------------------------------
(* The pool implements CallPool.                                           *)

PlaceOf(i) ==
    LET is(what, b) == [is |-> what, at |-> b, allowed |-> meta[i].allowed]
        waitsAt == {b \in Backends : i \in waiting[b]}
        runsAt == {b \in Backends : i \in running[b]}
    IN  IF waitsAt # {} THEN is("waiting", Minimum(waitsAt))
        ELSE IF runsAt # {} THEN is("running", Minimum(runsAt))
        ELSE IF \E k \in Beats : beat[k].cargo = i THEN is("moving", 0)
        ELSE [is |-> IF i < nextId THEN "over" ELSE "unborn", at |-> 0, allowed |-> {}]

Pool == INSTANCE CallPool WITH Calls <- Ids, place <- [i \in Ids |-> PlaceOf(i)]

\* Locks, scans, moves and drops together do to a call only what CallPool
\* allows: one place at a time, only to a backend it is allowed on, never
\* moved once started, never started twice, never above the ceiling.
ImplementsCallPool == Pool!Spec

-----------------------------------------------------------------------------
(* Small values for the constants.                                         *)

Values == [low |-> 1, medium |-> 10, high |-> 100, urgent |-> 10000]

Call(p, l, a) == [priority |-> p, lane |-> l, allowed |-> a]

Gated == {Call("low", "shared", {1}), Call("low", "reserved", {1}),
          Call("urgent", "reserved", {1})}

Lanes == {Call("low", "shared", {1}), Call("low", "reserved", {1})}

Anywhere == {Call("low", "shared", {1, 2})}

Pinned == {Call("low", "shared", {1, 2}), Call("low", "shared", {1})}
=============================================================================
