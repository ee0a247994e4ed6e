------------------------------ MODULE CallPool ------------------------------
(***************************************************************************)
(* What a pool of schedulers promises about a call, without queues, locks, *)
(* tuners or futures: the call waits at one backend, may be handed to      *)
(* another one it is allowed on as long as it has not started, runs at     *)
(* most once, never on a backend that already runs its ceiling, and        *)
(* leaves.  SchedulerPool implements this; Dispatcher builds on it.        *)
(***************************************************************************)
EXTENDS Integers, FiniteSets

CONSTANTS Calls, Backends, Ceiling

VARIABLE place   \* of each call: [is, at, allowed]

Nowhere == 0
Unborn == [is |-> "unborn", at |-> Nowhere, allowed |-> {}]
Over == [is |-> "over", at |-> Nowhere, allowed |-> {}]

RunningAt(b) == {i \in Calls : place[i].is = "running" /\ place[i].at = b}

Queue(i, b, allowed) ==
    /\ place[i] = Unborn
    /\ place' = [place EXCEPT ![i] = [is |-> "waiting", at |-> b, allowed |-> allowed]]

Start(i) ==
    /\ place[i].is = "waiting"
    /\ Cardinality(RunningAt(place[i].at)) < Ceiling
    /\ place' = [place EXCEPT ![i].is = "running"]

Take(i) ==
    /\ place[i].is = "waiting"
    /\ place' = [place EXCEPT ![i].is = "moving", ![i].at = Nowhere]

Give(i, b) ==
    /\ place[i].is = "moving"
    /\ b \in place[i].allowed
    /\ place' = [place EXCEPT ![i].is = "waiting", ![i].at = b]

Leave(i) ==
    /\ place[i].is \in {"waiting", "running"}
    /\ place' = [place EXCEPT ![i] = Over]

Init == place = [i \in Calls |-> Unborn]

Next == \E i \in Calls :
            \/ Start(i) \/ Take(i) \/ Leave(i)
            \/ \E b \in Backends : Give(i, b)
            \/ \E b \in Backends, allowed \in SUBSET Backends : Queue(i, b, allowed)

Spec == Init /\ [][Next]_place
=============================================================================
