----------------------------- MODULE Dispatcher -----------------------------
(***************************************************************************)
(* Dispatcher::call over a list of backends (services/scheduler/           *)
(* dispatch.rs): lazy client builds, placement on the least-loaded backend *)
(* whose breaker admits, the wait for a slot, the attempt, and failover.   *)
(* The schedulers behind it are CallPool, which SchedulerPool implements:  *)
(* a waiting call may be handed to another backend of the caller's list.   *)
(* Time is relative: a breaker holds the ticks until its deadline.         *)
(***************************************************************************)
EXTENDS Integers, Sequences, FiniteSets

CONSTANTS Requests,      \* calls made of the dispatcher, each once
          NumBackends,   \* backends of the registry, in list order
          Ceiling,       \* SchedulerConfig::ceiling
          MaxWaiting,    \* SchedulerConfig::max_waiting
          Cooldown,      \* DispatcherConfig::unreachable_cooldown, in ticks
          Lazy,          \* backends whose client a factory builds
          Lists,         \* the lists set_backends may be given
          Replies,       \* how a stream may end
          MayCancel,     \* whether a caller may drop a call's future
          MayMove        \* whether a rebalance may move a waiting call

Backends == 1..NumBackends

Reply == {"text", "empty", "unreachable", "error", "timeout"}

ASSUME DispatcherAssumption ==
    /\ NumBackends \in Nat \ {0}
    /\ Ceiling \in Nat \ {0}
    /\ MaxWaiting \in Nat \ {0}
    /\ Cooldown \in Nat \ {0}
    /\ Lazy \subseteq Backends
    /\ Lists \subseteq SUBSET Backends /\ Lists # {}
    /\ Replies \subseteq Reply
    /\ {MayCancel, MayMove} \subseteq BOOLEAN

VARIABLES
    list,      \* Dispatcher::joined, the backends of the current list
    breaker,   \* Breaker::open_until of each backend
    built,     \* the backends that have a client
    task,      \* build_lazy's spawned builds: [Requests -> [Backends -> state]]
    call,      \* where each call of Dispatcher::call is
    place      \* the calls of the schedulers, see CallPool

vars == <<list, breaker, built, task, call, place>>

\* A call of the schedulers is one attempt of a request.
Attempts == Requests \X Backends

Pool == INSTANCE CallPool WITH Calls <- Attempts

Closed == -1   \* open_until = None; 0 is a deadline that has passed
NoTasks == [b \in Backends |-> "none"]
NoCall == [pc |-> "idle", list |-> {}, tried |-> {}, homes |-> <<>>]

Init ==
    /\ list \in Lists
    /\ breaker = [b \in Backends |-> Closed]
    /\ built = Backends \ Lazy
    /\ task = [r \in Requests |-> NoTasks]
    /\ call = [r \in Requests |-> NoCall]
    /\ Pool!Init

-----------------------------------------------------------------------------
\* Breaker::remaining is Some.
Open(b) == breaker[b] > 0

Trip(b) == breaker' = [breaker EXCEPT ![b] = Cooldown]

\* The attempt in hand, and the backend it was reserved on.
Attempt(r) == <<r, Len(call[r].homes)>>
Home(r) == call[r].homes[Len(call[r].homes)]

Goes(r, pc) == call' = [call EXCEPT ![r].pc = pc]

\* Someone runs the factory: OnceCell lets one caller initialise at a time.
Building(b) ==
    \E r \in Requests : \/ task[r][b] = "building"
                        \/ call[r].pc = "building" /\ Home(r) = b

\* The head of call(): the list is read once, and every backend of it that
\* admits and has no client gets a build.
BeginCall(r) ==
    /\ call[r].pc = "idle"
    /\ call' = [call EXCEPT ![r] = [NoCall EXCEPT !.pc = "build", !.list = list]]
    /\ task' = [task EXCEPT ![r] =
                  [b \in Backends |-> IF b \in list \ built /\ ~Open(b) THEN "want" ELSE "none"]]
    /\ UNCHANGED <<list, breaker, built, place>>

\* A spawned build finds the client there, or starts the factory.
StartBuild(r, b) ==
    /\ task[r][b] = "want"
    /\ b \in built \/ ~Building(b)
    /\ task' = [task EXCEPT ![r][b] = IF b \in built THEN "none" ELSE "building"]
    /\ UNCHANGED <<list, breaker, built, call, place>>

\* Slip: a failed build never lets go of the cell.
EndBuildHeld(r, b, ok) ==
    /\ task[r][b] = "building"
    /\ IF ok THEN built' = built \cup {b} /\ task' = [task EXCEPT ![r][b] = "none"]
                     /\ UNCHANGED breaker
             ELSE Trip(b) /\ UNCHANGED <<built, task>>
    /\ UNCHANGED <<list, call, place>>

\* The factory answers; a failure opens the breaker and frees the cell.
EndBuild(r, b, ok) ==
    /\ task[r][b] = "building"
    /\ task' = [task EXCEPT ![r][b] = "none"]
    /\ IF ok THEN built' = built \cup {b} /\ UNCHANGED breaker
             ELSE Trip(b) /\ UNCHANGED built
    /\ UNCHANGED <<list, call, place>>

BuildsJoined(r) ==
    /\ call[r].pc = "build"
    /\ task[r] = NoTasks
    /\ Goes(r, "loop")
    /\ UNCHANGED <<list, breaker, built, task, place>>

-----------------------------------------------------------------------------
CallsAt(b) == {a \in Attempts : place[a].is \in {"waiting", "running"} /\ place[a].at = b}
WaitingAt(b) == {a \in CallsAt(b) : place[a].is = "waiting"}

\* Slip: a backend that refused is asked again.
AdmittingAgain(r) == {b \in call[r].list : ~Open(b)}

Admitting(r) == {b \in call[r].list \ call[r].tried : ~Open(b)}

\* pick(): an idle backend before any other, the first of the idle ones;
\* between busy ones pace and level decide, which this model leaves open.
Pickable(S) ==
    LET idle == {b \in S : CallsAt(b) = {}}
    IN  IF idle = {} THEN S ELSE {b \in idle : \A c \in idle : b <= c}

\* One turn of the loop, under the pool's placement lock: no backend admits,
\* the queue of the chosen one is full, or the call is queued there.
Reserve(r) ==
    /\ call[r].pc = "loop"
    /\ \/ Admitting(r) = {} /\ Goes(r, "done") /\ UNCHANGED place
       \/ \E b \in Pickable(Admitting(r)) :
             IF Cardinality(WaitingAt(b)) >= MaxWaiting
             THEN Goes(r, "done") /\ UNCHANGED place
             ELSE /\ call' = [call EXCEPT ![r].pc = "queued", ![r].homes = Append(@, b)]
                  /\ Pool!Queue(<<r, Len(call[r].homes) + 1>>, b, call[r].list)
    /\ UNCHANGED <<list, breaker, built, task>>

\* await_placement answers the slot, on whichever backend that is.
GetSlot(r) ==
    /\ call[r].pc = "queued"
    /\ place[Attempt(r)].is = "running"
    /\ Goes(r, "admit")
    /\ UNCHANGED <<list, breaker, built, task, place>>

\* The gate finds the task stale while it waits: InputsChanged.
GoStale(r) ==
    /\ call[r].pc = "queued"
    /\ place[Attempt(r)].is = "waiting"
    /\ Pool!Leave(Attempt(r))
    /\ Goes(r, "done")
    /\ UNCHANGED <<list, breaker, built, task>>

-----------------------------------------------------------------------------
(* attempt(backend, request, slot): `backend` is the one reserved, Home.   *)

\* Slip: the slot is not given back when the attempt is refused.
GiveUpKept(r) ==
    /\ call' = [call EXCEPT ![r].pc = "loop", ![r].tried = @ \cup {Home(r)}]
    /\ UNCHANGED place

\* The attempt could not reach its backend: the slot is finished as failed
\* and the loop tries another one.
GiveUp(r) ==
    /\ Pool!Leave(Attempt(r))
    /\ call' = [call EXCEPT ![r].pc = "loop", ![r].tried = @ \cup {Home(r)}]

\* The breaker is asked again after the queue.
Admit(r) ==
    /\ call[r].pc = "admit"
    /\ IF Open(Home(r)) THEN GiveUp(r)
                        ELSE Goes(r, "client") /\ UNCHANGED place
    /\ UNCHANGED <<list, breaker, built, task>>

\* Backend::client(): the client is there, or the factory is started.
GetClient(r) ==
    /\ call[r].pc = "client"
    /\ Home(r) \in built \/ ~Building(Home(r))
    /\ Goes(r, IF Home(r) \in built THEN "stream" ELSE "building")
    /\ UNCHANGED <<list, breaker, built, task, place>>

ClientBuilt(r, ok) ==
    /\ call[r].pc = "building"
    /\ IF ok THEN /\ built' = built \cup {Home(r)}
                  /\ Goes(r, "stream")
                  /\ UNCHANGED <<breaker, place>>
             ELSE /\ Trip(Home(r))
                  /\ GiveUp(r)
                  /\ UNCHANGED built
    /\ UNCHANGED <<list, task>>

\* collect_stream ends.  A reply, with text or without, closes the breaker;
\* an unreachable backend opens it and the loop goes on; a deadline or any
\* other error is the call's own.
EndStream(r, reply) ==
    /\ call[r].pc = "stream"
    /\ IF reply = "unreachable"
       THEN Trip(Home(r)) /\ GiveUp(r)
       ELSE /\ breaker' = IF reply \in {"text", "empty"}
                          THEN [breaker EXCEPT ![Home(r)] = Closed] ELSE breaker
            /\ Pool!Leave(Attempt(r))
            /\ Goes(r, "done")
    /\ UNCHANGED <<list, built, task>>

\* The caller drops the future where it is suspended: spawned builds are
\* aborted and a place in the pool is given back.
Cancel(r) ==
    /\ MayCancel
    /\ \/ call[r].pc \in {"build", "queued", "building", "stream"}
       \/ call[r].pc = "client" /\ Home(r) \notin built /\ Building(Home(r))
    /\ call[r].pc = "queued" => place[Attempt(r)].is # "moving"
    /\ task' = [task EXCEPT ![r] = NoTasks]
    /\ IF call[r].pc = "build" THEN UNCHANGED place ELSE Pool!Leave(Attempt(r))
    /\ Goes(r, "done")
    /\ UNCHANGED <<list, breaker, built>>

-----------------------------------------------------------------------------
(* The schedulers, the clock and the owner of the list.                    *)

PoolStep(a) ==
    /\ \/ Pool!Start(a)
       \/ MayMove /\ Pool!Take(a)
       \/ \E b \in Backends : Pool!Give(a, b)
    /\ UNCHANGED <<list, breaker, built, task, call>>

SetBackends(to) ==
    /\ to # list
    /\ list' = to
    /\ UNCHANGED <<breaker, built, task, call, place>>

Tick ==
    /\ \E b \in Backends : Open(b)
    /\ breaker' = [b \in Backends |-> IF Open(b) THEN breaker[b] - 1 ELSE breaker[b]]
    /\ UNCHANGED <<list, built, task, call, place>>

Build(r) == \E b \in Backends : StartBuild(r, b) \/ \E ok \in BOOLEAN : EndBuild(r, b, ok)

CallStep(r) ==
    \/ BuildsJoined(r) \/ Reserve(r) \/ GetSlot(r) \/ Admit(r) \/ GetClient(r)
    \/ \E ok \in BOOLEAN : ClientBuilt(r, ok)
    \/ \E reply \in Replies : EndStream(r, reply)

Next ==
    \/ \E r \in Requests : BeginCall(r) \/ Build(r) \/ CallStep(r) \/ GoStale(r) \/ Cancel(r)
    \/ \E a \in Attempts : PoolStep(a)
    \/ \E to \in Lists : SetBackends(to)
    \/ Tick

Spec == Init /\ [][Next]_vars

\* Builds and streams end, a runnable future is polled, a rebalance ends, and
\* a backend that may start a call does so though calls keep moving
\* (SchedulerPool's EveryCallEnds).
Fairness ==
    /\ \A r \in Requests : WF_vars(Build(r)) /\ WF_vars(CallStep(r))
    /\ \A a \in Attempts :
          /\ SF_vars(Pool!Start(a) /\ UNCHANGED <<list, breaker, built, task, call>>)
          /\ WF_vars(\E b \in Backends : Pool!Give(a, b)
                                         /\ UNCHANGED <<list, breaker, built, task, call>>)

FairSpec == Spec /\ Fairness

-----------------------------------------------------------------------------
\* The state is what the Rust types allow; a call makes no more attempts than
\* there are backends.
TypeOK ==
    /\ list \in SUBSET Backends
    /\ breaker \in [Backends -> Closed..Cooldown]
    /\ built \in SUBSET Backends
    /\ task \in [Requests -> [Backends -> {"none", "want", "building"}]]
    /\ \A r \in Requests :
          /\ call[r].pc \in {"idle", "build", "loop", "queued", "admit", "client",
                             "building", "stream", "done"}
          /\ call[r].tried \subseteq Backends
          /\ Len(call[r].homes) <= NumBackends

\* "the call goes once to each other backend that still admits": however
\* breakers open and close meanwhile, no backend gets a call twice, and none
\* outside the list the call started with (dispatch.rs call, pick).
FailoverOnce ==
    \A r \in Requests :
        LET homes == call[r].homes IN
        \A m, n \in DOMAIN homes : /\ homes[m] \in call[r].list
                                   /\ homes[m] = homes[n] => m = n

\* A call holds the place of its attempt in hand and no other: every refusal,
\* failed build, failed stream, stale task and dropped future gives the
\* bucket back before the next attempt (dispatch.rs attempt).
OnePlaceAtATime ==
    \A r \in Requests : \A n \in Backends :
        place[<<r, n>>].is \in {"waiting", "moving", "running"} =>
            /\ n = Len(call[r].homes)
            /\ call[r].pc \in {"queued", "admit", "client", "building", "stream"}

\* A factory runs at most once at a time for a backend, and never again once
\* its client is built (dispatch.rs Backend::client).
OneBuildAtATime ==
    \A b \in Backends :
        LET builders == {r \in Requests : task[r][b] = "building"}
                   \cup {r \in Requests : call[r].pc = "building" /\ Home(r) = b}
        IN  /\ Cardinality(builders) <= 1
            /\ b \in built => builders = {}

\* A call holds one place of one backend, and a lazy backend has one build,
\* whatever fails, moves or goes away in between (call, attempt, build_lazy).
OneAtATime == TypeOK /\ OnePlaceAtATime /\ OneBuildAtATime

\* Every call made of the dispatcher answers.
CallsEnd == \A r \in Requests : (call[r].pc # "idle") ~> (call[r].pc = "done")

-----------------------------------------------------------------------------
(* What docs say and the code does not do.                                 *)

\* ceiling is "The most calls the backend runs at once" (queue.rs): no more
\* than that many requests stream from one backend.
StreamsWithinCeiling ==
    \A b \in Backends :
        Cardinality({r \in Requests : call[r].pc = "stream" /\ Home(r) = b}) <= Ceiling
=============================================================================
