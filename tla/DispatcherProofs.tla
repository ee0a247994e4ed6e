-------------------------- MODULE DispatcherProofs --------------------------
(***************************************************************************)
(* What the dispatcher keeps true for any requests, backends, lists and    *)
(* cooldowns, in any order of builds, failures, moves and cancellations.   *)
(***************************************************************************)
EXTENDS Dispatcher, FiniteLemmas

Held == {"queued", "admit", "client", "building", "stream"}

CallType == [pc : {"idle", "build", "loop", "done"} \cup Held, list : SUBSET Backends,
             tried : SUBSET Backends, homes : Seq(Backends)]

PlaceType == [is : {"unborn", "waiting", "moving", "running", "over"},
              at : Int, allowed : SUBSET Backends]

Shape ==
    /\ list \in SUBSET Backends
    /\ breaker \in [Backends -> Closed..Cooldown]
    /\ built \in SUBSET Backends
    /\ task \in [Requests -> [Backends -> {"none", "want", "building"}]]
    /\ call \in [Requests -> CallType]
    /\ place \in [Attempts -> PlaceType]

\* The backends a call was sent to are different ones of its list, and those
\* before the one in hand are the ones it tried.
Journey(c) ==
    /\ \A m \in 1..Len(c.homes) : c.homes[m] \in c.list
    /\ \A m, n \in 1..Len(c.homes) : c.homes[m] = c.homes[n] => m = n
    /\ c.pc \in {"idle", "build"} => Len(c.homes) = 0
    /\ c.pc = "loop" => \A m \in 1..Len(c.homes) : c.homes[m] \in c.tried
    /\ c.pc \in Held =>
          /\ Len(c.homes) > 0
          /\ \A m \in 1..(Len(c.homes) - 1) : c.homes[m] \in c.tried

Journeys == \A r \in Requests : Journey(call[r])

Active(p) == p.is \in {"waiting", "moving", "running"}

OnePlace ==
    \A r \in Requests, n \in Backends :
        Active(place[<<r, n>>]) => n = Len(call[r].homes) /\ call[r].pc \in Held

\* Who runs the factory of a backend: a spawned build or the attempt in hand.
Builds(r, b) ==
    \/ task[r][b] = "building"
    \/ call[r].pc = "building" /\ Home(r) = b

Builders ==
    /\ \A r \in Requests : call[r].pc # "build" => task[r] = NoTasks
    /\ \A q, r \in Requests, b \in Backends : Builds(q, b) /\ Builds(r, b) => q = r
    /\ \A r \in Requests, b \in built : ~Builds(r, b)

Inv == Shape /\ Journeys /\ OnePlace /\ Builders

-----------------------------------------------------------------------------
\* As many attempts as different backends at most.
LEMMA AttemptsFit ==
    ASSUME NEW c \in CallType, Journey(c)
    PROVE  Len(c.homes) \in Nat /\ Len(c.homes) <= NumBackends
<1> DEFINE f == [m \in 1..Len(c.homes) |-> c.homes[m]]
           S == 1..Len(c.homes)
           T == {f[m] : m \in S}
<1>1. Len(c.homes) \in Nat /\ NumBackends \in Nat
  BY DispatcherAssumption DEF CallType
<1>2. IsFiniteSet(S) /\ Cardinality(S) = Len(c.homes)
  BY <1>1, FS_Interval, SMTT(30)
<1>3. IsFiniteSet(Backends) /\ Cardinality(Backends) = NumBackends
  BY <1>1, FS_Interval, SMTT(30) DEF Backends
<1>4. T \subseteq Backends
  BY DEF Journey, CallType
<1>5. \A m, n \in S : f[m] = f[n] => m = n
  BY DEF Journey
<1> HIDE DEF f, S
<1>6. Cardinality(T) = Len(c.homes)
  BY <1>2, <1>5, ImageOfInjection
<1> HIDE DEF T
<1>7. Cardinality(T) <= Cardinality(Backends)
  BY <1>3, <1>4, FS_Subset
<1>8. QED
  BY <1>1, <1>3, <1>6, <1>7

\* Two fields of a call replaced at once: its list,
LEMMA CallListed ==
    ASSUME NEW c \in CallType, NEW pc, NEW new
    PROVE  [c EXCEPT !.pc = pc, !.list = new]
              = [pc |-> pc, list |-> new, tried |-> c.tried, homes |-> c.homes]
<1> DEFINE d == [c EXCEPT !.pc = pc]
<1>1. c = [pc |-> c.pc, list |-> c.list, tried |-> c.tried, homes |-> c.homes]
  BY DEF CallType
<1>2. d = [pc |-> pc, list |-> c.list, tried |-> c.tried, homes |-> c.homes]
  BY <1>1, SMT
<1>3. [c EXCEPT !.pc = pc, !.list = new] = [d EXCEPT !.list = new]
  OBVIOUS
<1> HIDE DEF d
<1>4. [d EXCEPT !.list = new]
         = [pc |-> pc, list |-> new, tried |-> c.tried, homes |-> c.homes]
  BY <1>2, SMT
<1>5. QED
  BY <1>3, <1>4

\* the backends it tried,
LEMMA CallTried ==
    ASSUME NEW c \in CallType, NEW pc, NEW new
    PROVE  [c EXCEPT !.pc = pc, !.tried = new]
              = [pc |-> pc, list |-> c.list, tried |-> new, homes |-> c.homes]
<1> DEFINE d == [c EXCEPT !.pc = pc]
<1>1. c = [pc |-> c.pc, list |-> c.list, tried |-> c.tried, homes |-> c.homes]
  BY DEF CallType
<1>2. d = [pc |-> pc, list |-> c.list, tried |-> c.tried, homes |-> c.homes]
  BY <1>1, SMT
<1>3. [c EXCEPT !.pc = pc, !.tried = new] = [d EXCEPT !.tried = new]
  OBVIOUS
<1> HIDE DEF d
<1>4. [d EXCEPT !.tried = new]
         = [pc |-> pc, list |-> c.list, tried |-> new, homes |-> c.homes]
  BY <1>2, SMT
<1>5. QED
  BY <1>3, <1>4

\* and the backends it was sent to.
LEMMA CallHomed ==
    ASSUME NEW c \in CallType, NEW pc, NEW new
    PROVE  [c EXCEPT !.pc = pc, !.homes = new]
              = [pc |-> pc, list |-> c.list, tried |-> c.tried, homes |-> new]
<1> DEFINE d == [c EXCEPT !.pc = pc]
<1>1. c = [pc |-> c.pc, list |-> c.list, tried |-> c.tried, homes |-> c.homes]
  BY DEF CallType
<1>2. d = [pc |-> pc, list |-> c.list, tried |-> c.tried, homes |-> c.homes]
  BY <1>1, SMT
<1>3. [c EXCEPT !.pc = pc, !.homes = new] = [d EXCEPT !.homes = new]
  OBVIOUS
<1> HIDE DEF d
<1>4. [d EXCEPT !.homes = new]
         = [pc |-> pc, list |-> c.list, tried |-> c.tried, homes |-> new]
  BY <1>2, SMT
<1>5. QED
  BY <1>3, <1>4

\* A call goes on: nothing of it but its place in call() changes.
LEMMA CallGoes ==
    ASSUME Shape, NEW r \in Requests, NEW pc \in {"done"} \cup {"idle", "build", "loop"} \cup Held,
           Goes(r, pc)
    PROVE  /\ call' \in [Requests -> CallType]
           /\ call'[r].pc = pc
           /\ call'[r].list = call[r].list
           /\ call'[r].tried = call[r].tried
           /\ call'[r].homes = call[r].homes
           /\ \A q \in Requests : q # r => call'[q] = call[q]
<1>1. call' = [call EXCEPT ![r] = [call[r] EXCEPT !.pc = pc]]
  BY DEF Goes
<1>2. call[r] \in CallType
  BY DEF Shape
<1>3. [call[r] EXCEPT !.pc = pc] \in CallType
  BY <1>2 DEF CallType
<1>4. QED
  BY <1>1, <1>2, <1>3 DEF Shape, CallType

\* A call that gives its place back has none left.
LEMMA PlaceLeft ==
    ASSUME Inv, NEW r \in Requests, call[r].pc \in Held, Pool!Leave(Attempt(r))
    PROVE  /\ place' \in [Attempts -> PlaceType]
           /\ \A n \in Backends : ~Active(place'[<<r, n>>])
           /\ \A q \in Requests, n \in Backends : q # r => place'[<<q, n>>] = place[<<q, n>>]
<1>1. call[r] \in CallType /\ Journey(call[r]) /\ place \in [Attempts -> PlaceType]
  BY DEF Inv, Shape, Journeys
<1>2. Len(call[r].homes) \in Backends
  BY <1>1, AttemptsFit, DispatcherAssumption DEF Journey, Backends
<1>3. place' = [place EXCEPT ![Attempt(r)] = Pool!Over]
  BY DEF Pool!Leave
<1>4. Pool!Over \in PlaceType /\ ~Active(Pool!Over)
  BY DEF Pool!Over, Pool!Nowhere, PlaceType, Active
<1>5. Attempt(r) = <<r, Len(call[r].homes)>> /\ Attempt(r) \in Attempts
  BY <1>2 DEF Attempt, Attempts
<1>6. place' \in [Attempts -> PlaceType]
  BY <1>1, <1>3, <1>4
<1>7. \A n \in Backends : ~Active(place'[<<r, n>>])
  <2>1. SUFFICES ASSUME NEW n \in Backends PROVE ~Active(place'[<<r, n>>])
    OBVIOUS
  <2>2. CASE n = Len(call[r].homes)
    BY <1>1, <1>3, <1>4, <1>5, <2>2
  <2>3. CASE n # Len(call[r].homes)
    <3>1. place'[<<r, n>>] = place[<<r, n>>]
      BY <1>1, <1>3, <1>5, <2>3 DEF Attempts
    <3>2. QED
      BY <2>3, <3>1 DEF Inv, OnePlace
  <2>4. QED
    BY <2>2, <2>3
<1>8. \A q \in Requests, n \in Backends : q # r => place'[<<q, n>>] = place[<<q, n>>]
  BY <1>1, <1>3, <1>5 DEF Attempts
<1>9. QED
  BY <1>6, <1>7, <1>8

\* No build starts and none is forgotten.
LEMMA BuildersShrink ==
    ASSUME Inv, built' = built,
           \A q \in Requests, b \in Backends : Builds(q, b)' => Builds(q, b),
           \A q \in Requests : call'[q].pc # "build" => task'[q] = NoTasks
    PROVE  Builders'
<1>1. built \subseteq Backends
  BY DEF Inv, Shape
<1>2. QED
  BY <1>1 DEF Inv, Builders

\* A call that goes on where its place, its builds and the breakers stay.
LEMMA OnlyGoes ==
    ASSUME Inv, NEW r \in Requests, NEW pc \in {"done"} \cup {"loop"} \cup (Held \ {"building"}),
           Goes(r, pc), UNCHANGED <<list, built, task>>,
           breaker' \in [Backends -> Closed..Cooldown],
           task[r] = NoTasks,
           \/ place' = place /\ (pc \in Held <=> call[r].pc \in Held)
           \/ pc = "done" /\ call[r].pc \in Held /\ Pool!Leave(Attempt(r)),
           pc = "loop" => call[r].pc = "build"
    PROVE  Inv'
<1>1. /\ call' \in [Requests -> CallType]
      /\ call'[r].pc = pc
      /\ call'[r].list = call[r].list
      /\ call'[r].tried = call[r].tried
      /\ call'[r].homes = call[r].homes
      /\ \A q \in Requests : q # r => call'[q] = call[q]
  BY CallGoes DEF Inv
<1>2. /\ place' \in [Attempts -> PlaceType]
      /\ OnePlace'
  <2>1. CASE place' = place /\ (pc \in Held <=> call[r].pc \in Held)
    BY <1>1, <2>1 DEF Inv, Shape, OnePlace
  <2>2. CASE pc = "done" /\ call[r].pc \in Held /\ Pool!Leave(Attempt(r))
    <3>1. /\ place' \in [Attempts -> PlaceType]
          /\ \A n \in Backends : ~Active(place'[<<r, n>>])
          /\ \A q \in Requests, n \in Backends : q # r => place'[<<q, n>>] = place[<<q, n>>]
      BY <2>2, PlaceLeft
    <3>2. QED
      BY <1>1, <3>1 DEF Inv, OnePlace
  <2>3. QED
    BY <2>1, <2>2
<1>3. Shape'
  BY <1>1, <1>2 DEF Inv, Shape
<1>4. Journeys'
  <2>1. Journey(call[r]) /\ \A q \in Requests : Journey(call[q])
    BY DEF Inv, Journeys
  <2>2. Len(call[r].homes) \in Nat
    BY DEF Inv, Shape, CallType
  <2>3. Journey(call'[r])
    BY <1>1, <2>1, <2>2 DEF Journey, Held
  <2>4. QED
    BY <1>1, <2>1, <2>3 DEF Journeys
<1>5. Builders'
  <2>1. \A q \in Requests, b \in Backends : Builds(q, b)' => Builds(q, b)
    BY <1>1 DEF Builds, Home, Held
  <2>2. \A q \in Requests : call'[q].pc # "build" => task'[q] = NoTasks
    BY <1>1 DEF Inv, Builders
  <2>3. QED
    BY <2>1, <2>2, BuildersShrink
<1>6. QED
  BY <1>2, <1>3, <1>4, <1>5 DEF Inv

\* The attempt in hand could not reach its backend and the loop goes on.
LEMMA GivesUp ==
    ASSUME Inv, NEW r \in Requests, call[r].pc \in Held, GiveUp(r),
           UNCHANGED <<list, built, task>>, breaker' \in [Backends -> Closed..Cooldown]
    PROVE  Inv'
<1> DEFINE c == [pc |-> "loop", list |-> call[r].list,
                 tried |-> call[r].tried \cup {Home(r)}, homes |-> call[r].homes]
<1>1. call[r] \in CallType /\ Journey(call[r]) /\ Len(call[r].homes) \in Nat
  BY DEF Inv, Shape, Journeys, CallType
<1>2. Home(r) \in Backends
  BY <1>1 DEF Home, Journey, CallType
<1>3. call' = [call EXCEPT ![r] = c]
  <2>1. call' = [call EXCEPT ![r] = [call[r] EXCEPT !.pc = "loop",
                                                   !.tried = @ \cup {Home(r)}]]
    BY DEF GiveUp, Inv, Shape
  <2>2. [call[r] EXCEPT !.pc = "loop", !.tried = @ \cup {Home(r)}] = c
    BY <1>1, CallTried
  <2>3. QED
    BY <2>1, <2>2
<1>4. c \in CallType
  BY <1>1, <1>2 DEF CallType
<1>5. /\ c.pc = "loop" /\ c.list = call[r].list /\ c.homes = call[r].homes
      /\ c.tried = call[r].tried \cup {Home(r)}
  OBVIOUS
<1> HIDE DEF c
<1>6. /\ call' \in [Requests -> CallType] /\ call'[r] = c
      /\ \A q \in Requests : q # r => call'[q] = call[q]
  BY <1>3, <1>4 DEF Inv, Shape
<1>7. /\ place' \in [Attempts -> PlaceType]
      /\ \A n \in Backends : ~Active(place'[<<r, n>>])
      /\ \A q \in Requests, n \in Backends : q # r => place'[<<q, n>>] = place[<<q, n>>]
  BY PlaceLeft DEF GiveUp
<1>8. Shape' /\ OnePlace'
  BY <1>6, <1>7 DEF Inv, Shape, OnePlace
<1>9. Journeys'
  <2>1. Journey(c)
    BY <1>1, <1>5 DEF Journey, Held, Home
  <2>2. QED
    BY <1>6, <2>1 DEF Inv, Journeys
<1>10. Builders'
  <2>1. \A q \in Requests, b \in Backends : Builds(q, b)' => Builds(q, b)
    BY <1>5, <1>6 DEF Builds, Home
  <2>2. \A q \in Requests : call'[q].pc # "build" => task'[q] = NoTasks
    BY <1>5, <1>6 DEF Inv, Builders, Held
  <2>3. QED
    BY <2>1, <2>2, BuildersShrink
<1>11. QED
  BY <1>8, <1>9, <1>10 DEF Inv

\* A breaker that trips stays one.
LEMMA Tripped ==
    ASSUME Inv, NEW b, Trip(b)
    PROVE  breaker' \in [Backends -> Closed..Cooldown]
<1>1. Cooldown \in Closed..Cooldown
  BY DispatcherAssumption DEF Closed
<1>2. QED
  BY <1>1 DEF Inv, Shape, Trip

-----------------------------------------------------------------------------
\* A call that begins has no place yet.
LEMMA BeginCallKeeps ==
    ASSUME Inv, NEW r \in Requests, BeginCall(r)
    PROVE  Inv'
<1> DEFINE c == [pc |-> "build", list |-> list, tried |-> {}, homes |-> <<>>]
<1>1. call' = [call EXCEPT ![r] = c]
  <2>1. NoCall = [pc |-> "idle", list |-> {}, tried |-> {}, homes |-> <<>>]
    BY DEF NoCall
  <2>3. NoCall \in CallType
    BY <2>1 DEF CallType
  <2>4. NoCall.tried = {} /\ NoCall.homes = <<>>
    BY <2>1
  <2> HIDE DEF c
  <2>5. [NoCall EXCEPT !.pc = "build", !.list = list]
           = [pc |-> "build", list |-> list, tried |-> NoCall.tried, homes |-> NoCall.homes]
    BY <2>3, CallListed
  <2>2. QED
    BY <2>4, <2>5 DEF BeginCall, c
<1>2. c \in CallType /\ Len(c.homes) = 0 /\ c.pc = "build"
  BY DEF Inv, Shape, CallType
<1> HIDE DEF c
<1>3. /\ call' \in [Requests -> CallType] /\ call'[r] = c
      /\ \A q \in Requests : q # r => call'[q] = call[q]
  BY <1>1, <1>2 DEF Inv, Shape
<1>4. /\ task' \in [Requests -> [Backends -> {"none", "want", "building"}]]
      /\ \A b \in Backends : task'[r][b] # "building"
      /\ \A q \in Requests : q # r => task'[q] = task[q]
  BY DEF BeginCall, Inv, Shape
<1>5. Shape'
  BY <1>3, <1>4 DEF Inv, Shape, BeginCall
<1>6. Journeys'
  <2>1. Journey(c)
    BY <1>2 DEF Journey, Held
  <2>2. QED
    BY <1>3, <2>1 DEF Inv, Journeys
<1>7. OnePlace'
  BY <1>3 DEF Inv, OnePlace, BeginCall, Held
<1>8. Builders'
  <2>1. \A q \in Requests, b \in Backends : Builds(q, b)' => Builds(q, b)
    BY <1>2, <1>3, <1>4 DEF Builds, Home
  <2>2. \A q \in Requests : call'[q].pc # "build" => task'[q] = NoTasks
    BY <1>2, <1>3, <1>4 DEF Inv, Builders
  <2>3. QED
    BY <2>1, <2>2, BuildersShrink DEF BeginCall
<1>9. QED
  BY <1>5, <1>6, <1>7, <1>8 DEF Inv

\* A spawned build starts only where no one builds and no client is there.
LEMMA StartBuildKeeps ==
    ASSUME Inv, NEW r \in Requests, NEW b \in Backends, StartBuild(r, b)
    PROVE  Inv'
<1>1. /\ task' \in [Requests -> [Backends -> {"none", "want", "building"}]]
      /\ task'[r][b] = (IF b \in built THEN "none" ELSE "building")
      /\ \A q \in Requests, d \in Backends : q # r \/ d # b => task'[q][d] = task[q][d]
      /\ \A q \in Requests : q # r => task'[q] = task[q]
  BY DEF StartBuild, Inv, Shape
<1>2. Shape' /\ Journeys' /\ OnePlace'
  BY <1>1 DEF Inv, Shape, Journeys, OnePlace, StartBuild
<1>3. task[r] # NoTasks /\ call[r].pc = "build"
  BY DEF StartBuild, Inv, Builders, NoTasks
<1>4. Builders'
  <2>1. \A q \in Requests : call'[q].pc # "build" => task'[q] = NoTasks
    BY <1>1, <1>3 DEF Inv, Builders, StartBuild
  <2>2. CASE b \in built
    <3>1. \A q \in Requests, d \in Backends : Builds(q, d)' => Builds(q, d)
      BY <1>1, <2>2 DEF Builds, Home, StartBuild
    <3>2. QED
      BY <2>1, <3>1, BuildersShrink DEF StartBuild
  <2>3. CASE b \notin built
    <3>1. \A q \in Requests : ~Builds(q, b)
      BY <2>3 DEF StartBuild, Building, Builds
    <3>2. \A q \in Requests, d \in Backends :
             Builds(q, d)' => Builds(q, d) \/ (q = r /\ d = b)
      BY <1>1 DEF Builds, Home, StartBuild
    <3>3. built' = built /\ built \subseteq Backends
      BY DEF StartBuild, Inv, Shape
    <3>4. QED
      BY <2>1, <2>3, <3>1, <3>2, <3>3 DEF Inv, Builders
  <2>4. QED
    BY <2>2, <2>3
<1>5. QED
  BY <1>2, <1>4 DEF Inv

\* A build that ends was the only one, so its client is built by no one now.
LEMMA EndBuildKeeps ==
    ASSUME Inv, NEW r \in Requests, NEW b \in Backends, NEW ok \in BOOLEAN, EndBuild(r, b, ok)
    PROVE  Inv'
<1>1. /\ task' \in [Requests -> [Backends -> {"none", "want", "building"}]]
      /\ task'[r][b] = "none"
      /\ \A q \in Requests, d \in Backends : q # r \/ d # b => task'[q][d] = task[q][d]
      /\ \A q \in Requests : q # r => task'[q] = task[q]
  BY DEF EndBuild, Inv, Shape
<1>2. /\ breaker' \in [Backends -> Closed..Cooldown]
      /\ built' \in SUBSET Backends /\ built' \subseteq built \cup {b}
  BY Tripped DEF EndBuild, Inv, Shape
<1>3. Shape' /\ Journeys' /\ OnePlace'
  BY <1>1, <1>2 DEF Inv, Shape, Journeys, OnePlace, EndBuild
<1>4. task[r] # NoTasks /\ call[r].pc = "build" /\ Builds(r, b)
  BY DEF EndBuild, Inv, Builders, NoTasks, Builds
<1>5. Builders'
  <2>1. \A q \in Requests : call'[q].pc # "build" => task'[q] = NoTasks
    BY <1>1, <1>4 DEF Inv, Builders, EndBuild
  <2>2. \A q \in Requests, d \in Backends :
           Builds(q, d)' => Builds(q, d) /\ (q # r \/ d # b)
    BY <1>1, <1>4 DEF Builds, Home, EndBuild
  <2>3. \A q \in Requests : Builds(q, b) => q = r
    BY <1>4 DEF Inv, Builders
  <2>4. QED
    BY <1>2, <2>1, <2>2, <2>3 DEF Inv, Builders
<1>6. QED
  BY <1>3, <1>5 DEF Inv

\* A place is reserved where the call was not sent before.
LEMMA ReserveKeeps ==
    ASSUME Inv, NEW r \in Requests, Reserve(r)
    PROVE  Inv'
<1>1. call[r].pc = "loop" /\ call[r] \in CallType /\ Journey(call[r]) /\ task[r] = NoTasks
      /\ Len(call[r].homes) \in Nat
  BY DEF Reserve, Inv, Shape, Journeys, Builders, CallType
<1>2. CASE Goes(r, "done") /\ UNCHANGED place
  BY <1>1, <1>2, OnlyGoes DEF Reserve, Held, Inv, Shape
<1>3. ASSUME NEW b \in Pickable(Admitting(r)),
             call' = [call EXCEPT ![r].pc = "queued", ![r].homes = Append(@, b)],
             Pool!Queue(<<r, Len(call[r].homes) + 1>>, b, call[r].list)
      PROVE  Inv'
  <2> DEFINE last == Len(call[r].homes) + 1
             homes == Append(call[r].homes, b)
             c == [pc |-> "queued", list |-> call[r].list, tried |-> call[r].tried,
                   homes |-> homes]
  <2>1. b \in call[r].list /\ b \notin call[r].tried /\ b \in Backends
    <3>1. Admitting(r) \subseteq call[r].list \ call[r].tried
      BY DEF Admitting
    <3>2. b \in Admitting(r)
      BY DEF Pickable
    <3>3. QED
      BY <1>1, <3>1, <3>2 DEF CallType
  <2>2. /\ homes \in Seq(Backends) /\ Len(homes) = last
        /\ \A m \in 1..(last - 1) : homes[m] = call[r].homes[m]
        /\ homes[last] = b
    BY <1>1, <2>1 DEF CallType
  <2>3. call' = [call EXCEPT ![r] = c]
    <3>1. call' = [call EXCEPT ![r] = [call[r] EXCEPT !.pc = "queued", !.homes = homes]]
      BY <1>3
    <3> HIDE DEF homes
    <3>2. [call[r] EXCEPT !.pc = "queued", !.homes = homes]
             = [pc |-> "queued", list |-> call[r].list, tried |-> call[r].tried,
                homes |-> homes]
      BY <1>1, CallHomed
    <3>3. QED
      BY <3>1, <3>2
  <2> HIDE DEF homes
  <2>4. c \in CallType
    BY <1>1, <2>2 DEF CallType, Held
  <2>5. c.pc = "queued" /\ c.list = call[r].list /\ c.tried = call[r].tried /\ c.homes = homes
    OBVIOUS
  <2> HIDE DEF c
  <2>6. /\ call' \in [Requests -> CallType] /\ call'[r] = c
        /\ \A q \in Requests : q # r => call'[q] = call[q]
    BY <2>3, <2>4 DEF Inv, Shape
  <2>7. Journey(c)
    <3>1. /\ \A m \in 1..(last - 1) : homes[m] \in call[r].list /\ homes[m] \in call[r].tried
          /\ \A m, n \in 1..(last - 1) : homes[m] = homes[n] => m = n
      BY <1>1, <2>2 DEF Journey
    <3>2. \A m \in 1..last : m = last \/ m \in 1..(last - 1)
      BY <1>1
    <3>3. \A m \in 1..last : homes[m] \in call[r].list
      BY <2>1, <2>2, <3>1, <3>2
    <3>4. \A m, n \in 1..last : homes[m] = homes[n] => m = n
      BY <2>1, <2>2, <3>1, <3>2
    <3>5. last > 0 /\ c.pc \notin {"idle", "build", "loop"}
      BY <1>1, <2>5
    <3>6. QED
      BY <2>2, <2>5, <3>1, <3>3, <3>4, <3>5 DEF Journey
  <2>8. last \in Backends
    <3>1. Len(c.homes) = last
      BY <2>2, <2>5
    <3>2. QED
      BY <1>1, <2>4, <2>7, <3>1, AttemptsFit DEF Backends
  <2> DEFINE p == [is |-> "waiting", at |-> b, allowed |-> call[r].list]
  <2>9. place' = [place EXCEPT ![<<r, last>>] = p]
    BY <1>3 DEF Pool!Queue
  <2>10. p \in PlaceType
    BY <1>1, <2>1 DEF PlaceType, CallType, Backends
  <2> HIDE DEF p, last
  <2>11. /\ place' \in [Attempts -> PlaceType]
         /\ \A q \in Requests, n \in Backends :
               q # r \/ n # last => place'[<<q, n>>] = place[<<q, n>>]
    BY <2>8, <2>9, <2>10 DEF Inv, Shape, Attempts
  <2>12. Shape'
    BY <2>6, <2>11 DEF Reserve, Inv, Shape
  <2>13. Journeys'
    BY <2>6, <2>7 DEF Inv, Journeys
  <2>14. OnePlace'
    <3>1. \A n \in Backends : ~Active(place[<<r, n>>])
      BY <1>1 DEF Inv, OnePlace, Held
    <3>2. SUFFICES ASSUME NEW q \in Requests, NEW n \in Backends, Active(place'[<<q, n>>])
                   PROVE  n = Len(call'[q].homes) /\ call'[q].pc \in Held
      BY DEF OnePlace
    <3>3. CASE q = r
      BY <2>2, <2>5, <2>6, <2>11, <3>1, <3>2, <3>3 DEF Held
    <3>4. CASE q # r
      BY <2>6, <2>11, <3>2, <3>4 DEF Inv, OnePlace
    <3>5. QED
      BY <3>3, <3>4
  <2>15. Builders'
    <3>1. \A q \in Requests, d \in Backends : Builds(q, d)' => Builds(q, d)
      BY <2>5, <2>6 DEF Builds, Home, Reserve
    <3>2. \A q \in Requests : call'[q].pc # "build" => task'[q] = NoTasks
      BY <1>1, <2>6 DEF Inv, Builders, Reserve
    <3>3. QED
      BY <3>1, <3>2, BuildersShrink DEF Reserve
  <2>16. QED
    BY <2>12, <2>13, <2>14, <2>15 DEF Inv
<1>4. QED
  BY <1>2, <1>3 DEF Reserve

\* The attempt in hand finds the client, or starts the factory: then there was
\* no client and no one else builds.
LEMMA GetClientKeeps ==
    ASSUME Inv, NEW r \in Requests, GetClient(r)
    PROVE  Inv'
<1>1. /\ call[r].pc = "client" /\ call[r].pc \in Held /\ task[r] = NoTasks
      /\ UNCHANGED <<list, breaker, built, task, place>>
  BY DEF GetClient, Inv, Builders, Held
<1>2. CASE Home(r) \in built
  BY <1>1, <1>2, OnlyGoes DEF GetClient, Held, Inv, Shape
<1>3. CASE Home(r) \notin built
  <2>1. Goes(r, "building") /\ ~Building(Home(r))
    BY <1>3 DEF GetClient
  <2>2. /\ call' \in [Requests -> CallType]
        /\ call'[r].pc = "building"
        /\ call'[r].list = call[r].list
        /\ call'[r].tried = call[r].tried
        /\ call'[r].homes = call[r].homes
        /\ \A q \in Requests : q # r => call'[q] = call[q]
    BY <2>1, CallGoes DEF Inv, Held
  <2>3. Shape' /\ OnePlace'
    BY <1>1, <2>2 DEF Inv, Shape, OnePlace, Held
  <2>4. Journeys'
    <3>1. Journey(call[r]) /\ \A q \in Requests : Journey(call[q])
      BY DEF Inv, Journeys
    <3>2. Journey(call'[r])
      BY <1>1, <2>2, <3>1 DEF Journey, Held
    <3>3. QED
      BY <2>2, <3>1, <3>2 DEF Journeys
  <2>5. Builders'
    <3>1. \A q \in Requests : ~Builds(q, Home(r))
      BY <2>1 DEF Building, Builds
    <3>2. \A q \in Requests, b \in Backends :
             Builds(q, b)' => Builds(q, b) \/ (q = r /\ b = Home(r))
      BY <1>1, <2>2 DEF Builds, Home
    <3>3. \A q \in Requests : call'[q].pc # "build" => task'[q] = NoTasks
      BY <1>1, <2>2 DEF Inv, Builders
    <3>4. built' = built /\ built \subseteq Backends
      BY <1>1 DEF Inv, Shape
    <3>5. QED
      BY <1>3, <3>1, <3>2, <3>3, <3>4 DEF Inv, Builders
  <2>6. QED
    BY <2>3, <2>4, <2>5 DEF Inv
<1>4. QED
  BY <1>2, <1>3

\* The factory of the attempt in hand answers: it was the only one.
LEMMA ClientBuiltKeeps ==
    ASSUME Inv, NEW r \in Requests, NEW ok \in BOOLEAN, ClientBuilt(r, ok)
    PROVE  Inv'
<1>1. /\ call[r].pc = "building" /\ call[r].pc \in Held /\ task[r] = NoTasks
      /\ call[r] \in CallType /\ Journey(call[r]) /\ Home(r) \in Backends
  BY DEF ClientBuilt, Inv, Builders, Shape, Journeys, Journey, Held, Home, CallType
<1>2. CASE ~ok
  BY <1>1, <1>2, Tripped, GivesUp DEF ClientBuilt
<1>3. CASE ok
  <2>1. /\ built' = built \cup {Home(r)} /\ Goes(r, "stream")
        /\ UNCHANGED <<list, breaker, task, place>>
    BY <1>3 DEF ClientBuilt
  <2>2. /\ call' \in [Requests -> CallType]
        /\ call'[r].pc = "stream"
        /\ call'[r].list = call[r].list
        /\ call'[r].tried = call[r].tried
        /\ call'[r].homes = call[r].homes
        /\ \A q \in Requests : q # r => call'[q] = call[q]
    BY <2>1, CallGoes DEF Inv, Held
  <2>3. Shape' /\ OnePlace'
    BY <1>1, <2>1, <2>2 DEF Inv, Shape, OnePlace, Held
  <2>4. Journeys'
    <3>1. Journey(call'[r])
      BY <1>1, <2>2 DEF Journey, Held
    <3>2. QED
      BY <2>2, <3>1 DEF Inv, Journeys
  <2>5. Builders'
    <3>1. \A q \in Requests, b \in Backends : Builds(q, b)' => Builds(q, b) /\ q # r
      BY <1>1, <2>1, <2>2 DEF Builds, Home, NoTasks
    <3>2. \A q \in Requests : Builds(q, Home(r)) => q = r
      BY <1>1 DEF Inv, Builders, Builds
    <3>3. \A q \in Requests : call'[q].pc # "build" => task'[q] = NoTasks
      BY <1>1, <2>1, <2>2 DEF Inv, Builders
    <3>4. built \subseteq Backends
      BY DEF Inv, Shape
    <3>5. QED
      BY <1>1, <2>1, <3>1, <3>2, <3>3, <3>4 DEF Inv, Builders
  <2>6. QED
    BY <2>3, <2>4, <2>5 DEF Inv
<1>4. QED
  BY <1>2, <1>3

\* A stream ends.
LEMMA EndStreamKeeps ==
    ASSUME Inv, NEW r \in Requests, NEW reply \in Replies, EndStream(r, reply)
    PROVE  Inv'
<1>1. call[r].pc = "stream" /\ call[r].pc \in Held /\ task[r] = NoTasks
  BY DEF EndStream, Inv, Builders, Held
<1>2. CASE reply = "unreachable"
  BY <1>1, <1>2, Tripped, GivesUp DEF EndStream
<1>3. CASE reply # "unreachable"
  <2>1. Goes(r, "done") /\ Pool!Leave(Attempt(r)) /\ UNCHANGED <<list, built, task>>
    BY <1>3 DEF EndStream
  <2>2. Closed \in Closed..Cooldown
    BY DispatcherAssumption DEF Closed
  <2>3. breaker' \in [Backends -> Closed..Cooldown]
    BY <1>3, <2>2 DEF EndStream, Inv, Shape
  <2>4. QED
    BY <1>1, <2>1, <2>3, OnlyGoes DEF Held
<1>4. QED
  BY <1>2, <1>3

\* A dropped future gives back its place, and its builds are aborted.
LEMMA CancelKeeps ==
    ASSUME Inv, NEW r \in Requests, Cancel(r)
    PROVE  Inv'
<1>1. /\ call' \in [Requests -> CallType]
      /\ call'[r].pc = "done"
      /\ call'[r].list = call[r].list
      /\ call'[r].tried = call[r].tried
      /\ call'[r].homes = call[r].homes
      /\ \A q \in Requests : q # r => call'[q] = call[q]
  BY CallGoes DEF Inv, Cancel
<1>2. /\ task' \in [Requests -> [Backends -> {"none", "want", "building"}]]
      /\ task'[r] = NoTasks
      /\ \A q \in Requests : q # r => task'[q] = task[q]
  BY DEF Cancel, Inv, Shape, NoTasks
<1>3. /\ place' \in [Attempts -> PlaceType]
      /\ \A n \in Backends : ~Active(place'[<<r, n>>])
      /\ \A q \in Requests, n \in Backends : q # r => place'[<<q, n>>] = place[<<q, n>>]
  <2>1. CASE call[r].pc = "build"
    BY <2>1 DEF Cancel, Inv, Shape, OnePlace, Held
  <2>2. CASE call[r].pc # "build"
    BY <2>2, PlaceLeft DEF Cancel, Held
  <2>3. QED
    BY <2>1, <2>2
<1>4. Shape' /\ OnePlace'
  BY <1>1, <1>2, <1>3 DEF Cancel, Inv, Shape, OnePlace
<1>5. Journeys'
  <2>1. Journey(call'[r])
    BY <1>1 DEF Inv, Journeys, Journey, Held
  <2>2. QED
    BY <1>1, <2>1 DEF Inv, Journeys
<1>6. Builders'
  <2>1. \A q \in Requests, b \in Backends : Builds(q, b)' => Builds(q, b)
    BY <1>1, <1>2 DEF Builds, Home, NoTasks
  <2>2. \A q \in Requests : call'[q].pc # "build" => task'[q] = NoTasks
    BY <1>1, <1>2 DEF Inv, Builders
  <2>3. QED
    BY <2>1, <2>2, BuildersShrink DEF Cancel
<1>7. QED
  BY <1>4, <1>5, <1>6 DEF Inv

\* A place that changes its state and its backend is one.
LEMMA PlaceMoved ==
    ASSUME NEW p \in PlaceType, NEW is \in {"waiting", "moving"}, NEW at \in Int
    PROVE  [p EXCEPT !.is = is, !.at = at] \in PlaceType
<1> DEFINE q == [p EXCEPT !.is = is]
<1>1. q \in PlaceType
  BY DEF PlaceType
<1>2. [p EXCEPT !.is = is, !.at = at] = [q EXCEPT !.at = at]
  OBVIOUS
<1> HIDE DEF q
<1>3. [q EXCEPT !.at = at] \in PlaceType
  BY <1>1 DEF PlaceType
<1>4. QED
  BY <1>2, <1>3

\* The schedulers move a call between places it holds.
LEMMA PoolStepKeeps ==
    ASSUME Inv, NEW a \in Attempts, PoolStep(a)
    PROVE  Inv'
<1>1. place \in [Attempts -> PlaceType] /\ place[a] \in PlaceType
  BY DEF Inv, Shape
<1>2. \E p \in PlaceType : place' = [place EXCEPT ![a] = p] /\ Active(place[a])
  <2>1. CASE Pool!Start(a)
    <3>1. place' = [place EXCEPT ![a] = [place[a] EXCEPT !.is = "running"]]
      BY <2>1 DEF Pool!Start
    <3>2. [place[a] EXCEPT !.is = "running"] \in PlaceType
      BY <1>1 DEF PlaceType
    <3>3. QED
      BY <2>1, <3>1, <3>2 DEF Pool!Start, Active
  <2>2. CASE Pool!Take(a)
    <3>1. place' = [place EXCEPT ![a] = [place[a] EXCEPT !.is = "moving", !.at = Pool!Nowhere]]
      BY <1>1, <2>2 DEF Pool!Take
    <3>2. [place[a] EXCEPT !.is = "moving", !.at = Pool!Nowhere] \in PlaceType
      <4>1. Pool!Nowhere \in Int
        BY DEF Pool!Nowhere
      <4>2. QED
        BY <1>1, <4>1, PlaceMoved
    <3>3. QED
      BY <2>2, <3>1, <3>2 DEF Pool!Take, Active
  <2>3. ASSUME NEW b \in Backends, Pool!Give(a, b)
        PROVE  \E p \in PlaceType : place' = [place EXCEPT ![a] = p] /\ Active(place[a])
    <3>1. place' = [place EXCEPT ![a] = [place[a] EXCEPT !.is = "waiting", !.at = b]]
      BY <1>1, <2>3 DEF Pool!Give
    <3>2. [place[a] EXCEPT !.is = "waiting", !.at = b] \in PlaceType
      <4>1. b \in Int
        BY DEF Backends
      <4>2. QED
        BY <1>1, <4>1, PlaceMoved
    <3>3. QED
      BY <2>3, <3>1, <3>2 DEF Pool!Give, Active
  <2>4. QED
    BY <2>1, <2>2, <2>3 DEF PoolStep
<1>3. /\ place' \in [Attempts -> PlaceType]
      /\ \A q \in Requests, n \in Backends : Active(place'[<<q, n>>]) => Active(place[<<q, n>>])
  BY <1>1, <1>2 DEF Attempts
<1>4. UNCHANGED <<list, breaker, built, task, call>>
  BY DEF PoolStep
<1>5. QED
  BY <1>3, <1>4 DEF Inv, Shape, Journeys, OnePlace, Builders, Builds, Home

\* Breakers count down and the owner sets another list.
LEMMA AroundKeeps ==
    ASSUME Inv, Tick \/ \E to \in Lists : SetBackends(to)
    PROVE  Inv'
<1>1. breaker' \in [Backends -> Closed..Cooldown] /\ list' \in SUBSET Backends
  <2>1. CASE Tick
    <3>1. \A b \in Backends : breaker[b] \in Closed..Cooldown
      BY DEF Inv, Shape
    <3>2. \A b \in Backends : Open(b) => breaker[b] - 1 \in Closed..Cooldown
      BY <3>1, DispatcherAssumption DEF Open, Closed
    <3>3. QED
      BY <2>1, <3>1, <3>2 DEF Tick, Inv, Shape
  <2>2. CASE \E to \in Lists : SetBackends(to)
    BY <2>2, DispatcherAssumption DEF SetBackends, Inv, Shape
  <2>3. QED
    BY <2>1, <2>2
<1>2. UNCHANGED <<built, task, call, place>>
  BY DEF Tick, SetBackends
<1>3. QED
  BY <1>1, <1>2 DEF Inv, Shape, Journeys, OnePlace, Builders, Builds, Home

-----------------------------------------------------------------------------
\* The invariant holds of a dispatcher nobody called,
LEMMA InitEstablishes == Init => Inv
<1> SUFFICES ASSUME Init PROVE Inv
  OBVIOUS
<1>1. NoCall \in CallType /\ Journey(NoCall) /\ NoCall.pc = "idle"
  BY DEF NoCall, CallType, Journey, Held
<1>2. Pool!Unborn \in PlaceType /\ ~Active(Pool!Unborn)
  BY DEF Pool!Unborn, Pool!Nowhere, PlaceType, Active
<1>3. Closed \in Closed..Cooldown
  BY DispatcherAssumption DEF Closed
<1>4. list \in SUBSET Backends /\ built \in SUBSET Backends
  BY DispatcherAssumption DEF Init
<1>5. Shape
  BY <1>1, <1>2, <1>3, <1>4 DEF Init, Shape, Pool!Init, NoTasks
<1>6. Journeys /\ OnePlace
  BY <1>1, <1>2 DEF Init, Pool!Init, Journeys, OnePlace, Attempts
<1>7. Builders
  BY <1>1, <1>4 DEF Init, Builders, Builds, NoTasks
<1>8. QED
  BY <1>5, <1>6, <1>7 DEF Inv

\* and every step keeps it.
LEMMA NextPreserves == Inv /\ [Next]_vars => Inv'
<1> SUFFICES ASSUME Inv, [Next]_vars PROVE Inv'
  OBVIOUS
<1>1. ASSUME NEW r \in Requests, BeginCall(r) PROVE Inv'
  BY <1>1, BeginCallKeeps
<1>2. ASSUME NEW r \in Requests, Build(r) PROVE Inv'
  BY <1>2, StartBuildKeeps, EndBuildKeeps DEF Build
<1>3. ASSUME NEW r \in Requests, CallStep(r) PROVE Inv'
  <2>1. \/ BuildsJoined(r) \/ Reserve(r) \/ GetSlot(r) \/ Admit(r) \/ GetClient(r)
        \/ \E ok \in BOOLEAN : ClientBuilt(r, ok)
        \/ \E reply \in Replies : EndStream(r, reply)
    BY <1>3 DEF CallStep
  <2>2. CASE BuildsJoined(r)
    BY <2>2, OnlyGoes DEF BuildsJoined, Held, Inv, Shape
  <2>3. CASE GetSlot(r)
    <3>1. task[r] = NoTasks
      BY <2>3 DEF GetSlot, Inv, Builders
    <3>2. QED
      BY <2>3, <3>1, OnlyGoes DEF GetSlot, Held, Inv, Shape
  <2>4. CASE Admit(r)
    <3>1. task[r] = NoTasks /\ call[r].pc \in Held /\ breaker' \in [Backends -> Closed..Cooldown]
      BY <2>4 DEF Admit, Inv, Builders, Held, Shape
    <3>2. CASE Open(Home(r))
      BY <2>4, <3>1, <3>2, GivesUp DEF Admit
    <3>3. CASE ~Open(Home(r))
      BY <2>4, <3>1, <3>3, OnlyGoes DEF Admit, Held
    <3>4. QED
      BY <3>2, <3>3
  <2>5. QED
    BY <2>1, <2>2, <2>3, <2>4, ReserveKeeps, GetClientKeeps, ClientBuiltKeeps, EndStreamKeeps
<1>4. ASSUME NEW r \in Requests, GoStale(r) PROVE Inv'
  <2>1. task[r] = NoTasks
    BY <1>4 DEF GoStale, Inv, Builders
  <2>2. QED
    BY <1>4, <2>1, OnlyGoes DEF GoStale, Held, Inv, Shape
<1>5. ASSUME NEW r \in Requests, Cancel(r) PROVE Inv'
  BY <1>5, CancelKeeps
<1>6. ASSUME NEW a \in Attempts, PoolStep(a) PROVE Inv'
  BY <1>6, PoolStepKeeps
<1>7. CASE Tick \/ \E to \in Lists : SetBackends(to)
  BY <1>7, AroundKeeps
<1>8. CASE UNCHANGED vars
  BY <1>8 DEF vars, Inv, Shape, Journeys, OnePlace, Builders, Builds, Home
<1>9. QED
  BY <1>1, <1>2, <1>3, <1>4, <1>5, <1>6, <1>7, <1>8 DEF Next

\* What the invariant says of the dispatcher.
LEMMA InvImplies == Inv => FailoverOnce /\ OneAtATime
<1> SUFFICES ASSUME Inv PROVE FailoverOnce /\ OneAtATime
  OBVIOUS
<1>1. TypeOK
  <2>1. \A r \in Requests : Len(call[r].homes) <= NumBackends
    BY AttemptsFit DEF Inv, Shape, Journeys
  <2>2. QED
    BY <2>1 DEF Inv, Shape, TypeOK, CallType, Held
<1>2. FailoverOnce
  <2>1. \A r \in Requests : DOMAIN call[r].homes = 1..Len(call[r].homes)
    BY DEF Inv, Shape, CallType
  <2>2. QED
    BY <2>1 DEF Inv, Journeys, Journey, FailoverOnce
<1>3. OnePlaceAtATime
  BY DEF Inv, OnePlace, OnePlaceAtATime, Active, Held, Backends
<1>4. OneBuildAtATime
  <2>1. SUFFICES ASSUME NEW b \in Backends,
                        NEW builders, builders = {r \in Requests : task[r][b] = "building"}
                           \cup {r \in Requests : call[r].pc = "building" /\ Home(r) = b}
                 PROVE  /\ Cardinality(builders) <= 1
                        /\ b \in built => builders = {}
    BY DEF OneBuildAtATime
  <2>2. \A r \in builders : r \in Requests /\ Builds(r, b)
    BY <2>1 DEF Builds
  <2>3. \A q, r \in builders : q = r
    BY <2>2 DEF Inv, Builders
  <2>4. Cardinality(builders) <= 1
    <3>1. CASE builders = {}
      BY <3>1, FS_EmptySet
    <3>2. ASSUME NEW r \in builders PROVE Cardinality(builders) <= 1
      <4>1. builders = {r}
        BY <2>3, <3>2
      <4>2. QED
        BY <4>1, FS_Singleton
    <3>3. QED
      BY <3>1, <3>2
  <2>5. QED
    BY <2>2, <2>4 DEF Inv, Builders
<1>5. QED
  BY <1>1, <1>2, <1>3, <1>4 DEF OneAtATime

-----------------------------------------------------------------------------
\* No backend gets a call twice and none gets it that was not in the list the
\* call began with, however breakers open and close while it fails over.
THEOREM FailsOverOnce == Spec => []FailoverOnce
<1>1. QED
  BY InitEstablishes, NextPreserves, InvImplies, PTL DEF Spec

\* A call holds the place of its attempt in hand and no other, makes no more
\* attempts than there are backends, and no backend's client is built twice.
THEOREM HoldsOneAtATime == Spec => []OneAtATime
<1>1. QED
  BY InitEstablishes, NextPreserves, InvImplies, PTL DEF Spec
=============================================================================
