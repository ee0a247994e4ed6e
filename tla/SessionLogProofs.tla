-------------------------- MODULE SessionLogProofs --------------------------
EXTENDS SessionLog, FiniteLemmas

-----------------------------------------------------------------------------
(* The session log: its records, the jobs that write them, and the forks.  *)

\* A sequence of whatever it holds.
IsList(l) == l \in Seq(ToSet(l))

Job(op, todo, covered, session, branch, len) ==
    [op |-> op, todo |-> todo, covered |-> covered, session |-> session,
     branch |-> branch, len |-> len]

IsJob(j) ==
    /\ j = Job(j.op, j.todo, j.covered, j.session, j.branch, j.len)
    /\ IsList(j.todo) /\ j.covered \in Nat
    /\ \A k \in 1..Len(j.todo) :
          j.todo[k] = Record(j.todo[k].session, j.todo[k].seq, j.todo[k].event)

IsStore(st) ==
    /\ st = [kind |-> st.kind, sessions |-> st.sessions, total |-> st.total,
             forks |-> st.forks, torn |-> st.torn]
    /\ st.kind \in {"memory", "file"} /\ st.total \in Nat /\ st.forks \in Nat
    /\ st.sessions = [s \in DOMAIN st.sessions |-> st.sessions[s]]
    /\ IsFiniteSet(DOMAIN st.sessions)
    /\ \A s \in DOMAIN st.sessions :
          /\ IsList(st.sessions[s])
          /\ \A i \in 1..Len(st.sessions[s]) : LET r == st.sessions[s][i] IN
                r = Record(r.session, r.seq, r.event)

IsPlugin(pl) ==
    /\ pl = [next |-> pl.next, recorded |-> pl.recorded, lock |-> pl.lock]
    /\ pl.recorded \in Nat

IsJobs(jb) ==
    /\ jb = [t \in LogThreads |-> jb[t]]
    /\ \A t \in LogThreads : IsJob(jb[t])

Past(acked, ops, branches, forks, crashes, failures) ==
    [acked |-> acked, ops |-> ops, branches |-> branches, forks |-> forks,
     crashes |-> crashes, failures |-> failures]

IsPast(pt) ==
    /\ pt = Past(pt.acked, pt.ops, pt.branches, pt.forks, pt.crashes, pt.failures)
    /\ pt.ops \in Nat /\ pt.crashes \in Nat /\ pt.failures \in Nat

LogTyped(st, pl, jb, pt) ==
    /\ IsStore(st) /\ IsPlugin(pl) /\ IsJobs(jb) /\ IsPast(pt)
    /\ st.kind = "memory" => pt.crashes = 0

-----------------------------------------------------------------------------
(* The positions that requests record.                                     *)

\* A record to the hooks' session that has a position.
SaysAt(r) == r.session = Root /\ Speaks(r.event.kind)

\* A request has the lock, and no other operation records a position.
LockHeld(pl, jb) ==
    \A t \in LogThreads :
        /\ pl.lock = t <=> jb[t].op = "request"
        /\ jb[t].op # "request" => \A k \in 1..Len(jb[t].todo) : ~SaysAt(jb[t].todo[k])

\* What it will record is new, and each position once.
AheadOf(j, recorded) ==
    /\ j.covered >= recorded
    /\ \A k \in 1..Len(j.todo) : SaysAt(j.todo[k]) =>
          j.todo[k].event.at \in recorded..(j.covered - 1)
    /\ \A k, l \in 1..Len(j.todo) :
          SaysAt(j.todo[k]) /\ SaysAt(j.todo[l]) /\ j.todo[k].event.at = j.todo[l].event.at => k = l

RequestsAhead(pl, jb) ==
    \A t \in LogThreads : jb[t].op = "request" => AheadOf(jb[t], pl.recorded)

\* A position in the log is behind the count, or the request at work put it there.
Behind(at, pl, jb) ==
    \/ at \in 0..(pl.recorded - 1)
    \/ \E t \in LogThreads : /\ jb[t].op = "request"
                             /\ at \in 0..(jb[t].covered - 1)
                             /\ \A k \in 1..Len(jb[t].todo) :
                                   SaysAt(jb[t].todo[k]) => jb[t].todo[k].event.at # at

PositionsBehind(log, pl, jb) ==
    /\ \A i \in 1..Len(log) : Speaks(log[i].event.kind) => Behind(log[i].event.at, pl, jb)
    /\ \A i, j \in 1..Len(log) :
          Speaks(log[i].event.kind) /\ Speaks(log[j].event.kind) /\ log[i].event.at = log[j].event.at
          => i = j

Clean(st, pt) ==
    pt.crashes = 0 /\ pt.failures = 0 /\ ~(st.kind = "memory" /\ st.total >= MaxRecords)

PositionsKept(st, pl, jb, pt) ==
    /\ LockHeld(pl, jb)
    /\ RequestsAhead(pl, jb)
    /\ Clean(st, pt) => PositionsBehind(Log(st, Root), pl, jb)

-----------------------------------------------------------------------------
(* The events, which tell one record from another.                         *)

Forked(id) == [op |-> 0, kind |-> "fork", at |-> 0, to |-> id]

\* An event of an operation that began, or the record of a fork that was made.
Dated(e, ops, forks) ==
    \/ e.to = Root /\ e.op \in 0..(ops - 1)
    \/ e = Forked(e.to) /\ e.to # Root /\ e.to[3] \in 0..(forks - 1)

Known(s, forks) == s = Root \/ s[3] \in 0..(forks - 1)

EventsDated(st, jb, ops) ==
    /\ \A s \in DOMAIN st.sessions : \A i \in 1..Len(Log(st, s)) :
          Dated(Log(st, s)[i].event, ops, st.forks)
    /\ \A t \in LogThreads : \A k \in 1..Len(jb[t].todo) :
          Dated(jb[t].todo[k].event, ops, st.forks)

SessionsKnown(st, jb, branches) ==
    /\ \A s \in DOMAIN st.sessions : Known(s, st.forks)
    /\ \A b \in branches : Known(b, st.forks)
    /\ \A t \in LogThreads :
          /\ Known(jb[t].branch, st.forks)
          /\ \A k \in 1..Len(jb[t].todo) : Known(jb[t].todo[k].session, st.forks)

\* No event is twice in a session, in its log or on its way to it.
LogsDiffer(st) ==
    \A s \in DOMAIN st.sessions : \A i, j \in 1..Len(Log(st, s)) :
        Log(st, s)[i].event = Log(st, s)[j].event => i = j

PendingNew(st, jb) ==
    \A t \in LogThreads : \A k \in 1..Len(jb[t].todo) :
        LET r == jb[t].todo[k] IN
        \A i \in 1..Len(Log(st, r.session)) : Log(st, r.session)[i].event # r.event

PendingDiffer(jb) ==
    \A t, u \in LogThreads : \A k \in 1..Len(jb[t].todo), l \in 1..Len(jb[u].todo) :
        /\ jb[t].todo[k].session = jb[u].todo[l].session
        /\ jb[t].todo[k].event = jb[u].todo[l].event
        => t = u /\ k = l

EventsDiffer(st, jb, ops) ==
    EventsDated(st, jb, ops) /\ LogsDiffer(st) /\ PendingNew(st, jb) /\ PendingDiffer(jb)

-----------------------------------------------------------------------------
(* The forks.                                                              *)

ForkOps == {"fork", "measure", "realign"}

\* A thread writes to the hooks' session, to a branch that was given out, and to
\* the one it is making.
WritesOwn(jb, branches) ==
    \A t \in LogThreads : \A k \in 1..Len(jb[t].todo) :
        jb[t].todo[k].session \in {Root} \cup branches \cup {jb[t].branch}

ForksApart(jb, branches) ==
    /\ \A t \in LogThreads :
          /\ jb[t].op \notin ForkOps => jb[t].branch = Root
          /\ jb[t].op \in ForkOps => /\ jb[t].branch \notin branches /\ jb[t].branch # Root
                                     /\ jb[t].session \in {Root} \cup branches
                                     /\ jb[t].session = jb[t].branch[1]
    /\ \A t, u \in LogThreads :
          jb[t].op \in ForkOps /\ jb[u].op \in ForkOps /\ jb[t].branch = jb[u].branch => t = u
    /\ Root \notin branches

\* The point is in the log.
HasPoint(log, seq) == \E i \in 1..Len(log) : log[i].seq = seq

\* What the branch holds is what the original held there.
Copied(log, copy, n) == n <= Len(copy) /\ \A j \in 1..n : copy[j].event = log[j].event

\* The branch is complete, and the original says so.
Carries(st, b) ==
    LET log == Log(st, b[1]) IN
    /\ HasPoint(log, b[2])
    /\ Copied(log, Log(st, b), PointAt(log, b[2]))
    /\ \E i \in 1..Len(log) : log[i].event = Forked(b)

\* What a fork in the file backend has still to copy.
Copying(st, j) ==
    LET log == Log(st, j.session)
        copy == Log(st, j.branch)
        p == PointAt(log, j.branch[2])
        k == Len(copy)
    IN /\ HasPoint(log, j.branch[2])
       /\ k <= p /\ Copied(log, copy, k)
       /\ Len(j.todo) = p - k + 1
       /\ \A i \in 1..(p - k) : /\ j.todo[i].session = j.branch
                                /\ j.todo[i].event = log[k + i].event
       /\ j.todo[p - k + 1].session = j.session
       /\ j.todo[p - k + 1].event = Forked(j.branch)

ForksKept(st, jb, branches) ==
    /\ \A b \in branches : b[1] \in {Root} \cup branches /\ Carries(st, b)
    /\ \A t \in LogThreads :
          /\ jb[t].op = "fork" => Copying(st, jb[t])
          /\ jb[t].op \in {"measure", "realign"} => Carries(st, jb[t].branch) /\ jb[t].todo = <<>>

Acked(st, acked) ==
    \A a \in acked : \E i \in 1..Len(Log(st, a[1])) : Log(st, a[1])[i].event = a[2]

Calm(st, jb, pt) ==
    /\ SessionsKnown(st, jb, pt.branches)
    /\ EventsDiffer(st, jb, pt.ops)
    /\ WritesOwn(jb, pt.branches) /\ ForksApart(jb, pt.branches)
    /\ ForksKept(st, jb, pt.branches)

\* The count of a store in memory.
Exact(st) ==
    st.kind = "memory" =>
        /\ st.total = SumFunction([s \in DOMAIN st.sessions |-> Len(st.sessions[s])])
        /\ st.total <= MaxRecords

LogHolds(st, pl, jb, pt) ==
    /\ LogTyped(st, pl, jb, pt)
    /\ PositionsKept(st, pl, jb, pt)
    /\ Acked(st, pt.acked)
    /\ Exact(st)
    /\ pt.crashes = 0 => Calm(st, jb, pt)

LogInv == LogHolds(store, plugin, job, past)

-----------------------------------------------------------------------------
(* Lists.                                                                  *)

\* A list has a length, and its places are the numbers up to it.
LEMMA ListHas ==
    ASSUME NEW l, IsList(l)
    PROVE  Len(l) \in Nat /\ DOMAIN l = 1..Len(l) /\ l = [i \in 1..Len(l) |-> l[i]]
<1> DEFINE S == ToSet(l)
<1>1. l \in Seq(S)
  BY DEF IsList
<1> HIDE DEF S
<1> QED BY <1>1

\* A function on the first numbers is a list.
LEMMA ListIs ==
    ASSUME NEW n \in Nat, NEW l, DOMAIN l = 1..n, l = [i \in 1..n |-> l[i]]
    PROVE  IsList(l) /\ Len(l) = n
<1> DEFINE S == ToSet(l)
<1>1. \A i \in 1..n : l[i] \in S
  BY DEF ToSet
<1> HIDE DEF S
<1>2. l \in [1..n -> S]
  BY <1>1
<1>3. l \in Seq(S) /\ Len(l) = n
  BY <1>2
<1> QED BY <1>3 DEF IsList, S

\* A sequence is a list.
LEMMA ListOf ==
    ASSUME NEW S, NEW l \in Seq(S)
    PROVE  IsList(l)
<1>1. Len(l) \in Nat /\ DOMAIN l = 1..Len(l) /\ l = [i \in 1..Len(l) |-> l[i]]
  OBVIOUS
<1> QED BY <1>1, ListIs

\* One more at the end.
LEMMA ListGrows ==
    ASSUME NEW l, IsList(l), NEW r
    PROVE  /\ IsList(Append(l, r)) /\ Len(Append(l, r)) = Len(l) + 1
           /\ Append(l, r)[Len(l) + 1] = r
           /\ \A i \in 1..Len(l) : Append(l, r)[i] = l[i]
           /\ \A i \in 1..Len(Append(l, r)) : i = Len(l) + 1 \/ i \in 1..Len(l)
<1> DEFINE S == ToSet(l) \cup {r}
           a == Append(l, r)
<1>1. l \in Seq(ToSet(l)) /\ Len(l) \in Nat
  BY ListHas DEF IsList
<1>2. l \in Seq(S)
  BY <1>1
<1>3. r \in S
  OBVIOUS
<1> HIDE DEF S
<1>4. /\ a \in Seq(S) /\ Len(a) = Len(l) + 1 /\ a[Len(l) + 1] = r
      /\ \A i \in 1..Len(l) : a[i] = l[i]
  BY <1>2, <1>3
<1> HIDE DEF a
<1>6. IsList(a)
  BY <1>4, ListOf
<1>7. \A i \in 1..Len(a) : i = Len(l) + 1 \/ i \in 1..Len(l)
  BY <1>1, <1>4
<1> QED BY <1>4, <1>6, <1>7 DEF a

\* One less at the start.
LEMMA ListTail ==
    ASSUME NEW l, IsList(l), l # <<>>
    PROVE  /\ IsList(Tail(l)) /\ Len(l) \in Nat \ {0} /\ Len(Tail(l)) = Len(l) - 1
           /\ \A i \in 1..Len(Tail(l)) : Tail(l)[i] = l[i + 1] /\ i + 1 \in 2..Len(l) /\ i + 1 \in 1..Len(l)
           /\ 1 \in 1..Len(l)
           /\ Tail(l) = <<>> <=> Len(l) = 1
<1> DEFINE S == ToSet(l)
           a == Tail(l)
<1>1. l \in Seq(S)
  BY DEF IsList
<1> HIDE DEF S
<1>2. /\ a \in Seq(S) /\ Len(l) \in Nat \ {0} /\ Len(a) = Len(l) - 1
      /\ \A i \in 1..Len(a) : a[i] = l[i + 1] /\ i + 1 \in 2..Len(l) /\ i + 1 \in 1..Len(l)
  BY <1>1
<1> HIDE DEF a
<1>3. a = <<>> <=> Len(a) = 0
  BY <1>2
<1>4. a = <<>> <=> Len(l) = 1
  BY <1>2, <1>3
<1>5. IsList(a)
  BY <1>2, ListOf
<1> QED BY <1>2, <1>4, <1>5 DEF a

\* A list of nothing.
LEMMA EmptyList == IsList(<<>>) /\ Len(<<>>) = 0
BY DEF IsList

-----------------------------------------------------------------------------
(* What the store does to the logs.                                        *)

\* Every session has a list, and one that the store does not name is empty.
LEMMA LogIs ==
    ASSUME NEW st, IsStore(st)
    PROVE  \A s : /\ IsList(Log(st, s)) /\ Len(Log(st, s)) \in Nat
                  /\ s \in DOMAIN st.sessions => Log(st, s) = st.sessions[s]
                  /\ s \notin DOMAIN st.sessions => Log(st, s) = <<>> /\ Len(Log(st, s)) = 0
                  /\ \A i \in 1..Len(Log(st, s)) : LET r == Log(st, s)[i] IN
                        r = Record(r.session, r.seq, r.event) /\ s \in DOMAIN st.sessions
<1> TAKE s
<1>1. CASE s \in DOMAIN st.sessions
  BY <1>1, ListHas DEF IsStore, Log
<1>2. CASE s \notin DOMAIN st.sessions
  BY <1>2, EmptyList DEF Log
<1> QED BY <1>1, <1>2

\* The log s got r, and the others are as they were.
OneGrows(st, n, s, r) ==
    /\ Log(n, s) = Append(Log(st, s), r)
    /\ \A x : x # s => Log(n, x) = Log(st, x)

\* No log lost anything.
NothingLost(st, n) ==
    \A s : /\ Len(Log(st, s)) <= Len(Log(n, s))
           /\ \A i \in 1..Len(Log(st, s)) : i \in 1..Len(Log(n, s)) /\ Log(n, s)[i] = Log(st, s)[i]

\* What a store is made of.
LEMMA StoreOf ==
    ASSUME NEW st, IsStore(st), NEW n, NEW f, NEW total \in Nat, NEW forks \in Nat, NEW torn,
           n = [kind |-> st.kind, sessions |-> f, total |-> total, forks |-> forks, torn |-> torn],
           f = [s \in DOMAIN f |-> f[s]], IsFiniteSet(DOMAIN f),
           \A s \in DOMAIN f : /\ IsList(f[s])
                               /\ \A i \in 1..Len(f[s]) :
                                     f[s][i] = Record(f[s][i].session, f[s][i].seq, f[s][i].event)
    PROVE  IsStore(n)
BY DEF IsStore

\* Storing a record.
LEMMA StoredIs ==
    ASSUME NEW st, IsStore(st), NEW r, r = Record(r.session, r.seq, r.event)
    PROVE  /\ IsStore(Stored(st, r))
           /\ Stored(st, r).kind = st.kind /\ Stored(st, r).total = st.total + 1
           /\ Stored(st, r).forks = st.forks
           /\ DOMAIN Stored(st, r).sessions = DOMAIN st.sessions \cup {r.session}
           /\ OneGrows(st, Stored(st, r), r.session, r)
<1> DEFINE s == r.session
           f == Put(st.sessions, s, Append(Log(st, s), r))
           n == Stored(st, r)
<1>1. n = [kind |-> st.kind, sessions |-> f, total |-> st.total + 1, forks |-> st.forks, torn |-> st.torn]
  <2>1. st = [kind |-> st.kind, sessions |-> st.sessions, total |-> st.total,
              forks |-> st.forks, torn |-> st.torn]
    BY DEF IsStore
  <2>2. DOMAIN st = {"kind", "sessions", "total", "forks", "torn"}
    BY <2>1
  <2>3. n = [[st EXCEPT !.sessions = f] EXCEPT !.total = st.total + 1]
    BY <2>1 DEF Stored
  <2> HIDE DEF f, n
  <2> QED BY <2>1, <2>2, <2>3
<1>2. /\ DOMAIN f = DOMAIN st.sessions \cup {s} /\ f = [x \in DOMAIN f |-> f[x]]
      /\ f[s] = Append(Log(st, s), r) /\ \A x \in DOMAIN st.sessions : x # s => f[x] = st.sessions[x]
  BY DEF Put
<1> HIDE DEF f
<1>3. IsFiniteSet(DOMAIN f)
  BY <1>2, FS_AddElement DEF IsStore
<1>4. ASSUME NEW x \in DOMAIN f
      PROVE  /\ IsList(f[x])
             /\ \A i \in 1..Len(f[x]) : f[x][i] = Record(f[x][i].session, f[x][i].seq, f[x][i].event)
  <2>1. CASE x = s
    <3>1. IsList(Log(st, s)) /\ \A i \in 1..Len(Log(st, s)) : LET q == Log(st, s)[i] IN
                                   q = Record(q.session, q.seq, q.event)
      BY LogIs
    <3>2. f[x] = Append(Log(st, s), r)
      BY <1>2, <2>1
    <3>3. IsList(f[x])
      BY <3>1, <3>2, ListGrows
    <3>4. ASSUME NEW i \in 1..Len(f[x])
          PROVE  f[x][i] = Record(f[x][i].session, f[x][i].seq, f[x][i].event)
      <4>1. f[x][i] = r \/ (i \in 1..Len(Log(st, s)) /\ f[x][i] = Log(st, s)[i])
        BY <3>1, <3>2, ListGrows
      <4> QED BY <3>1, <4>1
    <3> QED BY <3>3, <3>4
  <2>2. CASE x # s
    BY <1>2, <1>4, <2>2 DEF IsStore
  <2> QED BY <2>1, <2>2
<1>5. IsStore(n)
  <2>1. st.total + 1 \in Nat /\ st.forks \in Nat
    BY DEF IsStore
  <2> HIDE DEF n
  <2> QED BY <1>1, <1>2, <1>3, <1>4, <2>1, StoreOf
<1>6. n.kind = st.kind /\ n.total = st.total + 1 /\ n.forks = st.forks /\ n.sessions = f
  BY <1>1
<1>7. OneGrows(st, n, s, r)
  <2>1. Log(n, s) = Append(Log(st, s), r)
    BY <1>2, <1>6 DEF Log
  <2>2. \A x : x # s => Log(n, x) = Log(st, x)
    BY <1>2, <1>6 DEF Log
  <2> QED BY <2>1, <2>2 DEF OneGrows
<1> QED BY <1>2, <1>5, <1>6, <1>7

\* A log that got one record lost nothing.
LEMMA GrowsLosesNothing ==
    ASSUME NEW st, IsStore(st), NEW n, NEW s, NEW r, OneGrows(st, n, s, r)
    PROVE  /\ NothingLost(st, n)
           /\ Len(Log(n, s)) = Len(Log(st, s)) + 1 /\ Log(n, s)[Len(Log(st, s)) + 1] = r
           /\ \A i \in 1..Len(Log(n, s)) : i = Len(Log(st, s)) + 1 \/ i \in 1..Len(Log(st, s))
<1>1. /\ Len(Log(n, s)) = Len(Log(st, s)) + 1 /\ Log(n, s)[Len(Log(st, s)) + 1] = r
      /\ \A i \in 1..Len(Log(st, s)) : Log(n, s)[i] = Log(st, s)[i]
      /\ \A i \in 1..Len(Log(n, s)) : i = Len(Log(st, s)) + 1 \/ i \in 1..Len(Log(st, s))
      /\ Len(Log(st, s)) \in Nat
  BY LogIs, ListGrows DEF OneGrows
<1>2. ASSUME NEW x
      PROVE  /\ Len(Log(st, x)) <= Len(Log(n, x))
             /\ \A i \in 1..Len(Log(st, x)) : i \in 1..Len(Log(n, x)) /\ Log(n, x)[i] = Log(st, x)[i]
  <2>1. CASE x = s
    BY <1>1, <2>1
  <2>2. CASE x # s
    BY <2>2, LogIs DEF OneGrows
  <2> QED BY <2>1, <2>2
<1> QED BY <1>1, <1>2 DEF NothingLost

\* The point of a fork is a place in the log, and stays there as the log grows.
LEMMA PointIs ==
    ASSUME NEW log, IsList(log), NEW seq, HasPoint(log, seq)
    PROVE  /\ PointAt(log, seq) \in 1..Len(log)
           /\ \A more : /\ IsList(more) /\ Len(log) <= Len(more)
                        /\ \A i \in 1..Len(log) : more[i] = log[i]
                        => HasPoint(more, seq) /\ PointAt(more, seq) = PointAt(log, seq)
<1> DEFINE At(l) == {i \in 1..Len(l) : l[i].seq = seq}
<1>1. Len(log) \in Nat
  BY ListHas
<1>2. At(log) \in SUBSET Nat /\ At(log) # {}
  BY <1>1 DEF HasPoint
<1>3. PointAt(log, seq) = Min(At(log))
  BY DEF PointAt
<1>4. Min(At(log)) \in At(log) /\ \A y \in At(log) : Min(At(log)) <= y
  <2> HIDE DEF At
  <2> QED BY <1>2, MinOfNats
<1>5. PointAt(log, seq) \in At(log) /\ \A y \in At(log) : PointAt(log, seq) <= y
  <2> HIDE DEF At
  <2> QED BY <1>3, <1>4
<1>6. ASSUME NEW more, IsList(more), Len(log) <= Len(more), \A i \in 1..Len(log) : more[i] = log[i]
      PROVE  HasPoint(more, seq) /\ PointAt(more, seq) = PointAt(log, seq)
  <2>1. Len(more) \in Nat
    BY <1>6, ListHas
  <2>2. \A i \in 1..Len(log) : i \in 1..Len(more)
    BY <1>1, <1>6, <2>1
  <2>3. At(log) \subseteq At(more) /\ At(more) \in SUBSET Nat
    BY <1>6, <2>1, <2>2
  <2>4. HasPoint(more, seq)
    BY <1>2, <1>6, <2>2 DEF HasPoint
  <2>5. PointAt(more, seq) = Min(At(more))
    BY DEF PointAt
  <2>6. Min(At(more)) \in At(more) /\ \A y \in At(more) : Min(At(more)) <= y
    <3>1. At(more) # {}
      BY <1>2, <2>3
    <3> HIDE DEF At
    <3> QED BY <2>3, <3>1, MinOfNats
  <2>7. PointAt(more, seq) \in At(more) /\ \A y \in At(more) : PointAt(more, seq) <= y
    <3> HIDE DEF At
    <3> QED BY <2>5, <2>6
  <2>8. PointAt(more, seq) <= PointAt(log, seq)
    BY <1>5, <2>3, <2>7
  <2>9. PointAt(more, seq) \in 1..Len(log)
    BY <1>1, <1>5, <2>1, <2>7, <2>8
  <2>10. PointAt(more, seq) \in At(log)
    BY <1>6, <2>7, <2>9
  <2>11. PointAt(log, seq) <= PointAt(more, seq)
    BY <1>5, <2>10
  <2> QED BY <1>1, <1>5, <2>1, <2>4, <2>7, <2>8, <2>11
<1> QED BY <1>5, <1>6

\* The records up to a place, for another session.
LEMMA PrefixIs ==
    ASSUME NEW log, IsList(log), NEW i \in 0..Len(log), NEW id,
           \A j \in 1..Len(log) : log[j] = Record(log[j].session, log[j].seq, log[j].event)
    PROVE  /\ IsList(Prefix(log, i, id)) /\ Len(Prefix(log, i, id)) = i
           /\ \A j \in 1..i : /\ Prefix(log, i, id)[j] = Record(id, log[j].seq, log[j].event)
                              /\ Prefix(log, i, id)[j].session = id
                              /\ Prefix(log, i, id)[j].event = log[j].event
                              /\ j \in 1..Len(log)
<1> DEFINE p == Prefix(log, i, id)
<1>1. Len(log) \in Nat /\ i \in Nat /\ i <= Len(log)
  BY ListHas
<1>2. p = [j \in 1..i |-> [log[j] EXCEPT !.session = id]]
  BY DEF Prefix
<1> HIDE DEF p
<1>3. DOMAIN p = 1..i /\ p = [j \in 1..i |-> p[j]]
  BY <1>2
<1>4. IsList(p) /\ Len(p) = i
  BY <1>1, <1>3, ListIs
<1>5. ASSUME NEW j \in 1..i
      PROVE  p[j] = Record(id, log[j].seq, log[j].event) /\ j \in 1..Len(log)
  <2>1. j \in 1..Len(log)
    BY <1>1
  <2>2. log[j] = Record(log[j].session, log[j].seq, log[j].event)
    BY <2>1
  <2> QED BY <1>2, <2>1, <2>2 DEF Record
<1>6. \A s, q, e : Record(s, q, e).session = s /\ Record(s, q, e).event = e
  BY DEF Record
<1> QED BY <1>4, <1>5, <1>6 DEF p

\* The store after a fork in memory.
ForkedStore(st, s, i, id) ==
    [st EXCEPT !.total = @ + i + 1, !.forks = @ + 1,
        !.sessions = Put(Put(@, id, Prefix(Log(st, s), i, id)),
                         s, Append(Log(st, s), Audit(s, Log(st, s), id)))]

\* What a fork in memory does to the logs.
LEMMA ForkedIs ==
    ASSUME NEW st, IsStore(st), NEW s, NEW i \in 1..Len(Log(st, s)), NEW id,
           id \notin DOMAIN st.sessions
    PROVE  /\ s # id /\ s \in DOMAIN st.sessions
           /\ IsStore(ForkedStore(st, s, i, id))
           /\ ForkedStore(st, s, i, id).kind = st.kind
           /\ ForkedStore(st, s, i, id).total = st.total + i + 1
           /\ ForkedStore(st, s, i, id).forks = st.forks + 1
           /\ DOMAIN ForkedStore(st, s, i, id).sessions = DOMAIN st.sessions \cup {id}
           /\ Log(ForkedStore(st, s, i, id), s) = Append(Log(st, s), Audit(s, Log(st, s), id))
           /\ Log(ForkedStore(st, s, i, id), id) = Prefix(Log(st, s), i, id)
           /\ \A x : x # s /\ x # id => Log(ForkedStore(st, s, i, id), x) = Log(st, x)
<1> DEFINE log == Log(st, s)
           r == Audit(s, log, id)
           p == Prefix(log, i, id)
           f == Put(Put(st.sessions, id, p), s, Append(log, r))
           n == ForkedStore(st, s, i, id)
<1>1. s \in DOMAIN st.sessions /\ IsList(log) /\ Len(log) \in Nat
      /\ \A j \in 1..Len(log) : log[j] = Record(log[j].session, log[j].seq, log[j].event)
  BY LogIs
<1>2. s # id
  BY <1>1
<1>3. n = [kind |-> st.kind, sessions |-> f, total |-> st.total + i + 1,
           forks |-> st.forks + 1, torn |-> st.torn]
  <2>1. st = [kind |-> st.kind, sessions |-> st.sessions, total |-> st.total,
              forks |-> st.forks, torn |-> st.torn]
    BY DEF IsStore
  <2>2. DOMAIN st = {"kind", "sessions", "total", "forks", "torn"}
    BY <2>1
  <2>3. n = [[[st EXCEPT !.total = st.total + i + 1] EXCEPT !.forks = st.forks + 1] EXCEPT !.sessions = f]
    BY <2>1 DEF ForkedStore
  <2> HIDE DEF f, n
  <2> QED BY <2>1, <2>2, <2>3
<1>4. r = Record(r.session, r.seq, r.event)
  BY DEF Audit, Record
<1>5. IsList(p) /\ \A j \in 1..Len(p) : p[j] = Record(p[j].session, p[j].seq, p[j].event)
  <2>1. i \in 0..Len(log)
    BY <1>1
  <2>2. IsList(p) /\ Len(p) = i /\ \A j \in 1..i : p[j] = Record(id, log[j].seq, log[j].event)
    BY <1>1, <2>1, PrefixIs
  <2> HIDE DEF p
  <2>3. \A a, b, c : Record(a, b, c) = Record(Record(a, b, c).session, Record(a, b, c).seq, Record(a, b, c).event)
    BY DEF Record
  <2> QED BY <2>2, <2>3
<1> HIDE DEF p, r
<1>6. /\ DOMAIN f = DOMAIN st.sessions \cup {id} /\ f = [x \in DOMAIN f |-> f[x]]
      /\ f[s] = Append(log, r) /\ f[id] = p
      /\ \A x \in DOMAIN st.sessions : x # s => f[x] = st.sessions[x]
  BY <1>1, <1>2 DEF Put
<1> HIDE DEF f
<1>7. IsFiniteSet(DOMAIN f)
  BY <1>6, FS_AddElement DEF IsStore
<1>8. ASSUME NEW x \in DOMAIN f
      PROVE  /\ IsList(f[x])
             /\ \A j \in 1..Len(f[x]) : f[x][j] = Record(f[x][j].session, f[x][j].seq, f[x][j].event)
  <2>1. CASE x = s
    <3>1. f[x] = Append(log, r)
      BY <1>6, <2>1
    <3> HIDE DEF log
    <3>2. IsList(f[x])
      BY <1>1, <3>1, ListGrows
    <3>3. ASSUME NEW j \in 1..Len(f[x])
          PROVE  f[x][j] = Record(f[x][j].session, f[x][j].seq, f[x][j].event)
      <4>1. f[x][j] = r \/ (j \in 1..Len(log) /\ f[x][j] = log[j])
        BY <1>1, <3>1, ListGrows
      <4> QED BY <1>1, <1>4, <4>1
    <3> QED BY <3>2, <3>3
  <2>2. CASE x = id
    BY <1>2, <1>5, <1>6, <2>2
  <2>3. CASE x # s /\ x # id
    BY <1>6, <1>8, <2>3 DEF IsStore
  <2> QED BY <2>1, <2>2, <2>3
<1>9. st.total + i + 1 \in Nat /\ st.forks + 1 \in Nat
  BY <1>1 DEF IsStore
<1>10. IsStore(n)
  <2> HIDE DEF n
  <2> QED BY <1>3, <1>6, <1>7, <1>8, <1>9, StoreOf
<1>11. n.kind = st.kind /\ n.total = st.total + i + 1 /\ n.forks = st.forks + 1 /\ n.sessions = f
  BY <1>3
<1>12. Log(n, s) = Append(log, r) /\ Log(n, id) = p
  BY <1>1, <1>6, <1>11 DEF Log
<1>13. \A x : x # s /\ x # id => Log(n, x) = Log(st, x)
  BY <1>6, <1>11 DEF Log
<1> QED BY <1>1, <1>2, <1>6, <1>10, <1>11, <1>12, <1>13 DEF p, r

-----------------------------------------------------------------------------
(* No event is twice in a session.                                         *)

\* Only the thread t moves.
ThreadMoves(jb, kb, t) == \A u \in LogThreads \ {t} : kb[u] = jb[u]

\* A record that no session holds and no thread is to write.
Fresh(r, ops, forks) == ~Dated(r.event, ops, forks) \/ ~Known(r.session, forks)

\* What was begun or forked before stays so.
LEMMA DatedStays ==
    ASSUME NEW ops \in Nat, NEW m \in Nat, ops <= m, NEW forks \in Nat, NEW k \in Nat, forks <= k
    PROVE  /\ \A e : Dated(e, ops, forks) => Dated(e, m, k)
           /\ \A s : Known(s, forks) => Known(s, k)
<1>1. \A x \in 0..(ops - 1) : x \in 0..(m - 1)
  OBVIOUS
<1>2. \A x \in 0..(forks - 1) : x \in 0..(k - 1)
  OBVIOUS
<1> QED BY <1>1, <1>2 DEF Dated, Known

\* The facts hold of every session, named by the store or not.
LEMMA Everywhere ==
    ASSUME NEW st, IsStore(st)
    PROVE  /\ LogsDiffer(st) => \A s : \A i, j \in 1..Len(Log(st, s)) :
                 Log(st, s)[i].event = Log(st, s)[j].event => i = j
           /\ \A jb, ops : EventsDated(st, jb, ops) => \A s : \A i \in 1..Len(Log(st, s)) :
                 Dated(Log(st, s)[i].event, ops, st.forks)
           /\ \A jb, branches : SessionsKnown(st, jb, branches) => \A s :
                 ~Known(s, st.forks) => s \notin DOMAIN st.sessions /\ Len(Log(st, s)) = 0
BY LogIs DEF LogsDiffer, EventsDated, SessionsKnown

\* A thread takes up fresh records.
LEMMA TakesDiffer ==
    ASSUME NEW st, IsStore(st), NEW n, IsStore(n), \A s : Log(n, s) = Log(st, s),
           DOMAIN n.sessions = DOMAIN st.sessions, st.forks <= n.forks,
           NEW ops \in Nat, NEW m \in Nat, ops <= m, NEW branches, NEW jb, NEW kb,
           SessionsKnown(st, jb, branches), EventsDiffer(st, jb, ops),
           NEW t \in LogThreads, ThreadMoves(jb, kb, t),
           \A k \in 1..Len(kb[t].todo) : /\ Dated(kb[t].todo[k].event, m, n.forks)
                                         /\ Fresh(kb[t].todo[k], ops, st.forks),
           \A k, l \in 1..Len(kb[t].todo) :
              /\ kb[t].todo[k].session = kb[t].todo[l].session
              /\ kb[t].todo[k].event = kb[t].todo[l].event
              => k = l
    PROVE  EventsDiffer(n, kb, m)
<1>1. st.forks \in Nat /\ n.forks \in Nat
  BY DEF IsStore
<1>2. /\ \A e : Dated(e, ops, st.forks) => Dated(e, m, n.forks)
      /\ \A s : Known(s, st.forks) => Known(s, n.forks)
  BY <1>1, DatedStays
<1>3. EventsDated(st, jb, ops) /\ LogsDiffer(st) /\ PendingNew(st, jb) /\ PendingDiffer(jb)
  BY DEF EventsDiffer
<1>4. /\ \A s : \A i \in 1..Len(Log(st, s)) : Dated(Log(st, s)[i].event, ops, st.forks)
      /\ \A s : ~Known(s, st.forks) => Len(Log(st, s)) = 0
  BY <1>3, Everywhere
<1>5. EventsDated(n, kb, m)
  <2>1. \A s \in DOMAIN n.sessions : \A i \in 1..Len(Log(n, s)) : Dated(Log(n, s)[i].event, m, n.forks)
    BY <1>2, <1>4
  <2>2. \A u \in LogThreads \ {t} : \A k \in 1..Len(kb[u].todo) : Dated(kb[u].todo[k].event, m, n.forks)
    BY <1>2, <1>3 DEF EventsDated, ThreadMoves
  <2> QED BY <2>1, <2>2 DEF EventsDated
<1>6. LogsDiffer(n)
  BY <1>3 DEF LogsDiffer
<1>7. PendingNew(n, kb)
  <2>1. ASSUME NEW k \in 1..Len(kb[t].todo), NEW i \in 1..Len(Log(st, kb[t].todo[k].session)),
               Log(st, kb[t].todo[k].session)[i].event = kb[t].todo[k].event
        PROVE  FALSE
    <3>1. Dated(kb[t].todo[k].event, ops, st.forks)
      BY <1>4, <2>1
    <3>2. ~Known(kb[t].todo[k].session, st.forks)
      BY <3>1 DEF Fresh
    <3>3. Len(Log(st, kb[t].todo[k].session)) = 0
      BY <1>4, <3>2
    <3> QED BY <2>1, <3>3
  <2>2. ASSUME NEW u \in LogThreads, NEW k \in 1..Len(kb[u].todo),
               NEW i \in 1..Len(Log(n, kb[u].todo[k].session)),
               Log(n, kb[u].todo[k].session)[i].event = kb[u].todo[k].event
        PROVE  FALSE
    <3>1. CASE u = t
      BY <2>1, <2>2, <3>1
    <3>2. CASE u # t
      <4>1. kb[u] = jb[u]
        BY <3>2 DEF ThreadMoves
      <4>2. k \in 1..Len(jb[u].todo)
        BY <4>1
      <4>3. \A h \in 1..Len(Log(st, jb[u].todo[k].session)) :
               Log(st, jb[u].todo[k].session)[h].event # jb[u].todo[k].event
        BY <1>3, <4>2 DEF PendingNew
      <4> QED BY <2>2, <4>1, <4>3
    <3> QED BY <3>1, <3>2
  <2> QED BY <2>2 DEF PendingNew
<1>8. PendingDiffer(kb)
  <2>1. ASSUME NEW u \in LogThreads \ {t}, NEW k \in 1..Len(kb[t].todo), NEW l \in 1..Len(kb[u].todo),
               kb[t].todo[k].session = kb[u].todo[l].session,
               kb[t].todo[k].event = kb[u].todo[l].event
        PROVE  FALSE
    <3>1. kb[u] = jb[u]
      BY DEF ThreadMoves
    <3>2. Dated(kb[u].todo[l].event, ops, st.forks) /\ Known(kb[u].todo[l].session, st.forks)
      BY <1>3, <3>1 DEF EventsDated, SessionsKnown
    <3> QED BY <2>1, <3>2 DEF Fresh
  <2>2. ASSUME NEW u \in LogThreads, NEW x \in LogThreads, NEW k \in 1..Len(kb[u].todo),
               NEW l \in 1..Len(kb[x].todo),
               kb[u].todo[k].session = kb[x].todo[l].session,
               kb[u].todo[k].event = kb[x].todo[l].event
        PROVE  u = x /\ k = l
    <3>1. CASE u = t /\ x = t
      BY <2>2, <3>1
    <3>2. CASE u = t /\ x # t
      BY <2>1, <2>2, <3>2
    <3>3. CASE u # t /\ x = t
      BY <2>1, <2>2, <3>3
    <3>4. CASE u # t /\ x # t
      <4>1. kb[u] = jb[u] /\ kb[x] = jb[x]
        BY <3>4 DEF ThreadMoves
      <4> QED BY <1>3, <2>2, <4>1 DEF PendingDiffer
    <3> QED BY <3>1, <3>2, <3>3, <3>4
  <2> QED BY <2>2 DEF PendingDiffer
<1> QED BY <1>5, <1>6, <1>7, <1>8 DEF EventsDiffer

\* A number changes no event.
LEMMA SameDiffer ==
    ASSUME NEW st, NEW jb, NEW kb, NEW ops, EventsDiffer(st, jb, ops),
           \A u \in LogThreads : /\ Len(kb[u].todo) = Len(jb[u].todo)
                                 /\ \A k \in 1..Len(jb[u].todo) :
                                       /\ kb[u].todo[k].session = jb[u].todo[k].session
                                       /\ kb[u].todo[k].event = jb[u].todo[k].event
    PROVE  EventsDiffer(st, kb, ops)
<1>1. EventsDated(st, jb, ops) /\ LogsDiffer(st) /\ PendingNew(st, jb) /\ PendingDiffer(jb)
  BY DEF EventsDiffer
<1>2. EventsDated(st, kb, ops)
  BY <1>1 DEF EventsDated
<1>3. PendingNew(st, kb)
  BY <1>1 DEF PendingNew
<1>4. PendingDiffer(kb)
  BY <1>1 DEF PendingDiffer
<1> QED BY <1>1, <1>2, <1>3, <1>4 DEF EventsDiffer

\* The first record of a thread goes to its log.
LEMMA StoresDiffer ==
    ASSUME NEW st, IsStore(st), NEW n, IsStore(n), n.forks = st.forks,
           NEW ops \in Nat, NEW jb, NEW kb, EventsDiffer(st, jb, ops),
           NEW t \in LogThreads, ThreadMoves(jb, kb, t), IsList(jb[t].todo), jb[t].todo # <<>>,
           kb[t].todo = Tail(jb[t].todo),
           OneGrows(st, n, jb[t].todo[1].session, jb[t].todo[1])
    PROVE  EventsDiffer(n, kb, ops)
<1> DEFINE r == jb[t].todo[1]
           s == r.session
<1>1. EventsDated(st, jb, ops) /\ LogsDiffer(st) /\ PendingNew(st, jb) /\ PendingDiffer(jb)
  BY DEF EventsDiffer
<1>2. /\ 1 \in 1..Len(jb[t].todo) /\ Len(jb[t].todo) \in Nat \ {0}
      /\ Len(kb[t].todo) = Len(jb[t].todo) - 1
      /\ \A k \in 1..Len(kb[t].todo) : /\ kb[t].todo[k] = jb[t].todo[k + 1]
                                       /\ k + 1 \in 2..Len(jb[t].todo) /\ k + 1 \in 1..Len(jb[t].todo)
  BY ListTail
<1>3. /\ \A x : \A i \in 1..Len(Log(st, x)) : Dated(Log(st, x)[i].event, ops, st.forks)
      /\ \A x : \A i, j \in 1..Len(Log(st, x)) : Log(st, x)[i].event = Log(st, x)[j].event => i = j
  BY <1>1, Everywhere
<1>4. /\ Log(n, s)[Len(Log(st, s)) + 1] = r
      /\ \A i \in 1..Len(Log(n, s)) : i = Len(Log(st, s)) + 1 \/ i \in 1..Len(Log(st, s))
      /\ \A i \in 1..Len(Log(st, s)) : Log(n, s)[i] = Log(st, s)[i]
      /\ \A x : x # s => Log(n, x) = Log(st, x)
      /\ Len(Log(st, s)) \in Nat
  <2>1. /\ NothingLost(st, n)
        /\ Log(n, s)[Len(Log(st, s)) + 1] = r
        /\ \A i \in 1..Len(Log(n, s)) : i = Len(Log(st, s)) + 1 \/ i \in 1..Len(Log(st, s))
    BY GrowsLosesNothing
  <2>2. \A i \in 1..Len(Log(st, s)) : Log(n, s)[i] = Log(st, s)[i]
    BY <2>1 DEF NothingLost
  <2>3. \A x : x # s => Log(n, x) = Log(st, x)
    BY DEF OneGrows
  <2>4. Len(Log(st, s)) \in Nat
    BY LogIs
  <2> QED BY <2>1, <2>2, <2>3, <2>4
<1>5. Dated(r.event, ops, st.forks)
  BY <1>1, <1>2 DEF EventsDated
<1>6. \A i \in 1..Len(Log(st, s)) : Log(st, s)[i].event # r.event
  BY <1>1, <1>2 DEF PendingNew
<1> HIDE DEF s, r
<1>7. EventsDated(n, kb, ops)
  <2>1. ASSUME NEW x, NEW i \in 1..Len(Log(n, x))
        PROVE  Dated(Log(n, x)[i].event, ops, n.forks)
    <3>1. CASE x = s
      BY <1>3, <1>4, <1>5, <2>1, <3>1
    <3>2. CASE x # s
      BY <1>3, <1>4, <2>1, <3>2
    <3> QED BY <3>1, <3>2
  <2>2. ASSUME NEW u \in LogThreads, NEW k \in 1..Len(kb[u].todo)
        PROVE  Dated(kb[u].todo[k].event, ops, n.forks)
    <3>1. CASE u = t
      BY <1>1, <1>2, <2>2, <3>1 DEF EventsDated
    <3>2. CASE u # t
      BY <1>1, <2>2, <3>2 DEF EventsDated, ThreadMoves
    <3> QED BY <3>1, <3>2
  <2> QED BY <2>1, <2>2 DEF EventsDated
<1>8. LogsDiffer(n)
  <2>1. ASSUME NEW x, NEW i \in 1..Len(Log(n, x)), NEW j \in 1..Len(Log(n, x)),
               Log(n, x)[i].event = Log(n, x)[j].event
        PROVE  i = j
    <3>1. CASE x = s
      <4>1. i = Len(Log(st, s)) + 1 \/ (i \in 1..Len(Log(st, s)) /\ Log(n, x)[i] = Log(st, s)[i])
        BY <1>4, <2>1, <3>1
      <4>2. j = Len(Log(st, s)) + 1 \/ (j \in 1..Len(Log(st, s)) /\ Log(n, x)[j] = Log(st, s)[j])
        BY <1>4, <2>1, <3>1
      <4>3. Log(n, x)[Len(Log(st, s)) + 1].event = r.event
        BY <1>4, <3>1
      <4> QED BY <1>3, <1>6, <2>1, <4>1, <4>2, <4>3
    <3>2. CASE x # s
      BY <1>3, <1>4, <2>1, <3>2
    <3> QED BY <3>1, <3>2
  <2> QED BY <2>1 DEF LogsDiffer
<1>9. ASSUME NEW u \in LogThreads, NEW k \in 1..Len(kb[u].todo)
      PROVE  \E l \in 1..Len(jb[u].todo) : /\ kb[u].todo[k] = jb[u].todo[l] /\ (u = t => l # 1)
                                           /\ l = IF u = t THEN k + 1 ELSE k
  <2>1. CASE u = t
    <3>1. k \in 1..Len(kb[t].todo)
      BY <2>1
    <3>2. kb[t].todo[k] = jb[t].todo[k + 1] /\ k + 1 \in 1..Len(jb[t].todo) /\ k + 1 # 1
      BY <1>2, <3>1
    <3> QED BY <2>1, <3>2
  <2>2. CASE u # t
    <3>1. kb[u] = jb[u]
      BY <2>2 DEF ThreadMoves
    <3>2. k \in 1..Len(jb[u].todo) /\ kb[u].todo[k] = jb[u].todo[k]
      BY <3>1
    <3> QED BY <2>2, <3>2
  <2> QED BY <2>1, <2>2
<1>10. PendingNew(n, kb)
  <2>1. ASSUME NEW u \in LogThreads, NEW k \in 1..Len(kb[u].todo),
               NEW i \in 1..Len(Log(n, kb[u].todo[k].session)),
               Log(n, kb[u].todo[k].session)[i].event = kb[u].todo[k].event
        PROVE  FALSE
    <3>1. PICK l \in 1..Len(jb[u].todo) : kb[u].todo[k] = jb[u].todo[l] /\ (u = t => l # 1)
      BY <1>9
    <3> DEFINE x == kb[u].todo[k].session
    <3>2. \A h \in 1..Len(Log(st, x)) : Log(st, x)[h].event # kb[u].todo[k].event
      BY <1>1, <3>1 DEF PendingNew
    <3>3. x = s => kb[u].todo[k].event # r.event
      BY <1>1, <1>2, <3>1 DEF PendingDiffer, s, r
    <3>4. CASE x = s
      <4>1. i = Len(Log(st, s)) + 1 \/ (i \in 1..Len(Log(st, s)) /\ Log(n, x)[i] = Log(st, s)[i])
        BY <1>4, <2>1, <3>4
      <4>2. Log(n, x)[Len(Log(st, s)) + 1].event = r.event
        BY <1>4, <3>4
      <4> QED BY <2>1, <3>2, <3>3, <3>4, <4>1, <4>2
    <3>5. CASE x # s
      BY <1>4, <2>1, <3>2, <3>5
    <3> QED BY <3>4, <3>5
  <2> QED BY <2>1 DEF PendingNew
<1>11. PendingDiffer(kb)
  <2>1. ASSUME NEW u \in LogThreads, NEW x \in LogThreads, NEW k \in 1..Len(kb[u].todo),
               NEW l \in 1..Len(kb[x].todo),
               kb[u].todo[k].session = kb[x].todo[l].session,
               kb[u].todo[k].event = kb[x].todo[l].event
        PROVE  u = x /\ k = l
    <3>1. PICK a \in 1..Len(jb[u].todo) : kb[u].todo[k] = jb[u].todo[a] /\ a = IF u = t THEN k + 1 ELSE k
      BY <1>9
    <3>2. PICK b \in 1..Len(jb[x].todo) : kb[x].todo[l] = jb[x].todo[b] /\ b = IF x = t THEN l + 1 ELSE l
      BY <1>9
    <3>3. /\ jb[u].todo[a].session = jb[x].todo[b].session
          /\ jb[u].todo[a].event = jb[x].todo[b].event
      BY <2>1, <3>1, <3>2
    <3>4. \A p \in 1..Len(jb[u].todo), q \in 1..Len(jb[x].todo) :
             /\ jb[u].todo[p].session = jb[x].todo[q].session
             /\ jb[u].todo[p].event = jb[x].todo[q].event
             => u = x /\ p = q
      BY <1>1 DEF PendingDiffer
    <3>5. u = x /\ a = b
      BY <3>3, <3>4
    <3>6. k \in Int /\ l \in Int
      OBVIOUS
    <3>7. (u = t => a = k + 1) /\ (u # t => a = k)
      BY <3>1, Zenon
    <3>8. (x = t => b = l + 1) /\ (x # t => b = l)
      BY <3>2, Zenon
    <3>9. k = l
      <4>1. CASE u = t
        BY <3>5, <3>6, <3>7, <3>8, <4>1
      <4>2. CASE u # t
        BY <3>5, <3>6, <3>7, <3>8, <4>2
      <4> QED BY <4>1, <4>2
    <3> QED BY <3>5, <3>9
  <2> QED BY <2>1 DEF PendingDiffer
<1> QED BY <1>7, <1>8, <1>10, <1>11 DEF EventsDiffer

-----------------------------------------------------------------------------
(* What the actions do to the jobs and the rest of the state.              *)

\* The thread t goes on with the job w, and the others with theirs.
JobMoves(jb, kb, t, w) == IsJobs(kb) /\ kb[t] = w /\ ThreadMoves(jb, kb, t)

\* A thread gets another job.
LEMMA JobSet ==
    ASSUME NEW jb, IsJobs(jb), NEW t \in LogThreads, NEW w, IsJob(w)
    PROVE  JobMoves(jb, [jb EXCEPT ![t] = w], t, w)
<1> DEFINE kb == [jb EXCEPT ![t] = w]
<1>1. DOMAIN jb = LogThreads
  BY DEF IsJobs
<1>2. kb[t] = w /\ \A u \in LogThreads \ {t} : kb[u] = jb[u]
  BY <1>1
<1>3. kb = [u \in LogThreads |-> kb[u]]
  BY <1>1
<1>4. \A u \in LogThreads : IsJob(kb[u])
  BY <1>2 DEF IsJobs
<1> HIDE DEF kb
<1>5. JobMoves(jb, kb, t, w)
  BY <1>2, <1>3, <1>4 DEF IsJobs, ThreadMoves, JobMoves
<1> QED BY <1>5 DEF kb

\* The fields of a job, and what a job is when one of them is set.
LEMMA JobFields ==
    ASSUME NEW a, NEW b, NEW c, NEW d, NEW e, NEW f, NEW v
    PROVE  /\ Job(a, b, c, d, e, f).op = a
           /\ Job(a, b, c, d, e, f).todo = b
           /\ Job(a, b, c, d, e, f).covered = c
           /\ Job(a, b, c, d, e, f).session = d
           /\ Job(a, b, c, d, e, f).branch = e
           /\ Job(a, b, c, d, e, f).len = f
           /\ [Job(a, b, c, d, e, f) EXCEPT !.op = v] = Job(v, b, c, d, e, f)
           /\ [Job(a, b, c, d, e, f) EXCEPT !.todo = v] = Job(a, v, c, d, e, f)
           /\ [Job(a, b, c, d, e, f) EXCEPT !.covered = v] = Job(a, b, v, d, e, f)
           /\ [Job(a, b, c, d, e, f) EXCEPT !.session = v] = Job(a, b, c, v, e, f)
           /\ [Job(a, b, c, d, e, f) EXCEPT !.branch = v] = Job(a, b, c, d, v, f)
           /\ [Job(a, b, c, d, e, f) EXCEPT !.len = v] = Job(a, b, c, d, e, v)
<1>1. [Job(a, b, c, d, e, f) EXCEPT !.op = v] = Job(v, b, c, d, e, f)
  BY DEF Job
<1>2. [Job(a, b, c, d, e, f) EXCEPT !.todo = v] = Job(a, v, c, d, e, f)
  BY DEF Job
<1>3. [Job(a, b, c, d, e, f) EXCEPT !.covered = v] = Job(a, b, v, d, e, f)
  BY DEF Job
<1>4. [Job(a, b, c, d, e, f) EXCEPT !.session = v] = Job(a, b, c, v, e, f)
  BY DEF Job
<1>5. [Job(a, b, c, d, e, f) EXCEPT !.branch = v] = Job(a, b, c, d, v, f)
  BY DEF Job
<1>6. [Job(a, b, c, d, e, f) EXCEPT !.len = v] = Job(a, b, c, d, e, v)
  BY DEF Job
<1>7. /\ Job(a, b, c, d, e, f).op = a
      /\ Job(a, b, c, d, e, f).todo = b
      /\ Job(a, b, c, d, e, f).covered = c
      /\ Job(a, b, c, d, e, f).session = d
      /\ Job(a, b, c, d, e, f).branch = e
      /\ Job(a, b, c, d, e, f).len = f
  BY DEF Job
<1> QED BY <1>1, <1>2, <1>3, <1>4, <1>5, <1>6, <1>7

\* What a job is made of.
LEMMA JobOf ==
    ASSUME NEW op, NEW todo, NEW covered \in Nat, NEW session, NEW branch, NEW len, IsList(todo),
           \A k \in 1..Len(todo) : todo[k] = Record(todo[k].session, todo[k].seq, todo[k].event),
           NEW w, w = Job(op, todo, covered, session, branch, len)
    PROVE  IsJob(w) /\ w.op = op /\ w.todo = todo /\ w.covered = covered /\ w.session = session
           /\ w.branch = branch /\ w.len = len
<1>1. /\ w.op = op /\ w.todo = todo /\ w.covered = covered /\ w.session = session
      /\ w.branch = branch /\ w.len = len
  BY JobFields
<1>2. w = Job(w.op, w.todo, w.covered, w.session, w.branch, w.len)
  BY <1>1
<1> QED BY <1>1, <1>2 DEF IsJob

\* A thread with nothing to do.
LEMMA IdleIs == IsJob(Idle) /\ Idle = Job("idle", <<>>, 0, Root, Root, 0) /\ Idle.op = "idle"
                /\ Idle.todo = <<>> /\ Len(Idle.todo) = 0
                /\ Idle.branch = Root /\ Idle.session = Root /\ Idle.covered = 0
<1>1. Idle = Job("idle", <<>>, 0, Root, Root, 0)
  BY DEF Idle, Job
<1>2. PICK e : e = <<>>
  OBVIOUS
<1>3. IsList(e) /\ Len(e) = 0
  BY <1>2, EmptyList
<1> HIDE <1>2
<1>4. \A k \in 1..Len(e) : e[k] = Record(e[k].session, e[k].seq, e[k].event)
  BY <1>3
<1>5. Idle = Job("idle", e, 0, Root, Root, 0)
  BY <1>1, <1>2
<1>6. IsJob(Idle) /\ Idle.op = "idle" /\ Idle.todo = e /\ Idle.covered = 0
      /\ Idle.session = Root /\ Idle.branch = Root
  <2> HIDE DEF Idle
  <2> QED BY <1>3, <1>4, <1>5, JobOf
<1> QED BY <1>1, <1>2, <1>3, <1>6

\* What the plugin and the past are made of.
LEMMA PluginOf ==
    ASSUME NEW next, NEW recorded \in Nat, NEW lock, NEW pl,
           pl = [next |-> next, recorded |-> recorded, lock |-> lock]
    PROVE  IsPlugin(pl) /\ pl.next = next /\ pl.recorded = recorded /\ pl.lock = lock
BY DEF IsPlugin

\* The fields of the past, and what it is when one of them is set.
LEMMA PastFields ==
    ASSUME NEW a, NEW b, NEW c, NEW d, NEW e, NEW f, NEW v
    PROVE  /\ Past(a, b, c, d, e, f).acked = a
           /\ Past(a, b, c, d, e, f).ops = b
           /\ Past(a, b, c, d, e, f).branches = c
           /\ Past(a, b, c, d, e, f).forks = d
           /\ Past(a, b, c, d, e, f).crashes = e
           /\ Past(a, b, c, d, e, f).failures = f
           /\ [Past(a, b, c, d, e, f) EXCEPT !.acked = v] = Past(v, b, c, d, e, f)
           /\ [Past(a, b, c, d, e, f) EXCEPT !.ops = v] = Past(a, v, c, d, e, f)
           /\ [Past(a, b, c, d, e, f) EXCEPT !.branches = v] = Past(a, b, v, d, e, f)
           /\ [Past(a, b, c, d, e, f) EXCEPT !.forks = v] = Past(a, b, c, v, e, f)
           /\ [Past(a, b, c, d, e, f) EXCEPT !.crashes = v] = Past(a, b, c, d, v, f)
           /\ [Past(a, b, c, d, e, f) EXCEPT !.failures = v] = Past(a, b, c, d, e, v)
<1>1. [Past(a, b, c, d, e, f) EXCEPT !.acked = v] = Past(v, b, c, d, e, f)
  BY DEF Past
<1>2. [Past(a, b, c, d, e, f) EXCEPT !.ops = v] = Past(a, v, c, d, e, f)
  BY DEF Past
<1>3. [Past(a, b, c, d, e, f) EXCEPT !.branches = v] = Past(a, b, v, d, e, f)
  BY DEF Past
<1>4. [Past(a, b, c, d, e, f) EXCEPT !.forks = v] = Past(a, b, c, v, e, f)
  BY DEF Past
<1>5. [Past(a, b, c, d, e, f) EXCEPT !.crashes = v] = Past(a, b, c, d, v, f)
  BY DEF Past
<1>6. [Past(a, b, c, d, e, f) EXCEPT !.failures = v] = Past(a, b, c, d, e, v)
  BY DEF Past
<1>7. /\ Past(a, b, c, d, e, f).acked = a
      /\ Past(a, b, c, d, e, f).ops = b
      /\ Past(a, b, c, d, e, f).branches = c
      /\ Past(a, b, c, d, e, f).forks = d
      /\ Past(a, b, c, d, e, f).crashes = e
      /\ Past(a, b, c, d, e, f).failures = f
  BY DEF Past
<1> QED BY <1>1, <1>2, <1>3, <1>4, <1>5, <1>6, <1>7

\* What the past is made of.
LEMMA PastOf ==
    ASSUME NEW acked, NEW ops \in Nat, NEW branches, NEW forks, NEW crashes \in Nat,
           NEW failures \in Nat, NEW pt, pt = Past(acked, ops, branches, forks, crashes, failures)
    PROVE  IsPast(pt) /\ pt.acked = acked /\ pt.ops = ops /\ pt.branches = branches
           /\ pt.crashes = crashes /\ pt.failures = failures
<1>1. /\ pt.acked = acked /\ pt.ops = ops /\ pt.branches = branches /\ pt.forks = forks
      /\ pt.crashes = crashes /\ pt.failures = failures
  BY PastFields
<1>2. pt = Past(pt.acked, pt.ops, pt.branches, pt.forks, pt.crashes, pt.failures)
  BY <1>1
<1> QED BY <1>1, <1>2 DEF IsPast

\* An operation begins.
LEMMA Begins ==
    ASSUME NEW pt, IsPast(pt), NEW qt, qt = [pt EXCEPT !.ops = @ + 1]
    PROVE  IsPast(qt) /\ qt.ops = pt.ops + 1 /\ qt.acked = pt.acked /\ qt.branches = pt.branches
           /\ qt.crashes = pt.crashes /\ qt.failures = pt.failures
<1>1. pt.ops + 1 \in Nat /\ pt.crashes \in Nat /\ pt.failures \in Nat
  BY DEF IsPast
<1>2. PICK a, b, c, d, e, f : /\ a = pt.acked /\ b = pt.ops /\ c = pt.branches /\ d = pt.forks
                              /\ e = pt.crashes /\ f = pt.failures
  OBVIOUS
<1>3. pt = Past(a, b, c, d, e, f)
  BY <1>2 DEF IsPast
<1>4. qt = [pt EXCEPT !.ops = b + 1]
  BY <1>2
<1> HIDE <1>2
<1>5. qt = Past(a, b + 1, c, d, e, f)
  BY <1>3, <1>4, PastFields
<1> QED BY <1>1, <1>2, <1>5, PastOf

-----------------------------------------------------------------------------
(* The positions stay behind the count.                                    *)

\* A log gets nothing but records without a position.
GrowsQuietly(log, more) ==
    /\ Len(log) <= Len(more)
    /\ \A i \in 1..Len(log) : more[i] = log[i]
    /\ \A i \in 1..Len(more) : i \in 1..Len(log) \/ ~Speaks(more[i].event.kind)

\* A thread that is no request does what is none.
LEMMA QuietKeeps ==
    ASSUME NEW st, NEW n, NEW pl, NEW q, NEW jb, NEW kb, NEW pt, NEW qt, NEW t \in LogThreads,
           PositionsKept(st, pl, jb, pt), ThreadMoves(jb, kb, t),
           jb[t].op # "request", kb[t].op # "request",
           \A k \in 1..Len(kb[t].todo) : ~SaysAt(kb[t].todo[k]),
           q.lock = pl.lock, q.recorded = pl.recorded,
           GrowsQuietly(Log(st, Root), Log(n, Root)),
           Clean(n, qt) => Clean(st, pt)
    PROVE  PositionsKept(n, q, kb, qt)
<1>1. LockHeld(pl, jb) /\ RequestsAhead(pl, jb)
  BY DEF PositionsKept
<1>2. \A u \in LogThreads \ {t} : kb[u] = jb[u]
  BY DEF ThreadMoves
<1>3. LockHeld(q, kb)
  <2>1. ASSUME NEW u \in LogThreads
        PROVE  /\ q.lock = u <=> kb[u].op = "request"
               /\ kb[u].op # "request" => \A k \in 1..Len(kb[u].todo) : ~SaysAt(kb[u].todo[k])
    <3>1. CASE u = t
      BY <1>1, <3>1 DEF LockHeld
    <3>2. CASE u # t
      BY <1>1, <1>2, <3>2 DEF LockHeld
    <3> QED BY <3>1, <3>2
  <2> QED BY <2>1 DEF LockHeld
<1>4. RequestsAhead(q, kb)
  <2>1. ASSUME NEW u \in LogThreads, kb[u].op = "request"
        PROVE  AheadOf(kb[u], q.recorded)
    <3>1. u # t /\ kb[u] = jb[u]
      BY <1>2, <2>1
    <3> QED BY <1>1, <2>1, <3>1 DEF RequestsAhead
  <2> QED BY <2>1 DEF RequestsAhead
<1>5. ASSUME Clean(n, qt)
      PROVE  PositionsBehind(Log(n, Root), q, kb)
  <2> DEFINE log == Log(st, Root)
             more == Log(n, Root)
  <2>1. PositionsBehind(log, pl, jb)
    BY <1>5 DEF PositionsKept
  <2>2. ASSUME NEW at, Behind(at, pl, jb)
        PROVE  Behind(at, q, kb)
    <3>1. CASE at \in 0..(pl.recorded - 1)
      BY <3>1 DEF Behind
    <3>2. ASSUME NEW u \in LogThreads, jb[u].op = "request", at \in 0..(jb[u].covered - 1),
                 \A k \in 1..Len(jb[u].todo) : SaysAt(jb[u].todo[k]) => jb[u].todo[k].event.at # at
          PROVE  Behind(at, q, kb)
      <4>1. kb[u] = jb[u]
        BY <1>2, <3>2
      <4> QED BY <3>2, <4>1 DEF Behind
    <3> QED BY <2>2, <3>1, <3>2 DEF Behind
  <2> HIDE DEF log, more
  <2>3. /\ \A i \in 1..Len(log) : more[i] = log[i]
        /\ \A i \in 1..Len(more) : Speaks(more[i].event.kind) => i \in 1..Len(log)
    BY DEF GrowsQuietly, log, more
  <2>4. \A i \in 1..Len(more) : Speaks(more[i].event.kind) => Behind(more[i].event.at, q, kb)
    BY <2>1, <2>2, <2>3 DEF PositionsBehind
  <2>5. ASSUME NEW i \in 1..Len(more), NEW j \in 1..Len(more), Speaks(more[i].event.kind),
               Speaks(more[j].event.kind), more[i].event.at = more[j].event.at
        PROVE  i = j
    <3>1. i \in 1..Len(log) /\ j \in 1..Len(log) /\ more[i] = log[i] /\ more[j] = log[j]
      BY <2>3, <2>5
    <3> QED BY <2>1, <2>5, <3>1 DEF PositionsBehind
  <2>6. PositionsBehind(more, q, kb)
    BY <2>4, <2>5 DEF PositionsBehind
  <2> QED BY <2>6 DEF more
<1> QED BY <1>3, <1>4, <1>5 DEF PositionsKept

\* A number changes no position.
LEMMA SamePositions ==
    ASSUME NEW st, NEW pl, NEW q, NEW jb, NEW kb, NEW pt, PositionsKept(st, pl, jb, pt),
           \A u \in LogThreads : /\ kb[u].op = jb[u].op /\ kb[u].covered = jb[u].covered
                                 /\ Len(kb[u].todo) = Len(jb[u].todo)
                                 /\ \A k \in 1..Len(jb[u].todo) :
                                       /\ kb[u].todo[k].session = jb[u].todo[k].session
                                       /\ kb[u].todo[k].event = jb[u].todo[k].event,
           q.lock = pl.lock, q.recorded = pl.recorded
    PROVE  PositionsKept(st, q, kb, pt)
<1>1. LockHeld(pl, jb) /\ RequestsAhead(pl, jb)
  BY DEF PositionsKept
<1>2. \A u \in LogThreads : \A k \in 1..Len(jb[u].todo) : SaysAt(kb[u].todo[k]) <=> SaysAt(jb[u].todo[k])
  BY DEF SaysAt
<1>3. LockHeld(q, kb)
  BY <1>1, <1>2 DEF LockHeld
<1>4. RequestsAhead(q, kb)
  <2>1. ASSUME NEW u \in LogThreads, kb[u].op = "request"
        PROVE  AheadOf(kb[u], q.recorded)
    <3>1. AheadOf(jb[u], pl.recorded)
      BY <1>1, <2>1 DEF RequestsAhead
    <3>2. /\ kb[u].covered = jb[u].covered /\ Len(kb[u].todo) = Len(jb[u].todo)
          /\ \A k \in 1..Len(jb[u].todo) : /\ SaysAt(kb[u].todo[k]) <=> SaysAt(jb[u].todo[k])
                                           /\ kb[u].todo[k].event = jb[u].todo[k].event
      BY <1>2
    <3> QED BY <3>1, <3>2 DEF AheadOf
  <2> QED BY <2>1 DEF RequestsAhead
<1>5. ASSUME NEW at, Behind(at, pl, jb)
      PROVE  Behind(at, q, kb)
  <2>1. CASE at \in 0..(pl.recorded - 1)
    BY <2>1 DEF Behind
  <2>2. ASSUME NEW u \in LogThreads, jb[u].op = "request", at \in 0..(jb[u].covered - 1),
               \A k \in 1..Len(jb[u].todo) : SaysAt(jb[u].todo[k]) => jb[u].todo[k].event.at # at
        PROVE  Behind(at, q, kb)
    <3>1. /\ kb[u].op = "request" /\ at \in 0..(kb[u].covered - 1)
          /\ \A k \in 1..Len(kb[u].todo) : SaysAt(kb[u].todo[k]) => kb[u].todo[k].event.at # at
      BY <1>2, <2>2
    <3> QED BY <3>1 DEF Behind
  <2> QED BY <1>5, <2>1, <2>2 DEF Behind
<1>6. PositionsBehind(Log(st, Root), pl, jb) => PositionsBehind(Log(st, Root), q, kb)
  <2> DEFINE log == Log(st, Root)
  <2> HIDE DEF log
  <2>1. PositionsBehind(log, pl, jb) => PositionsBehind(log, q, kb)
    BY <1>5 DEF PositionsBehind
  <2> QED BY <2>1 DEF log
<1> QED BY <1>3, <1>4, <1>6 DEF PositionsKept

\* A request takes the lock and lists what it will record.
LEMMA LockTaken ==
    ASSUME NEW st, NEW pl, NEW q, NEW jb, NEW kb, NEW pt, NEW qt, NEW t \in LogThreads,
           PositionsKept(st, pl, jb, pt), ThreadMoves(jb, kb, t), pl.lock = NoThread,
           kb[t].op = "request", AheadOf(kb[t], pl.recorded),
           q.lock = t, q.recorded = pl.recorded, Clean(st, qt) => Clean(st, pt)
    PROVE  PositionsKept(st, q, kb, qt)
<1>1. LockHeld(pl, jb)
  BY DEF PositionsKept
<1>2. \A u \in LogThreads \ {t} : kb[u] = jb[u]
  BY DEF ThreadMoves
<1>3. \A u \in LogThreads : jb[u].op # "request"
  BY <1>1, LogAssumption DEF LockHeld
<1>4. LockHeld(q, kb)
  <2>1. ASSUME NEW u \in LogThreads
        PROVE  /\ q.lock = u <=> kb[u].op = "request"
               /\ kb[u].op # "request" => \A k \in 1..Len(kb[u].todo) : ~SaysAt(kb[u].todo[k])
    <3>1. CASE u = t
      BY <3>1
    <3>2. CASE u # t
      BY <1>1, <1>2, <1>3, <3>2 DEF LockHeld
    <3> QED BY <3>1, <3>2
  <2> QED BY <2>1 DEF LockHeld
<1>5. RequestsAhead(q, kb)
  <2>1. ASSUME NEW u \in LogThreads, kb[u].op = "request"
        PROVE  AheadOf(kb[u], q.recorded)
    <3>1. u = t
      BY <1>2, <1>3, <2>1
    <3> QED BY <3>1
  <2> QED BY <2>1 DEF RequestsAhead
<1>6. ASSUME Clean(st, qt)
      PROVE  PositionsBehind(Log(st, Root), q, kb)
  <2> DEFINE log == Log(st, Root)
  <2>1. PositionsBehind(log, pl, jb)
    BY <1>6 DEF PositionsKept
  <2> HIDE DEF log
  <2>2. \A at : Behind(at, pl, jb) => Behind(at, q, kb)
    BY <1>3 DEF Behind
  <2>3. PositionsBehind(log, q, kb)
    BY <2>1, <2>2 DEF PositionsBehind
  <2> QED BY <2>3 DEF log
<1> QED BY <1>4, <1>5, <1>6 DEF PositionsKept

\* A request records its next position.
LEMMA RequestStores ==
    ASSUME NEW st, IsStore(st), NEW n, NEW pl, NEW jb, NEW kb, NEW pt, NEW qt, NEW t \in LogThreads,
           IsPlugin(pl), PositionsKept(st, pl, jb, pt), ThreadMoves(jb, kb, t),
           jb[t].op = "request", kb[t].op = "request", kb[t].covered = jb[t].covered,
           jb[t].covered \in Nat,
           IsList(jb[t].todo), jb[t].todo # <<>>, kb[t].todo = Tail(jb[t].todo),
           OneGrows(st, n, jb[t].todo[1].session, jb[t].todo[1]),
           Clean(n, qt) => Clean(st, pt)
    PROVE  PositionsKept(n, pl, kb, qt)
<1>1. LockHeld(pl, jb) /\ RequestsAhead(pl, jb) /\ AheadOf(jb[t], pl.recorded)
  BY DEF PositionsKept, RequestsAhead
<1>2. \A u \in LogThreads \ {t} : kb[u] = jb[u] /\ jb[u].op # "request"
  BY <1>1 DEF ThreadMoves, LockHeld
<1>3. /\ 1 \in 1..Len(jb[t].todo) /\ Len(jb[t].todo) \in Nat \ {0}
      /\ Len(kb[t].todo) = Len(jb[t].todo) - 1
      /\ \A k \in 1..Len(kb[t].todo) : /\ kb[t].todo[k] = jb[t].todo[k + 1]
                                       /\ k + 1 \in 2..Len(jb[t].todo) /\ k + 1 \in 1..Len(jb[t].todo)
  BY ListTail
<1>4. LockHeld(pl, kb)
  BY <1>1, <1>2 DEF LockHeld
<1>5. AheadOf(kb[t], pl.recorded)
  <2>1. \A k \in 1..Len(kb[t].todo) : SaysAt(kb[t].todo[k]) =>
           kb[t].todo[k].event.at \in pl.recorded..(kb[t].covered - 1)
    BY <1>1, <1>3 DEF AheadOf
  <2>2. ASSUME NEW k \in 1..Len(kb[t].todo), NEW l \in 1..Len(kb[t].todo),
               SaysAt(kb[t].todo[k]), SaysAt(kb[t].todo[l]),
               kb[t].todo[k].event.at = kb[t].todo[l].event.at
        PROVE  k = l
    <3>1. k + 1 = l + 1
      BY <1>1, <1>3, <2>2 DEF AheadOf
    <3> QED BY <1>3, <3>1
  <2>3. kb[t].covered >= pl.recorded
    BY <1>1 DEF AheadOf
  <2> QED BY <2>1, <2>2, <2>3 DEF AheadOf
<1>6. RequestsAhead(pl, kb)
  BY <1>2, <1>5 DEF RequestsAhead
<1>7. ASSUME Clean(n, qt)
      PROVE  PositionsBehind(Log(n, Root), pl, kb)
  <2> DEFINE log == Log(st, Root)
             more == Log(n, Root)
             r == jb[t].todo[1]
  <2>1. PositionsBehind(log, pl, jb)
    BY <1>7 DEF PositionsKept
  <2>2. /\ Len(log) \in Nat
        /\ \A i \in 1..Len(log) : more[i] = log[i]
        /\ \A i \in 1..Len(more) : i \in 1..Len(log)
              \/ (i = Len(log) + 1 /\ more[i] = r /\ r.session = Root)
    <3>1. CASE r.session = Root
      BY <3>1, GrowsLosesNothing, LogIs DEF NothingLost
    <3>2. CASE r.session # Root
      BY <3>2, LogIs DEF OneGrows
    <3> QED BY <3>1, <3>2
  <2> HIDE DEF log, more
  <2>3. /\ r.session = Root /\ Speaks(r.event.kind) => /\ SaysAt(r)
                                                       /\ r.event.at \in pl.recorded..(jb[t].covered - 1)
        /\ pl.recorded \in Nat
    BY <1>1, <1>3 DEF SaysAt, AheadOf, IsPlugin
  <2>4. ASSUME NEW at, Behind(at, pl, jb)
        PROVE  /\ Behind(at, pl, kb)
               /\ r.session = Root /\ Speaks(r.event.kind) => at # r.event.at
    <3>1. CASE at \in 0..(pl.recorded - 1)
      BY <2>3, <3>1 DEF Behind
    <3>2. ASSUME NEW u \in LogThreads, jb[u].op = "request", at \in 0..(jb[u].covered - 1),
                 \A k \in 1..Len(jb[u].todo) : SaysAt(jb[u].todo[k]) => jb[u].todo[k].event.at # at
          PROVE  /\ Behind(at, pl, kb)
                 /\ r.session = Root /\ Speaks(r.event.kind) => at # r.event.at
      <4>1. u = t
        BY <1>2, <3>2
      <4>2. \A k \in 1..Len(kb[t].todo) : SaysAt(kb[t].todo[k]) => kb[t].todo[k].event.at # at
        BY <1>3, <3>2, <4>1
      <4>3. Behind(at, pl, kb)
        BY <3>2, <4>1, <4>2 DEF Behind
      <4> QED BY <1>3, <2>3, <3>2, <4>1, <4>3
    <3> QED BY <2>4, <3>1, <3>2 DEF Behind
  <2>5. r.session = Root /\ Speaks(r.event.kind) => Behind(r.event.at, pl, kb)
    <3>1. ASSUME r.session = Root, Speaks(r.event.kind)
          PROVE  Behind(r.event.at, pl, kb)
      <4>1. r.event.at \in 0..(kb[t].covered - 1)
        BY <2>3, <3>1
      <4>2. ASSUME NEW k \in 1..Len(kb[t].todo), SaysAt(kb[t].todo[k]), kb[t].todo[k].event.at = r.event.at
            PROVE  FALSE
        <5>1. kb[t].todo[k] = jb[t].todo[k + 1] /\ k + 1 \in 1..Len(jb[t].todo) /\ k + 1 # 1
          BY <1>3, <4>2
        <5>2. SaysAt(r)
          BY <2>3, <3>1
        <5>3. \A x, y \in 1..Len(jb[t].todo) : SaysAt(jb[t].todo[x]) /\ SaysAt(jb[t].todo[y])
                 /\ jb[t].todo[x].event.at = jb[t].todo[y].event.at => x = y
          BY <1>1 DEF AheadOf
        <5> QED BY <1>3, <4>2, <5>1, <5>2, <5>3
      <4> QED BY <4>1, <4>2 DEF Behind
    <3> QED BY <3>1
  <2> HIDE DEF r
  <2>6. \A i \in 1..Len(more) : Speaks(more[i].event.kind) => Behind(more[i].event.at, pl, kb)
    BY <2>1, <2>2, <2>4, <2>5 DEF PositionsBehind
  <2>7. ASSUME NEW i \in 1..Len(more), NEW j \in 1..Len(more), Speaks(more[i].event.kind),
               Speaks(more[j].event.kind), more[i].event.at = more[j].event.at
        PROVE  i = j
    <3>1. /\ i \in 1..Len(log) \/ (i = Len(log) + 1 /\ more[i] = r /\ r.session = Root)
          /\ j \in 1..Len(log) \/ (j = Len(log) + 1 /\ more[j] = r /\ r.session = Root)
      BY <2>2
    <3>2. CASE i \in 1..Len(log) /\ j \in 1..Len(log)
      BY <2>1, <2>2, <2>7, <3>2 DEF PositionsBehind
    <3>3. CASE i \in 1..Len(log) /\ j \notin 1..Len(log)
      <4>1. Behind(log[i].event.at, pl, jb)
        BY <2>1, <2>2, <2>7, <3>3 DEF PositionsBehind
      <4> QED BY <2>2, <2>4, <2>7, <3>1, <3>3, <4>1
    <3>4. CASE i \notin 1..Len(log) /\ j \in 1..Len(log)
      <4>1. Behind(log[j].event.at, pl, jb)
        BY <2>1, <2>2, <2>7, <3>4 DEF PositionsBehind
      <4> QED BY <2>2, <2>4, <2>7, <3>1, <3>4, <4>1
    <3>5. CASE i \notin 1..Len(log) /\ j \notin 1..Len(log)
      BY <3>1, <3>5
    <3> QED BY <3>2, <3>3, <3>4, <3>5
  <2>8. PositionsBehind(more, pl, kb)
    BY <2>6, <2>7 DEF PositionsBehind
  <2> QED BY <2>8 DEF more
<1> QED BY <1>4, <1>6, <1>7 DEF PositionsKept

\* A request that recorded everything lets the lock go with the new count.
LEMMA LockGoes ==
    ASSUME NEW st, NEW pl, NEW q, NEW jb, NEW kb, NEW pt, NEW t \in LogThreads,
           IsPlugin(pl), PositionsKept(st, pl, jb, pt), ThreadMoves(jb, kb, t),
           jb[t].op = "request", Len(jb[t].todo) = 0, jb[t].covered \in Nat,
           kb[t].op # "request", Len(kb[t].todo) = 0,
           q.lock = NoThread, q.recorded = jb[t].covered
    PROVE  PositionsKept(st, q, kb, pt)
<1>1. LockHeld(pl, jb) /\ RequestsAhead(pl, jb) /\ AheadOf(jb[t], pl.recorded)
  BY DEF PositionsKept, RequestsAhead
<1>2. \A u \in LogThreads \ {t} : kb[u] = jb[u] /\ jb[u].op # "request"
  BY <1>1 DEF ThreadMoves, LockHeld
<1>3. \A u \in LogThreads : kb[u].op # "request"
  BY <1>2
<1>4. LockHeld(q, kb)
  <2>1. ASSUME NEW u \in LogThreads
        PROVE  /\ q.lock = u <=> kb[u].op = "request"
               /\ kb[u].op # "request" => \A k \in 1..Len(kb[u].todo) : ~SaysAt(kb[u].todo[k])
    <3>1. q.lock # u
      BY LogAssumption
    <3>2. \A k \in 1..Len(kb[u].todo) : ~SaysAt(kb[u].todo[k])
      BY <1>1, <1>2 DEF LockHeld
    <3> QED BY <1>3, <3>1, <3>2
  <2> QED BY <2>1 DEF LockHeld
<1>5. RequestsAhead(q, kb)
  BY <1>3 DEF RequestsAhead
<1>6. ASSUME Clean(st, pt)
      PROVE  PositionsBehind(Log(st, Root), q, kb)
  <2> DEFINE log == Log(st, Root)
  <2>1. PositionsBehind(log, pl, jb)
    BY <1>6 DEF PositionsKept
  <2> HIDE DEF log
  <2>2. ASSUME NEW at, Behind(at, pl, jb)
        PROVE  Behind(at, q, kb)
    <3>1. pl.recorded \in Nat /\ jb[t].covered >= pl.recorded
      BY <1>1 DEF AheadOf, IsPlugin
    <3>2. \A x \in 0..(pl.recorded - 1) : x \in 0..(jb[t].covered - 1)
      BY <3>1
    <3>3. at \in 0..(jb[t].covered - 1)
      BY <1>2, <2>2, <3>2 DEF Behind
    <3> QED BY <3>3 DEF Behind
  <2>3. PositionsBehind(log, q, kb)
    BY <2>1, <2>2 DEF PositionsBehind
  <2> QED BY <2>3 DEF log
<1> QED BY <1>4, <1>5, <1>6 DEF PositionsKept

\* Nobody has the lock, and the log is not what it should be.
LEMMA NobodyHolds ==
    ASSUME NEW n, NEW q, NEW kb, NEW qt, q.lock = NoThread,
           \A u \in LogThreads : /\ kb[u].op # "request"
                                 /\ \A k \in 1..Len(kb[u].todo) : ~SaysAt(kb[u].todo[k]),
           ~Clean(n, qt)
    PROVE  PositionsKept(n, q, kb, qt)
<1>1. \A u \in LogThreads : q.lock # u
  BY LogAssumption
<1>2. LockHeld(q, kb)
  BY <1>1 DEF LockHeld
<1> QED BY <1>2 DEF PositionsKept, RequestsAhead

-----------------------------------------------------------------------------
(* What a request records.                                                 *)

\* The places of a finite set of numbers, one after the other.
LEMMA InOrderIs ==
    ASSUME NEW S \in SUBSET Nat, IsFiniteSet(S)
    PROVE  /\ Cardinality(S) \in Nat
           /\ \A k \in 1..Cardinality(S) : InOrder(S)[k] \in S
           /\ \A j, k \in 1..Cardinality(S) : InOrder(S)[j] = InOrder(S)[k] => j = k
<1> DEFINE n == Cardinality(S)
           id == [x \in S |-> x]
           Fitting(f) == /\ f \in [1..n -> S]
                      /\ \A j, k \in 1..n : j < k => f[j] < f[k]
           g == [k \in 1..n |-> CHOOSE x \in S : PlaceIn(S, id, x) = k - 1]
<1>1. /\ n \in Nat
      /\ \A x, y \in S : id[x] < id[y] <=> PlaceIn(S, id, x) < PlaceIn(S, id, y)
      /\ \A m \in 0..(n - 1) : \E x \in S : PlaceIn(S, id, x) = m
  <2>1. \A x \in S : id[x] \in Int
    OBVIOUS
  <2>2. \A x, y \in S : id[x] = id[y] => x = y
    OBVIOUS
  <2> HIDE DEF id, n, Fitting, g
  <2>3. Cardinality(S) \in Nat
    BY FS_CardinalityType
  <2>4. \A x, y \in S : id[x] < id[y] <=> PlaceIn(S, id, x) < PlaceIn(S, id, y)
    BY <2>1, <2>2, Places
  <2>5. ASSUME NEW m \in 0..(Cardinality(S) - 1)
        PROVE  \E x \in S : PlaceIn(S, id, x) = m
    <3> DEFINE c == Cardinality(S)
    <3>3. c # 0
      <4>1. m \in 0..(c - 1) /\ c \in Nat
        BY <2>3
      <4> HIDE DEF c
      <4> QED BY <4>1
    <3>4. S # {}
      BY <3>3, FS_EmptySet
    <3>1. PICK y \in S : TRUE
      BY <3>4
    <3>2. id[y] \in Int /\ id[y] = id[y] /\ PlaceIn(S, id, y) \in 0..(Cardinality(S) - 1)
      BY <2>1, <2>2, Places
    <3>5. \A z \in 0..(Cardinality(S) - 1) : \E x \in S : PlaceIn(S, id, x) = z
      BY <2>1, <2>2, <3>2, Places
    <3> QED BY <3>5
  <2> QED BY <2>3, <2>4, <2>5 DEF n
<1>2. \A x \in S : id[x] = x
  OBVIOUS
<1> HIDE DEF id, n
<1>3. \A k \in 1..n : g[k] \in S /\ PlaceIn(S, id, g[k]) = k - 1
  <2> TAKE k \in 1..n
  <2>1. k - 1 \in 0..(n - 1)
    BY <1>1
  <2>2. \E x \in S : PlaceIn(S, id, x) = k - 1
    BY <1>1, <2>1
  <2>3. g[k] = CHOOSE x \in S : PlaceIn(S, id, x) = k - 1
    OBVIOUS
  <2> HIDE DEF g
  <2> QED BY <2>2, <2>3
<1>4. g \in [1..n -> S]
  <2>1. DOMAIN g = 1..n /\ g = [k \in 1..n |-> g[k]]
    OBVIOUS
  <2> HIDE DEF g
  <2> QED BY <1>3, <2>1
<1>5. \A j, k \in 1..n : j < k => g[j] < g[k]
  <2> HIDE DEF g
  <2> TAKE j, k \in 1..n
  <2>1. /\ g[j] \in S /\ PlaceIn(S, id, g[j]) = j - 1
        /\ g[k] \in S /\ PlaceIn(S, id, g[k]) = k - 1
    BY <1>3
  <2>2. j < k => PlaceIn(S, id, g[j]) < PlaceIn(S, id, g[k])
    BY <1>1, <2>1
  <2> QED BY <1>1, <1>2, <2>1, <2>2
<1>6. Fitting(g)
  <2> HIDE DEF g
  <2> QED BY <1>4, <1>5
<1>7. InOrder(S) = CHOOSE f \in [1..n -> S] : \A j, k \in 1..n : j < k => f[j] < f[k]
  BY DEF InOrder, n
<1> DEFINE h == InOrder(S)
<1>8. h \in [1..n -> S] /\ \A j, k \in 1..n : j < k => h[j] < h[k]
  <2> HIDE DEF g, h
  <2>1. \E f \in [1..n -> S] : \A j, k \in 1..n : j < k => f[j] < f[k]
    BY <1>6
  <2> QED BY <1>7, <2>1 DEF h
<1> HIDE DEF h
<1>9. ASSUME NEW j \in 1..n, NEW k \in 1..n, h[j] = h[k]
      PROVE  j = k
  <2>1. h[j] \in Nat /\ h[k] \in Nat
    BY <1>8
  <2>2. ~(j < k) /\ ~(k < j)
    BY <1>8, <1>9, <2>1
  <2> QED BY <1>1, <2>2
<1> QED BY <1>1, <1>8, <1>9 DEF h, n

\* The count that a request leaves behind.
LEMMA CoveredIs ==
    ASSUME NEW history \in Seq(STRING), NEW recorded \in Nat
    PROVE  /\ Covered(history, recorded) \in Nat /\ Covered(history, recorded) >= recorded
           /\ \A i \in 1..Len(history) : Speaks(history[i]) => i <= Covered(history, recorded)
<1> DEFINE S == {recorded} \cup {i \in 1..Len(history) : Speaks(history[i])}
<1>1. S \in SUBSET Nat /\ S # {}
  OBVIOUS
<1>2. IsFiniteSet(S)
  <2>1. IsFiniteSet(1..Len(history))
    BY FS_Interval
  <2> DEFINE T == {i \in 1..Len(history) : Speaks(history[i])}
  <2>2. IsFiniteSet(T) /\ S = T \cup {recorded}
    BY <2>1, FS_Subset
  <2> HIDE DEF T, S
  <2> QED BY <2>2, FS_AddElement
<1>3. Covered(history, recorded) = Max(S)
  BY DEF Covered
<1>4. Max(S) \in S /\ \A y \in S : y <= Max(S)
  <2> HIDE DEF S
  <2>1. \E x \in S : \A y \in S : y <= x
    BY <1>1, <1>2, GreatestNat
  <2>2. \E x \in S : \A y \in S : x >= y
    BY <1>1, <2>1
  <2>3. Max(S) = CHOOSE x \in S : \A y \in S : x >= y
    BY DEF Max
  <2> DEFINE m == Max(S)
  <2>4. m \in S /\ \A y \in S : m >= y
    BY <2>2, <2>3
  <2> HIDE DEF m
  <2>5. \A y \in S : y <= m
    BY <1>1, <2>4
  <2> QED BY <2>4, <2>5 DEF m
<1> DEFINE m == Max(S)
<1>5. m \in S /\ \A y \in S : y <= m
  BY <1>4
<1> HIDE DEF m
<1>6. m \in Nat /\ m >= recorded /\ \A i \in 1..Len(history) : Speaks(history[i]) => i <= m
  BY <1>1, <1>5
<1> QED BY <1>3, <1>6 DEF m

\* The records of a request: each of a message of its own, spoken ones not recorded yet.
RecordsOf(todo, history, recorded) ==
    /\ IsList(todo)
    /\ \A k \in 1..Len(todo) :
          \E i \in 1..Len(history) :
             /\ todo[k] = Record(Root, Unset, Event(history[i], i - 1))
             /\ Speaks(history[i]) => i - 1 >= recorded
    /\ \A k, l \in 1..Len(todo) : todo[k].event.at = todo[l].event.at => k = l

\* A request records such records.
LEMMA ToRecordIs ==
    ASSUME NEW history \in Seq(STRING), NEW recorded \in Nat
    PROVE  RecordsOf(ToRecord(history, recorded), history, recorded)
<1> DEFINE todo == ToRecord(history, recorded)
           S == Chosen(history, recorded)
           n == Cardinality(S)
           f == InOrder(S)
<1>1. S \in SUBSET Nat /\ IsFiniteSet(S) /\ S \subseteq 1..Len(history)
      /\ \A i \in S : Speaks(history[i]) => i - 1 >= recorded
  <2>1. IsFiniteSet(1..Len(history)) /\ 1..Len(history) \subseteq Nat
    BY FS_Interval
  <2>2. S \subseteq 1..Len(history)
    BY DEF Chosen
  <2>3. \A i \in S : Speaks(history[i]) => i - 1 >= recorded
    BY DEF Chosen, Speaks
  <2> QED BY <2>1, <2>2, <2>3, FS_Subset
<1>2. /\ n \in Nat
      /\ \A k \in 1..n : f[k] \in S
      /\ \A j, k \in 1..n : f[j] = f[k] => j = k
  <2> HIDE DEF S
  <2> QED BY <1>1, InOrderIs
<1>3. todo = [k \in 1..n |-> Record(Root, Unset, Event(history[f[k]], f[k] - 1))]
  BY DEF ToRecord
<1> HIDE DEF S, n, f, todo
<1>4. IsList(todo) /\ Len(todo) = n
  <2>1. DOMAIN todo = 1..n /\ todo = [k \in 1..n |-> todo[k]]
    BY <1>3
  <2> QED BY <1>2, <2>1, ListIs
<1>5. \A k \in 1..n : todo[k] = Record(Root, Unset, Event(history[f[k]], f[k] - 1)) /\ f[k] \in S
  BY <1>2, <1>3
<1>6. ASSUME NEW k \in 1..n
      PROVE  /\ f[k] \in 1..Len(history) /\ f[k] \in Int
             /\ Speaks(history[f[k]]) => f[k] - 1 >= recorded
  <2>1. PICK i \in S : i = f[k]
    BY <1>2
  <2>2. i \in 1..Len(history) /\ i \in Int /\ (Speaks(history[i]) => i - 1 >= recorded)
    BY <1>1
  <2> QED BY <2>1, <2>2
<1>7. \A a, b : Record(Root, Unset, Event(a, b)).event.at = b
  BY DEF Record, Event
<1>8. ASSUME NEW k \in 1..n, NEW l \in 1..n, todo[k].event.at = todo[l].event.at
      PROVE  k = l
  <2>1. f[k] - 1 = f[l] - 1
    BY <1>5, <1>7, <1>8
  <2>2. f[k] = f[l]
    BY <1>6, <2>1
  <2> QED BY <1>2, <2>2
<1>9. RecordsOf(todo, history, recorded)
  BY <1>4, <1>5, <1>6, <1>8 DEF RecordsOf
<1> QED BY <1>9 DEF todo

-----------------------------------------------------------------------------
(* The gauge.                                                              *)

\* How many records a store holds.
Sizes(st) == [s \in DOMAIN st.sessions |-> Len(Log(st, s))]
HeldBy(st) == SumFunctionOnSet(Sizes(st), DOMAIN st.sessions)

\* The gauge's sum is that number.
LEMMA GaugeIs ==
    ASSUME NEW st, IsStore(st)
    PROVE  /\ SumFunction([s \in DOMAIN st.sessions |-> Len(st.sessions[s])]) = HeldBy(st)
           /\ \A s \in DOMAIN st.sessions : Sizes(st)[s] = Len(Log(st, s)) /\ Sizes(st)[s] \in Nat
           /\ IsFiniteSet(DOMAIN st.sessions)
           /\ Exact(st) <=> (st.kind = "memory" => st.total = HeldBy(st) /\ st.total <= MaxRecords)
<1> DEFINE f == [s \in DOMAIN st.sessions |-> Len(st.sessions[s])]
<1>1. \A s \in DOMAIN st.sessions : Log(st, s) = st.sessions[s] /\ Len(Log(st, s)) \in Nat
  BY LogIs
<1>2. f = Sizes(st)
  BY <1>1 DEF Sizes
<1>3. DOMAIN Sizes(st) = DOMAIN st.sessions
  BY DEF Sizes
<1>4. SumFunction(f) = HeldBy(st)
  <2> HIDE DEF f
  <2> QED BY <1>2, <1>3 DEF HeldBy, SumFunction, FoldFunction, SumFunctionOnSet
<1>5. \A s \in DOMAIN st.sessions : Sizes(st)[s] = Len(Log(st, s)) /\ Sizes(st)[s] \in Nat
  BY <1>1 DEF Sizes
<1>6. IsFiniteSet(DOMAIN st.sessions)
  BY DEF IsStore
<1>7. Exact(st) <=> (st.kind = "memory" => st.total = HeldBy(st) /\ st.total <= MaxRecords)
  BY <1>4 DEF Exact
<1> QED BY <1>4, <1>5, <1>6, <1>7

\* One session's log changes its length.
LEMMA HeldChanges ==
    ASSUME NEW S, IsFiniteSet(S), NEW f, \A x \in S : f[x] \in Nat,
           NEW z, NEW T, T = S \cup {z}, NEW g, g[z] \in Nat, \A x \in S \ {z} : g[x] = f[x]
    PROVE  /\ SumFunctionOnSet(f, S) \in Nat /\ SumFunctionOnSet(g, T) \in Nat
           /\ SumFunctionOnSet(g, T) + (IF z \in S THEN f[z] ELSE 0) = SumFunctionOnSet(f, S) + g[z]
<1>1. T \subseteq S \cup {z} /\ S \subseteq T \cup {z} /\ z \in T
  OBVIOUS
<1>2. \A x \in T : g[x] \in Nat
  OBVIOUS
<1>3. /\ SumFunctionOnSet(f, S) \in Nat /\ SumFunctionOnSet(g, T) \in Nat
      /\ SumFunctionOnSet(g, T) + (IF z \in S THEN f[z] ELSE 0)
           = SumFunctionOnSet(f, S) + (IF z \in T THEN g[z] ELSE 0)
  BY <1>1, <1>2, SumWith
<1> QED BY <1>1, <1>3

\* The gauge counts a stored record.
LEMMA ExactGrows ==
    ASSUME NEW st, IsStore(st), Exact(st), NEW n, IsStore(n), NEW s, NEW r,
           n.kind = st.kind, n.total = st.total + 1, DOMAIN n.sessions = DOMAIN st.sessions \cup {s},
           OneGrows(st, n, s, r), ~(st.kind = "memory" /\ st.total >= MaxRecords)
    PROVE  Exact(n)
<1> DEFINE S == DOMAIN st.sessions
           f == Sizes(st)
           g == Sizes(n)
           old == Len(Log(st, s))
<1>1. IsFiniteSet(S) /\ \A x \in S : f[x] \in Nat /\ f[x] = Len(Log(st, x))
  BY GaugeIs
<1>2. \A x \in S \cup {s} : g[x] = Len(Log(n, x))
  BY GaugeIs
<1>3. old \in Nat /\ Len(Log(n, s)) = old + 1 /\ (s \notin S => old = 0)
  BY GrowsLosesNothing, LogIs
<1>4. \A x \in S \ {s} : g[x] = f[x]
  BY <1>1, <1>2 DEF OneGrows
<1>5. old = IF s \in S THEN f[s] ELSE 0
  BY <1>1, <1>3
<1>6. g[s] = old + 1 /\ old + 1 \in Nat
  BY <1>2, <1>3
<1> DEFINE T == S \cup {s}
<1>7. HeldBy(st) = SumFunctionOnSet(f, S) /\ HeldBy(n) = SumFunctionOnSet(g, T)
  BY DEF HeldBy
<1>8. T = S \cup {s}
  OBVIOUS
<1> HIDE DEF f, g, old, S, T
<1>11. /\ SumFunctionOnSet(f, S) \in Nat /\ SumFunctionOnSet(g, T) \in Nat
       /\ SumFunctionOnSet(g, T) + (IF s \in S THEN f[s] ELSE 0) = SumFunctionOnSet(f, S) + g[s]
  <2>1. g[s] \in Nat
    BY <1>6
  <2>2. IsFiniteSet(S) /\ \A x \in S : f[x] \in Nat
    BY <1>1
  <2> QED BY <1>4, <1>8, <2>1, <2>2, HeldChanges
<1>12. HeldBy(st) \in Nat /\ HeldBy(n) \in Nat /\ HeldBy(n) + old = HeldBy(st) + (old + 1)
  BY <1>5, <1>6, <1>7, <1>11
<1>13. HeldBy(n) = HeldBy(st) + 1
  BY <1>3, <1>12
<1>14. st.total \in Nat /\ MaxRecords \in Nat
  BY LogAssumption DEF IsStore
<1>9. st.kind = "memory" => st.total = HeldBy(st) /\ st.total < MaxRecords
  <2>1. st.kind = "memory" => st.total = HeldBy(st)
    BY GaugeIs
  <2> QED BY <1>14, <2>1
<1>10. n.kind = "memory" => n.total = HeldBy(n) /\ n.total <= MaxRecords
  BY <1>9, <1>12, <1>13, <1>14
<1> QED BY <1>10, GaugeIs

\* A log grows by one record, and there is a new one of i records.
LEMMA HeldForks ==
    ASSUME NEW S, IsFiniteSet(S), NEW f, \A x \in S : f[x] \in Nat,
           NEW s \in S, NEW id, id \notin S, NEW T, T = S \cup {id},
           NEW g, g[s] = f[s] + 1, g[id] \in Nat, \A x \in S \ {s} : g[x] = f[x]
    PROVE  /\ SumFunctionOnSet(f, S) \in Nat
           /\ SumFunctionOnSet(g, T) = SumFunctionOnSet(f, S) + g[id] + 1
<1> DEFINE h == [x \in T |-> IF x = id THEN g[id] ELSE f[x]]
<1>1. h[id] = g[id] /\ \A x \in S : h[x] = f[x]
  OBVIOUS
<1>2. h[id] \in Nat /\ (\A x \in S \ {id} : h[x] = f[x]) /\ (\A x \in T : h[x] \in Nat) /\ h[s] = f[s]
  BY <1>1
<1>3. IsFiniteSet(T)
  BY FS_AddElement
<1>4. s # id /\ s \in T /\ T = T \cup {s}
  OBVIOUS
<1> HIDE DEF h
<1>5. /\ SumFunctionOnSet(f, S) \in Nat /\ SumFunctionOnSet(h, T) \in Nat
      /\ SumFunctionOnSet(h, T) + (IF id \in S THEN f[id] ELSE 0) = SumFunctionOnSet(f, S) + h[id]
  BY <1>2, HeldChanges
<1>6. g[s] \in Nat /\ \A x \in T \ {s} : g[x] = h[x]
  BY <1>1, <1>4
<1>7. /\ SumFunctionOnSet(g, T) \in Nat
      /\ SumFunctionOnSet(g, T) + (IF s \in T THEN h[s] ELSE 0) = SumFunctionOnSet(h, T) + g[s]
  BY <1>2, <1>3, <1>4, <1>6, HeldChanges
<1> QED BY <1>1, <1>2, <1>4, <1>5, <1>7

\* The gauge counts a branch and the record of its fork.
LEMMA ExactForks ==
    ASSUME NEW st, IsStore(st), Exact(st), NEW n, IsStore(n), NEW s \in DOMAIN st.sessions,
           NEW i \in Nat, NEW id, id \notin DOMAIN st.sessions, st.total + i < MaxRecords,
           n.kind = st.kind, n.total = st.total + i + 1,
           DOMAIN n.sessions = DOMAIN st.sessions \cup {id},
           Len(Log(n, s)) = Len(Log(st, s)) + 1, Len(Log(n, id)) = i,
           \A x : x # s /\ x # id => Log(n, x) = Log(st, x)
    PROVE  Exact(n)
<1> DEFINE S == DOMAIN st.sessions
           T == S \cup {id}
           f == Sizes(st)
           g == Sizes(n)
<1>1. IsFiniteSet(S) /\ \A x \in S : f[x] \in Nat /\ f[x] = Len(Log(st, x))
  BY GaugeIs
<1>2. \A x \in T : g[x] = Len(Log(n, x))
  BY GaugeIs
<1>3. g[s] = f[s] + 1 /\ g[id] = i
  BY <1>1, <1>2
<1>4. \A x \in S \ {s} : g[x] = f[x]
  <2> TAKE x \in S \ {s}
  <2>1. x # s /\ x # id
    OBVIOUS
  <2>2. Log(n, x) = Log(st, x)
    BY <2>1
  <2> QED BY <1>1, <1>2, <2>2
<1>5. HeldBy(st) = SumFunctionOnSet(f, S) /\ HeldBy(n) = SumFunctionOnSet(g, T)
  BY DEF HeldBy
<1>6. IsFiniteSet(S) /\ (\A x \in S : f[x] \in Nat) /\ s \in S /\ id \notin S /\ T = S \cup {id}
  BY <1>1
<1> HIDE DEF S, T, f, g
<1>11. g[id] \in Nat /\ g[s] = f[s] + 1
  BY <1>3
<1>12. /\ SumFunctionOnSet(f, S) \in Nat
       /\ SumFunctionOnSet(g, T) = SumFunctionOnSet(f, S) + g[id] + 1
  BY <1>4, <1>6, <1>11, HeldForks
<1>7. /\ SumFunctionOnSet(f, S) \in Nat
      /\ SumFunctionOnSet(g, T) = SumFunctionOnSet(f, S) + i + 1
  BY <1>3, <1>12
<1>8. HeldBy(st) \in Nat /\ HeldBy(n) = HeldBy(st) + i + 1
  BY <1>5, <1>7
<1>9. st.kind = "memory" => st.total = HeldBy(st)
  BY GaugeIs
<1>10. n.kind = "memory" => n.total = HeldBy(n) /\ n.total <= MaxRecords
  BY <1>8, <1>9, LogAssumption DEF IsStore
<1> QED BY <1>10, GaugeIs

-----------------------------------------------------------------------------
(* What was acknowledged.                                                  *)

\* What is in a log stays there.
LEMMA AckedStays ==
    ASSUME NEW st, NEW n, NothingLost(st, n), NEW acked, Acked(st, acked)
    PROVE  Acked(n, acked)
<1>1. ASSUME NEW a \in acked
      PROVE  \E i \in 1..Len(Log(n, a[1])) : Log(n, a[1])[i].event = a[2]
  <2>1. PICK i \in 1..Len(Log(st, a[1])) : Log(st, a[1])[i].event = a[2]
    BY DEF Acked
  <2>2. i \in 1..Len(Log(n, a[1])) /\ Log(n, a[1])[i] = Log(st, a[1])[i]
    BY DEF NothingLost
  <2> QED BY <2>1, <2>2
<1> QED BY <1>1 DEF Acked

\* A stored record may be acknowledged.
LEMMA AckedGrows ==
    ASSUME NEW st, IsStore(st), NEW n, NEW s, NEW r, OneGrows(st, n, s, r), NEW acked, Acked(st, acked)
    PROVE  Acked(n, acked \cup {<<s, r.event>>})
<1> DEFINE a == <<s, r.event>>
<1>1. Acked(n, acked)
  BY GrowsLosesNothing, AckedStays
<1>2. Len(Log(n, s)) = Len(Log(st, s)) + 1 /\ Log(n, s)[Len(Log(st, s)) + 1] = r /\ Len(Log(st, s)) \in Nat
  BY GrowsLosesNothing, LogIs
<1>3. Len(Log(st, s)) + 1 \in 1..Len(Log(n, s))
  BY <1>2
<1>4. a[1] = s /\ a[2] = r.event
  OBVIOUS
<1> HIDE DEF a
<1>5. \E i \in 1..Len(Log(n, a[1])) : Log(n, a[1])[i].event = a[2]
  BY <1>2, <1>3, <1>4
<1>6. Acked(n, acked \cup {a})
  BY <1>1, <1>5 DEF Acked
<1> QED BY <1>6 DEF a

-----------------------------------------------------------------------------
(* The forks, and everything a step without a crash keeps.                 *)

\* A complete branch stays complete.
LEMMA CarriesStays ==
    ASSUME NEW st, IsStore(st), NEW n, IsStore(n), NothingLost(st, n), NEW b, Carries(st, b)
    PROVE  Carries(n, b)
<1> DEFINE log == Log(st, b[1])
           more == Log(n, b[1])
           copy == Log(st, b)
           longer == Log(n, b)
           p == PointAt(log, b[2])
<1>1. /\ IsList(log) /\ IsList(more) /\ Len(log) <= Len(more) /\ Len(log) \in Nat /\ Len(more) \in Nat
      /\ \A i \in 1..Len(log) : i \in 1..Len(more) /\ more[i] = log[i]
      /\ Len(copy) <= Len(longer) /\ Len(copy) \in Nat /\ Len(longer) \in Nat
      /\ \A i \in 1..Len(copy) : longer[i] = copy[i]
  BY LogIs DEF NothingLost
<1>2. HasPoint(log, b[2]) /\ Copied(log, copy, p) /\ \E i \in 1..Len(log) : log[i].event = Forked(b)
  BY DEF Carries
<1>3. Carries(n, b) <=> /\ HasPoint(more, b[2])
                        /\ Copied(more, longer, PointAt(more, b[2]))
                        /\ \E i \in 1..Len(more) : more[i].event = Forked(b)
  BY DEF Carries
<1> HIDE DEF log, more, copy, longer
<1>4. p \in 1..Len(log) /\ HasPoint(more, b[2]) /\ PointAt(more, b[2]) = p
  BY <1>1, <1>2, PointIs
<1> HIDE DEF p
<1>5. Copied(more, longer, p)
  <2>1. p <= Len(longer)
    BY <1>1, <1>2, <1>4 DEF Copied
  <2>2. ASSUME NEW j \in 1..p
        PROVE  longer[j].event = more[j].event
    <3>1. j \in 1..Len(log) /\ j \in 1..Len(copy)
      BY <1>1, <1>2, <1>4 DEF Copied
    <3>2. copy[j].event = log[j].event
      BY <1>2 DEF Copied
    <3> QED BY <1>1, <3>1, <3>2
  <2> QED BY <2>1, <2>2 DEF Copied
<1>6. \E i \in 1..Len(more) : more[i].event = Forked(b)
  <2>1. PICK i \in 1..Len(log) : log[i].event = Forked(b)
    BY <1>2
  <2>2. i \in 1..Len(more) /\ more[i] = log[i]
    BY <1>1
  <2> QED BY <2>1, <2>2
<1> QED BY <1>3, <1>4, <1>5, <1>6

\* What a fork has still to copy stays, as long as nobody else writes its branch.
LEMMA CopyingStays ==
    ASSUME NEW st, IsStore(st), NEW n, IsStore(n), NothingLost(st, n), NEW j, Copying(st, j),
           Log(n, j.branch) = Log(st, j.branch)
    PROVE  Copying(n, j)
<1> DEFINE log == Log(st, j.session)
           more == Log(n, j.session)
           copy == Log(st, j.branch)
           q == j.branch[2]
           p == PointAt(log, q)
           k == Len(copy)
<1>1. /\ IsList(log) /\ IsList(more) /\ Len(log) <= Len(more) /\ Len(log) \in Nat
      /\ \A i \in 1..Len(log) : more[i] = log[i]
      /\ k \in Nat
  BY LogIs DEF NothingLost
<1>2. /\ HasPoint(log, q)
      /\ k <= p /\ Copied(log, copy, k)
      /\ Len(j.todo) = p - k + 1
      /\ \A i \in 1..(p - k) : j.todo[i].session = j.branch /\ j.todo[i].event = log[k + i].event
      /\ j.todo[p - k + 1].session = j.session
      /\ j.todo[p - k + 1].event = Forked(j.branch)
  BY DEF Copying
<1>3. Copying(n, j) <=>
      LET x == PointAt(more, q) IN
      /\ HasPoint(more, q)
      /\ k <= x /\ Copied(more, copy, k)
      /\ Len(j.todo) = x - k + 1
      /\ \A i \in 1..(x - k) : j.todo[i].session = j.branch /\ j.todo[i].event = more[k + i].event
      /\ j.todo[x - k + 1].session = j.session
      /\ j.todo[x - k + 1].event = Forked(j.branch)
  BY DEF Copying
<1> HIDE DEF log, more, copy, q
<1>4. p \in 1..Len(log) /\ HasPoint(more, q) /\ PointAt(more, q) = p
  BY <1>1, <1>2, PointIs
<1> HIDE DEF p, k
<1>5. Copied(more, copy, k)
  <2>1. \A i \in 1..k : i \in 1..Len(log)
    BY <1>1, <1>2, <1>4
  <2> QED BY <1>1, <1>2, <2>1 DEF Copied
<1>6. \A i \in 1..(p - k) : j.todo[i].event = more[k + i].event
  <2> TAKE i \in 1..(p - k)
  <2>1. k + i \in 1..Len(log)
    BY <1>1, <1>2, <1>4
  <2> QED BY <1>1, <1>2, <2>1
<1> QED BY <1>2, <1>3, <1>4, <1>5, <1>6

\* A fork copies one record more, or says at last that it is done.
LEMMA ForkStores ==
    ASSUME NEW st, IsStore(st), NEW n, IsStore(n), NEW j, IsJob(j), Copying(st, j), j.todo # <<>>,
           OneGrows(st, n, j.todo[1].session, j.todo[1]),
           j.session # j.branch, j.session = j.branch[1]
    PROVE  /\ Tail(j.todo) # <<>> =>
                 \A w : w.todo = Tail(j.todo) /\ w.session = j.session /\ w.branch = j.branch
                        => Copying(n, w)
           /\ Tail(j.todo) = <<>> => Carries(n, j.branch)
           /\ j.todo[1].session \in {j.branch, j.session}
<1> DEFINE log == Log(st, j.session)
           more == Log(n, j.session)
           copy == Log(st, j.branch)
           longer == Log(n, j.branch)
           q == j.branch[2]
           p == PointAt(log, q)
           k == Len(copy)
           r == j.todo[1]
           rest == Tail(j.todo)
<1>1. /\ IsList(log) /\ IsList(more) /\ Len(log) \in Nat /\ Len(more) \in Nat
      /\ k \in Nat /\ Len(longer) \in Nat /\ IsList(copy)
  BY LogIs
<1>2. /\ HasPoint(log, q)
      /\ k <= p /\ Copied(log, copy, k)
      /\ Len(j.todo) = p - k + 1
      /\ \A i \in 1..(p - k) : j.todo[i].session = j.branch /\ j.todo[i].event = log[k + i].event
      /\ j.todo[p - k + 1].session = j.session
      /\ j.todo[p - k + 1].event = Forked(j.branch)
  BY DEF Copying
<1>3. /\ Len(rest) = Len(j.todo) - 1 /\ (rest = <<>> <=> Len(j.todo) = 1)
      /\ \A i \in 1..Len(rest) : rest[i] = j.todo[i + 1]
  BY ListTail DEF IsJob
<1>4. p \in 1..Len(log)
  BY <1>1, <1>2, PointIs
<1>5. CASE k < p
  <2>1. r.session = j.branch /\ r.event = log[k + 1].event
    <3>1. 1 \in 1..(p - k)
      BY <1>1, <1>4, <1>5
    <3> QED BY <1>2, <3>1
  <2>2. /\ Len(longer) = k + 1 /\ longer[k + 1] = r /\ more = log
        /\ \A i \in 1..k : longer[i] = copy[i]
    <3>1. Len(longer) = k + 1 /\ longer[k + 1] = r
      BY <2>1, GrowsLosesNothing
    <3>2. \A i \in 1..k : longer[i] = copy[i]
      BY <2>1, GrowsLosesNothing DEF NothingLost
    <3>3. more = log
      BY <2>1 DEF OneGrows
    <3> QED BY <3>1, <3>2, <3>3
  <2>3. rest # <<>>
    <3>1. p \in Nat /\ k \in Nat /\ k < p /\ Len(j.todo) = p - k + 1
      BY <1>1, <1>2, <1>4, <1>5
    <3> HIDE DEF p, k
    <3>2. Len(j.todo) # 1
      BY <3>1
    <3> QED BY <1>3, <3>2
  <2>4. ASSUME NEW w, w.todo = rest, w.session = j.session, w.branch = j.branch
        PROVE  Copying(n, w)
    <3>1. Copying(n, w) <=>
          LET x == PointAt(more, q)
              y == Len(longer) IN
          /\ HasPoint(more, q)
          /\ y <= x /\ Copied(more, longer, y)
          /\ Len(rest) = x - y + 1
          /\ \A i \in 1..(x - y) : rest[i].session = j.branch /\ rest[i].event = more[y + i].event
          /\ rest[x - y + 1].session = j.session
          /\ rest[x - y + 1].event = Forked(j.branch)
      BY <2>4 DEF Copying
    <3> HIDE DEF log, more, copy, longer, q, p, k, r, rest
    <3>2. PointAt(more, q) = p /\ HasPoint(more, q)
      BY <1>2, <2>2 DEF p
    <3>3. Copied(more, longer, k + 1)
      <4>1. \A i \in 1..k : longer[i].event = more[i].event
        BY <1>2, <2>2 DEF Copied
      <4>2. longer[k + 1].event = more[k + 1].event
        BY <2>1, <2>2
      <4>3. \A i \in 1..(k + 1) : i \in 1..k \/ i = k + 1
        BY <1>1
      <4>4. k + 1 <= Len(longer)
        BY <1>1, <2>2
      <4> QED BY <4>1, <4>2, <4>3, <4>4 DEF Copied
    <3>4. Len(rest) = p - (k + 1) + 1 /\ k + 1 <= p
      BY <1>1, <1>2, <1>3, <1>4, <1>5
    <3>5. \A i \in 1..(p - (k + 1)) :
             rest[i].session = j.branch /\ rest[i].event = more[(k + 1) + i].event
      <4> TAKE i \in 1..(p - (k + 1))
      <4>1. i + 1 \in 1..(p - k) /\ i \in 1..Len(rest) /\ k + (i + 1) = (k + 1) + i
        BY <1>1, <1>4, <1>5, <3>4
      <4>2. rest[i] = j.todo[i + 1]
        BY <1>3, <4>1
      <4>3. j.todo[i + 1].session = j.branch /\ j.todo[i + 1].event = log[k + (i + 1)].event
        BY <1>2, <4>1
      <4> QED BY <2>2, <4>1, <4>2, <4>3
    <3>6. rest[p - (k + 1) + 1] = j.todo[p - k + 1]
      <4>1. p - (k + 1) + 1 \in 1..Len(rest) /\ (p - (k + 1) + 1) + 1 = p - k + 1
        BY <1>1, <1>4, <1>5, <3>4
      <4> QED BY <1>3, <4>1
    <3> QED BY <1>2, <2>2, <3>1, <3>2, <3>3, <3>4, <3>5, <3>6
  <2> QED BY <2>1, <2>3, <2>4
<1>6. CASE k = p
  <2>1. r.session = j.session /\ r.event = Forked(j.branch) /\ Len(j.todo) = 1
    BY <1>1, <1>2, <1>4, <1>6
  <2>2. rest = <<>>
    BY <1>3, <2>1
  <2>3. /\ Len(more) = Len(log) + 1 /\ more[Len(log) + 1] = r /\ longer = copy
        /\ \A i \in 1..Len(log) : more[i] = log[i]
    <3>1. Len(more) = Len(log) + 1 /\ more[Len(log) + 1] = r
      BY <2>1, GrowsLosesNothing
    <3>2. \A i \in 1..Len(log) : more[i] = log[i]
      BY <2>1, GrowsLosesNothing DEF NothingLost
    <3>3. longer = copy
      BY <2>1 DEF OneGrows
    <3> QED BY <3>1, <3>2, <3>3
  <2>4. Carries(n, j.branch) <=>
           /\ HasPoint(more, q)
           /\ Copied(more, longer, PointAt(more, q))
           /\ \E i \in 1..Len(more) : more[i].event = Forked(j.branch)
    BY DEF Carries
  <2>5. HasPoint(more, q) /\ PointAt(more, q) = p
    <3> HIDE DEF log, more, q
    <3>1. Len(log) <= Len(more)
      BY <1>1, <2>3
    <3> QED BY <1>1, <1>2, <2>3, <3>1, PointIs DEF p
  <2> HIDE DEF log, more, copy, longer, q, p, k, r, rest
  <2>6. Copied(more, longer, p)
    <3>1. \A i \in 1..p : i \in 1..Len(log) /\ i \in 1..k
      BY <1>1, <1>4, <1>6
    <3> QED BY <1>2, <1>6, <2>3, <3>1 DEF Copied
  <2>7. \E i \in 1..Len(more) : more[i].event = Forked(j.branch)
    <3>1. Len(log) + 1 \in 1..Len(more)
      BY <1>1, <2>3
    <3>2. more[Len(log) + 1].event = Forked(j.branch)
      BY <2>1, <2>3
    <3> QED BY <3>1, <3>2
  <2> QED BY <2>1, <2>2, <2>4, <2>5, <2>6, <2>7 DEF r, rest
<1>7. k < p \/ k = p
  <2>1. k \in Nat /\ p \in Nat /\ k <= p
    BY <1>1, <1>2, <1>4
  <2> HIDE DEF k, p
  <2> QED BY <2>1
<1> QED BY <1>5, <1>6, <1>7

\* A job that keeps the forks apart: an old branch with its copy, or a new one.
FitJob(st, n, j, w, branches) ==
    /\ Known(w.branch, n.forks)
    /\ \A k \in 1..Len(w.todo) : /\ Known(w.todo[k].session, n.forks)
                                 /\ w.todo[k].session \in {Root} \cup branches \cup {w.branch}
    /\ w.op \notin ForkOps => w.branch = Root
    /\ w.op \in ForkOps => /\ w.session \in {Root} \cup branches /\ w.session = w.branch[1]
                           /\ (j.op \in ForkOps /\ w.branch = j.branch) \/ ~Known(w.branch, st.forks)
    /\ w.op = "fork" => Copying(n, w)
    /\ w.op \in {"measure", "realign"} => Carries(n, w.branch) /\ w.todo = <<>>

\* A branch is given out by the thread that completed it.
GivenOut(n, j, w, branches, more) ==
    /\ branches \subseteq more
    /\ \A b \in more : b \in branches \/ (b = j.branch /\ j.op \in ForkOps /\ Carries(n, b)
                                          /\ w.op \notin ForkOps)

\* What a step of the thread t keeps as long as nothing crashed.
LEMMA CalmKeeps ==
    ASSUME NEW st, IsStore(st), NEW n, IsStore(n), NothingLost(st, n), st.forks <= n.forks,
           \A s \in DOMAIN n.sessions : s \in DOMAIN st.sessions \/ Known(s, n.forks),
           NEW jb, NEW kb, NEW pt, NEW qt, Calm(st, jb, pt), EventsDiffer(n, kb, qt.ops),
           NEW t \in LogThreads, ThreadMoves(jb, kb, t),
           FitJob(st, n, jb[t], kb[t], pt.branches),
           GivenOut(n, jb[t], kb[t], pt.branches, qt.branches),
           \A u \in LogThreads \ {t} : jb[u].op = "fork" => Log(n, jb[u].branch) = Log(st, jb[u].branch)
    PROVE  Calm(n, kb, qt)
<1>1. /\ SessionsKnown(st, jb, pt.branches) /\ WritesOwn(jb, pt.branches)
      /\ ForksApart(jb, pt.branches) /\ ForksKept(st, jb, pt.branches)
  BY DEF Calm
<1>2. \A u \in LogThreads \ {t} : kb[u] = jb[u]
  BY DEF ThreadMoves
<1>3. \A s : Known(s, st.forks) => Known(s, n.forks)
  BY DatedStays DEF IsStore
<1>4. /\ pt.branches \subseteq qt.branches
      /\ \A b \in qt.branches : b \in pt.branches \/ (b = jb[t].branch /\ jb[t].op \in ForkOps
                                                      /\ Carries(n, b) /\ kb[t].op \notin ForkOps)
  BY DEF GivenOut
<1>5. SessionsKnown(n, kb, qt.branches)
  <2>1. \A s \in DOMAIN n.sessions : Known(s, n.forks)
    BY <1>1, <1>3 DEF SessionsKnown
  <2>2. \A b \in qt.branches : Known(b, n.forks)
    BY <1>1, <1>3, <1>4 DEF SessionsKnown
  <2>3. ASSUME NEW u \in LogThreads
        PROVE  /\ Known(kb[u].branch, n.forks)
               /\ \A k \in 1..Len(kb[u].todo) : Known(kb[u].todo[k].session, n.forks)
    <3>1. CASE u = t
      BY <3>1 DEF FitJob
    <3>2. CASE u # t
      BY <1>1, <1>2, <1>3, <3>2 DEF SessionsKnown
    <3> QED BY <3>1, <3>2
  <2> QED BY <2>1, <2>2, <2>3 DEF SessionsKnown
<1>6. WritesOwn(kb, qt.branches)
  <2>1. ASSUME NEW u \in LogThreads, NEW k \in 1..Len(kb[u].todo)
        PROVE  kb[u].todo[k].session \in {Root} \cup qt.branches \cup {kb[u].branch}
    <3>1. CASE u = t
      BY <1>4, <2>1, <3>1 DEF FitJob
    <3>2. CASE u # t
      <4>1. kb[u] = jb[u]
        BY <1>2, <3>2
      <4>2. jb[u].todo[k].session \in {Root} \cup pt.branches \cup {jb[u].branch}
        BY <1>1, <2>1, <4>1 DEF WritesOwn
      <4> QED BY <1>4, <4>1, <4>2
    <3> QED BY <3>1, <3>2
  <2> QED BY <2>1 DEF WritesOwn
<1>7. /\ Root \notin pt.branches
      /\ \A u \in LogThreads : /\ jb[u].op \notin ForkOps => jb[u].branch = Root
                               /\ jb[u].op \in ForkOps => /\ jb[u].branch \notin pt.branches
                                                          /\ jb[u].branch # Root
                                                          /\ jb[u].session \in {Root} \cup pt.branches
                                                          /\ jb[u].session = jb[u].branch[1]
      /\ \A u, x \in LogThreads : jb[u].op \in ForkOps /\ jb[x].op \in ForkOps
                                  /\ jb[u].branch = jb[x].branch => u = x
  BY <1>1 DEF ForksApart
<1>8. /\ \A s : ~Known(s, st.forks) => s # Root /\ s \notin pt.branches
      /\ \A s : ~Known(s, st.forks) => \A u \in LogThreads : s # jb[u].branch
  BY <1>1 DEF SessionsKnown, Known
<1>9. /\ kb[t].op \notin ForkOps => kb[t].branch = Root
      /\ kb[t].op \in ForkOps => /\ kb[t].session \in {Root} \cup pt.branches
                                 /\ kb[t].session = kb[t].branch[1]
                                 /\ (jb[t].op \in ForkOps /\ kb[t].branch = jb[t].branch)
                                    \/ ~Known(kb[t].branch, st.forks)
  BY DEF FitJob
<1>10. kb[t].op \in ForkOps =>
          /\ kb[t].branch \notin pt.branches /\ kb[t].branch # Root
          /\ \A u \in LogThreads \ {t} : jb[u].op \in ForkOps => jb[u].branch # kb[t].branch
          /\ qt.branches = pt.branches
  <2>1. ASSUME kb[t].op \in ForkOps
        PROVE  qt.branches = pt.branches
    BY <1>4, <2>1
  <2>2. ASSUME kb[t].op \in ForkOps
        PROVE  /\ kb[t].branch \notin pt.branches /\ kb[t].branch # Root
               /\ \A u \in LogThreads \ {t} : jb[u].op \in ForkOps => jb[u].branch # kb[t].branch
    <3>1. CASE jb[t].op \in ForkOps /\ kb[t].branch = jb[t].branch
      BY <1>7, <3>1
    <3>2. CASE ~Known(kb[t].branch, st.forks)
      BY <1>8, <3>2
    <3> QED BY <1>9, <2>2, <3>1, <3>2
  <2> QED BY <2>1, <2>2
<1>11. ForksApart(kb, qt.branches)
  <2>1. Root \notin qt.branches
    BY <1>4, <1>7
  <2>2. ASSUME NEW u \in LogThreads
        PROVE  /\ kb[u].op \notin ForkOps => kb[u].branch = Root
               /\ kb[u].op \in ForkOps => /\ kb[u].branch \notin qt.branches /\ kb[u].branch # Root
                                          /\ kb[u].session \in {Root} \cup qt.branches
                                          /\ kb[u].session = kb[u].branch[1]
    <3>1. CASE u = t
      BY <1>9, <1>10, <3>1
    <3>2. CASE u # t
      <4>1. kb[u] = jb[u]
        BY <1>2, <3>2
      <4>2. jb[u].op \in ForkOps => jb[u].branch \notin qt.branches
        <5>1. ASSUME jb[u].op \in ForkOps, jb[u].branch \in qt.branches
              PROVE  FALSE
          <6>1. jb[u].branch = jb[t].branch /\ jb[t].op \in ForkOps
            BY <1>4, <1>7, <5>1
          <6> QED BY <1>7, <3>2, <5>1, <6>1
        <5> QED BY <5>1
      <4>3. jb[u].op \in ForkOps => jb[u].session \in {Root} \cup qt.branches
        BY <1>4, <1>7
      <4> QED BY <1>7, <4>1, <4>2, <4>3
    <3> QED BY <3>1, <3>2
  <2>3. ASSUME NEW u \in LogThreads, NEW x \in LogThreads, kb[u].op \in ForkOps, kb[x].op \in ForkOps,
               kb[u].branch = kb[x].branch
        PROVE  u = x
    <3>1. CASE u = t /\ x # t
      BY <1>2, <1>10, <2>3, <3>1
    <3>2. CASE u # t /\ x = t
      BY <1>2, <1>10, <2>3, <3>2
    <3>3. CASE u # t /\ x # t
      BY <1>2, <1>7, <2>3, <3>3
    <3> QED BY <3>1, <3>2, <3>3
  <2> QED BY <2>1, <2>2, <2>3 DEF ForksApart
<1>12. ForksKept(n, kb, qt.branches)
  <2>1. ASSUME NEW b \in qt.branches
        PROVE  b[1] \in {Root} \cup qt.branches /\ Carries(n, b)
    <3>1. CASE b \in pt.branches
      <4>1. b[1] \in {Root} \cup pt.branches /\ Carries(st, b)
        BY <1>1, <3>1 DEF ForksKept
      <4> QED BY <1>4, <4>1, CarriesStays
    <3>2. CASE b \notin pt.branches
      <4>1. b = jb[t].branch /\ jb[t].op \in ForkOps /\ Carries(n, b)
        BY <1>4, <3>2
      <4> QED BY <1>4, <1>7, <4>1
    <3> QED BY <3>1, <3>2
  <2>2. ASSUME NEW u \in LogThreads
        PROVE  /\ kb[u].op = "fork" => Copying(n, kb[u])
               /\ kb[u].op \in {"measure", "realign"} => Carries(n, kb[u].branch) /\ kb[u].todo = <<>>
    <3>1. CASE u = t
      BY <3>1 DEF FitJob
    <3>2. CASE u # t
      <4>1. kb[u] = jb[u]
        BY <1>2, <3>2
      <4>2. /\ jb[u].op = "fork" => Copying(st, jb[u])
            /\ jb[u].op \in {"measure", "realign"} => Carries(st, jb[u].branch) /\ jb[u].todo = <<>>
        BY <1>1 DEF ForksKept
      <4>3. jb[u].op = "fork" => Log(n, jb[u].branch) = Log(st, jb[u].branch)
        BY <3>2
      <4>4. jb[u].op = "fork" => Copying(n, jb[u])
        BY <4>2, <4>3, CopyingStays
      <4>5. jb[u].op \in {"measure", "realign"} => Carries(n, jb[u].branch)
        BY <4>2, CarriesStays
      <4> QED BY <4>1, <4>2, <4>4, <4>5
    <3> QED BY <3>1, <3>2
  <2> QED BY <2>1, <2>2 DEF ForksKept
<1> QED BY <1>5, <1>6, <1>11, <1>12 DEF Calm

\* A thread that has nothing to record is like no other.
LEMMA NothingLeftDiffers ==
    ASSUME NEW jb, NEW kb, NEW t \in LogThreads, ThreadMoves(jb, kb, t), Len(kb[t].todo) = 0,
           PendingDiffer(jb)
    PROVE  PendingDiffer(kb)
<1>1. \A u \in LogThreads : \A k \in 1..Len(kb[u].todo) : u # t /\ kb[u] = jb[u]
  BY DEF ThreadMoves
<1>2. ASSUME NEW u \in LogThreads, NEW x \in LogThreads, NEW k \in 1..Len(kb[u].todo),
             NEW l \in 1..Len(kb[x].todo),
             kb[u].todo[k].session = kb[x].todo[l].session,
             kb[u].todo[k].event = kb[x].todo[l].event
      PROVE  u = x /\ k = l
  <2>1. kb[u] = jb[u] /\ kb[x] = jb[x]
    BY <1>1
  <2>2. /\ k \in 1..Len(jb[u].todo) /\ l \in 1..Len(jb[x].todo)
        /\ jb[u].todo[k].session = jb[x].todo[l].session
        /\ jb[u].todo[k].event = jb[x].todo[l].event
    BY <1>2, <2>1
  <2>3. \A a \in 1..Len(jb[u].todo), b \in 1..Len(jb[x].todo) :
           /\ jb[u].todo[a].session = jb[x].todo[b].session
           /\ jb[u].todo[a].event = jb[x].todo[b].event
           => u = x /\ a = b
    BY DEF PendingDiffer
  <2> QED BY <2>2, <2>3
<1> QED BY <1>2 DEF PendingDiffer

\* A fork in memory: a copy where there was nothing, and a record of it.
ForksTo(st, n, s, i, id, r) ==
    /\ IsStore(st) /\ IsStore(n) /\ s \in DOMAIN st.sessions /\ i \in 1..Len(Log(st, s))
    /\ s # id /\ id # Root /\ id[3] = st.forks /\ n.forks = st.forks + 1
    /\ r.event = Forked(id) /\ Log(n, s) = Append(Log(st, s), r)
    /\ Len(Log(n, id)) = i /\ \A j \in 1..i : Log(n, id)[j].event = Log(st, s)[j].event
    /\ \A x : x # s /\ x # id => Log(n, x) = Log(st, x)

\* No two events of one thread are the same after a fork in memory.
LEMMA ForksDiffer ==
    ASSUME NEW st, NEW n, NEW s, NEW i, NEW id, NEW r, ForksTo(st, n, s, i, id, r),
           NEW ops \in Nat, NEW m \in Nat, ops <= m, NEW jb, NEW kb, NEW branches,
           SessionsKnown(st, jb, branches), EventsDiffer(st, jb, ops),
           NEW t \in LogThreads, ThreadMoves(jb, kb, t), Len(kb[t].todo) = 0
    PROVE  EventsDiffer(n, kb, m)
<1> USE DEF ForksTo
<1> DEFINE log == Log(st, s)
           more == Log(n, s)
           copy == Log(n, id)
<1>1. EventsDated(st, jb, ops) /\ LogsDiffer(st) /\ PendingNew(st, jb) /\ PendingDiffer(jb)
  BY DEF EventsDiffer
<1>2. st.forks \in Nat /\ n.forks = st.forks + 1 /\ Len(log) \in Nat /\ i \in Nat /\ i <= Len(log)
  BY LogIs DEF IsStore
<1>3. /\ \A e : Dated(e, ops, st.forks) => Dated(e, m, n.forks)
      /\ \A x : Known(x, st.forks) => Known(x, n.forks)
  BY <1>2, DatedStays
<1>4. /\ \A x : \A k \in 1..Len(Log(st, x)) : Dated(Log(st, x)[k].event, ops, st.forks)
      /\ \A x : \A k, l \in 1..Len(Log(st, x)) : Log(st, x)[k].event = Log(st, x)[l].event => k = l
  <2>1. \A x : \A k \in 1..Len(Log(st, x)) : Dated(Log(st, x)[k].event, ops, st.forks)
    BY <1>1, Everywhere
  <2>2. \A x : \A k, l \in 1..Len(Log(st, x)) : Log(st, x)[k].event = Log(st, x)[l].event => k = l
    BY <1>1, Everywhere
  <2> QED BY <2>1, <2>2
<1>5. ~Dated(Forked(id), ops, st.forks) /\ Dated(Forked(id), m, n.forks)
  <2>1. Forked(id).to = id
    BY DEF Forked
  <2>2. id[3] \notin 0..(st.forks - 1) /\ id[3] \in 0..(n.forks - 1)
    BY <1>2
  <2> QED BY <2>1, <2>2 DEF Dated
<1>6. ~Known(id, st.forks)
  BY <1>2 DEF Known
<1>7. /\ Len(more) = Len(log) + 1 /\ more[Len(log) + 1] = r
      /\ \A k \in 1..Len(log) : more[k] = log[k]
      /\ \A k \in 1..Len(more) : k = Len(log) + 1 \/ k \in 1..Len(log)
  <2>1. IsList(log) /\ more = Append(log, r)
    BY LogIs
  <2> HIDE DEF log, more
  <2> QED BY <2>1, ListGrows
<1>8. \A u \in LogThreads : \A k \in 1..Len(kb[u].todo) : u # t /\ kb[u] = jb[u] /\ k \in 1..Len(jb[u].todo)
  BY DEF ThreadMoves
<1>9. /\ Len(copy) = i /\ \A j \in 1..i : copy[j].event = log[j].event /\ j \in 1..Len(log)
  BY <1>2
<1>10. \A x : x # s /\ x # id => Log(n, x) = Log(st, x)
  OBVIOUS
<1> HIDE DEF more, copy
<1>11. \A k \in 1..Len(more) : (k = Len(log) + 1 /\ more[k].event = Forked(id))
                               \/ (k \in 1..Len(log) /\ more[k].event = log[k].event
                                   /\ more[k].event # Forked(id))
  <2> TAKE k \in 1..Len(more)
  <2>1. CASE k = Len(log) + 1
    BY <1>7, <2>1
  <2>2. CASE k \in 1..Len(log)
    BY <1>4, <1>5, <1>7, <2>2
  <2> QED BY <1>7, <2>1, <2>2
<1>12. EventsDated(n, kb, m)
  <2>1. ASSUME NEW x, NEW k \in 1..Len(Log(n, x))
        PROVE  Dated(Log(n, x)[k].event, m, n.forks)
    <3>1. CASE x = s
      <4>1. k \in 1..Len(more) /\ Log(n, x)[k] = more[k]
        BY <2>1, <3>1 DEF more
      <4> QED BY <1>3, <1>4, <1>5, <1>11, <4>1
    <3>2. CASE x = id
      <4>1. k \in 1..Len(copy) /\ Log(n, x)[k] = copy[k]
        BY <2>1, <3>2 DEF copy
      <4> QED BY <1>3, <1>4, <1>9, <4>1
    <3>3. CASE x # s /\ x # id
      BY <1>3, <1>4, <1>10, <2>1, <3>3
    <3> QED BY <3>1, <3>2, <3>3
  <2>2. ASSUME NEW u \in LogThreads, NEW k \in 1..Len(kb[u].todo)
        PROVE  Dated(kb[u].todo[k].event, m, n.forks)
    <3>1. Dated(jb[u].todo[k].event, ops, st.forks) /\ kb[u] = jb[u]
      BY <1>1, <1>8, <2>2 DEF EventsDated
    <3> QED BY <1>3, <3>1
  <2> QED BY <2>1, <2>2 DEF EventsDated
<1>13. LogsDiffer(n)
  <2>1. ASSUME NEW x, NEW k \in 1..Len(Log(n, x)), NEW l \in 1..Len(Log(n, x)),
               Log(n, x)[k].event = Log(n, x)[l].event
        PROVE  k = l
    <3>1. CASE x = s
      <4>1. k \in 1..Len(more) /\ l \in 1..Len(more) /\ more[k].event = more[l].event
        BY <2>1, <3>1 DEF more
      <4>2. CASE more[k].event = Forked(id)
        BY <1>11, <4>1, <4>2
      <4>3. CASE more[k].event # Forked(id)
        BY <1>4, <1>11, <4>1, <4>3
      <4> QED BY <4>2, <4>3
    <3>2. CASE x = id
      <4>1. k \in 1..Len(copy) /\ l \in 1..Len(copy) /\ copy[k].event = copy[l].event
        BY <2>1, <3>2 DEF copy
      <4> QED BY <1>4, <1>9, <4>1
    <3>3. CASE x # s /\ x # id
      BY <1>4, <1>10, <2>1, <3>3
    <3> QED BY <3>1, <3>2, <3>3
  <2> QED BY <2>1 DEF LogsDiffer
<1>14. PendingNew(n, kb)
  <2>1. ASSUME NEW u \in LogThreads, NEW k \in 1..Len(kb[u].todo),
               NEW l \in 1..Len(Log(n, kb[u].todo[k].session)),
               Log(n, kb[u].todo[k].session)[l].event = kb[u].todo[k].event
        PROVE  FALSE
    <3>1. kb[u] = jb[u] /\ k \in 1..Len(jb[u].todo)
      BY <1>8, <2>1
    <3> DEFINE y == jb[u].todo[k]
               x == y.session
    <3>2. \A h \in 1..Len(Log(st, x)) : Log(st, x)[h].event # y.event
      BY <1>1, <3>1 DEF PendingNew
    <3>3. Dated(y.event, ops, st.forks) /\ Known(x, st.forks)
      BY <1>1, <3>1 DEF EventsDated, SessionsKnown
    <3>4. x # id /\ y.event # Forked(id)
      BY <1>5, <1>6, <3>3
    <3>5. l \in 1..Len(Log(n, x)) /\ Log(n, x)[l].event = y.event
      BY <2>1, <3>1
    <3> HIDE DEF x, y
    <3>6. CASE x = s
      <4>1. l \in 1..Len(more) /\ more[l].event = y.event
        BY <3>5, <3>6 DEF more
      <4>2. l \in 1..Len(log) /\ log[l].event = y.event
        BY <1>11, <3>4, <4>1
      <4> QED BY <3>2, <3>6, <4>2
    <3>7. CASE x # s
      BY <1>10, <3>2, <3>4, <3>5, <3>7
    <3> QED BY <3>6, <3>7
  <2> QED BY <2>1 DEF PendingNew
<1>15. PendingDiffer(kb)
  BY <1>1, NothingLeftDiffers
<1> QED BY <1>12, <1>13, <1>14, <1>15 DEF EventsDiffer

\* No log changes.
LEMMA SameLogs ==
    ASSUME NEW st, IsStore(st), NEW n, \A s : Log(n, s) = Log(st, s)
    PROVE  NothingLost(st, n)
BY LogIs DEF NothingLost

\* An operation begins that records something.
LEMMA TakesUp ==
    ASSUME NEW st, IsStore(st), NEW jb, NEW kb, NEW pt, NEW qt, IsPast(pt), Calm(st, jb, pt),
           qt.ops = pt.ops + 1, qt.branches = pt.branches,
           NEW t \in LogThreads, ThreadMoves(jb, kb, t), kb[t].op \notin ForkOps, kb[t].branch = Root,
           \A k \in 1..Len(kb[t].todo) : /\ kb[t].todo[k].session \in {Root} \cup pt.branches
                                         /\ kb[t].todo[k].event.to = Root
                                         /\ kb[t].todo[k].event.op = pt.ops,
           \A k, l \in 1..Len(kb[t].todo) : kb[t].todo[k].event = kb[t].todo[l].event => k = l
    PROVE  Calm(st, kb, qt)
<1>1. st.forks \in Nat /\ pt.ops \in Nat /\ qt.ops \in Nat /\ pt.ops <= qt.ops
  BY DEF IsStore, IsPast
<1>2. SessionsKnown(st, jb, pt.branches) /\ EventsDiffer(st, jb, pt.ops)
  BY DEF Calm
<1>3. ASSUME NEW k \in 1..Len(kb[t].todo)
      PROVE  /\ Dated(kb[t].todo[k].event, qt.ops, st.forks)
             /\ ~Dated(kb[t].todo[k].event, pt.ops, st.forks)
             /\ Known(kb[t].todo[k].session, st.forks)
  <2>1. /\ kb[t].todo[k].event.to = Root /\ kb[t].todo[k].event.op = pt.ops
        /\ kb[t].todo[k].session \in {Root} \cup pt.branches
    OBVIOUS
  <2>2. pt.ops \in 0..(qt.ops - 1) /\ pt.ops \notin 0..(pt.ops - 1)
    BY <1>1
  <2> QED BY <1>2, <2>1, <2>2 DEF Dated, SessionsKnown, Known
<1>4. EventsDiffer(st, kb, qt.ops)
  <2>1. \A k \in 1..Len(kb[t].todo) : /\ Dated(kb[t].todo[k].event, qt.ops, st.forks)
                                      /\ Fresh(kb[t].todo[k], pt.ops, st.forks)
    BY <1>3 DEF Fresh
  <2>2. st.forks <= st.forks
    BY <1>1
  <2> QED BY <1>1, <1>2, <2>1, <2>2, TakesDiffer
<1>5. FitJob(st, st, jb[t], kb[t], pt.branches)
  <2>1. Known(kb[t].branch, st.forks) /\ kb[t].op # "fork" /\ kb[t].op \notin {"measure", "realign"}
    BY DEF Known, ForkOps
  <2> QED BY <1>3, <2>1 DEF FitJob
<1>6. GivenOut(st, jb[t], kb[t], pt.branches, qt.branches)
  BY DEF GivenOut
<1>7. NothingLost(st, st) /\ st.forks <= st.forks
  BY <1>1, SameLogs
<1> QED BY <1>4, <1>5, <1>6, <1>7, CalmKeeps

\* A thread is left with nothing to record, and no log changes.
LEMMA Settles ==
    ASSUME NEW st, IsStore(st), NEW n, IsStore(n), \A s : Log(n, s) = Log(st, s),
           DOMAIN n.sessions = DOMAIN st.sessions, n.forks = st.forks,
           NEW jb, NEW kb, NEW pt, NEW qt, IsPast(pt), Calm(st, jb, pt), qt.ops = pt.ops,
           NEW t \in LogThreads, ThreadMoves(jb, kb, t), Len(kb[t].todo) = 0,
           FitJob(st, n, jb[t], kb[t], pt.branches),
           GivenOut(n, jb[t], kb[t], pt.branches, qt.branches)
    PROVE  Calm(n, kb, qt)
<1>1. st.forks \in Nat /\ pt.ops \in Nat /\ st.forks <= n.forks /\ pt.ops <= pt.ops
  BY DEF IsStore, IsPast
<1>2. SessionsKnown(st, jb, pt.branches) /\ EventsDiffer(st, jb, pt.ops)
  BY DEF Calm
<1>3. \A k \in 1..Len(kb[t].todo) : FALSE
  OBVIOUS
<1>4. EventsDiffer(n, kb, qt.ops)
  BY <1>1, <1>2, <1>3, TakesDiffer
<1>5. NothingLost(st, n)
  BY SameLogs
<1> QED BY <1>1, <1>4, <1>5, CalmKeeps

-----------------------------------------------------------------------------
(* The steps.                                                              *)

\* A field of the plugin is set.
LEMMA PluginSets ==
    ASSUME NEW pl, IsPlugin(pl), NEW v
    PROVE  /\ IsPlugin([pl EXCEPT !.lock = v]) /\ [pl EXCEPT !.lock = v].lock = v
           /\ [pl EXCEPT !.lock = v].recorded = pl.recorded
           /\ IsPlugin([pl EXCEPT !.next = v]) /\ [pl EXCEPT !.next = v].lock = pl.lock
           /\ [pl EXCEPT !.next = v].recorded = pl.recorded
           /\ v \in Nat => /\ IsPlugin([pl EXCEPT !.recorded = v]) /\ [pl EXCEPT !.recorded = v].recorded = v
                           /\ [pl EXCEPT !.recorded = v].lock = pl.lock
<1>1. PICK a, b, c : pl = [next |-> a, recorded |-> b, lock |-> c] /\ b \in Nat
  BY DEF IsPlugin
<1>2. [pl EXCEPT !.lock = v] = [next |-> a, recorded |-> b, lock |-> v]
  BY <1>1
<1>3. [pl EXCEPT !.next = v] = [next |-> v, recorded |-> b, lock |-> c]
  BY <1>1
<1>4. [pl EXCEPT !.recorded = v] = [next |-> a, recorded |-> v, lock |-> c]
  BY <1>1
<1>5. pl.recorded = b /\ pl.lock = c
  BY <1>1
<1>6. IsPlugin([pl EXCEPT !.lock = v]) /\ [pl EXCEPT !.lock = v].lock = v /\ [pl EXCEPT !.lock = v].recorded = b
  BY <1>1, <1>2, PluginOf
<1>7. IsPlugin([pl EXCEPT !.next = v]) /\ [pl EXCEPT !.next = v].lock = c /\ [pl EXCEPT !.next = v].recorded = b
  BY <1>1, <1>3, PluginOf
<1>8. v \in Nat => /\ IsPlugin([pl EXCEPT !.recorded = v]) /\ [pl EXCEPT !.recorded = v].recorded = v
                   /\ [pl EXCEPT !.recorded = v].lock = c
  BY <1>1, <1>4, PluginOf
<1> QED BY <1>5, <1>6, <1>7, <1>8

\* The parts of the invariant.
LEMMA LogParts ==
    ASSUME LogInv
    PROVE  /\ IsStore(store) /\ IsPlugin(plugin) /\ IsJobs(job) /\ IsPast(past)
           /\ store.kind = "memory" => past.crashes = 0
           /\ \A t \in LogThreads : IsJob(job[t])
           /\ PositionsKept(store, plugin, job, past)
           /\ Acked(store, past.acked) /\ Exact(store)
           /\ past.crashes = 0 => Calm(store, job, past)
BY DEF LogInv, LogHolds, LogTyped, IsJobs

\* And what puts them together after a step.
LEMMA FromLogParts ==
    ASSUME IsStore(store'), IsPlugin(plugin'), IsJobs(job'), IsPast(past'),
           store'.kind = "memory" => past'.crashes = 0,
           PositionsKept(store', plugin', job', past'),
           Acked(store', past'.acked), Exact(store'),
           past'.crashes = 0 => Calm(store', job', past')
    PROVE  LogInv'
BY DEF LogInv, LogHolds, LogTyped

\* A log that did not change grew quietly.
LEMMA QuietItself ==
    ASSUME NEW st, IsStore(st), NEW s
    PROVE  GrowsQuietly(Log(st, s), Log(st, s)) /\ NothingLost(st, st)
BY LogIs DEF GrowsQuietly, NothingLost

\* A request begins.
LEMMA RequestBegins ==
    ASSUME LogInv, NEW t \in LogThreads, NEW history \in Histories, BeginRequest(t, history)
    PROVE  LogInv' /\ NothingLost(store, store')
<1> DEFINE todo == ToRecord(history, plugin.recorded)
           cov == Covered(history, plugin.recorded)
           w == Job("request", todo, cov, Root, Root, 0)
<1>1. /\ IsStore(store) /\ IsPlugin(plugin) /\ IsJobs(job) /\ IsPast(past)
      /\ store.kind = "memory" => past.crashes = 0
      /\ PositionsKept(store, plugin, job, past)
      /\ Acked(store, past.acked) /\ Exact(store)
      /\ past.crashes = 0 => Calm(store, job, past)
  BY LogParts
<1>2. history \in Seq(STRING) /\ plugin.recorded \in Nat
  BY <1>1, LogAssumption DEF IsPlugin
<1>3. plugin.lock = NoThread /\ store' = store
  BY DEF BeginRequest
<1>16. plugin' = [plugin EXCEPT !.lock = t]
  BY DEF BeginRequest
<1>17. past' = [past EXCEPT !.ops = @ + 1]
  BY DEF BeginRequest, Begin
<1>4. job' = [job EXCEPT ![t] = w]
  <2>1. job' = [job EXCEPT ![t] = [Idle EXCEPT !.op = "request", !.todo = todo, !.covered = cov]]
    BY DEF BeginRequest
  <2> HIDE DEF todo, cov
  <2> DEFINE j1 == [Idle EXCEPT !.op = "request"]
            j2 == [j1 EXCEPT !.todo = todo]
            j3 == [j2 EXCEPT !.covered = cov]
  <2>2. [Idle EXCEPT !.op = "request", !.todo = todo, !.covered = cov] = j3
    OBVIOUS
  <2>3. j1 = Job("request", <<>>, 0, Root, Root, 0)
    BY IdleIs DEF Job
  <2> HIDE DEF j1
  <2>4. j2 = Job("request", todo, 0, Root, Root, 0)
    BY <2>3 DEF Job
  <2> HIDE DEF j2
  <2>5. j3 = Job("request", todo, cov, Root, Root, 0)
    BY <2>4 DEF Job
  <2> HIDE DEF j3
  <2>6. [Idle EXCEPT !.op = "request", !.todo = todo, !.covered = cov] = Job("request", todo, cov, Root, Root, 0)
    BY <2>2, <2>5
  <2> QED BY <2>1, <2>6
<1>5. /\ IsList(todo)
      /\ \A k \in 1..Len(todo) : \E i \in 1..Len(history) :
            /\ todo[k] = Record(Root, Unset, Event(history[i], i - 1))
            /\ Speaks(history[i]) => i - 1 >= plugin.recorded
      /\ \A k, l \in 1..Len(todo) : todo[k].event.at = todo[l].event.at => k = l
  <2>1. RecordsOf(todo, history, plugin.recorded)
    BY <1>2, ToRecordIs
  <2> HIDE DEF todo
  <2> QED BY <2>1 DEF RecordsOf
<1>6. /\ cov \in Nat /\ cov >= plugin.recorded
      /\ \A i \in 1..Len(history) : Speaks(history[i]) => i <= cov
  BY <1>2, CoveredIs
<1> HIDE DEF todo, cov
<1>7. ASSUME NEW k \in 1..Len(todo)
      PROVE  /\ todo[k] = Record(todo[k].session, todo[k].seq, todo[k].event)
             /\ todo[k].session = Root /\ todo[k].event.to = Root /\ todo[k].event.op = past.ops
             /\ SaysAt(todo[k]) => todo[k].event.at \in plugin.recorded..(cov - 1)
  <2>1. PICK i \in 1..Len(history) : /\ todo[k] = Record(Root, Unset, Event(history[i], i - 1))
                                     /\ Speaks(history[i]) => i - 1 >= plugin.recorded
    BY <1>5
  <2>2. todo[k].session = Root /\ todo[k].seq = Unset /\ todo[k].event = Event(history[i], i - 1)
    BY <2>1 DEF Record
  <2>3. /\ todo[k].event.op = past.ops /\ todo[k].event.kind = history[i] /\ todo[k].event.at = i - 1
        /\ todo[k].event.to = Root
    BY <2>2 DEF Event
  <2>4. SaysAt(todo[k]) => i - 1 >= plugin.recorded /\ i <= cov /\ i \in Nat
    BY <1>6, <2>1, <2>3 DEF SaysAt
  <2>5. SaysAt(todo[k]) => todo[k].event.at \in plugin.recorded..(cov - 1)
    BY <1>2, <1>6, <2>3, <2>4
  <2> QED BY <2>1, <2>2, <2>3, <2>5
<1>8. /\ IsJob(w) /\ w.op = "request" /\ w.todo = todo /\ w.covered = cov /\ w.session = Root
      /\ w.branch = Root
  <2>1. \A k \in 1..Len(todo) : todo[k] = Record(todo[k].session, todo[k].seq, todo[k].event)
    BY <1>7
  <2>2. 0 \in Nat
    OBVIOUS
  <2> QED BY <1>5, <1>6, <2>1, JobOf
<1> HIDE DEF w
<1>9. IsJobs(job') /\ job'[t] = w /\ ThreadMoves(job, job', t)
  <2>1. JobMoves(job, job', t, w)
    BY <1>1, <1>4, <1>8, JobSet
  <2> QED BY <2>1 DEF JobMoves
<1>10. /\ IsPlugin(plugin') /\ plugin'.lock = t /\ plugin'.recorded = plugin.recorded
  BY <1>1, <1>16, PluginSets
<1>11. /\ IsPast(past') /\ past'.ops = past.ops + 1 /\ past'.acked = past.acked
       /\ past'.branches = past.branches /\ past'.crashes = past.crashes
       /\ past'.failures = past.failures
  BY <1>1, <1>17, Begins
<1>12. AheadOf(w, plugin.recorded)
  BY <1>5, <1>6, <1>7, <1>8 DEF AheadOf
<1>13. PositionsKept(store, plugin', job', past')
  <2>1. Clean(store, past') => Clean(store, past)
    BY <1>11 DEF Clean
  <2> QED BY <1>1, <1>3, <1>8, <1>9, <1>10, <1>12, <2>1, LockTaken
<1>14. past'.crashes = 0 => Calm(store, job', past')
  <2>1. ASSUME past.crashes = 0
        PROVE  Calm(store, job', past')
    <3>1. Calm(store, job, past)
      BY <1>1, <2>1
    <3>2. job'[t].op \notin ForkOps /\ job'[t].branch = Root
      BY <1>8, <1>9 DEF ForkOps
    <3>3. \A k \in 1..Len(job'[t].todo) : /\ job'[t].todo[k].session \in {Root} \cup past.branches
                                          /\ job'[t].todo[k].event.to = Root
                                          /\ job'[t].todo[k].event.op = past.ops
      BY <1>7, <1>8, <1>9
    <3>4. \A k, l \in 1..Len(job'[t].todo) : job'[t].todo[k].event = job'[t].todo[l].event => k = l
      BY <1>5, <1>8, <1>9
    <3> QED BY <1>1, <1>9, <1>11, <3>1, <3>2, <3>3, <3>4, TakesUp
  <2> QED BY <1>11, <2>1
<1>15. NothingLost(store, store')
  BY <1>1, <1>3, QuietItself
<1> QED BY <1>1, <1>3, <1>9, <1>10, <1>11, <1>13, <1>14, <1>15, FromLogParts

\* An operation begins that records nothing with a position.
AppendsBegin(t, w) ==
    /\ store' = store /\ plugin' = plugin /\ job' = [job EXCEPT ![t] = w]
    /\ past' = [past EXCEPT !.ops = @ + 1] /\ job[t].op = "idle"

\* A list of one or two.
LEMMA ListsOfFew ==
    ASSUME NEW r, NEW q
    PROVE  /\ IsList(<<r>>) /\ Len(<<r>>) = 1 /\ <<r>>[1] = r
           /\ IsList(<<r, q>>) /\ Len(<<r, q>>) = 2 /\ <<r, q>>[1] = r /\ <<r, q>>[2] = q
<1>1. <<r>> \in Seq({r}) /\ <<r, q>> \in Seq({r, q})
  OBVIOUS
<1>2. IsList(<<r>>) /\ IsList(<<r, q>>)
  BY <1>1, ListOf
<1> QED BY <1>2

\* Such an operation keeps the invariant.
LEMMA AppendBegins ==
    ASSUME LogInv, NEW t \in LogThreads, NEW todo, IsList(todo),
           AppendsBegin(t, Job("append", todo, 0, Root, Root, 0)),
           \A k \in 1..Len(todo) :
              /\ todo[k] = Record(todo[k].session, todo[k].seq, todo[k].event)
              /\ todo[k].session \in {Root} \cup past.branches
              /\ todo[k].event.to = Root /\ todo[k].event.op = past.ops
              /\ ~Speaks(todo[k].event.kind),
           \A k, l \in 1..Len(todo) : todo[k].event = todo[l].event => k = l
    PROVE  LogInv' /\ NothingLost(store, store')
<1> DEFINE w == Job("append", todo, 0, Root, Root, 0)
<1>1. /\ IsStore(store) /\ IsPlugin(plugin) /\ IsJobs(job) /\ IsPast(past)
      /\ store.kind = "memory" => past.crashes = 0
      /\ PositionsKept(store, plugin, job, past)
      /\ Acked(store, past.acked) /\ Exact(store)
      /\ past.crashes = 0 => Calm(store, job, past)
  BY LogParts
<1>2. store' = store /\ plugin' = plugin /\ job[t].op # "request"
  BY DEF AppendsBegin
<1>3. job' = [job EXCEPT ![t] = w]
  BY DEF AppendsBegin
<1>4. past' = [past EXCEPT !.ops = @ + 1]
  BY DEF AppendsBegin
<1>5. IsJob(w) /\ w.op = "append" /\ w.todo = todo /\ w.branch = Root
  BY JobOf
<1> HIDE DEF w
<1>6. IsJobs(job') /\ job'[t] = w /\ ThreadMoves(job, job', t)
  <2>1. JobMoves(job, job', t, w)
    BY <1>1, <1>3, <1>5, JobSet
  <2> QED BY <2>1 DEF JobMoves
<1>7. /\ IsPast(past') /\ past'.ops = past.ops + 1 /\ past'.acked = past.acked
      /\ past'.branches = past.branches /\ past'.crashes = past.crashes
      /\ past'.failures = past.failures
  BY <1>1, <1>4, Begins
<1>8. GrowsQuietly(Log(store, Root), Log(store, Root)) /\ NothingLost(store, store')
  BY <1>1, <1>2, QuietItself
<1>9. PositionsKept(store, plugin, job', past')
  <2>1. Clean(store, past') => Clean(store, past)
    BY <1>7 DEF Clean
  <2>2. job'[t].op # "request" /\ \A k \in 1..Len(job'[t].todo) : ~SaysAt(job'[t].todo[k])
    BY <1>5, <1>6 DEF SaysAt
  <2> QED BY <1>1, <1>2, <1>6, <1>8, <2>1, <2>2, QuietKeeps
<1>10. past'.crashes = 0 => Calm(store, job', past')
  <2>1. ASSUME past.crashes = 0
        PROVE  Calm(store, job', past')
    <3>1. Calm(store, job, past)
      BY <1>1, <2>1
    <3>2. job'[t].op \notin ForkOps /\ job'[t].branch = Root
      BY <1>5, <1>6 DEF ForkOps
    <3>3. \A k \in 1..Len(job'[t].todo) : /\ job'[t].todo[k].session \in {Root} \cup past.branches
                                          /\ job'[t].todo[k].event.to = Root
                                          /\ job'[t].todo[k].event.op = past.ops
      BY <1>5, <1>6
    <3>4. \A k, l \in 1..Len(job'[t].todo) : job'[t].todo[k].event = job'[t].todo[l].event => k = l
      BY <1>5, <1>6
    <3> QED BY <1>1, <1>6, <1>7, <3>1, <3>2, <3>3, <3>4, TakesUp
  <2> QED BY <1>7, <2>1
<1> QED BY <1>1, <1>2, <1>6, <1>7, <1>8, <1>9, <1>10, FromLogParts

\* The fields of a record and of an event.
LEMMA RecordIs ==
    /\ \A s, q, e : /\ Record(s, q, e).session = s /\ Record(s, q, e).seq = q /\ Record(s, q, e).event = e
                    /\ Record(s, q, e) = Record(Record(s, q, e).session, Record(s, q, e).seq, Record(s, q, e).event)
    /\ \A kind, i : /\ Event(kind, i).op = past.ops /\ Event(kind, i).kind = kind
                    /\ Event(kind, i).at = i /\ Event(kind, i).to = Root
BY DEF Record, Event

\* A chunk is recorded.
LEMMA ChunkKeeps ==
    ASSUME LogInv, NEW t \in LogThreads, Chunk(t)
    PROVE  LogInv' /\ NothingLost(store, store')
<1> DEFINE e == Event("chunk", 0)
           r == Record(Root, Unset, e)
           todo == <<r>>
<1>2. AppendsBegin(t, Job("append", todo, 0, Root, Root, 0))
  <2>1. /\ store' = store /\ plugin' = plugin
        /\ job' = [job EXCEPT ![t] = [Idle EXCEPT !.op = "append", !.todo = todo]]
        /\ past' = [past EXCEPT !.ops = @ + 1] /\ job[t].op = "idle"
    BY DEF Chunk, Begin
  <2> HIDE DEF todo
  <2> DEFINE j1 == [Idle EXCEPT !.op = "append"]
            j2 == [j1 EXCEPT !.todo = todo]
  <2>2. [Idle EXCEPT !.op = "append", !.todo = todo] = j2
    OBVIOUS
  <2>3. j1 = Job("append", <<>>, 0, Root, Root, 0)
    BY IdleIs DEF Job
  <2> HIDE DEF j1
  <2>4. j2 = Job("append", todo, 0, Root, Root, 0)
    BY <2>3 DEF Job
  <2> HIDE DEF j2
  <2>5. [Idle EXCEPT !.op = "append", !.todo = todo] = Job("append", todo, 0, Root, Root, 0)
    BY <2>2, <2>4
  <2> QED BY <2>1, <2>5 DEF AppendsBegin
<1>3. /\ r = Record(r.session, r.seq, r.event) /\ r.session \in {Root} \cup past.branches
      /\ r.event.to = Root /\ r.event.op = past.ops /\ ~Speaks(r.event.kind)
  BY RecordIs DEF Speaks
<1> HIDE DEF e, r
<1>4. IsList(todo) /\ Len(todo) = 1 /\ todo[1] = r
  BY ListsOfFew
<1> HIDE DEF todo
<1>5. \A k \in 1..Len(todo) : todo[k] = r
  BY <1>4
<1>6. \A k, l \in 1..Len(todo) : todo[k].event = todo[l].event => k = l
  BY <1>4
<1>7. \A k \in 1..Len(todo) :
         /\ todo[k] = Record(todo[k].session, todo[k].seq, todo[k].event)
         /\ todo[k].session \in {Root} \cup past.branches
         /\ todo[k].event.to = Root /\ todo[k].event.op = past.ops
         /\ ~Speaks(todo[k].event.kind)
  BY <1>3, <1>5
<1> QED BY <1>2, <1>4, <1>6, <1>7, AppendBegins

\* A caller records something.
LEMMA AppendLogKeeps ==
    ASSUME LogInv, NEW t \in LogThreads, NEW session \in past.branches, AppendLog(t, session)
    PROVE  LogInv' /\ NothingLost(store, store')
<1> DEFINE e == Event("log", 0)
           r == Record(session, Unset, e)
           todo == <<r>>
<1>2. AppendsBegin(t, Job("append", todo, 0, Root, Root, 0))
  <2>1. /\ store' = store /\ plugin' = plugin
        /\ job' = [job EXCEPT ![t] = [Idle EXCEPT !.op = "append", !.todo = todo]]
        /\ past' = [past EXCEPT !.ops = @ + 1] /\ job[t].op = "idle"
    BY DEF AppendLog, Begin
  <2> HIDE DEF todo
  <2> DEFINE j1 == [Idle EXCEPT !.op = "append"]
            j2 == [j1 EXCEPT !.todo = todo]
  <2>2. [Idle EXCEPT !.op = "append", !.todo = todo] = j2
    OBVIOUS
  <2>3. j1 = Job("append", <<>>, 0, Root, Root, 0)
    BY IdleIs DEF Job
  <2> HIDE DEF j1
  <2>4. j2 = Job("append", todo, 0, Root, Root, 0)
    BY <2>3 DEF Job
  <2> HIDE DEF j2
  <2>5. [Idle EXCEPT !.op = "append", !.todo = todo] = Job("append", todo, 0, Root, Root, 0)
    BY <2>2, <2>4
  <2> QED BY <2>1, <2>5 DEF AppendsBegin
<1>3. /\ r = Record(r.session, r.seq, r.event) /\ r.session \in {Root} \cup past.branches
      /\ r.event.to = Root /\ r.event.op = past.ops /\ ~Speaks(r.event.kind)
  BY RecordIs DEF Speaks
<1> HIDE DEF e, r
<1>4. IsList(todo) /\ Len(todo) = 1 /\ todo[1] = r
  BY ListsOfFew
<1> HIDE DEF todo
<1>5. \A k \in 1..Len(todo) : todo[k] = r
  BY <1>4
<1>6. \A k, l \in 1..Len(todo) : todo[k].event = todo[l].event => k = l
  BY <1>4
<1>7. \A k \in 1..Len(todo) :
         /\ todo[k] = Record(todo[k].session, todo[k].seq, todo[k].event)
         /\ todo[k].session \in {Root} \cup past.branches
         /\ todo[k].event.to = Root /\ todo[k].event.op = past.ops
         /\ ~Speaks(todo[k].event.kind)
  BY <1>3, <1>5
<1> QED BY <1>2, <1>4, <1>6, <1>7, AppendBegins

\* The end of a response is recorded.
LEMMA CompleteKeeps ==
    ASSUME LogInv, NEW t \in LogThreads, Complete(t)
    PROVE  LogInv' /\ NothingLost(store, store')
<1> DEFINE d == Event("latency", 0)
           e == Event("usage", 1)
           r == Record(Root, Unset, d)
           q == Record(Root, Unset, e)
           todo == <<r, q>>
<1>2. AppendsBegin(t, Job("append", todo, 0, Root, Root, 0))
  <2>1. /\ store' = store /\ plugin' = plugin
        /\ job' = [job EXCEPT ![t] = [Idle EXCEPT !.op = "append", !.todo = todo]]
        /\ past' = [past EXCEPT !.ops = @ + 1] /\ job[t].op = "idle"
    BY DEF Complete, Begin
  <2> HIDE DEF todo
  <2> DEFINE j1 == [Idle EXCEPT !.op = "append"]
            j2 == [j1 EXCEPT !.todo = todo]
  <2>2. [Idle EXCEPT !.op = "append", !.todo = todo] = j2
    OBVIOUS
  <2>3. j1 = Job("append", <<>>, 0, Root, Root, 0)
    BY IdleIs DEF Job
  <2> HIDE DEF j1
  <2>4. j2 = Job("append", todo, 0, Root, Root, 0)
    BY <2>3 DEF Job
  <2> HIDE DEF j2
  <2>5. [Idle EXCEPT !.op = "append", !.todo = todo] = Job("append", todo, 0, Root, Root, 0)
    BY <2>2, <2>4
  <2> QED BY <2>1, <2>5 DEF AppendsBegin
<1>3. /\ r = Record(r.session, r.seq, r.event) /\ r.session \in {Root} \cup past.branches
      /\ r.event.to = Root /\ r.event.op = past.ops /\ ~Speaks(r.event.kind)
      /\ q = Record(q.session, q.seq, q.event) /\ q.session \in {Root} \cup past.branches
      /\ q.event.to = Root /\ q.event.op = past.ops /\ ~Speaks(q.event.kind)
      /\ r.event # q.event
  <2>1. d # e
    <3>1. d.at = 0 /\ e.at = 1
      BY RecordIs
    <3> QED BY <3>1
  <2>2. r.event = d /\ q.event = e
    BY RecordIs
  <2>3. r.event # q.event
    BY <2>1, <2>2
  <2> QED BY <2>3, RecordIs DEF Speaks
<1> HIDE DEF d, e, r, q
<1>4. IsList(todo) /\ Len(todo) = 2 /\ todo[1] = r /\ todo[2] = q
  BY ListsOfFew
<1> HIDE DEF todo
<1>5. \A k \in 1..Len(todo) : (k = 1 /\ todo[k] = r) \/ (k = 2 /\ todo[k] = q)
  BY <1>4
<1>6. \A k, l \in 1..Len(todo) : todo[k].event = todo[l].event => k = l
  BY <1>3, <1>5
<1>7. \A k \in 1..Len(todo) :
         /\ todo[k] = Record(todo[k].session, todo[k].seq, todo[k].event)
         /\ todo[k].session \in {Root} \cup past.branches
         /\ todo[k].event.to = Root /\ todo[k].event.op = past.ops
         /\ ~Speaks(todo[k].event.kind)
  BY <1>3, <1>5
<1> QED BY <1>2, <1>4, <1>6, <1>7, AppendBegins

\* A thread with nothing to do, in no fork, fits in.
LEMMA IdleFits ==
    ASSUME NEW st, NEW n, NEW j, NEW branches
    PROVE  FitJob(st, n, j, Idle, branches)
<1>1. Idle.op = "idle" /\ Idle.branch = Root /\ Len(Idle.todo) = 0
  BY IdleIs
<1>2. Known(Root, n.forks)
  BY DEF Known
<1> HIDE DEF Idle
<1> QED BY <1>1, <1>2 DEF FitJob, ForkOps

\* A thread goes on with what it does.
LEMMA StaysFit ==
    ASSUME NEW st, IsStore(st), NEW n, IsStore(n), st.forks <= n.forks,
           NEW jb, NEW pt, Calm(st, jb, pt), NEW t \in LogThreads, NEW w,
           w.branch = jb[t].branch, w.session = jb[t].session,
           w.op \in ForkOps <=> jb[t].op \in ForkOps,
           \A k \in 1..Len(w.todo) : \E l \in 1..Len(jb[t].todo) :
              w.todo[k].session = jb[t].todo[l].session,
           w.op = "fork" => Copying(n, w),
           w.op \in {"measure", "realign"} => Carries(n, w.branch) /\ w.todo = <<>>
    PROVE  FitJob(st, n, jb[t], w, pt.branches)
<1>1. /\ SessionsKnown(st, jb, pt.branches) /\ WritesOwn(jb, pt.branches) /\ ForksApart(jb, pt.branches)
  BY DEF Calm
<1>2. \A s : Known(s, st.forks) => Known(s, n.forks)
  BY DatedStays DEF IsStore
<1>3. Known(w.branch, n.forks)
  BY <1>1, <1>2 DEF SessionsKnown
<1>4. ASSUME NEW k \in 1..Len(w.todo)
      PROVE  /\ Known(w.todo[k].session, n.forks)
             /\ w.todo[k].session \in {Root} \cup pt.branches \cup {w.branch}
  <2>1. PICK l \in 1..Len(jb[t].todo) : w.todo[k].session = jb[t].todo[l].session
    OBVIOUS
  <2>2. Known(jb[t].todo[l].session, st.forks)
    BY <1>1 DEF SessionsKnown
  <2>3. jb[t].todo[l].session \in {Root} \cup pt.branches \cup {jb[t].branch}
    BY <1>1 DEF WritesOwn
  <2> QED BY <1>2, <2>1, <2>2, <2>3
<1>5. /\ w.op \notin ForkOps => w.branch = Root
      /\ w.op \in ForkOps => /\ w.session \in {Root} \cup pt.branches /\ w.session = w.branch[1]
                             /\ jb[t].op \in ForkOps /\ w.branch = jb[t].branch
  BY <1>1 DEF ForksApart
<1> QED BY <1>3, <1>4, <1>5 DEF FitJob

\* A record gets its number.
LEMMA NumberKeeps ==
    ASSUME LogInv, NEW t \in LogThreads, Number(t)
    PROVE  LogInv' /\ NothingLost(store, store')
<1> DEFINE j == job[t]
           T == j.todo
           r == T[1]
           s == r.session
           n == IF s \in DOMAIN plugin.next THEN plugin.next[s] ELSE 0
           rr == [r EXCEPT !.seq = n]
           TT == [T EXCEPT ![1] = rr]
           w == [j EXCEPT !.todo = TT]
<1>1. /\ IsStore(store) /\ IsPlugin(plugin) /\ IsJobs(job) /\ IsPast(past)
      /\ store.kind = "memory" => past.crashes = 0
      /\ IsJob(j)
      /\ PositionsKept(store, plugin, job, past)
      /\ Acked(store, past.acked) /\ Exact(store)
      /\ past.crashes = 0 => Calm(store, job, past)
  BY LogParts
<1>2. T # <<>> /\ store' = store /\ past' = past
  BY DEF Number
<1>3. job' = [job EXCEPT ![t] = w]
  BY DEF Number
<1>4. plugin' = [plugin EXCEPT !.next = Put(@, s, n + 1)]
  BY DEF Number
<1>5. /\ IsList(T) /\ 1 \in 1..Len(T) /\ Len(T) \in Nat /\ r = Record(r.session, r.seq, r.event)
      /\ \A k \in 1..Len(T) : T[k] = Record(T[k].session, T[k].seq, T[k].event)
      /\ DOMAIN T = 1..Len(T) /\ T = [k \in 1..Len(T) |-> T[k]]
      /\ j = Job(j.op, T, j.covered, j.session, j.branch, j.len) /\ j.covered \in Nat
  <2>1. IsList(T) /\ \A k \in 1..Len(T) : T[k] = Record(T[k].session, T[k].seq, T[k].event)
    BY <1>1 DEF IsJob
  <2>2. 1 \in 1..Len(T) /\ Len(T) \in Nat /\ DOMAIN T = 1..Len(T) /\ T = [k \in 1..Len(T) |-> T[k]]
    BY <1>2, <2>1, ListTail, ListHas
  <2>3. j = Job(j.op, T, j.covered, j.session, j.branch, j.len) /\ j.covered \in Nat
    BY <1>1 DEF IsJob
  <2> QED BY <2>1, <2>2, <2>3
<1> HIDE DEF n
<1>6. rr = Record(r.session, n, r.event)
  <2>1. PICK a, b, c : r = Record(a, b, c) /\ a = r.session /\ c = r.event
    BY <1>5
  <2> HIDE DEF r
  <2> QED BY <2>1 DEF Record
<1>7. rr.session = r.session /\ rr.event = r.event /\ rr = Record(rr.session, rr.seq, rr.event)
  BY <1>6, RecordIs
<1> HIDE DEF rr
<1>8. DOMAIN TT = 1..Len(T) /\ TT[1] = rr /\ \A k \in 1..Len(T) : k # 1 => TT[k] = T[k]
  BY <1>5
<1>9. IsList(TT) /\ Len(TT) = Len(T)
  <2>1. TT = [k \in 1..Len(T) |-> TT[k]]
    BY <1>5
  <2> HIDE DEF TT
  <2> QED BY <1>5, <1>8, <2>1, ListIs
<1> HIDE DEF TT
<1>10. \A k \in 1..Len(T) : /\ TT[k].session = T[k].session /\ TT[k].event = T[k].event
                            /\ TT[k] = Record(TT[k].session, TT[k].seq, TT[k].event)
  BY <1>5, <1>7, <1>8
<1>11. w = Job(j.op, TT, j.covered, j.session, j.branch, j.len)
  <2>1. PICK a, b, c, d, e, f : /\ j = Job(a, b, c, d, e, f)
                                /\ a = j.op /\ c = j.covered /\ d = j.session /\ e = j.branch /\ f = j.len
    BY <1>5
  <2>2. w = [j EXCEPT !.todo = TT]
    OBVIOUS
  <2> HIDE DEF w, j
  <2>3. w = Job(a, TT, c, d, e, f)
    BY <2>1, <2>2 DEF Job
  <2> QED BY <2>1, <2>3
<1>12. IsJob(w) /\ w.op = j.op /\ w.todo = TT /\ w.covered = j.covered /\ w.session = j.session
       /\ w.branch = j.branch
  <2> HIDE DEF w, T, j
  <2> QED BY <1>5, <1>9, <1>10, <1>11, JobOf
<1> HIDE DEF w
<1>13. IsJobs(job') /\ job'[t] = w /\ ThreadMoves(job, job', t)
  <2>1. JobMoves(job, job', t, w)
    BY <1>1, <1>3, <1>12, JobSet
  <2> QED BY <2>1 DEF JobMoves
<1>14. IsPlugin(plugin') /\ plugin'.lock = plugin.lock /\ plugin'.recorded = plugin.recorded
  <2> DEFINE v == Put(plugin.next, s, n + 1)
  <2>1. plugin' = [plugin EXCEPT !.next = v]
    BY <1>4
  <2> HIDE DEF v
  <2> QED BY <1>1, <2>1, PluginSets
<1>15. \A u \in LogThreads : /\ job'[u].op = job[u].op /\ job'[u].covered = job[u].covered
                             /\ Len(job'[u].todo) = Len(job[u].todo)
                             /\ \A k \in 1..Len(job[u].todo) :
                                   /\ job'[u].todo[k].session = job[u].todo[k].session
                                   /\ job'[u].todo[k].event = job[u].todo[k].event
  <2> TAKE u \in LogThreads
  <2>1. CASE u = t
    BY <1>9, <1>10, <1>12, <1>13, <2>1
  <2>2. CASE u # t
    BY <1>13, <2>2 DEF ThreadMoves
  <2> QED BY <2>1, <2>2
<1>16. PositionsKept(store, plugin', job', past)
  BY <1>1, <1>14, <1>15, SamePositions
<1>17. ASSUME past.crashes = 0
       PROVE  Calm(store, job', past)
  <2>1. Calm(store, job, past) /\ EventsDiffer(store, job, past.ops) /\ ForksKept(store, job, past.branches)
    BY <1>1, <1>17 DEF Calm
  <2>2. EventsDiffer(store, job', past.ops)
    BY <1>15, <2>1, SameDiffer
  <2>3. w.op = "fork" => Copying(store, w)
    <3>1. ASSUME j.op = "fork"
          PROVE  Copying(store, w)
      <4>1. Copying(store, j)
        BY <2>1, <3>1 DEF ForksKept
      <4> DEFINE log == Log(store, j.session)
                 p == PointAt(log, j.branch[2])
                 k == Len(Log(store, j.branch))
      <4>2. p \in 1..Len(log) /\ k \in Nat /\ p \in Nat /\ k <= p /\ Len(T) = p - k + 1
        <5>1. IsList(log) /\ Len(log) \in Nat /\ k \in Nat
          BY <1>1, LogIs
        <5>2. HasPoint(log, j.branch[2]) /\ k <= p /\ Len(T) = p - k + 1
          BY <4>1 DEF Copying
        <5>3. p \in 1..Len(log)
          <6> HIDE DEF log
          <6> QED BY <5>1, <5>2, PointIs
        <5> QED BY <5>1, <5>2, <5>3
      <4> HIDE DEF p, k
      <4>3. p - k + 1 \in 1..Len(T) /\ \A i \in 1..(p - k) : i \in 1..Len(T)
        BY <4>2
      <4>4. /\ HasPoint(log, j.branch[2])
            /\ Copied(log, Log(store, j.branch), k)
            /\ \A i \in 1..(p - k) : T[i].session = j.branch /\ T[i].event = log[k + i].event
            /\ T[p - k + 1].session = j.session
            /\ T[p - k + 1].event = Forked(j.branch)
        BY <4>1 DEF Copying, p, k
      <4>5. /\ \A i \in 1..(p - k) : TT[i].session = j.branch /\ TT[i].event = log[k + i].event
            /\ TT[p - k + 1].session = j.session
            /\ TT[p - k + 1].event = Forked(j.branch)
            /\ Len(TT) = p - k + 1
        BY <1>9, <1>10, <4>2, <4>3, <4>4
      <4> QED BY <1>12, <4>2, <4>4, <4>5 DEF Copying, p, k
    <3> QED BY <1>12, <3>1
  <2>4. w.op \notin {"measure", "realign"}
    BY <1>2, <1>12, <2>1 DEF ForksKept
  <2>5. FitJob(store, store, job[t], w, past.branches)
    <3>1. \A k \in 1..Len(w.todo) : \E l \in 1..Len(job[t].todo) :
             w.todo[k].session = job[t].todo[l].session
      BY <1>9, <1>10, <1>12
    <3>2. store.forks <= store.forks
      BY <1>1 DEF IsStore
    <3>3. w.branch = job[t].branch /\ w.session = job[t].session /\ (w.op \in ForkOps <=> job[t].op \in ForkOps)
      BY <1>12
    <3> QED BY <1>1, <2>1, <2>3, <2>4, <3>1, <3>2, <3>3, StaysFit
  <2>6. GivenOut(store, job[t], job'[t], past.branches, past.branches)
    BY DEF GivenOut
  <2>7. NothingLost(store, store) /\ store.forks <= store.forks
    BY <1>1, QuietItself DEF IsStore
  <2> QED BY <1>1, <1>13, <2>1, <2>2, <2>5, <2>6, <2>7, CalmKeeps
<1>18. NothingLost(store, store')
  BY <1>1, <1>2, QuietItself
<1> QED BY <1>1, <1>2, <1>13, <1>14, <1>16, <1>17, <1>18, FromLogParts

\* The job with nothing left to record.
LEMMA NoneLeft ==
    ASSUME NEW j, IsJob(j), IsList(Tail(j.todo)), Len(Tail(j.todo)) = 0
    PROVE  LET w == Job(j.op, Tail(j.todo), j.covered, j.session, j.branch, j.len) IN
           IsJob(w) /\ w.op = j.op /\ w.todo = Tail(j.todo) /\ w.covered = j.covered
<1>1. PICK a, L, c, d, e, f, w :
         /\ a = j.op /\ L = Tail(j.todo) /\ c = j.covered /\ d = j.session /\ e = j.branch
         /\ f = j.len /\ w = Job(a, L, c, d, e, f)
  OBVIOUS
<1>2. c \in Nat /\ IsList(L) /\ Len(L) = 0
  BY <1>1 DEF IsJob
<1>3. \A k \in 1..Len(L) : L[k] = Record(L[k].session, L[k].seq, L[k].event)
  BY <1>2
<1>4. w = Job(a, L, c, d, e, f)
  BY <1>1
<1>5. IsJob(w) /\ w.op = a /\ w.todo = L /\ w.covered = c
  BY <1>2, <1>3, <1>4, JobOf
<1> QED BY <1>1, <1>5

\* A stored record leaves the positions behind the count.
LEMMA StoredPositions ==
    ASSUME NEW st, IsStore(st), NEW n, NEW pl, IsPlugin(pl), NEW q, NEW jb, NEW kb, IsJobs(jb),
           NEW pt, NEW qt, NEW t \in LogThreads, PositionsKept(st, pl, jb, pt), ThreadMoves(jb, kb, t),
           jb[t].todo # <<>>, kb[t].todo = Tail(jb[t].todo),
           OneGrows(st, n, jb[t].todo[1].session, jb[t].todo[1]), Clean(n, qt) => Clean(st, pt),
           jb[t].op # "request" => kb[t].op # "request" /\ q = pl,
           jb[t].op = "request" /\ kb[t].todo # <<>> =>
              kb[t].op = "request" /\ kb[t].covered = jb[t].covered /\ q = pl,
           jb[t].op = "request" /\ kb[t].todo = <<>> =>
              kb[t].op # "request" /\ q.recorded = jb[t].covered
              /\ (pl.lock = t => q.lock = NoThread)
    PROVE  PositionsKept(n, q, kb, qt)
<1> DEFINE j == jb[t]
           T == j.todo
           r == T[1]
<1>1. IsJob(j) /\ IsList(T) /\ j.covered \in Nat
  BY DEF IsJobs, IsJob
<1>2. /\ 1 \in 1..Len(T) /\ Len(T) \in Nat \ {0} /\ Len(kb[t].todo) = Len(T) - 1
      /\ \A k \in 1..Len(kb[t].todo) : kb[t].todo[k] = T[k + 1] /\ k + 1 \in 1..Len(T)
  BY <1>1, ListTail
<1>3. LockHeld(pl, jb)
  BY DEF PositionsKept
<1>4. CASE j.op # "request"
  <2>1. \A k \in 1..Len(T) : ~SaysAt(T[k])
    BY <1>3, <1>4 DEF LockHeld
  <2>2. \A k \in 1..Len(kb[t].todo) : ~SaysAt(kb[t].todo[k])
    BY <1>2, <2>1
  <2>3. GrowsQuietly(Log(st, Root), Log(n, Root))
    <3>1. NothingLost(st, n)
      BY GrowsLosesNothing
    <3>2. CASE r.session = Root
      <4>1. ~Speaks(r.event.kind)
        BY <1>2, <2>1, <3>2 DEF SaysAt
      <4>2. /\ Len(Log(n, Root)) = Len(Log(st, Root)) + 1 /\ Log(n, Root)[Len(Log(st, Root)) + 1] = r
            /\ \A i \in 1..Len(Log(n, Root)) : i = Len(Log(st, Root)) + 1 \/ i \in 1..Len(Log(st, Root))
        BY <3>2, GrowsLosesNothing
      <4> QED BY <3>1, <4>1, <4>2 DEF GrowsQuietly, NothingLost
    <3>3. CASE r.session # Root
      <4>1. Log(n, Root) = Log(st, Root)
        BY <3>3 DEF OneGrows
      <4> QED BY <4>1, QuietItself
    <3> QED BY <3>2, <3>3
  <2> QED BY <1>4, <2>2, <2>3, QuietKeeps
<1>5. CASE j.op = "request" /\ kb[t].todo # <<>>
  BY <1>1, <1>5, RequestStores
<1>6. CASE j.op = "request" /\ kb[t].todo = <<>>
  <2> DEFINE w == Job(j.op, Tail(T), j.covered, j.session, j.branch, j.len)
             ib == [jb EXCEPT ![t] = w]
  <2>1. IsList(Tail(T)) /\ Len(Tail(T)) = 0 /\ Tail(T) = kb[t].todo
    BY <1>1, <1>6, EmptyList, ListTail
  <2>2. IsJob(w) /\ w.op = "request" /\ w.todo = Tail(T) /\ w.covered = j.covered
    <3>1. IsJob(w) /\ w.op = j.op /\ w.todo = Tail(T) /\ w.covered = j.covered
      BY <1>1, <2>1, NoneLeft
    <3> QED BY <1>6, <3>1
  <2> HIDE DEF w
  <2>3. JobMoves(jb, ib, t, w)
    BY <2>2, JobSet
  <2> HIDE DEF ib
  <2>4. ib[t] = w /\ ThreadMoves(jb, ib, t)
    BY <2>3 DEF JobMoves
  <2>5. PositionsKept(n, pl, ib, qt)
    BY <1>1, <1>6, <2>2, <2>4, RequestStores
  <2>6. ThreadMoves(ib, kb, t)
    BY <2>4 DEF ThreadMoves
  <2>7. q.lock = NoThread /\ q.recorded = ib[t].covered
    BY <1>3, <1>6, <2>2, <2>4 DEF LockHeld
  <2>8. Len(ib[t].todo) = 0 /\ Len(kb[t].todo) = 0 /\ ib[t].op = "request" /\ kb[t].op # "request"
        /\ ib[t].covered \in Nat
    BY <1>1, <1>6, <2>1, <2>2, <2>4
  <2> QED BY <2>5, <2>6, <2>7, <2>8, LockGoes
<1> QED BY <1>4, <1>5, <1>6

\* A stored record leaves the events and the forks apart.
LEMMA StoredCalm ==
    ASSUME NEW st, IsStore(st), NEW n, IsStore(n), n.forks = st.forks, NEW jb, NEW kb, IsJobs(jb),
           NEW pt, IsPast(pt), NEW qt, qt.ops = pt.ops, qt.branches = pt.branches,
           NEW t \in LogThreads, Calm(st, jb, pt), ThreadMoves(jb, kb, t),
           jb[t].todo # <<>>, kb[t].todo = Tail(jb[t].todo),
           DOMAIN n.sessions = DOMAIN st.sessions \cup {jb[t].todo[1].session},
           OneGrows(st, n, jb[t].todo[1].session, jb[t].todo[1]),
           \/ kb[t].todo # <<>> /\ kb[t].op = jb[t].op
              /\ kb[t].session = jb[t].session /\ kb[t].branch = jb[t].branch
           \/ kb[t].todo = <<>> /\ jb[t].op = "fork" /\ kb[t].op = "measure"
              /\ kb[t].session = jb[t].session /\ kb[t].branch = jb[t].branch
           \/ kb[t].todo = <<>> /\ jb[t].op # "fork" /\ kb[t] = Idle
    PROVE  Calm(n, kb, qt)
<1> DEFINE j == jb[t]
           T == j.todo
           r == T[1]
           w == kb[t]
<1>1. IsJob(j) /\ IsList(T) /\ pt.ops \in Nat /\ st.forks <= n.forks
  <2>1. IsJob(j)
    BY DEF IsJobs
  <2>2. IsList(T)
    BY <2>1 DEF IsJob
  <2>3. pt.ops \in Nat
    BY DEF IsPast
  <2>4. st.forks \in Nat
    BY DEF IsStore
  <2> QED BY <2>1, <2>2, <2>3, <2>4
<1>2. /\ 1 \in 1..Len(T) /\ Len(T) \in Nat \ {0} /\ Len(w.todo) = Len(T) - 1
      /\ \A k \in 1..Len(w.todo) : w.todo[k] = T[k + 1] /\ k + 1 \in 1..Len(T)
  BY <1>1, ListTail
<1>3. /\ SessionsKnown(st, jb, pt.branches) /\ EventsDiffer(st, jb, pt.ops) /\ WritesOwn(jb, pt.branches)
      /\ ForksApart(jb, pt.branches) /\ ForksKept(st, jb, pt.branches)
  BY DEF Calm
<1>4. EventsDiffer(n, kb, qt.ops)
  BY <1>1, <1>3, StoresDiffer
<1>5. NothingLost(st, n)
  BY GrowsLosesNothing
<1>6. r.session \in {Root} \cup pt.branches \cup {j.branch}
  BY <1>2, <1>3 DEF WritesOwn
<1>7. \A u \in LogThreads \ {t} : jb[u].op = "fork" => Log(n, jb[u].branch) = Log(st, jb[u].branch)
  <2> SUFFICES ASSUME NEW u \in LogThreads \ {t}, jb[u].op = "fork"
               PROVE  r.session # jb[u].branch
    BY DEF OneGrows
  <2>1. jb[u].op \in ForkOps /\ jb[u].branch \notin pt.branches /\ jb[u].branch # Root
    BY <1>3 DEF ForksApart, ForkOps
  <2>2. j.branch # jb[u].branch
    <3>1. CASE j.op \in ForkOps
      BY <1>3, <2>1, <3>1 DEF ForksApart
    <3>2. CASE j.op \notin ForkOps
      BY <1>3, <2>1, <3>2 DEF ForksApart
    <3> QED BY <3>1, <3>2
  <2> QED BY <1>6, <2>1, <2>2
<1>8. \A s \in DOMAIN n.sessions : s \in DOMAIN st.sessions \/ Known(s, n.forks)
  <2>1. Known(r.session, n.forks)
    BY <1>2, <1>3 DEF SessionsKnown
  <2> QED BY <2>1
<1>9. j.op = "fork" => /\ Copying(st, j) /\ j.session # j.branch /\ j.session = j.branch[1]
  <2>1. "fork" \in ForkOps
    BY DEF ForkOps
  <2>2. j.op = "fork" => /\ j.branch \notin pt.branches /\ j.branch # Root
                         /\ j.session \in {Root} \cup pt.branches /\ j.session = j.branch[1]
    BY <1>3, <2>1 DEF ForksApart
  <2>3. j.op = "fork" => Copying(st, j)
    BY <1>3 DEF ForksKept
  <2> QED BY <2>2, <2>3
<1>10. /\ j.op = "fork" /\ w.todo # <<>> /\ w.session = j.session /\ w.branch = j.branch => Copying(n, w)
       /\ j.op = "fork" /\ w.todo = <<>> => Carries(n, j.branch)
  <2>1. ASSUME j.op = "fork"
        PROVE  /\ Tail(T) # <<>> => \A v : v.todo = Tail(T) /\ v.session = j.session /\ v.branch = j.branch
                                           => Copying(n, v)
               /\ Tail(T) = <<>> => Carries(n, j.branch)
    BY <1>1, <1>9, <2>1, ForkStores
  <2> QED BY <2>1
<1>11. j.op \notin {"measure", "realign"}
  BY <1>3 DEF ForksKept
<1>12. FitJob(st, n, j, w, pt.branches)
  <2>1. \A k \in 1..Len(w.todo) : \E l \in 1..Len(T) : w.todo[k].session = T[l].session
    BY <1>2
  <2>2. CASE w.todo # <<>> /\ w.op = j.op /\ w.session = j.session /\ w.branch = j.branch
    BY <1>1, <1>10, <1>11, <2>1, <2>2, StaysFit
  <2>3. CASE w.todo = <<>> /\ j.op = "fork" /\ w.op = "measure" /\ w.session = j.session /\ w.branch = j.branch
    <3>1. w.op \in ForkOps /\ j.op \in ForkOps /\ w.op # "fork"
      BY <2>3 DEF ForkOps
    <3> QED BY <1>1, <1>10, <2>1, <2>3, <3>1, StaysFit
  <2>4. CASE w = Idle
    BY <2>4, IdleFits
  <2> QED BY <2>2, <2>3, <2>4
<1>13. GivenOut(n, j, w, pt.branches, qt.branches)
  BY DEF GivenOut
<1> QED BY <1>1, <1>4, <1>5, <1>7, <1>8, <1>12, <1>13, CalmKeeps

\* The next job of a thread once a record was stored.
SettledJob(j, w) ==
    /\ IsJob(w) /\ w.todo = Tail(j.todo)
    /\ \/ w.todo # <<>> /\ w.op = j.op /\ w.covered = j.covered
          /\ w.session = j.session /\ w.branch = j.branch
       \/ w.todo = <<>> /\ j.op = "fork" /\ w.op = "measure"
          /\ w.session = j.session /\ w.branch = j.branch
       \/ w.todo = <<>> /\ j.op # "fork" /\ w = Idle

\* A thread's job, once a record of it was stored: the rest of it, the measure of a fork, or none.
LEMMA SettledIs ==
    ASSUME NEW t \in LogThreads, IsJob(job[t]), job[t].todo # <<>>
    PROVE  SettledJob(job[t], Settled(t, Tail(job[t].todo)))
<1>1. PICK j, a, T, c, d, e, f, L :
         /\ j = job[t] /\ a = j.op /\ T = j.todo /\ c = j.covered /\ d = j.session /\ e = j.branch
         /\ f = j.len /\ L = Tail(T)
  OBVIOUS
<1>2. /\ j = Job(a, T, c, d, e, f) /\ IsList(T) /\ T # <<>> /\ c \in Nat
      /\ \A k \in 1..Len(T) : T[k] = Record(T[k].session, T[k].seq, T[k].event)
  BY <1>1 DEF IsJob
<1>3. IsList(L) /\ \A k \in 1..Len(L) : L[k] = Record(L[k].session, L[k].seq, L[k].event)
  <2>1. L = Tail(T) /\ IsList(T) /\ T # <<>>
    BY <1>1, <1>2
  <2>2. /\ IsList(Tail(T))
        /\ \A k \in 1..Len(Tail(T)) : Tail(T)[k] = T[k + 1] /\ k + 1 \in 1..Len(T)
    BY <2>1, ListTail
  <2>3. IsList(L) /\ \A k \in 1..Len(L) : L[k] = T[k + 1] /\ k + 1 \in 1..Len(T)
    BY <2>1, <2>2
  <2> QED BY <1>2, <2>3
<1>4. Settled(t, L) = IF L # <<>> THEN [j EXCEPT !.todo = L]
                      ELSE IF a = "fork" THEN [j EXCEPT !.op = "measure", !.todo = <<>>]
                      ELSE Idle
  BY <1>1 DEF Settled
<1>5. CASE L # <<>>
  <2>1. Settled(t, L) = Job(a, L, c, d, e, f)
    <3>1. [j EXCEPT !.todo = L] = Job(a, L, c, d, e, f)
      BY <1>2 DEF Job
    <3> QED BY <1>4, <1>5, <3>1
  <2>2. PICK w : w = Settled(t, L)
    OBVIOUS
  <2>3. /\ IsJob(w) /\ w.op = a /\ w.todo = L /\ w.covered = c /\ w.session = d /\ w.branch = e
    BY <1>2, <1>3, <2>1, <2>2, JobOf
  <2>4. SettledJob(j, w)
    BY <1>1, <1>5, <2>3 DEF SettledJob
  <2> QED BY <1>1, <2>2, <2>4
<1>6. CASE L = <<>> /\ a = "fork"
  <2> DEFINE j1 == [j EXCEPT !.op = "measure"]
             j2 == [j1 EXCEPT !.todo = <<>>]
  <2>1. [j EXCEPT !.op = "measure", !.todo = <<>>] = j2
    OBVIOUS
  <2>2. j1 = Job("measure", T, c, d, e, f)
    BY <1>2 DEF Job
  <2> HIDE DEF j1
  <2>3. j2 = Job("measure", <<>>, c, d, e, f)
    BY <2>2 DEF Job
  <2>4. Settled(t, L) = Job("measure", L, c, d, e, f)
    BY <1>4, <1>6, <2>1, <2>3
  <2>5. PICK w : w = Settled(t, L)
    OBVIOUS
  <2>6. /\ IsJob(w) /\ w.op = "measure" /\ w.todo = L /\ w.covered = c /\ w.session = d /\ w.branch = e
    BY <1>2, <1>3, <2>4, <2>5, JobOf
  <2>7. SettledJob(j, w)
    BY <1>1, <1>6, <2>6 DEF SettledJob
  <2> QED BY <1>1, <2>5, <2>7
<1>7. CASE L = <<>> /\ a # "fork"
  <2>1. Settled(t, L) = Idle
    BY <1>4, <1>7
  <2>2. SettledJob(j, Idle)
    BY <1>1, <1>7, IdleIs DEF SettledJob
  <2> QED BY <1>1, <2>1, <2>2
<1> QED BY <1>5, <1>6, <1>7

\* What an acknowledgement changes.
LEMMA PastAcks ==
    ASSUME NEW pt, IsPast(pt), NEW a
    PROVE  LET qt == [pt EXCEPT !.acked = a] IN
           /\ IsPast(qt) /\ qt.acked = a /\ qt.ops = pt.ops /\ qt.branches = pt.branches
           /\ qt.crashes = pt.crashes /\ qt.failures = pt.failures
<1>1. PICK b, c, d, e, f, g : /\ pt = Past(b, c, d, e, f, g)
                              /\ c \in Nat /\ f \in Nat /\ g \in Nat
                              /\ c = pt.ops /\ d = pt.branches /\ f = pt.crashes /\ g = pt.failures
  BY DEF IsPast
<1>2. PICK qt : qt = [pt EXCEPT !.acked = a]
  OBVIOUS
<1>3. qt = Past(a, c, d, e, f, g)
  BY <1>1, <1>2 DEF Past
<1>4. /\ IsPast(qt) /\ qt.acked = a /\ qt.ops = c /\ qt.branches = d /\ qt.crashes = f /\ qt.failures = g
  <2>1. c \in Nat /\ f \in Nat /\ g \in Nat
    BY <1>1
  <2> QED BY <1>3, <2>1, PastOf
<1> QED BY <1>1, <1>2, <1>4

\* AppendStored.
LEMMA AppendStoredKeeps ==
    ASSUME LogInv, NEW t \in LogThreads, AppendStored(t)
    PROVE  LogInv' /\ NothingLost(store, store')
<1>1. /\ IsStore(store) /\ IsPlugin(plugin) /\ IsJobs(job) /\ IsPast(past)
      /\ store.kind = "memory" => past.crashes = 0
      /\ IsJob(job[t])
      /\ PositionsKept(store, plugin, job, past)
      /\ Acked(store, past.acked) /\ Exact(store)
      /\ past.crashes = 0 => Calm(store, job, past)
  BY LogParts
<1>2. PICK j, T, r, L, w, s, e :
         /\ j = job[t] /\ T = j.todo /\ r = T[1] /\ L = Tail(T) /\ w = Settled(t, L)
         /\ s = r.session /\ e = r.event
  OBVIOUS
<1>3. /\ T # <<>> /\ ~AtCap /\ store' = Stored(store, r) /\ job' = [job EXCEPT ![t] = w]
      /\ past' = [past EXCEPT !.acked = @ \cup {<<s, e>>}]
      /\ plugin' = IF L = <<>> /\ j.op = "request"
                   THEN [Unlocked(t) EXCEPT !.recorded = j.covered] ELSE plugin
  BY <1>2 DEF AppendStored
<1>4. SettledJob(j, w)
  BY <1>1, <1>2, <1>3, SettledIs
<1>5. IsJob(w) /\ w.todo = L /\ j.covered \in Nat
  BY <1>1, <1>2, <1>4 DEF SettledJob, IsJob
<1>6. IsJobs(job') /\ job'[t] = w /\ ThreadMoves(job, job', t)
  <2>1. JobMoves(job, job', t, w)
    BY <1>1, <1>3, <1>5, JobSet
  <2> QED BY <2>1 DEF JobMoves
<1>7. /\ IsPast(past') /\ past'.acked = past.acked \cup {<<s, e>>} /\ past'.ops = past.ops
      /\ past'.branches = past.branches /\ past'.crashes = past.crashes /\ past'.failures = past.failures
  <2> DEFINE a == past.acked \cup {<<s, e>>}
  <2>1. past' = [past EXCEPT !.acked = a]
    BY <1>3
  <2> HIDE DEF a
  <2>2. /\ IsPast(past') /\ past'.acked = a /\ past'.ops = past.ops
        /\ past'.branches = past.branches /\ past'.crashes = past.crashes /\ past'.failures = past.failures
    BY <1>1, <2>1, PastAcks
  <2> QED BY <2>2 DEF a
<1>8. r = Record(r.session, r.seq, r.event)
  <2>1. IsList(T) /\ \A k \in 1..Len(T) : T[k] = Record(T[k].session, T[k].seq, T[k].event)
    BY <1>1, <1>2 DEF IsJob
  <2>2. 1 \in 1..Len(T)
    BY <1>3, <2>1, ListTail
  <2> QED BY <1>2, <2>1, <2>2
<1>9. /\ IsStore(store') /\ store'.kind = store.kind /\ store'.total = store.total + 1
      /\ store'.forks = store.forks /\ DOMAIN store'.sessions = DOMAIN store.sessions \cup {s}
      /\ OneGrows(store, store', s, r)
  BY <1>1, <1>2, <1>3, <1>8, StoredIs
<1>10. NothingLost(store, store')
  BY <1>1, <1>9, GrowsLosesNothing
<1>11. Acked(store', past'.acked)
  <2>1. Acked(store', past.acked \cup {<<s, r.event>>})
    BY <1>1, <1>9, AckedGrows
  <2> QED BY <1>2, <1>7, <2>1
<1>12. ~(store.kind = "memory" /\ store.total >= MaxRecords)
  BY <1>3 DEF AtCap
<1>13. Exact(store')
  BY <1>1, <1>9, <1>12, ExactGrows
<1>14. Clean(store', past') => Clean(store, past)
  BY <1>7, <1>12 DEF Clean
<1>15. /\ IsPlugin(plugin')
       /\ ~(L = <<>> /\ j.op = "request") => plugin' = plugin
       /\ L = <<>> /\ j.op = "request" => plugin'.recorded = j.covered /\ (plugin.lock = t => plugin'.lock = NoThread)
  <2>1. CASE L = <<>> /\ j.op = "request"
    <3>1. PICK v, k : /\ v = (IF plugin.lock = t THEN NoThread ELSE plugin.lock) /\ k = j.covered
      OBVIOUS
    <3>2. PICK pl : pl = [plugin EXCEPT !.lock = v]
      OBVIOUS
    <3>3. IsPlugin(pl) /\ pl.lock = v
      BY <1>1, <3>2, PluginSets
    <3>4. Unlocked(t) = pl
      BY <3>1, <3>2 DEF Unlocked
    <3>5. plugin' = [pl EXCEPT !.recorded = k]
      BY <1>3, <2>1, <3>1, <3>4
    <3>6. k \in Nat
      BY <1>5, <3>1
    <3>7. IsPlugin(plugin') /\ plugin'.lock = pl.lock /\ plugin'.recorded = k
      BY <3>3, <3>5, <3>6, PluginSets
    <3> QED BY <2>1, <3>1, <3>3, <3>7
  <2>2. CASE ~(L = <<>> /\ j.op = "request")
    <3>1. plugin' = plugin
      BY <1>3, <2>2
    <3> QED BY <1>1, <2>2, <3>1
  <2> QED BY <2>1, <2>2
<1>16. /\ w.todo # <<>> => w.op = j.op /\ w.covered = j.covered
       /\ w.todo = <<>> => w.op # "request"
  BY <1>4, IdleIs DEF SettledJob
<1>17. PositionsKept(store', plugin', job', past')
  <2>1. /\ job[t].todo # <<>> /\ job'[t].todo = Tail(job[t].todo)
        /\ OneGrows(store, store', job[t].todo[1].session, job[t].todo[1])
    BY <1>2, <1>3, <1>5, <1>6, <1>9
  <2>2. job[t].op # "request" => job'[t].op # "request" /\ plugin' = plugin
    BY <1>2, <1>6, <1>15, <1>16
  <2>3. job[t].op = "request" /\ job'[t].todo # <<>> =>
           job'[t].op = "request" /\ job'[t].covered = job[t].covered /\ plugin' = plugin
    BY <1>2, <1>5, <1>6, <1>15, <1>16
  <2>4. job[t].op = "request" /\ job'[t].todo = <<>> =>
           job'[t].op # "request" /\ plugin'.recorded = job[t].covered
           /\ (plugin.lock = t => plugin'.lock = NoThread)
    BY <1>2, <1>5, <1>6, <1>15, <1>16
  <2> QED BY <1>1, <1>6, <1>14, <2>1, <2>2, <2>3, <2>4, StoredPositions
<1>18. ASSUME past'.crashes = 0
       PROVE  Calm(store', job', past')
  <2>1. Calm(store, job, past)
    BY <1>1, <1>7, <1>18
  <2>2. /\ job[t].todo # <<>> /\ job'[t].todo = Tail(job[t].todo)
        /\ OneGrows(store, store', job[t].todo[1].session, job[t].todo[1])
        /\ DOMAIN store'.sessions = DOMAIN store.sessions \cup {job[t].todo[1].session}
    BY <1>2, <1>3, <1>5, <1>6, <1>9
  <2>3. \/ job'[t].todo # <<>> /\ job'[t].op = job[t].op
           /\ job'[t].session = job[t].session /\ job'[t].branch = job[t].branch
        \/ job'[t].todo = <<>> /\ job[t].op = "fork" /\ job'[t].op = "measure"
           /\ job'[t].session = job[t].session /\ job'[t].branch = job[t].branch
        \/ job'[t].todo = <<>> /\ job[t].op # "fork" /\ job'[t] = Idle
    BY <1>2, <1>4, <1>6 DEF SettledJob
  <2> QED BY <1>1, <1>6, <1>7, <1>9, <2>1, <2>2, <2>3, StoredCalm
<1>19. store'.kind = "memory" => past'.crashes = 0
  BY <1>1, <1>7, <1>9
<1> QED BY <1>1, <1>6, <1>7, <1>9, <1>10, <1>11, <1>13, <1>15, <1>17, <1>18, <1>19, FromLogParts

\* A store with the same logs.
SameStore(st, n, forks) ==
    /\ IsStore(n) /\ n.kind = st.kind /\ n.total = st.total /\ n.forks = forks
    /\ DOMAIN n.sessions = DOMAIN st.sessions
    /\ \A s : Log(n, s) = Log(st, s)
    /\ NothingLost(st, n)
    /\ Exact(st) => Exact(n)

\* A store of the same logs keeps what the logs decide.
LEMMA StoreSame ==
    ASSUME NEW st, IsStore(st), NEW forks \in Nat, NEW torn, NEW n,
           n = [kind |-> st.kind, sessions |-> st.sessions, total |-> st.total,
                forks |-> forks, torn |-> torn]
    PROVE  SameStore(st, n, forks)
<1>1. /\ n.kind = st.kind /\ n.total = st.total /\ n.forks = forks /\ n.torn = torn
      /\ n.sessions = st.sessions
  OBVIOUS
<1>2. IsStore(n)
  <2>1. n = [kind |-> n.kind, sessions |-> n.sessions, total |-> n.total,
             forks |-> n.forks, torn |-> n.torn]
    BY <1>1
  <2>2. /\ st.kind \in {"memory", "file"} /\ st.total \in Nat
        /\ st.sessions = [s \in DOMAIN st.sessions |-> st.sessions[s]]
        /\ IsFiniteSet(DOMAIN st.sessions)
        /\ \A s \in DOMAIN st.sessions :
              /\ IsList(st.sessions[s])
              /\ \A i \in 1..Len(st.sessions[s]) : LET r == st.sessions[s][i] IN
                    r = Record(r.session, r.seq, r.event)
    BY DEF IsStore
  <2> QED BY <1>1, <2>1, <2>2 DEF IsStore
<1>3. \A s : Log(n, s) = Log(st, s)
  BY <1>1 DEF Log
<1>4. NothingLost(st, n)
  BY <1>3, LogIs DEF NothingLost
<1>5. Exact(st) => Exact(n)
  BY <1>1 DEF Exact
<1> QED BY <1>1, <1>2, <1>3, <1>4, <1>5 DEF SameStore

\* Tearing the tail or taking a fork number leaves the logs alone.
LEMMA StoreSets ==
    ASSUME NEW st, IsStore(st), NEW forks \in Nat, NEW torn
    PROVE  /\ SameStore(st, [st EXCEPT !.torn = torn], st.forks)
           /\ SameStore(st, [st EXCEPT !.forks = forks], forks)
           /\ SameStore(st, [st EXCEPT !.forks = forks, !.torn = torn], forks)
<1>1. PICK a, b, c, d, e : /\ a = st.kind /\ b = st.sessions /\ c = st.total /\ d = st.forks /\ e = st.torn
                           /\ st = [kind |-> a, sessions |-> b, total |-> c, forks |-> d, torn |-> e]
                           /\ d \in Nat
  BY DEF IsStore
<1>2. PICK n : n = [st EXCEPT !.torn = torn]
  OBVIOUS
<1>3. n = [kind |-> a, sessions |-> b, total |-> c, forks |-> d, torn |-> torn]
  BY <1>1, <1>2
<1>4. SameStore(st, n, d)
  BY <1>1, <1>3, StoreSame
<1>5. PICK m : m = [st EXCEPT !.forks = forks]
  OBVIOUS
<1>6. m = [kind |-> a, sessions |-> b, total |-> c, forks |-> forks, torn |-> e]
  BY <1>1, <1>5
<1>7. SameStore(st, m, forks)
  BY <1>1, <1>6, StoreSame
<1>8. PICK o : o = [m EXCEPT !.torn = torn]
  OBVIOUS
<1>9. o = [kind |-> a, sessions |-> b, total |-> c, forks |-> forks, torn |-> torn]
  BY <1>6, <1>8
<1>10. SameStore(st, o, forks)
  BY <1>1, <1>9, StoreSame
<1>11. [st EXCEPT !.forks = forks, !.torn = torn] = o
  BY <1>5, <1>8
<1> QED BY <1>1, <1>2, <1>4, <1>5, <1>7, <1>10, <1>11

\* What is acknowledged stays so in a store with the same logs.
LEMMA SameKeeps ==
    ASSUME NEW st, IsStore(st), NEW n, NEW forks, SameStore(st, n, forks), NEW acked
    PROVE  /\ Acked(st, acked) => Acked(n, acked)
           /\ GrowsQuietly(Log(st, Root), Log(n, Root))
<1>1. Acked(st, acked) => Acked(n, acked)
  BY DEF SameStore, Acked
<1>2. Log(n, Root) = Log(st, Root)
  BY DEF SameStore
<1> QED BY <1>1, <1>2, QuietItself

\* The lock after an operation of t.
LEMMA UnlockedIs ==
    ASSUME NEW t, IsPlugin(plugin)
    PROVE  /\ IsPlugin(Unlocked(t)) /\ Unlocked(t).recorded = plugin.recorded
           /\ plugin.lock = t => Unlocked(t).lock = NoThread
           /\ plugin.lock # t => Unlocked(t).lock = plugin.lock
<1>1. PICK v : v = IF plugin.lock = t THEN NoThread ELSE plugin.lock
  OBVIOUS
<1>2. PICK pl : pl = [plugin EXCEPT !.lock = v]
  OBVIOUS
<1>3. IsPlugin(pl) /\ pl.lock = v /\ pl.recorded = plugin.recorded
  BY <1>2, PluginSets
<1>4. Unlocked(t) = pl
  BY <1>1, <1>2 DEF Unlocked
<1> QED BY <1>1, <1>3, <1>4

\* NothingToRecord.
LEMMA NothingToRecordKeeps ==
    ASSUME LogInv, NEW t \in LogThreads, NothingToRecord(t)
    PROVE  LogInv' /\ NothingLost(store, store')
<1>1. /\ IsStore(store) /\ IsPlugin(plugin) /\ IsJobs(job) /\ IsPast(past)
      /\ store.kind = "memory" => past.crashes = 0
      /\ IsJob(job[t])
      /\ PositionsKept(store, plugin, job, past)
      /\ Acked(store, past.acked) /\ Exact(store)
      /\ past.crashes = 0 => Calm(store, job, past)
  BY LogParts
<1>2. PICK k, pl : k = job[t].covered /\ pl = Unlocked(t)
  OBVIOUS
<1>3. /\ job[t].op = "request" /\ job[t].todo = <<>> /\ store' = store /\ past' = past
      /\ job' = [job EXCEPT ![t] = Idle] /\ plugin' = [pl EXCEPT !.recorded = k]
  BY <1>2 DEF NothingToRecord
<1>4. IsJobs(job') /\ job'[t] = Idle /\ ThreadMoves(job, job', t)
  <2>1. JobMoves(job, job', t, Idle)
    BY <1>1, <1>3, IdleIs, JobSet
  <2> QED BY <2>1 DEF JobMoves
<1>5. plugin.lock = t
  BY <1>1, <1>3 DEF PositionsKept, LockHeld
<1>6. k \in Nat /\ job[t].covered \in Nat
  BY <1>1, <1>2 DEF IsJob
<1>7. IsPlugin(pl) /\ pl.lock = NoThread
  BY <1>1, <1>2, <1>5, UnlockedIs
<1>8. IsPlugin(plugin') /\ plugin'.lock = NoThread /\ plugin'.recorded = job[t].covered
  <2>1. IsPlugin(plugin') /\ plugin'.lock = pl.lock /\ plugin'.recorded = k
    BY <1>3, <1>6, <1>7, PluginSets
  <2> QED BY <1>2, <1>7, <2>1
<1>9. Len(job[t].todo) = 0 /\ job'[t].op # "request" /\ Len(job'[t].todo) = 0
  BY <1>3, <1>4, EmptyList, IdleIs
<1>10. PositionsKept(store, plugin', job', past)
  BY <1>1, <1>3, <1>4, <1>6, <1>8, <1>9, LockGoes
<1>11. ASSUME past.crashes = 0
       PROVE  Calm(store, job', past)
  <2>1. Calm(store, job, past)
    BY <1>1, <1>11
  <2>2. FitJob(store, store, job[t], job'[t], past.branches)
    BY <1>4, IdleFits
  <2>3. GivenOut(store, job[t], job'[t], past.branches, past.branches)
    BY DEF GivenOut
  <2> QED BY <1>1, <1>4, <1>9, <2>1, <2>2, <2>3, Settles
<1>12. NothingLost(store, store)
  BY <1>1, QuietItself
<1> QED BY <1>1, <1>3, <1>4, <1>8, <1>10, <1>11, <1>12, FromLogParts

\* AppendFails.
LEMMA AppendFailsKeeps ==
    ASSUME LogInv, NEW t \in LogThreads, AppendFails(t)
    PROVE  LogInv' /\ NothingLost(store, store')
<1>1. /\ IsStore(store) /\ IsPlugin(plugin) /\ IsJobs(job) /\ IsPast(past)
      /\ store.kind = "memory" => past.crashes = 0
      /\ PositionsKept(store, plugin, job, past)
      /\ Acked(store, past.acked) /\ Exact(store)
      /\ past.crashes = 0 => Calm(store, job, past)
  BY LogParts
<1>2. job' = [job EXCEPT ![t] = Idle] /\ plugin' = Unlocked(t)
  BY DEF AppendFails
<1>3. IsJobs(job') /\ job'[t] = Idle /\ ThreadMoves(job, job', t)
  <2>1. JobMoves(job, job', t, Idle)
    BY <1>1, <1>2, IdleIs, JobSet
  <2> QED BY <2>1 DEF JobMoves
<1>4. /\ SameStore(store, store', store.forks) /\ IsPast(past') /\ past'.acked = past.acked
      /\ past'.ops = past.ops /\ past'.branches = past.branches /\ past'.crashes = past.crashes
      /\ ~Clean(store', past')
  <2>0. store.forks \in Nat /\ SameStore(store, store, store.forks)
    BY <1>1, QuietItself DEF IsStore, SameStore
  <2>1. CASE AtCap /\ UNCHANGED <<store, past>>
    <3>1. store' = store /\ past' = past
      BY <2>1
    <3>2. ~Clean(store, past)
      BY <2>1 DEF AtCap, Clean
    <3> QED BY <1>1, <2>0, <3>1, <3>2
  <2>2. CASE /\ past' = [past EXCEPT !.failures = @ + 1]
             /\ \/ store' = store
                \/ store' = [store EXCEPT !.torn = @ \cup {job[t].todo[1].session}]
    <3>1. SameStore(store, store', store.forks)
      <4>1. CASE store' = store
        BY <2>0, <4>1
      <4>2. CASE store' = [store EXCEPT !.torn = @ \cup {job[t].todo[1].session}]
        <5>1. PICK v : v = store.torn \cup {job[t].todo[1].session}
          OBVIOUS
        <5>2. store' = [store EXCEPT !.torn = v]
          BY <4>2, <5>1
        <5> QED BY <1>1, <2>0, <5>2, StoreSets
      <4> QED BY <2>2, <4>1, <4>2
    <3>2. PICK a, b, c, d, e, f : /\ past = Past(a, b, c, d, e, f) /\ a = past.acked /\ b = past.ops
                                  /\ c = past.branches /\ e = past.crashes /\ f = past.failures
                                  /\ b \in Nat /\ e \in Nat /\ f \in Nat
      BY <1>1 DEF IsPast
    <3>3. past' = Past(a, b, c, d, e, f + 1) /\ f + 1 \in Nat
      BY <2>2, <3>2 DEF Past
    <3>4. /\ IsPast(past') /\ past'.acked = a /\ past'.ops = b /\ past'.branches = c
          /\ past'.crashes = e /\ past'.failures = f + 1
      <4>1. b \in Nat /\ e \in Nat /\ f + 1 \in Nat
        BY <3>2, <3>3
      <4> QED BY <3>3, <4>1, PastOf
    <3>5. ~Clean(store', past')
      <4>1. f \in Nat
        BY <3>2
      <4>2. f + 1 # 0
        BY <4>1
      <4>3. past'.failures # 0
        BY <3>4, <4>2
      <4> QED BY <4>3 DEF Clean
    <3> QED BY <3>1, <3>2, <3>4, <3>5
  <2> QED BY <2>1, <2>2 DEF AppendFails
<1>5. /\ IsStore(store') /\ store'.kind = store.kind /\ store'.forks = store.forks
      /\ DOMAIN store'.sessions = DOMAIN store.sessions /\ (\A s : Log(store', s) = Log(store, s))
      /\ NothingLost(store, store') /\ Exact(store')
  BY <1>1, <1>4 DEF SameStore
<1>6. Acked(store', past'.acked) /\ GrowsQuietly(Log(store, Root), Log(store', Root))
  BY <1>1, <1>4, SameKeeps
<1>7. /\ IsPlugin(plugin') /\ plugin'.recorded = plugin.recorded
      /\ plugin.lock = t => plugin'.lock = NoThread
      /\ plugin.lock # t => plugin'.lock = plugin.lock
  BY <1>1, <1>2, UnlockedIs
<1>8. /\ Idle.op # "request" /\ Len(job'[t].todo) = 0
      /\ \A k \in 1..Len(job'[t].todo) : ~SaysAt(job'[t].todo[k])
  BY <1>3, IdleIs
<1>9. LockHeld(plugin, job)
  BY <1>1 DEF PositionsKept
<1>10. PositionsKept(store', plugin', job', past')
  <2>1. CASE job[t].op = "request"
    <3>1. plugin.lock = t
      BY <1>9, <2>1 DEF LockHeld
    <3>2. \A u \in LogThreads : /\ job'[u].op # "request"
                                /\ \A k \in 1..Len(job'[u].todo) : ~SaysAt(job'[u].todo[k])
      <4> TAKE u \in LogThreads
      <4>1. CASE u = t
        BY <1>3, <1>8, <4>1
      <4>2. CASE u # t
        <5>1. job'[u] = job[u]
          BY <1>3, <4>2 DEF ThreadMoves
        <5>2. job[u].op # "request"
          BY <1>9, <3>1, <4>2 DEF LockHeld
        <5> QED BY <1>9, <5>1, <5>2 DEF LockHeld
      <4> QED BY <4>1, <4>2
    <3> QED BY <1>4, <1>7, <3>1, <3>2, NobodyHolds
  <2>2. CASE job[t].op # "request"
    <3>1. plugin.lock # t
      BY <1>9, <2>2 DEF LockHeld
    <3>2. plugin'.lock = plugin.lock /\ plugin'.recorded = plugin.recorded /\ job'[t].op # "request"
      BY <1>3, <1>7, <1>8, <3>1
    <3>3. Clean(store', past') => Clean(store, past)
      BY <1>4
    <3> QED BY <1>1, <1>3, <1>6, <1>8, <2>2, <3>2, <3>3, QuietKeeps
  <2> QED BY <2>1, <2>2
<1>11. ASSUME past'.crashes = 0
       PROVE  Calm(store', job', past')
  <2>1. Calm(store, job, past)
    BY <1>1, <1>4, <1>11
  <2>2. FitJob(store, store', job[t], job'[t], past.branches)
    BY <1>3, IdleFits
  <2>3. GivenOut(store', job[t], job'[t], past.branches, past'.branches)
    BY <1>4 DEF GivenOut
  <2> QED BY <1>1, <1>3, <1>4, <1>5, <1>8, <2>1, <2>2, <2>3, Settles
<1>12. store'.kind = "memory" => past'.crashes = 0
  BY <1>1, <1>4, <1>5
<1> QED BY <1>3, <1>4, <1>5, <1>6, <1>7, <1>10, <1>11, <1>12, FromLogParts

\* Measure.
LEMMA MeasureKeeps ==
    ASSUME LogInv, NEW t \in LogThreads, Measure(t)
    PROVE  LogInv' /\ NothingLost(store, store')
<1>1. /\ IsStore(store) /\ IsPlugin(plugin) /\ IsJobs(job) /\ IsPast(past)
      /\ store.kind = "memory" => past.crashes = 0
      /\ IsJob(job[t])
      /\ PositionsKept(store, plugin, job, past)
      /\ Acked(store, past.acked) /\ Exact(store)
      /\ past.crashes = 0 => Calm(store, job, past)
  BY LogParts
<1>2. PICK j, w : /\ j = job[t]
                  /\ w = IF j.session \in store.torn THEN Idle
                         ELSE [j EXCEPT !.op = "realign", !.len = Len(Log(store, j.session))]
  OBVIOUS
<1>3. /\ j.op = "measure" /\ job' = [job EXCEPT ![t] = w]
      /\ store' = store /\ plugin' = plugin /\ past' = past
  BY <1>2 DEF Measure
<1>4. /\ IsJob(w)
      /\ w = Idle \/ /\ w.op = "realign" /\ w.todo = j.todo
                     /\ w.session = j.session /\ w.branch = j.branch
  <2>1. CASE j.session \in store.torn
    BY <1>2, <2>1, IdleIs
  <2>2. CASE j.session \notin store.torn
    <3>1. PICK a, T, c, d, e, f, m : /\ j = Job(a, T, c, d, e, f) /\ T = j.todo /\ d = j.session
                                     /\ e = j.branch /\ IsList(T) /\ c \in Nat
                                     /\ \A k \in 1..Len(T) : T[k] = Record(T[k].session, T[k].seq, T[k].event)
                                     /\ m = Len(Log(store, j.session))
      BY <1>1, <1>2 DEF IsJob
    <3>2. PICK j1 : j1 = [j EXCEPT !.op = "realign"]
      OBVIOUS
    <3>3. w = [j1 EXCEPT !.len = m]
      BY <1>2, <2>2, <3>1, <3>2
    <3>4. j1 = Job("realign", T, c, d, e, f)
      BY <3>1, <3>2 DEF Job
    <3>5. w = Job("realign", T, c, d, e, m)
      BY <3>3, <3>4 DEF Job
    <3>6. /\ IsList(T) /\ c \in Nat
          /\ \A k \in 1..Len(T) : T[k] = Record(T[k].session, T[k].seq, T[k].event)
      BY <3>1
    <3>7. IsJob(w) /\ w.op = "realign" /\ w.todo = T /\ w.session = d /\ w.branch = e
      BY <3>5, <3>6, JobOf
    <3> QED BY <3>1, <3>7
  <2> QED BY <2>1, <2>2
<1>5. IsJobs(job') /\ job'[t] = w /\ ThreadMoves(job, job', t)
  <2>1. JobMoves(job, job', t, w)
    BY <1>1, <1>3, <1>4, JobSet
  <2> QED BY <2>1 DEF JobMoves
<1>6. LockHeld(plugin, job)
  BY <1>1 DEF PositionsKept
<1>7. PositionsKept(store, plugin, job', past)
  <2>1. job[t].op # "request" /\ job'[t].op # "request"
    BY <1>2, <1>3, <1>4, <1>5, IdleIs
  <2>2. \A k \in 1..Len(job'[t].todo) : ~SaysAt(job'[t].todo[k])
    <3>1. CASE w = Idle
      BY <1>5, <3>1, IdleIs
    <3>2. CASE w.todo = j.todo
      BY <1>2, <1>5, <1>6, <2>1, <3>2 DEF LockHeld
    <3> QED BY <1>4, <3>1, <3>2
  <2>3. GrowsQuietly(Log(store, Root), Log(store, Root))
    BY <1>1, QuietItself
  <2> QED BY <1>1, <1>5, <2>1, <2>2, <2>3, QuietKeeps
<1>8. ASSUME past.crashes = 0
      PROVE  Calm(store, job', past)
  <2>1. Calm(store, job, past) /\ ForksKept(store, job, past.branches)
    BY <1>1, <1>8 DEF Calm
  <2>2. j.todo = <<>> /\ Carries(store, j.branch)
    BY <1>2, <1>3, <2>1 DEF ForksKept
  <2>3. FitJob(store, store, job[t], w, past.branches)
    <3>1. CASE w = Idle
      BY <3>1, IdleFits
    <3>2. CASE w.op = "realign" /\ w.todo = j.todo /\ w.session = j.session /\ w.branch = j.branch
      <4>1. w.op \in ForkOps /\ job[t].op \in ForkOps /\ w.op # "fork" /\ store.forks <= store.forks
        BY <1>1, <1>2, <1>3, <3>2 DEF ForkOps, IsStore
      <4>2. \A k \in 1..Len(w.todo) : \E l \in 1..Len(job[t].todo) :
               w.todo[k].session = job[t].todo[l].session
        BY <1>2, <3>2
      <4>3. Carries(store, w.branch) /\ w.todo = <<>> /\ w.branch = job[t].branch /\ w.session = job[t].session
        BY <1>2, <2>2, <3>2
      <4> QED BY <1>1, <2>1, <4>1, <4>2, <4>3, StaysFit
    <3> QED BY <1>4, <3>1, <3>2
  <2>4. GivenOut(store, job[t], w, past.branches, past.branches)
    BY DEF GivenOut
  <2>5. Len(w.todo) = 0
    BY <1>4, <2>2, EmptyList, IdleIs
  <2> QED BY <1>1, <1>5, <2>1, <2>3, <2>4, <2>5, Settles
<1>9. NothingLost(store, store)
  BY <1>1, QuietItself
<1> QED BY <1>1, <1>3, <1>5, <1>7, <1>8, <1>9, FromLogParts

\* What a realigned fork changes.
LEMMA PastGives ==
    ASSUME NEW pt, IsPast(pt), NEW a
    PROVE  LET qt == [pt EXCEPT !.branches = a] IN
           /\ IsPast(qt) /\ qt.branches = a /\ qt.ops = pt.ops /\ qt.acked = pt.acked
           /\ qt.crashes = pt.crashes /\ qt.failures = pt.failures
<1>1. PICK b, c, d, e, f, g : /\ pt = Past(b, c, d, e, f, g)
                              /\ c \in Nat /\ f \in Nat /\ g \in Nat
                              /\ b = pt.acked /\ c = pt.ops /\ f = pt.crashes /\ g = pt.failures
  BY DEF IsPast
<1>2. PICK qt : qt = [pt EXCEPT !.branches = a]
  OBVIOUS
<1>3. qt = Past(b, c, a, e, f, g)
  BY <1>1, <1>2 DEF Past
<1>4. /\ IsPast(qt) /\ qt.acked = b /\ qt.ops = c /\ qt.branches = a /\ qt.crashes = f /\ qt.failures = g
  <2>1. c \in Nat /\ f \in Nat /\ g \in Nat
    BY <1>1
  <2> QED BY <1>3, <2>1, PastOf
<1> QED BY <1>1, <1>2, <1>4

\* Realign.
LEMMA RealignKeeps ==
    ASSUME LogInv, NEW t \in LogThreads, Realign(t)
    PROVE  LogInv' /\ NothingLost(store, store')
<1>1. /\ IsStore(store) /\ IsPlugin(plugin) /\ IsJobs(job) /\ IsPast(past)
      /\ store.kind = "memory" => past.crashes = 0
      /\ PositionsKept(store, plugin, job, past)
      /\ Acked(store, past.acked) /\ Exact(store)
      /\ past.crashes = 0 => Calm(store, job, past)
  BY LogParts
<1>2. PICK v, g : v = Put(plugin.next, job[t].session, job[t].len) /\ g = past.branches \cup {job[t].branch}
  OBVIOUS
<1>3. /\ job[t].op = "realign" /\ job' = [job EXCEPT ![t] = Idle] /\ store' = store
      /\ plugin' = [plugin EXCEPT !.next = v] /\ past' = [past EXCEPT !.branches = g]
  BY <1>2 DEF Realign
<1>4. IsJobs(job') /\ job'[t] = Idle /\ ThreadMoves(job, job', t)
  <2>1. JobMoves(job, job', t, Idle)
    BY <1>1, <1>3, IdleIs, JobSet
  <2> QED BY <2>1 DEF JobMoves
<1>5. IsPlugin(plugin') /\ plugin'.lock = plugin.lock /\ plugin'.recorded = plugin.recorded
  BY <1>1, <1>3, PluginSets
<1>6. /\ IsPast(past') /\ past'.branches = g /\ past'.ops = past.ops /\ past'.acked = past.acked
      /\ past'.crashes = past.crashes /\ past'.failures = past.failures
  BY <1>1, <1>3, PastGives
<1>7. PositionsKept(store, plugin', job', past')
  <2>1. job[t].op # "request" /\ job'[t].op # "request" /\ Len(job'[t].todo) = 0
    BY <1>3, <1>4, IdleIs
  <2>2. \A k \in 1..Len(job'[t].todo) : ~SaysAt(job'[t].todo[k])
    BY <2>1
  <2>3. GrowsQuietly(Log(store, Root), Log(store, Root))
    BY <1>1, QuietItself
  <2>4. Clean(store, past') => Clean(store, past)
    BY <1>6 DEF Clean
  <2> QED BY <1>1, <1>4, <1>5, <2>1, <2>2, <2>3, <2>4, QuietKeeps
<1>8. ASSUME past'.crashes = 0
      PROVE  Calm(store, job', past')
  <2>1. Calm(store, job, past) /\ ForksKept(store, job, past.branches)
    BY <1>1, <1>6, <1>8 DEF Calm
  <2>2. Carries(store, job[t].branch)
    BY <1>3, <2>1 DEF ForksKept
  <2>3. FitJob(store, store, job[t], job'[t], past.branches)
    BY <1>4, IdleFits
  <2>4. GivenOut(store, job[t], job'[t], past.branches, past'.branches)
    <3>1. Idle.op \notin ForkOps /\ job[t].op \in ForkOps
      BY <1>3, IdleIs DEF ForkOps
    <3> QED BY <1>2, <1>4, <1>6, <2>2, <3>1 DEF GivenOut
  <2>5. Len(job'[t].todo) = 0
    BY <1>4, IdleIs
  <2> QED BY <1>1, <1>4, <1>6, <2>1, <2>3, <2>4, <2>5, Settles
<1>9. NothingLost(store, store)
  BY <1>1, QuietItself
<1> QED BY <1>1, <1>3, <1>4, <1>5, <1>6, <1>7, <1>8, <1>9, FromLogParts

\* Crash.
LEMMA CrashKeeps ==
    ASSUME LogInv, Crash
    PROVE  LogInv' /\ NothingLost(store, store')
<1>1. /\ IsStore(store) /\ IsPast(past) /\ Acked(store, past.acked) /\ Exact(store)
  BY LogParts
<1>2. SameStore(store, store', 0)
  <2>1. CASE store' = [store EXCEPT !.forks = 0]
    BY <1>1, <2>1, StoreSets
  <2>2. ASSUME NEW s \in Writing, store' = [store EXCEPT !.forks = 0, !.torn = @ \cup {s}]
        PROVE  SameStore(store, store', 0)
    <3>1. PICK v : v = store.torn \cup {s}
      OBVIOUS
    <3>2. store' = [store EXCEPT !.forks = 0, !.torn = v]
      BY <2>2, <3>1
    <3> QED BY <1>1, <3>2, StoreSets
  <2> QED BY <2>1, <2>2 DEF Crash
<1>3. /\ IsStore(store') /\ store'.kind = store.kind /\ NothingLost(store, store') /\ Exact(store')
  BY <1>1, <1>2 DEF SameStore
<1>4. Acked(store', past.acked)
  BY <1>1, <1>2, SameKeeps
<1>5. /\ IsPast(past') /\ past'.acked = past.acked /\ past'.crashes = past.crashes + 1 /\ past.crashes \in Nat
  <2>1. PICK a, b, c, d, e, f : /\ past = Past(a, b, c, d, e, f) /\ a = past.acked /\ e = past.crashes
                                /\ b \in Nat /\ e \in Nat /\ f \in Nat
    BY <1>1 DEF IsPast
  <2>2. past' = [past EXCEPT !.crashes = @ + 1]
    BY DEF Crash
  <2>3. past' = Past(a, b, c, d, e + 1, f)
    BY <2>1, <2>2 DEF Past
  <2>4. b \in Nat /\ e + 1 \in Nat /\ f \in Nat
    BY <2>1
  <2>5. IsPast(past') /\ past'.acked = a /\ past'.crashes = e + 1
    BY <2>3, <2>4, PastOf
  <2> QED BY <2>1, <2>5
<1>6. past'.crashes # 0
  BY <1>5
<1>7. IsPlugin(plugin') /\ plugin'.lock = NoThread
  <2>1. PICK f : f = [s \in {} |-> 0]
    OBVIOUS
  <2>2. plugin' = [next |-> f, recorded |-> 0, lock |-> NoThread]
    BY <2>1 DEF Crash
  <2> QED BY <2>2, PluginOf
<1>8. job' = [u \in LogThreads |-> Idle]
  BY DEF Crash
<1>9. IsJobs(job') /\ \A u \in LogThreads : job'[u] = Idle
  BY <1>8, IdleIs DEF IsJobs
<1>10. \A u \in LogThreads : /\ job'[u].op # "request"
                             /\ \A k \in 1..Len(job'[u].todo) : ~SaysAt(job'[u].todo[k])
  BY <1>9, IdleIs
<1>11. ~Clean(store', past')
  BY <1>6 DEF Clean
<1>12. PositionsKept(store', plugin', job', past')
  BY <1>7, <1>10, <1>11, NobodyHolds
<1>13. store'.kind # "memory"
  BY <1>3 DEF Crash
<1> QED BY <1>3, <1>4, <1>5, <1>6, <1>7, <1>9, <1>12, <1>13, FromLogParts

\* What a fork changes of the counts.
LEMMA PastForks ==
    ASSUME NEW pt, IsPast(pt), NEW qt, qt = [pt EXCEPT !.ops = @ + 1, !.forks = @ + 1]
    PROVE  IsPast(qt) /\ qt.ops = pt.ops + 1 /\ qt.acked = pt.acked /\ qt.branches = pt.branches
           /\ qt.crashes = pt.crashes /\ qt.failures = pt.failures
<1>1. PICK a, b, c, d, e, f : /\ pt = Past(a, b, c, d, e, f)
                              /\ b \in Nat /\ e \in Nat /\ f \in Nat
                              /\ a = pt.acked /\ b = pt.ops /\ c = pt.branches
                              /\ e = pt.crashes /\ f = pt.failures
  BY DEF IsPast
<1>2. PICK p1 : p1 = [pt EXCEPT !.ops = @ + 1]
  OBVIOUS
<1>3. qt = [p1 EXCEPT !.forks = @ + 1]
  BY <1>2
<1>4. p1 = Past(a, b + 1, c, d, e, f)
  BY <1>1, <1>2 DEF Past
<1>5. qt = Past(a, b + 1, c, d + 1, e, f)
  BY <1>3, <1>4 DEF Past
<1>6. PICK x, y, q : x = b + 1 /\ y = d + 1 /\ q = qt
  OBVIOUS
<1>7. IsPast(q) /\ q.ops = x /\ q.acked = a /\ q.branches = c /\ q.crashes = e /\ q.failures = f
  <2>1. b \in Nat /\ e \in Nat /\ f \in Nat
    BY <1>1
  <2>2. x \in Nat
    BY <1>6, <2>1
  <2>3. q = Past(a, x, c, y, e, f)
    BY <1>5, <1>6
  <2> QED BY <2>1, <2>2, <2>3, PastOf
<1> QED BY <1>1, <1>6, <1>7

\* The id of a branch is new.
LEMMA BranchIsNew ==
    ASSUME NEW s, NEW seq, NEW forks \in Nat, NEW id, id = <<s, seq, forks>>
    PROVE  /\ id # Root /\ id[1] = s /\ id[2] = seq /\ id[3] = forks
           /\ ~Known(id, forks) /\ Known(id, forks + 1)
           /\ Forked(id).kind = "fork" /\ Forked(id).to = id
           /\ \A ops : ~Dated(Forked(id), ops, forks) /\ Dated(Forked(id), ops, forks + 1)
<1>1. id # Root /\ id[1] = s /\ id[2] = seq /\ id[3] = forks
  BY DEF Root
<1>2. forks \notin 0..(forks - 1) /\ forks \in 0..(forks + 1 - 1)
  OBVIOUS
<1>3. ~Known(id, forks) /\ Known(id, forks + 1)
  BY <1>1, <1>2 DEF Known
<1>4. Forked(id).kind = "fork" /\ Forked(id).to = id
  BY DEF Forked
<1>5. \A ops : ~Dated(Forked(id), ops, forks) /\ Dated(Forked(id), ops, forks + 1)
  BY <1>1, <1>2, <1>4 DEF Dated
<1> QED BY <1>1, <1>3, <1>4, <1>5

\* The record that closes a fork.
LEMMA AuditIs ==
    ASSUME NEW s, NEW log, NEW id
    PROVE  LET r == Audit(s, log, id) IN
           /\ r = Record(s, r.seq, r.event) /\ r = Record(r.session, r.seq, r.event)
           /\ r.session = s /\ r.event = Forked(id)
BY DEF Audit, Record, Forked

\* A store in memory after a fork.
ForkGrown(st, n, s, p, id) ==
    /\ IsStore(n) /\ n.kind = st.kind /\ n.total = st.total + p + 1 /\ n.forks = st.forks + 1
    /\ DOMAIN n.sessions = DOMAIN st.sessions \cup {id}
    /\ p \in 1..Len(Log(st, s)) /\ s \in DOMAIN st.sessions /\ s # id
    /\ Log(n, s) = Append(Log(st, s), Audit(s, Log(st, s), id))
    /\ Len(Log(n, s)) = Len(Log(st, s)) + 1
    /\ Len(Log(n, id)) = p
    /\ \A k \in 1..p : Log(n, id)[k].event = Log(st, s)[k].event
    /\ \A x : x # s /\ x # id => Log(n, x) = Log(st, x)
    /\ NothingLost(st, n) /\ GrowsQuietly(Log(st, Root), Log(n, Root))
    /\ Carries(n, id)

\* A fork copies the prefix, writes the record of it, and leaves the other logs alone.
LEMMA ForkGrows ==
    ASSUME NEW st, IsStore(st), NEW s, NEW seq, HasPoint(Log(st, s), seq),
           NEW id, id = <<s, seq, st.forks>>, id \notin DOMAIN st.sessions,
           NEW p, p = PointAt(Log(st, s), seq), NEW n, n = ForkedStore(st, s, p, id)
    PROVE  ForkGrown(st, n, s, p, id)
<1>1. PICK log, r, pre : /\ log = Log(st, s) /\ r = Audit(s, log, id) /\ pre = Prefix(log, p, id)
  OBVIOUS
<1>2. IsList(log) /\ Len(log) \in Nat /\ (\A x : IsList(Log(st, x)) /\ Len(Log(st, x)) \in Nat)
  BY <1>1, LogIs
<1>3. \A k \in 1..Len(log) : log[k] = Record(log[k].session, log[k].seq, log[k].event)
  BY <1>1, LogIs
<1>4. HasPoint(log, seq) /\ p = PointAt(log, seq)
  BY <1>1
<1>5. p \in 1..Len(log) /\ p \in Nat /\ p \in 0..Len(log)
  <2>1. p \in 1..Len(log)
    BY <1>2, <1>4, PointIs
  <2> QED BY <1>2, <2>1
<1>6. st.forks \in Nat
  BY DEF IsStore
<1>7. id # Root /\ id[1] = s /\ id[2] = seq
  BY <1>6, BranchIsNew
<1>8. p \in 1..Len(Log(st, s))
  BY <1>1, <1>5
<1>9. /\ s # id /\ s \in DOMAIN st.sessions
      /\ IsStore(n) /\ n.kind = st.kind /\ n.total = st.total + p + 1 /\ n.forks = st.forks + 1
      /\ DOMAIN n.sessions = DOMAIN st.sessions \cup {id}
      /\ Log(n, s) = Append(Log(st, s), Audit(s, Log(st, s), id))
      /\ Log(n, id) = Prefix(Log(st, s), p, id)
      /\ \A x : x # s /\ x # id => Log(n, x) = Log(st, x)
  <2>1. PICK i, b, m : i = p /\ b = id /\ m = n
    OBVIOUS
  <2>2. i \in 1..Len(Log(st, s)) /\ b \notin DOMAIN st.sessions
    BY <1>8, <2>1
  <2>3. /\ s # b /\ s \in DOMAIN st.sessions
        /\ IsStore(ForkedStore(st, s, i, b))
        /\ ForkedStore(st, s, i, b).kind = st.kind
        /\ ForkedStore(st, s, i, b).total = st.total + i + 1
        /\ ForkedStore(st, s, i, b).forks = st.forks + 1
        /\ DOMAIN ForkedStore(st, s, i, b).sessions = DOMAIN st.sessions \cup {b}
        /\ Log(ForkedStore(st, s, i, b), s) = Append(Log(st, s), Audit(s, Log(st, s), b))
        /\ Log(ForkedStore(st, s, i, b), b) = Prefix(Log(st, s), i, b)
        /\ \A x : x # s /\ x # b => Log(ForkedStore(st, s, i, b), x) = Log(st, x)
    BY <2>2, ForkedIs
  <2> QED BY <2>1, <2>3
<1>10. Log(n, s) = Append(log, r) /\ Log(n, id) = pre
  BY <1>1, <1>9
<1>11. /\ Len(Log(n, s)) = Len(log) + 1 /\ Log(n, s)[Len(log) + 1] = r /\ IsList(Log(n, s))
       /\ \A k \in 1..Len(log) : Log(n, s)[k] = log[k]
       /\ \A k \in 1..Len(Log(n, s)) : k = Len(log) + 1 \/ k \in 1..Len(log)
  <2>1. IsList(log)
    BY <1>2
  <2>2. /\ IsList(Append(log, r)) /\ Len(Append(log, r)) = Len(log) + 1
        /\ Append(log, r)[Len(log) + 1] = r
        /\ \A k \in 1..Len(log) : Append(log, r)[k] = log[k]
        /\ \A k \in 1..Len(Append(log, r)) : k = Len(log) + 1 \/ k \in 1..Len(log)
    BY <2>1, ListGrows
  <2> QED BY <1>10, <2>2
<1>12. Len(pre) = p /\ \A k \in 1..p : pre[k].event = log[k].event /\ k \in 1..Len(log)
  BY <1>1, <1>2, <1>3, <1>5, PrefixIs
<1>13. r.event = Forked(id)
  BY <1>1, AuditIs
<1>14. Log(st, id) = <<>> /\ Len(Log(st, id)) = 0
  BY LogIs
<1>15. NothingLost(st, n)
  <2> SUFFICES ASSUME NEW x
               PROVE  /\ Len(Log(st, x)) <= Len(Log(n, x))
                      /\ \A i \in 1..Len(Log(st, x)) : i \in 1..Len(Log(n, x)) /\ Log(n, x)[i] = Log(st, x)[i]
    BY DEF NothingLost
  <2>1. CASE x = s
    BY <1>1, <1>2, <1>11, <2>1
  <2>2. CASE x = id
    <3>1. Len(Log(n, x)) = p /\ Len(Log(st, x)) = 0
      BY <1>10, <1>12, <1>14, <2>2
    <3> QED BY <1>5, <3>1
  <2>3. CASE x # s /\ x # id
    <3>1. Log(n, x) = Log(st, x)
      BY <1>9, <2>3
    <3> QED BY <1>2, <3>1
  <2> QED BY <2>1, <2>2, <2>3
<1>16. GrowsQuietly(Log(st, Root), Log(n, Root))
  <2>1. CASE s = Root
    <3>1. ~Speaks(r.event.kind)
      BY <1>6, <1>13, BranchIsNew DEF Speaks
    <3>2. PICK more : more = Log(n, s)
      OBVIOUS
    <3>3. /\ Len(more) = Len(log) + 1 /\ more[Len(log) + 1] = r
          /\ \A k \in 1..Len(log) : more[k] = log[k]
          /\ \A k \in 1..Len(more) : k = Len(log) + 1 \/ k \in 1..Len(log)
      BY <1>11, <3>2
    <3>4. GrowsQuietly(log, more)
      BY <1>2, <3>1, <3>3 DEF GrowsQuietly
    <3> QED BY <1>1, <2>1, <3>2, <3>4
  <2>2. CASE s # Root
    <3>1. Log(n, Root) = Log(st, Root)
      BY <1>7, <1>9, <2>2
    <3>2. GrowsQuietly(Log(st, Root), Log(st, Root))
      BY QuietItself
    <3> QED BY <3>1, <3>2
  <2> QED BY <2>1, <2>2
<1>17. Carries(n, id)
  <2>1. PICK more : more = Log(n, s)
    OBVIOUS
  <2>2. IsList(more) /\ Len(log) <= Len(more) /\ \A k \in 1..Len(log) : more[k] = log[k]
    <3>1. IsList(more) /\ Len(more) = Len(log) + 1 /\ \A k \in 1..Len(log) : more[k] = log[k]
      BY <1>11, <2>1
    <3>2. PICK a : a = Len(log) /\ a \in Nat
      BY <1>2
    <3>3. a <= a + 1
      BY <3>2
    <3> QED BY <3>1, <3>2, <3>3
  <2>3. HasPoint(more, seq) /\ PointAt(more, seq) = p
    BY <1>2, <1>4, <2>2, PointIs
  <2>4. Copied(more, pre, p)
    BY <1>5, <1>12, <2>2 DEF Copied
  <2>5. \E k \in 1..Len(more) : more[k].event = Forked(id)
    <3>1. Len(log) + 1 \in 1..Len(more) /\ more[Len(log) + 1] = r
      BY <1>2, <1>11, <2>1
    <3> QED BY <1>13, <3>1
  <2> QED BY <1>7, <1>10, <2>1, <2>3, <2>4, <2>5 DEF Carries
<1> QED BY <1>1, <1>8, <1>9, <1>10, <1>11, <1>12, <1>15, <1>16, <1>17 DEF ForkGrown

\* Fork, in memory.
LEMMA ForkMemoryKeeps ==
    ASSUME LogInv, NEW t \in LogThreads, NEW s \in {Root} \cup past.branches,
           NEW seq, HasPoint(Log(store, s), seq), Fork(t, s, seq), store.kind = "memory"
    PROVE  LogInv' /\ NothingLost(store, store')
<1>1. /\ IsStore(store) /\ IsPlugin(plugin) /\ IsJobs(job) /\ IsPast(past)
      /\ past.crashes = 0
      /\ PositionsKept(store, plugin, job, past)
      /\ Acked(store, past.acked) /\ Exact(store)
      /\ Calm(store, job, past)
  BY LogParts
<1>2. PICK id, p : id = BranchId(s, seq) /\ p = PointAt(Log(store, s), seq)
  OBVIOUS
<1>3. /\ job[t].op = "idle" /\ past' = [past EXCEPT !.ops = @ + 1, !.forks = @ + 1]
      /\ plugin' = plugin /\ ForkInMemory(t, s, seq)
  BY DEF Fork
<1>4. /\ store.total + p < MaxRecords /\ store' = ForkedStore(store, s, p, id)
      /\ job' = [job EXCEPT ![t] = [Idle EXCEPT !.op = "measure", !.session = s, !.branch = id]]
  BY <1>2, <1>3 DEF ForkInMemory, ForkedStore
<1>5. id = <<s, seq, store.forks>> /\ store.forks \in Nat
  BY <1>1, <1>2 DEF BranchId, IsStore
<1>6. id # Root /\ id[1] = s /\ id[3] = store.forks /\ ~Known(id, store.forks) /\ Known(id, store.forks + 1)
  BY <1>5, BranchIsNew
<1>7. /\ SessionsKnown(store, job, past.branches) /\ EventsDiffer(store, job, past.ops)
      /\ ForksApart(job, past.branches)
  BY <1>1 DEF Calm
<1>8. id \notin DOMAIN store.sessions
  BY <1>6, <1>7 DEF SessionsKnown
<1>9. PICK w : w = [Idle EXCEPT !.op = "measure", !.session = s, !.branch = id]
  OBVIOUS
<1>10. w = Job("measure", <<>>, 0, s, id, 0)
  <2>1. PICK j0 : j0 = Idle
    OBVIOUS
  <2>2. PICK j1 : j1 = [j0 EXCEPT !.op = "measure"]
    OBVIOUS
  <2>3. PICK j2 : j2 = [j1 EXCEPT !.session = s]
    OBVIOUS
  <2>4. w = [j2 EXCEPT !.branch = id]
    BY <1>9, <2>1, <2>2, <2>3
  <2>5. j0 = Job("idle", <<>>, 0, Root, Root, 0)
    BY <2>1, IdleIs
  <2>6. j1 = Job("measure", <<>>, 0, Root, Root, 0)
    BY <2>2, <2>5 DEF Job
  <2>7. j2 = Job("measure", <<>>, 0, s, Root, 0)
    BY <2>3, <2>6 DEF Job
  <2> QED BY <2>4, <2>7 DEF Job
<1>11. /\ IsJob(w) /\ w.op = "measure" /\ w.todo = <<>> /\ Len(w.todo) = 0
       /\ w.session = s /\ w.branch = id
  <2>1. PICK T, c : T = <<>> /\ c = 0
    OBVIOUS
  <2>2. IsList(T) /\ Len(T) = 0 /\ c \in Nat
    BY <2>1, EmptyList
  <2>3. \A k \in 1..Len(T) : T[k] = Record(T[k].session, T[k].seq, T[k].event)
    BY <2>2
  <2>4. w = Job("measure", T, c, s, id, c)
    BY <1>10, <2>1
  <2>5. IsJob(w) /\ w.op = "measure" /\ w.todo = T /\ w.session = s /\ w.branch = id
    BY <2>2, <2>3, <2>4, JobOf
  <2> QED BY <2>1, <2>2, <2>5
<1>12. IsJobs(job') /\ job'[t] = w /\ ThreadMoves(job, job', t)
  <2>1. job' = [job EXCEPT ![t] = w]
    BY <1>4, <1>9
  <2>2. JobMoves(job, job', t, w)
    BY <1>1, <1>11, <2>1, JobSet
  <2> QED BY <2>2 DEF JobMoves
<1>13. IsPast(past') /\ past'.ops = past.ops + 1 /\ past'.acked = past.acked /\ past'.branches = past.branches
       /\ past'.crashes = past.crashes /\ past'.failures = past.failures
  BY <1>1, <1>3, PastForks
<1>14. ForkGrown(store, store', s, p, id)
  BY <1>1, <1>2, <1>4, <1>5, <1>8, ForkGrows
<1>15. /\ IsStore(store') /\ store'.kind = store.kind /\ store'.total = store.total + p + 1
       /\ store'.forks = store.forks + 1
       /\ DOMAIN store'.sessions = DOMAIN store.sessions \cup {id}
       /\ p \in 1..Len(Log(store, s)) /\ s \in DOMAIN store.sessions /\ s # id
       /\ Log(store', s) = Append(Log(store, s), Audit(s, Log(store, s), id))
       /\ Len(Log(store', s)) = Len(Log(store, s)) + 1
       /\ Len(Log(store', id)) = p
       /\ \A k \in 1..p : Log(store', id)[k].event = Log(store, s)[k].event
       /\ \A x : x # s /\ x # id => Log(store', x) = Log(store, x)
       /\ NothingLost(store, store') /\ GrowsQuietly(Log(store, Root), Log(store', Root))
       /\ Carries(store', id)
  BY <1>14 DEF ForkGrown
<1>16. p \in Nat /\ past.ops \in Nat /\ past.ops <= past'.ops /\ past'.ops \in Nat
       /\ store.forks <= store'.forks /\ store.total \in Nat
  <2>1. Len(Log(store, s)) \in Nat
    BY <1>1, LogIs
  <2>2. p \in Nat
    BY <1>15, <2>1
  <2>3. past.ops \in Nat /\ store.total \in Nat
    BY <1>1 DEF IsPast, IsStore
  <2> QED BY <1>5, <1>13, <1>15, <2>2, <2>3
<1>17. Exact(store')
  BY <1>1, <1>4, <1>8, <1>15, <1>16, ExactForks
<1>18. Acked(store', past'.acked)
  BY <1>1, <1>13, <1>15, AckedStays
<1>19. Clean(store', past') => Clean(store, past)
  <2>1. MaxRecords \in Nat
    BY LogAssumption
  <2>2. store.total >= MaxRecords => store'.total >= MaxRecords
    BY <1>15, <1>16, <2>1
  <2> QED BY <1>13, <1>15, <2>2 DEF Clean
<1>20. PositionsKept(store', plugin', job', past')
  <2>1. job[t].op # "request" /\ job'[t].op # "request"
    BY <1>3, <1>11, <1>12
  <2>2. \A k \in 1..Len(job'[t].todo) : ~SaysAt(job'[t].todo[k])
    BY <1>11, <1>12
  <2>3. PositionsKept(store', plugin, job', past')
    BY <1>1, <1>12, <1>15, <1>19, <2>1, <2>2, QuietKeeps
  <2> QED BY <1>3, <2>3
<1>21. EventsDiffer(store', job', past'.ops)
  <2>1. PICK r : r = Audit(s, Log(store, s), id)
    OBVIOUS
  <2>2. r.event = Forked(id)
    BY <2>1, AuditIs
  <2>3. Log(store', s) = Append(Log(store, s), r)
    BY <1>15, <2>1
  <2>4. Len(job'[t].todo) = 0
    BY <1>11, <1>12
  <2>5. IsStore(store) /\ IsStore(store') /\ s \in DOMAIN store.sessions /\ p \in 1..Len(Log(store, s))
    BY <1>1, <1>15
  <2>6. s # id /\ id # Root /\ id[3] = store.forks /\ store'.forks = store.forks + 1
    BY <1>6, <1>15
  <2>7. /\ Len(Log(store', id)) = p
        /\ \A k \in 1..p : Log(store', id)[k].event = Log(store, s)[k].event
        /\ \A x : x # s /\ x # id => Log(store', x) = Log(store, x)
    BY <1>15
  <2>8. past.ops \in Nat /\ past'.ops \in Nat /\ past.ops <= past'.ops
    BY <1>16
  <2>9. SessionsKnown(store, job, past.branches) /\ EventsDiffer(store, job, past.ops)
    BY <1>7
  <2>10. ThreadMoves(job, job', t)
    BY <1>12
  <2>11. ForksTo(store, store', s, p, id, r)
    BY <2>2, <2>3, <2>5, <2>6, <2>7 DEF ForksTo
  <2> QED BY <2>4, <2>8, <2>9, <2>10, <2>11, ForksDiffer
<1>22. FitJob(store, store', job[t], job'[t], past.branches)
  <2>1. w.op \in ForkOps /\ w.op # "fork"
    BY <1>11 DEF ForkOps
  <2> QED BY <1>6, <1>11, <1>12, <1>15, <2>1 DEF FitJob
<1>23. GivenOut(store', job[t], job'[t], past.branches, past'.branches)
  BY <1>13 DEF GivenOut
<1>24. \A u \in LogThreads \ {t} : job[u].op = "fork" => Log(store', job[u].branch) = Log(store, job[u].branch)
  <2> SUFFICES ASSUME NEW u \in LogThreads \ {t}, job[u].op = "fork"
               PROVE  job[u].branch # s /\ job[u].branch # id
    BY <1>15
  <2>1. job[u].op \in ForkOps
    BY DEF ForkOps
  <2>2. job[u].branch \notin past.branches /\ job[u].branch # Root
    BY <1>7, <2>1 DEF ForksApart
  <2>3. Known(job[u].branch, store.forks)
    BY <1>7 DEF SessionsKnown
  <2> QED BY <1>6, <2>2, <2>3
<1>25. \A x \in DOMAIN store'.sessions : x \in DOMAIN store.sessions \/ Known(x, store'.forks)
  BY <1>6, <1>15
<1>26. Calm(store', job', past')
  BY <1>1, <1>12, <1>15, <1>16, <1>21, <1>22, <1>23, <1>24, <1>25, CalmKeeps
<1>27. IsPlugin(plugin') /\ past'.crashes = 0
  BY <1>1, <1>3, <1>13
<1> QED BY <1>12, <1>13, <1>15, <1>17, <1>18, <1>20, <1>26, <1>27, FromLogParts

\* What a fork in the file backend has to write: the copies, then the record of it.
Copies(todo, log, p, s, id) ==
    /\ IsList(todo) /\ Len(todo) = p + 1
    /\ \A k \in 1..Len(todo) : /\ todo[k] = Record(todo[k].session, todo[k].seq, todo[k].event)
                               /\ k \in 1..p \/ k = p + 1
    /\ \A k \in 1..p : /\ todo[k].session = id /\ todo[k].event = log[k].event
                       /\ k \in 1..Len(log)
    /\ todo[p + 1].session = s /\ todo[p + 1].event = Forked(id)

\* The writes of a fork in the file backend.
LEMMA CopiesIs ==
    ASSUME NEW log, IsList(log), NEW p \in 1..Len(log), NEW s, NEW id,
           \A k \in 1..Len(log) : log[k] = Record(log[k].session, log[k].seq, log[k].event)
    PROVE  Copies(Append(Prefix(log, p, id), Audit(s, log, id)), log, p, s, id)
<1>1. PICK pre, r, todo : pre = Prefix(log, p, id) /\ r = Audit(s, log, id) /\ todo = Append(pre, r)
  OBVIOUS
<1>2. Len(log) \in Nat /\ p \in Nat /\ p \in 0..Len(log)
  BY ListHas
<1>3. /\ IsList(pre) /\ Len(pre) = p
      /\ \A k \in 1..p : /\ pre[k] = Record(id, log[k].seq, log[k].event)
                         /\ pre[k].session = id /\ pre[k].event = log[k].event /\ k \in 1..Len(log)
  BY <1>1, <1>2, PrefixIs
<1>4. r = Record(r.session, r.seq, r.event) /\ r.session = s /\ r.event = Forked(id)
  BY <1>1, AuditIs
<1>5. /\ IsList(todo) /\ Len(todo) = Len(pre) + 1 /\ todo[Len(pre) + 1] = r
      /\ \A k \in 1..Len(pre) : todo[k] = pre[k]
      /\ \A k \in 1..Len(todo) : k = Len(pre) + 1 \/ k \in 1..Len(pre)
  <2>1. IsList(pre)
    BY <1>3
  <2>2. /\ IsList(Append(pre, r)) /\ Len(Append(pre, r)) = Len(pre) + 1
        /\ Append(pre, r)[Len(pre) + 1] = r
        /\ \A k \in 1..Len(pre) : Append(pre, r)[k] = pre[k]
        /\ \A k \in 1..Len(Append(pre, r)) : k = Len(pre) + 1 \/ k \in 1..Len(pre)
    BY <2>1, ListGrows
  <2> QED BY <1>1, <2>2
<1>6. \A k \in 1..p : todo[k] = pre[k] /\ todo[k] = Record(todo[k].session, todo[k].seq, todo[k].event)
  <2> TAKE k \in 1..p
  <2>1. todo[k] = pre[k] /\ pre[k] = Record(id, log[k].seq, log[k].event)
    BY <1>3, <1>5
  <2>2. PICK x, a, b : x = pre[k] /\ a = log[k].seq /\ b = log[k].event
    OBVIOUS
  <2>3. x = Record(id, a, b)
    BY <2>1, <2>2
  <2>4. x = Record(x.session, x.seq, x.event)
    BY <2>3 DEF Record
  <2> QED BY <2>1, <2>2, <2>4
<1>7. Copies(todo, log, p, s, id)
  BY <1>3, <1>4, <1>5, <1>6 DEF Copies
<1> QED BY <1>1, <1>7

\* The fork in the file backend begins with nothing copied.
LEMMA CopyingBegins ==
    ASSUME NEW n, NEW w, NEW s, NEW id, NEW p \in Nat, NEW log, log = Log(n, s),
           HasPoint(log, id[2]), p = PointAt(log, id[2]), Len(Log(n, id)) = 0,
           w.session = s, w.branch = id, Copies(w.todo, log, p, s, id)
    PROVE  Copying(n, w)
<1>1. /\ Len(w.todo) = p - 0 + 1 /\ 0 <= p
      /\ \A k \in 1..(p - 0) : /\ w.todo[k].session = id /\ w.todo[k].event = log[0 + k].event
      /\ w.todo[p - 0 + 1].session = s /\ w.todo[p - 0 + 1].event = Forked(id)
  <2>1. /\ Len(w.todo) = p + 1 /\ w.todo[p + 1].session = s /\ w.todo[p + 1].event = Forked(id)
        /\ \A k \in 1..p : w.todo[k].session = id /\ w.todo[k].event = log[k].event
    BY DEF Copies
  <2>2. p - 0 = p /\ \A k \in 1..p : 0 + k = k
    OBVIOUS
  <2> QED BY <2>1, <2>2
<1>2. Copied(log, Log(n, id), 0)
  BY DEF Copied
<1> QED BY <1>1, <1>2 DEF Copying

\* Fork, in the file backend.
LEMMA ForkFileKeeps ==
    ASSUME LogInv, NEW t \in LogThreads, NEW s \in {Root} \cup past.branches,
           NEW seq, HasPoint(Log(store, s), seq), Fork(t, s, seq), store.kind # "memory"
    PROVE  LogInv' /\ NothingLost(store, store')
<1>1. /\ IsStore(store) /\ IsPlugin(plugin) /\ IsJobs(job) /\ IsPast(past)
      /\ PositionsKept(store, plugin, job, past)
      /\ Acked(store, past.acked) /\ Exact(store)
      /\ past.crashes = 0 => Calm(store, job, past)
  BY LogParts
<1>2. PICK id, log, p, todo, forks :
         /\ id = BranchId(s, seq) /\ log = Log(store, s) /\ p = PointAt(Log(store, s), seq)
         /\ todo = Append(Prefix(log, p, id), Audit(s, log, id)) /\ forks = store.forks + 1
  OBVIOUS
<1>3. PICK w : w = [Idle EXCEPT !.op = "fork", !.session = s, !.branch = id, !.todo = todo]
  OBVIOUS
<1>4. /\ job[t].op = "idle" /\ past' = [past EXCEPT !.ops = @ + 1, !.forks = @ + 1]
      /\ plugin' = plugin /\ ForkFile(t, s, seq)
  BY DEF Fork
<1>5. store' = [store EXCEPT !.forks = forks] /\ job' = [job EXCEPT ![t] = w]
  BY <1>2, <1>3, <1>4 DEF ForkFile
<1>6. id = <<s, seq, store.forks>> /\ store.forks \in Nat /\ forks \in Nat
  BY <1>1, <1>2 DEF BranchId, IsStore
<1>7. /\ id # Root /\ id[1] = s /\ id[2] = seq /\ id[3] = store.forks
      /\ ~Known(id, store.forks) /\ Known(id, store.forks + 1)
      /\ Forked(id).kind = "fork" /\ Forked(id).to = id
      /\ \A ops : ~Dated(Forked(id), ops, store.forks) /\ Dated(Forked(id), ops, store.forks + 1)
  BY <1>6, BranchIsNew
<1>8. SameStore(store, store', forks)
  BY <1>1, <1>5, <1>6, StoreSets
<1>9. /\ IsStore(store') /\ store'.kind = store.kind /\ store'.total = store.total
      /\ store'.forks = store.forks + 1
      /\ DOMAIN store'.sessions = DOMAIN store.sessions
      /\ (\A x : Log(store', x) = Log(store, x)) /\ NothingLost(store, store') /\ Exact(store')
  BY <1>1, <1>2, <1>8 DEF SameStore
<1>10. HasPoint(log, seq) /\ p = PointAt(log, seq) /\ IsList(log) /\ Len(log) \in Nat
  BY <1>1, <1>2, LogIs
<1>11. p \in 1..Len(log) /\ p \in Nat
  <2>1. p \in 1..Len(log)
    BY <1>10, PointIs
  <2> QED BY <1>10, <2>1
<1>12. Copies(todo, log, p, s, id)
  <2>1. \A k \in 1..Len(log) : log[k] = Record(log[k].session, log[k].seq, log[k].event)
    BY <1>1, <1>2, LogIs
  <2> QED BY <1>2, <1>10, <1>11, <2>1, CopiesIs
<1>13. w = Job("fork", todo, 0, s, id, 0)
  <2>1. PICK j0 : j0 = Idle
    OBVIOUS
  <2>2. PICK j1 : j1 = [j0 EXCEPT !.op = "fork"]
    OBVIOUS
  <2>3. PICK j2 : j2 = [j1 EXCEPT !.session = s]
    OBVIOUS
  <2>4. PICK j3 : j3 = [j2 EXCEPT !.branch = id]
    OBVIOUS
  <2>5. w = [j3 EXCEPT !.todo = todo]
    BY <1>3, <2>1, <2>2, <2>3, <2>4
  <2>6. j0 = Job("idle", <<>>, 0, Root, Root, 0)
    BY <2>1, IdleIs
  <2>7. j1 = Job("fork", <<>>, 0, Root, Root, 0)
    BY <2>2, <2>6 DEF Job
  <2>8. j2 = Job("fork", <<>>, 0, s, Root, 0)
    BY <2>3, <2>7 DEF Job
  <2>9. j3 = Job("fork", <<>>, 0, s, id, 0)
    BY <2>4, <2>8 DEF Job
  <2> QED BY <2>5, <2>9 DEF Job
<1>14. /\ IsJob(w) /\ w.op = "fork" /\ w.todo = todo /\ w.session = s /\ w.branch = id
  <2>1. IsList(todo) /\ \A k \in 1..Len(todo) : todo[k] = Record(todo[k].session, todo[k].seq, todo[k].event)
    BY <1>12 DEF Copies
  <2>2. PICK c : c = 0 /\ c \in Nat
    OBVIOUS
  <2>3. w = Job("fork", todo, c, s, id, c)
    BY <1>13, <2>2
  <2> QED BY <2>1, <2>2, <2>3, JobOf
<1>15. IsJobs(job') /\ job'[t] = w /\ ThreadMoves(job, job', t)
  <2>1. JobMoves(job, job', t, w)
    BY <1>1, <1>5, <1>14, JobSet
  <2> QED BY <2>1 DEF JobMoves
<1>16. IsPast(past') /\ past'.ops = past.ops + 1 /\ past'.acked = past.acked /\ past'.branches = past.branches
       /\ past'.crashes = past.crashes /\ past'.failures = past.failures
  BY <1>1, <1>4, PastForks
<1>17. past.ops \in Nat /\ past.ops <= past'.ops /\ past'.ops \in Nat /\ store.forks <= store'.forks
  <2>1. past.ops \in Nat
    BY <1>1 DEF IsPast
  <2> QED BY <1>6, <1>9, <1>16, <2>1
<1>18. Acked(store', past'.acked) /\ GrowsQuietly(Log(store, Root), Log(store', Root))
  BY <1>1, <1>8, <1>16, SameKeeps
<1>19. PositionsKept(store', plugin', job', past')
  <2>1. job[t].op # "request" /\ job'[t].op # "request"
    BY <1>4, <1>14, <1>15
  <2>2. \A k \in 1..Len(todo) : ~SaysAt(todo[k])
    <3> TAKE k \in 1..Len(todo)
    <3>1. CASE k \in 1..p
      BY <1>7, <1>12, <3>1 DEF Copies, SaysAt
    <3>2. CASE k = p + 1
      <4>1. todo[k].event = Forked(id)
        BY <1>12, <3>2 DEF Copies
      <4> QED BY <1>7, <4>1 DEF SaysAt, Speaks
    <3> QED BY <1>12, <3>1, <3>2 DEF Copies
  <2>3. \A k \in 1..Len(job'[t].todo) : ~SaysAt(job'[t].todo[k])
    BY <1>14, <1>15, <2>2
  <2>4. Clean(store', past') => Clean(store, past)
    BY <1>9, <1>16 DEF Clean
  <2>5. PositionsKept(store', plugin, job', past')
    BY <1>1, <1>15, <1>18, <2>1, <2>3, <2>4, QuietKeeps
  <2> QED BY <1>4, <2>5
<1>20. ASSUME past'.crashes = 0
       PROVE  Calm(store', job', past')
  <2>1. /\ Calm(store, job, past) /\ SessionsKnown(store, job, past.branches)
        /\ EventsDiffer(store, job, past.ops)
    BY <1>1, <1>16, <1>20 DEF Calm
  <2>2. /\ \A x : \A k \in 1..Len(Log(store, x)) : Dated(Log(store, x)[k].event, past.ops, store.forks)
        /\ \A x : \A k, l \in 1..Len(Log(store, x)) :
              Log(store, x)[k].event = Log(store, x)[l].event => k = l
        /\ \A x : ~Known(x, store.forks) => x \notin DOMAIN store.sessions /\ Len(Log(store, x)) = 0
    <3>1. EventsDated(store, job, past.ops) /\ LogsDiffer(store)
      BY <2>1 DEF EventsDiffer
    <3> QED BY <1>1, <2>1, <3>1, Everywhere
  <2>3. Known(s, store.forks) /\ s # id
    <3>1. Known(s, store.forks)
      BY <2>1 DEF SessionsKnown, Known
    <3> QED BY <1>7, <3>1
  <2>4. \A e : Dated(e, past.ops, store.forks) => Dated(e, past'.ops, store'.forks)
    <3>1. store'.forks \in Nat
      BY <1>2, <1>6, <1>9
    <3> QED BY <1>6, <1>17, <3>1, DatedStays
  <2>5. \A k \in 1..Len(todo) : /\ Dated(todo[k].event, past'.ops, store'.forks)
                                /\ Fresh(todo[k], past.ops, store.forks)
    <3> TAKE k \in 1..Len(todo)
    <3>1. CASE k \in 1..p
      <4>1. todo[k].session = id /\ todo[k].event = log[k].event /\ k \in 1..Len(log)
        BY <1>12, <3>1 DEF Copies
      <4>2. Dated(todo[k].event, past.ops, store.forks)
        BY <1>2, <2>2, <4>1
      <4> QED BY <1>7, <2>4, <4>1, <4>2 DEF Fresh
    <3>2. CASE k = p + 1
      <4>1. todo[k].event = Forked(id)
        BY <1>12, <3>2 DEF Copies
      <4> QED BY <1>7, <1>9, <4>1 DEF Fresh
    <3> QED BY <1>12, <3>1, <3>2 DEF Copies
  <2>6. \A k, l \in 1..Len(todo) :
           todo[k].session = todo[l].session /\ todo[k].event = todo[l].event => k = l
    <3>1. \A k \in 1..p : todo[k].session = id /\ todo[k].event = log[k].event /\ k \in 1..Len(log)
      BY <1>12 DEF Copies
    <3>2. todo[p + 1].session = s /\ \A k \in 1..Len(todo) : k \in 1..p \/ k = p + 1
      BY <1>12 DEF Copies
    <3>3. \A k, l \in 1..Len(log) : log[k].event = log[l].event => k = l
      BY <1>2, <2>2
    <3> TAKE k, l \in 1..Len(todo)
    <3> HAVE todo[k].session = todo[l].session /\ todo[k].event = todo[l].event
    <3>4. CASE k \in 1..p /\ l \in 1..p
      BY <3>1, <3>3, <3>4
    <3>5. CASE k = p + 1 /\ l = p + 1
      BY <3>5
    <3>6. CASE (k \in 1..p /\ l = p + 1) \/ (l \in 1..p /\ k = p + 1)
      BY <2>3, <3>1, <3>2, <3>6
    <3> QED BY <3>2, <3>4, <3>5, <3>6
  <2>7. EventsDiffer(store', job', past'.ops)
    <3>1. \A k \in 1..Len(job'[t].todo) : /\ Dated(job'[t].todo[k].event, past'.ops, store'.forks)
                                          /\ Fresh(job'[t].todo[k], past.ops, store.forks)
      BY <1>14, <1>15, <2>5
    <3>2. \A k, l \in 1..Len(job'[t].todo) :
             /\ job'[t].todo[k].session = job'[t].todo[l].session
             /\ job'[t].todo[k].event = job'[t].todo[l].event
             => k = l
      BY <1>14, <1>15, <2>6
    <3> QED BY <1>1, <1>9, <1>15, <1>17, <2>1, <3>1, <3>2, TakesDiffer
  <2>8. FitJob(store, store', job[t], job'[t], past.branches)
    <3>1. w.op \in ForkOps /\ w.op \notin {"measure", "realign"}
      BY <1>14 DEF ForkOps
    <3>2. Copying(store', w)
      <4>1. log = Log(store', s) /\ HasPoint(log, id[2]) /\ p = PointAt(log, id[2])
        BY <1>2, <1>7, <1>9, <1>10
      <4>2. Len(Log(store', id)) = 0
        BY <1>7, <1>9, <2>2
      <4>3. Copies(w.todo, log, p, s, id) /\ w.session = s /\ w.branch = id
        BY <1>12, <1>14
      <4> QED BY <1>11, <4>1, <4>2, <4>3, CopyingBegins
    <3>3. \A k \in 1..Len(w.todo) : /\ Known(w.todo[k].session, store'.forks)
                                    /\ w.todo[k].session \in {Root} \cup past.branches \cup {w.branch}
      <4> TAKE k \in 1..Len(w.todo)
      <4>1. w.todo[k].session \in {id, s}
        BY <1>12, <1>14 DEF Copies
      <4>2. Known(s, store'.forks)
        BY <1>6, <1>9, <2>3 DEF Known
      <4> QED BY <1>7, <1>9, <1>14, <4>1, <4>2
    <3> QED BY <1>7, <1>9, <1>14, <1>15, <3>1, <3>2, <3>3 DEF FitJob
  <2>9. GivenOut(store', job[t], job'[t], past.branches, past'.branches)
    BY <1>16 DEF GivenOut
  <2>10. \A x \in DOMAIN store'.sessions : x \in DOMAIN store.sessions \/ Known(x, store'.forks)
    BY <1>9
  <2>11. \A u \in LogThreads \ {t} : job[u].op = "fork" => Log(store', job[u].branch) = Log(store, job[u].branch)
    BY <1>9
  <2> QED BY <1>1, <1>9, <1>15, <1>17, <2>1, <2>7, <2>8, <2>9, <2>10, <2>11, CalmKeeps
<1>21. IsPlugin(plugin') /\ store'.kind # "memory"
  BY <1>1, <1>4, <1>9
<1> QED BY <1>9, <1>15, <1>16, <1>18, <1>19, <1>20, <1>21, FromLogParts

\* The invariant holds at the start.
LEMMA LogStarts == LogInit => LogInv
<1> SUFFICES ASSUME LogInit
             PROVE  LogInv
  OBVIOUS
<1>1. PICK kind, none :
         /\ kind \in LogBackends /\ none = [s \in {} |-> <<>>]
         /\ store = [kind |-> kind, sessions |-> none, total |-> 0, forks |-> 0, torn |-> {}]
  <2>1. PICK k \in LogBackends :
           store = [kind |-> k, sessions |-> [s \in {} |-> <<>>], total |-> 0, forks |-> 0,
                    torn |-> {}]
    BY DEF LogInit
  <2>2. PICK f : f = [s \in {} |-> <<>>]
    OBVIOUS
  <2>3. store = [kind |-> k, sessions |-> f, total |-> 0, forks |-> 0, torn |-> {}]
    BY <2>1, <2>2
  <2> WITNESS k, f
  <2> QED BY <2>2, <2>3
<1>2. DOMAIN none = {} /\ none = [s \in DOMAIN none |-> none[s]]
  BY <1>1
<1>3. kind \in {"memory", "file"}
  BY <1>1, LogAssumption
<1>4. /\ store.kind = kind /\ store.sessions = none /\ store.total = 0 /\ store.forks = 0
      /\ store.torn = {}
  BY <1>1
<1>5. IsStore(store)
  <2>1. store = [kind |-> store.kind, sessions |-> store.sessions, total |-> store.total,
                 forks |-> store.forks, torn |-> store.torn]
    BY <1>1, <1>4
  <2>2. IsFiniteSet(DOMAIN store.sessions)
    BY <1>2, <1>4, FS_EmptySet
  <2> QED BY <1>2, <1>3, <1>4, <2>1, <2>2 DEF IsStore
<1>6. \A s : Len(Log(store, s)) = 0
  BY <1>2, <1>4, <1>5, LogIs
<1>7. IsPlugin(plugin) /\ plugin.lock = NoThread
  <2>1. PICK f : f = [s \in {} |-> 0]
    OBVIOUS
  <2>2. plugin = [next |-> f, recorded |-> 0, lock |-> NoThread]
    BY <2>1 DEF LogInit
  <2> QED BY <2>2, PluginOf
<1>8. job = [t \in LogThreads |-> Idle]
  BY DEF LogInit
<1>9. IsJobs(job) /\ \A u \in LogThreads : job[u] = Idle
  BY <1>8, IdleIs DEF IsJobs
<1>10. \A u \in LogThreads : /\ job[u].op = "idle" /\ Len(job[u].todo) = 0 /\ job[u].branch = Root
  BY <1>9, IdleIs
<1>11. IsPast(past) /\ past.acked = {} /\ past.branches = {} /\ past.crashes = 0 /\ past.ops = 0
  <2>1. past = Past({}, 0, {}, 0, 0, 0)
    BY DEF LogInit, Past
  <2>2. PICK e, z : e = {} /\ z = 0
    OBVIOUS
  <2>3. past = Past(e, z, e, z, z, z) /\ z \in Nat
    BY <2>1, <2>2
  <2>4. IsPast(past) /\ past.acked = e /\ past.branches = e /\ past.crashes = z /\ past.ops = z
    BY <2>3, PastOf
  <2> QED BY <2>2, <2>4
<1>12. PositionsKept(store, plugin, job, past)
  <2>1. LockHeld(plugin, job)
    BY <1>7, <1>10, LogAssumption DEF LockHeld
  <2>2. RequestsAhead(plugin, job)
    BY <1>10 DEF RequestsAhead
  <2>3. PositionsBehind(Log(store, Root), plugin, job)
    BY <1>6 DEF PositionsBehind
  <2> QED BY <2>1, <2>2, <2>3 DEF PositionsKept
<1>13. Acked(store, past.acked)
  BY <1>11 DEF Acked
<1>14. Exact(store)
  <2>1. HeldBy(store) = 0
    <3>1. PICK S, f : S = DOMAIN store.sessions /\ f = Sizes(store)
      OBVIOUS
    <3>2. S = {} /\ IsFiniteSet(S)
      BY <1>2, <1>4, <3>1, FS_EmptySet
    <3>3. SumFunctionOnSet(f, S) = 0
      BY <3>2, SumOfNats
    <3> QED BY <3>1, <3>3 DEF HeldBy
  <2>2. MaxRecords \in Nat
    BY LogAssumption
  <2>3. store.total = HeldBy(store) /\ store.total <= MaxRecords
    BY <1>4, <2>1, <2>2
  <2> QED BY <1>5, <2>3, GaugeIs
<1>15. Calm(store, job, past)
  <2>1. SessionsKnown(store, job, past.branches)
    BY <1>2, <1>4, <1>10, <1>11 DEF SessionsKnown, Known
  <2>2. EventsDated(store, job, past.ops)
    BY <1>6, <1>10 DEF EventsDated
  <2>3. LogsDiffer(store)
    BY <1>6 DEF LogsDiffer
  <2>4. PendingNew(store, job) /\ PendingDiffer(job)
    BY <1>10 DEF PendingNew, PendingDiffer
  <2>5. EventsDiffer(store, job, past.ops)
    BY <2>2, <2>3, <2>4 DEF EventsDiffer
  <2>6. WritesOwn(job, past.branches)
    BY <1>10 DEF WritesOwn
  <2>7. ForksApart(job, past.branches)
    BY <1>10, <1>11 DEF ForksApart, ForkOps
  <2>8. ForksKept(store, job, past.branches)
    BY <1>10, <1>11 DEF ForksKept
  <2> QED BY <2>1, <2>5, <2>6, <2>7, <2>8 DEF Calm
<1> QED BY <1>5, <1>7, <1>9, <1>11, <1>12, <1>13, <1>14, <1>15 DEF LogInv, LogHolds, LogTyped

\* Every step keeps it, and no log loses anything.
LEMMA LogSteps ==
    ASSUME LogInv, [LogNext]_logVars
    PROVE  LogInv' /\ NothingLost(store, store')
<1>1. CASE UNCHANGED logVars
  <2>1. store' = store /\ plugin' = plugin /\ job' = job /\ past' = past
    BY <1>1 DEF logVars
  <2>2. NothingLost(store, store)
    BY LogParts, QuietItself
  <2>3. LogInv'
    BY <2>1 DEF LogInv
  <2> QED BY <2>1, <2>2, <2>3
<1>2. ASSUME NEW t \in LogThreads, NEW history \in Histories, BeginRequest(t, history)
      PROVE  LogInv' /\ NothingLost(store, store')
  BY <1>2, RequestBegins
<1>3. ASSUME NEW t \in LogThreads, Chunk(t) \/ Complete(t)
      PROVE  LogInv' /\ NothingLost(store, store')
  BY <1>3, ChunkKeeps, CompleteKeeps
<1>4. ASSUME NEW t \in LogThreads, NEW s \in past.branches, AppendLog(t, s)
      PROVE  LogInv' /\ NothingLost(store, store')
  BY <1>4, AppendLogKeeps
<1>5. ASSUME NEW t \in LogThreads, Number(t) \/ AppendStored(t) \/ AppendFails(t)
      PROVE  LogInv' /\ NothingLost(store, store')
  BY <1>5, NumberKeeps, AppendStoredKeeps, AppendFailsKeeps
<1>6. ASSUME NEW t \in LogThreads, NothingToRecord(t) \/ Measure(t) \/ Realign(t)
      PROVE  LogInv' /\ NothingLost(store, store')
  BY <1>6, NothingToRecordKeeps, MeasureKeeps, RealignKeeps
<1>7. ASSUME NEW t \in LogThreads, NEW s \in {Root} \cup past.branches,
             NEW i \in 1..Len(Log(store, s)), Fork(t, s, Log(store, s)[i].seq)
      PROVE  LogInv' /\ NothingLost(store, store')
  <2>1. PICK seq : seq = Log(store, s)[i].seq
    OBVIOUS
  <2>2. HasPoint(Log(store, s), seq) /\ Fork(t, s, seq)
    BY <1>7, <2>1 DEF HasPoint
  <2>3. CASE store.kind = "memory"
    BY <2>2, <2>3, ForkMemoryKeeps
  <2>4. CASE store.kind # "memory"
    BY <2>2, <2>4, ForkFileKeeps
  <2> QED BY <2>3, <2>4
<1>8. CASE Crash
  BY <1>8, CrashKeeps
<1> QED BY <1>1, <1>2, <1>3, <1>4, <1>5, <1>6, <1>7, <1>8 DEF LogNext

\* The session log always has its invariant (SessionLogPlugin and its backends).
THEOREM LogInvariant == LogSpec => []LogInv
<1>1. LogInv /\ [LogNext]_logVars => LogInv'
  BY LogSteps
<1> QED BY <1>1, LogStarts, PTL DEF LogSpec

-----------------------------------------------------------------------------
(* What follows.                                                           *)

\* The invariant says that a position is recorded once.
LEMMA PositionsFollow == LogInv => PositionsOnce
<1> SUFFICES ASSUME LogInv, past.crashes = 0, past.failures = 0, ~AtCap,
                    NEW i \in 1..Len(Log(store, Root)), NEW j \in 1..Len(Log(store, Root)),
                    Speaks(Log(store, Root)[i].event.kind), Speaks(Log(store, Root)[j].event.kind),
                    Log(store, Root)[i].event.at = Log(store, Root)[j].event.at
             PROVE  i = j
  BY DEF PositionsOnce
<1>1. PositionsKept(store, plugin, job, past)
  BY LogParts
<1>2. Clean(store, past)
  BY DEF Clean, AtCap
<1>3. PositionsBehind(Log(store, Root), plugin, job)
  BY <1>1, <1>2 DEF PositionsKept
<1> QED BY <1>3 DEF PositionsBehind

\* A message position of the session is recorded once in the life of the process,
\* however the turns interleave (on_request under the lock of recorded_messages).
THEOREM PositionsAlwaysOnce == LogSpec => []PositionsOnce
BY LogInvariant, PositionsFollow, PTL

\* One event, one place.
LEMMA OneOf ==
    ASSUME NEW S, NEW x, S = {x}
    PROVE  Cardinality(S) = 1
BY FS_Singleton

\* What is acknowledged is in the log, and until a crash once.
LEMMA AckedFollows == LogInv => AckedIsKept
<1> SUFFICES ASSUME LogInv, NEW a \in past.acked
             PROVE  /\ Cardinality(Logged(a[1], a[2])) >= 1
                    /\ past.crashes = 0 => Cardinality(Logged(a[1], a[2])) = 1
  BY DEF AckedIsKept
<1>1. IsStore(store) /\ Acked(store, past.acked) /\ (past.crashes = 0 => Calm(store, job, past))
  BY LogParts
<1>2. PICK log, S, event : log = Log(store, a[1]) /\ S = Logged(a[1], a[2]) /\ event = a[2]
  OBVIOUS
<1>3. Len(log) \in Nat /\ S = {i \in 1..Len(log) : log[i].event = event}
  BY <1>1, <1>2, LogIs DEF Logged
<1>4. PICK i \in 1..Len(log) : log[i].event = event
  BY <1>1, <1>2 DEF Acked
<1>5. IsFiniteSet(S)
  <2>1. IsFiniteSet(1..Len(log))
    BY <1>3, FS_Interval
  <2>2. S \subseteq 1..Len(log)
    BY <1>3
  <2> QED BY <2>1, <2>2, FS_Subset
<1>6. i \in S
  BY <1>3, <1>4
<1>7. Cardinality(S) \in Nat /\ Cardinality(S) # 0
  <2>1. Cardinality(S) \in Nat
    BY <1>5, FS_CardinalityType
  <2>2. Cardinality(S) # 0
    BY <1>5, <1>6, FS_EmptySet
  <2> QED BY <2>1, <2>2
<1>8. ASSUME past.crashes = 0
      PROVE  Cardinality(S) = 1
  <2>1. LogsDiffer(store)
    BY <1>1, <1>8 DEF Calm, EventsDiffer
  <2>2. \A k, l \in 1..Len(log) : log[k].event = log[l].event => k = l
    BY <1>1, <1>2, <2>1, Everywhere
  <2>3. S = {i}
    BY <1>3, <1>4, <2>2
  <2> QED BY <2>3, OneOf
<1> QED BY <1>2, <1>7, <1>8

\* A branch that was given out carries its original's prefix.
LEMMA ForksFollow == LogInv => ForkCarriesPrefix
<1> SUFFICES ASSUME LogInv, past.crashes = 0, NEW id \in past.branches
             PROVE  LET origin == Log(store, id[1])
                        i == PointAt(origin, id[2])
                    IN /\ i <= Len(Log(store, id))
                       /\ \A j \in 1..i : Log(store, id)[j].event = origin[j].event
                       /\ Cardinality({j \in 1..Len(origin) : origin[j].event.to = id}) = 1
  BY DEF ForkCarriesPrefix
<1>1. /\ IsStore(store) /\ ForksKept(store, job, past.branches) /\ EventsDiffer(store, job, past.ops)
      /\ ForksApart(job, past.branches)
  BY LogParts DEF Calm
<1>2. PICK origin, S : /\ origin = Log(store, id[1])
                       /\ S = {j \in 1..Len(origin) : origin[j].event.to = id}
  OBVIOUS
<1>3. Carries(store, id) /\ id # Root
  BY <1>1 DEF ForksKept, ForksApart
<1>4. Copied(origin, Log(store, id), PointAt(origin, id[2]))
  BY <1>2, <1>3 DEF Carries
<1>5. PICK i \in 1..Len(origin) : origin[i].event = Forked(id)
  BY <1>2, <1>3 DEF Carries
<1>6. /\ \A k \in 1..Len(origin) : Dated(origin[k].event, past.ops, store.forks)
      /\ \A k, l \in 1..Len(origin) : origin[k].event = origin[l].event => k = l
  <2>1. EventsDated(store, job, past.ops) /\ LogsDiffer(store)
    BY <1>1 DEF EventsDiffer
  <2> QED BY <1>1, <1>2, <2>1, Everywhere
<1>7. \A k \in 1..Len(origin) : origin[k].event.to = id => origin[k].event = Forked(id)
  BY <1>3, <1>6 DEF Dated
<1>8. Forked(id).to = id
  BY DEF Forked
<1>9. S = {i}
  BY <1>2, <1>5, <1>6, <1>7, <1>8
<1>10. Cardinality(S) = 1
  BY <1>9, OneOf
<1> QED BY <1>2, <1>4, <1>10 DEF Copied

\* The gauge is exact.
LEMMA GaugeFollows == LogInv => GaugeIsExact
BY LogParts DEF Exact, GaugeIsExact

\* A step only adds to the logs.
LEMMA StepsAppend ==
    ASSUME LogInv, [LogNext]_logVars
    PROVE  AppendOnlyStep
<1>1. IsStore(store) /\ LogInv' /\ NothingLost(store, store')
  BY LogSteps, LogParts
<1>2. IsStore(store')
  BY <1>1 DEF LogInv, LogHolds, LogTyped
<1> SUFFICES ASSUME NEW s \in DOMAIN store.sessions
             PROVE  IsPrefix(Log(store, s), Log(store', s))
  BY DEF AppendOnlyStep
<1>3. PICK a, b : a = Log(store, s) /\ b = Log(store', s)
  OBVIOUS
<1>4. /\ Len(a) <= Len(b) /\ \A i \in 1..Len(a) : b[i] = a[i]
      /\ IsList(a) /\ IsList(b)
  BY <1>1, <1>2, <1>3, LogIs DEF NothingLost
<1>5. IsPrefix(a, b)
  <2>1. Len(a) \in Nat /\ Len(b) \in Nat /\ a \in Seq(ToSet(a)) /\ b \in Seq(ToSet(b))
    BY <1>4, ListHas DEF IsList
  <2>2. PICK S : S = ToSet(a) \cup ToSet(b)
    OBVIOUS
  <2>3. a \in Seq(S) /\ b \in Seq(S)
    BY <2>1, <2>2
  <2> QED BY <1>4, <2>1, <2>3 DEF IsPrefix
<1> QED BY <1>3, <1>5

\* No trajectory is rewritten, what is acknowledged stays, a branch carries its
\* original's prefix and the gauge counts every record (session_log.rs).
THEOREM RecordsAlwaysKept == LogSpec => RecordsAreKept
<1>1. LogInv => AckedIsKept /\ ForkCarriesPrefix /\ GaugeIsExact
  BY AckedFollows, ForksFollow, GaugeFollows
<1>2. LogInv /\ [LogNext]_logVars => [AppendOnlyStep]_logVars
  BY StepsAppend
<1>3. LogSpec => []LogInv
  BY LogInvariant
<1> QED BY <1>1, <1>2, <1>3, PTL DEF RecordsAreKept, AppendOnly, LogSpec

=============================================================================
