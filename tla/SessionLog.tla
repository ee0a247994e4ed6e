----------------------------- MODULE SessionLog -----------------------------
(***************************************************************************)
(* The session log of src/plugins/session_log.rs: hooks and callers append *)
(* events to sessions and fork them, on threads of their own.  The plugin  *)
(* numbers a record under its own lock and gives it to the backend after.  *)
(* The in-memory backend forks under its lock and is capped; the file      *)
(* backend forks by appending one record after another, may fail to write, *)
(* and outlives a crash of the process.                                    *)
(***************************************************************************)
EXTENDS Naturals, Sequences, FiniteSets, FiniteSetsExt, SequencesExt, Functions

CONSTANTS LogThreads, NoThread,
          Unset,        \* the number of a record that has none yet
          Histories,    \* requests: sequences of message roles
          LogBackends,  \* \subseteq {"memory", "file"}
          MaxRecords,   \* InMemoryBackend::max_records
          MaxOps,       \* bound: operations of all threads
          MaxForks, MaxCrashes, MaxFailures  \* bounds

ASSUME LogAssumption ==
    /\ NoThread \notin LogThreads
    /\ Histories \subseteq Seq(STRING)
    /\ LogBackends \subseteq {"memory", "file"}
    /\ MaxRecords \in Nat

VARIABLES store,    \* backend: sessions, total and fork_counter
          plugin,   \* SessionLogPlugin: sequence, recorded_messages and its lock
          job,      \* what each thread is doing
          past      \* what was acknowledged, and how often things went wrong

logVars == <<store, plugin, job, past>>

Root == <<>>        \* the session the hooks write to

Record(session, seq, event) == [session |-> session, seq |-> seq, event |-> event]

Idle == [op |-> "idle", todo |-> <<>>, covered |-> 0, session |-> Root,
         branch |-> Root, len |-> 0]

LogInit ==
    /\ \E kind \in LogBackends :
          store = [kind |-> kind, sessions |-> [s \in {} |-> <<>>], total |-> 0,
                   forks |-> 0, torn |-> {}]
    /\ plugin = [next |-> [s \in {} |-> 0], recorded |-> 0, lock |-> NoThread]
    /\ job = [t \in LogThreads |-> Idle]
    /\ past = [acked |-> {}, ops |-> 0, branches |-> {},
               forks |-> 0, crashes |-> 0, failures |-> 0]

Log(st, s) == IF s \in DOMAIN st.sessions THEN st.sessions[s] ELSE <<>>

Put(f, x, y) == [z \in DOMAIN f \cup {x} |-> IF z = x THEN y ELSE f[z]]

Event(kind, i) == [op |-> past.ops, kind |-> kind, at |-> i, to |-> Root]

Begin(t) == /\ job[t].op = "idle"
            /\ past.ops < MaxOps
            /\ past' = [past EXCEPT !.ops = @ + 1]

-----------------------------------------------------------------------------
(* The hooks.  An on_request keeps the lock of recorded_messages until its *)
(* last append; the positions count from zero.                             *)

Speaks(role) == role \in {"user", "assistant"}

Chosen(history, recorded) ==
    {i \in 1..Len(history) :
        history[i] = "system" \/ (Speaks(history[i]) /\ i - 1 >= recorded)}

InOrder(S) == CHOOSE f \in [1..Cardinality(S) -> S] :
                  \A j, k \in 1..Cardinality(S) : j < k => f[j] < f[k]

ToRecord(history, recorded) ==
    LET S == Chosen(history, recorded)
    IN [k \in 1..Cardinality(S) |->
           LET i == InOrder(S)[k] IN Record(Root, Unset, Event(history[i], i - 1))]

Covered(history, recorded) ==
    Max({recorded} \cup {i \in 1..Len(history) : Speaks(history[i])})

\* Slip: the lock is let go once the count is read.
BeginRequestUnlocked(t, history) ==
    /\ Begin(t)
    /\ job' = [job EXCEPT ![t] = [Idle EXCEPT !.op = "request",
                  !.todo = ToRecord(history, plugin.recorded),
                  !.covered = Covered(history, plugin.recorded)]]
    /\ UNCHANGED <<store, plugin>>

BeginRequest(t, history) ==
    /\ Begin(t)
    /\ plugin.lock = NoThread
    /\ plugin' = [plugin EXCEPT !.lock = t]
    /\ job' = [job EXCEPT ![t] = [Idle EXCEPT !.op = "request",
                  !.todo = ToRecord(history, plugin.recorded),
                  !.covered = Covered(history, plugin.recorded)]]
    /\ UNCHANGED store

\* on_stream_chunk; an image is not logged and is no operation here.
Chunk(t) ==
    /\ Begin(t)
    /\ job' = [job EXCEPT ![t] = [Idle EXCEPT !.op = "append",
                  !.todo = <<Record(Root, Unset, Event("chunk", 0))>>]]
    /\ UNCHANGED <<store, plugin>>

\* on_response_complete: the latency, then the usage.
Complete(t) ==
    /\ Begin(t)
    /\ job' = [job EXCEPT ![t] = [Idle EXCEPT !.op = "append",
                  !.todo = <<Record(Root, Unset, Event("latency", 0)),
                             Record(Root, Unset, Event("usage", 1))>>]]
    /\ UNCHANGED <<store, plugin>>

\* By a caller; to the hooks' session it is what a chunk is.
AppendLog(t, session) ==
    /\ Begin(t)
    /\ job' = [job EXCEPT ![t] = [Idle EXCEPT !.op = "append",
                  !.todo = <<Record(session, Unset, Event("log", 0))>>]]
    /\ UNCHANGED <<store, plugin>>

-----------------------------------------------------------------------------
(* One record at a time: append_event numbers it, the backend stores it.   *)

Number(t) ==
    /\ job[t].todo # <<>>
    /\ job[t].todo[1].seq = Unset
    /\ LET s == job[t].todo[1].session
           n == IF s \in DOMAIN plugin.next THEN plugin.next[s] ELSE 0
       IN /\ job' = [job EXCEPT ![t].todo[1].seq = n]
          /\ plugin' = [plugin EXCEPT !.next = Put(@, s, n + 1)]
    /\ UNCHANGED <<store, past>>

\* A torn frame is followed by whole ones; the file is not read any more.
Stored(st, r) ==
    [st EXCEPT !.sessions = Put(@, r.session, Append(Log(st, r.session), r)),
               !.total = @ + 1]

AtCap == store.kind = "memory" /\ store.total >= MaxRecords

Unlocked(t) == [plugin EXCEPT !.lock = IF @ = t THEN NoThread ELSE @]

\* The next thing to do once an append succeeded; a fork goes on to realign.
Settled(t, rest) ==
    IF rest # <<>> THEN [job[t] EXCEPT !.todo = rest]
    ELSE IF job[t].op = "fork" THEN [job[t] EXCEPT !.op = "measure", !.todo = <<>>]
    ELSE Idle

AppendStored(t) ==
    /\ job[t].todo # <<>>
    /\ job[t].todo[1].seq # Unset
    /\ ~AtCap
    /\ LET r == job[t].todo[1]
           rest == Tail(job[t].todo)
       IN /\ store' = Stored(store, r)
          /\ job' = [job EXCEPT ![t] = Settled(t, rest)]
          /\ past' = [past EXCEPT !.acked = @ \cup {<<r.session, r.event>>}]
          /\ plugin' = IF rest = <<>> /\ job[t].op = "request"
                       THEN [Unlocked(t) EXCEPT !.recorded = job[t].covered]
                       ELSE plugin

\* An on_request that has nothing left to record.
NothingToRecord(t) ==
    /\ job[t].op = "request" /\ job[t].todo = <<>>
    /\ plugin' = [Unlocked(t) EXCEPT !.recorded = job[t].covered]
    /\ job' = [job EXCEPT ![t] = Idle]
    /\ UNCHANGED <<store, past>>

\* The operation ends with the error; its number is gone and recorded stays.
AppendFails(t) ==
    /\ job[t].todo # <<>>
    /\ job[t].todo[1].seq # Unset
    /\ \/ AtCap /\ UNCHANGED <<store, past>>
       \/ /\ store.kind = "file" /\ past.failures < MaxFailures
          /\ past' = [past EXCEPT !.failures = @ + 1]
          /\ \/ UNCHANGED store
             \/ store' = [store EXCEPT !.torn = @ \cup {job[t].todo[1].session}]
    /\ plugin' = Unlocked(t)
    /\ job' = [job EXCEPT ![t] = Idle]

-----------------------------------------------------------------------------
(* fork_session *)

\* The first record with the number, the one its point_id finds.
PointAt(log, seq) == Min({i \in 1..Len(log) : log[i].seq = seq})

\* The id of a branch: "{session}:fork:{point}:{n}".
BranchId(session, seq) == <<session, seq, store.forks>>

Prefix(log, i, id) == [j \in 1..i |-> [log[j] EXCEPT !.session = id]]

Audit(session, log, id) ==
    Record(session, Len(log), [op |-> 0, kind |-> "fork", at |-> 0, to |-> id])

\* All or nothing, under the backend's lock.
ForkInMemory(t, s, seq) ==
    LET log == Log(store, s)
        i == PointAt(log, seq)
        id == BranchId(s, seq)
    IN /\ store.total + i < MaxRecords
       /\ store' = [store EXCEPT !.total = @ + i + 1, !.forks = @ + 1,
                        !.sessions = Put(Put(@, id, Prefix(log, i, id)),
                                         s, Append(log, Audit(s, log, id)))]
       /\ job' = [job EXCEPT ![t] = [Idle EXCEPT !.op = "measure", !.session = s,
                                                 !.branch = id]]

\* Slip: the branch stops before the fork point.
ForkFileBefore(t, s, seq) ==
    LET log == Log(store, s)
        i == PointAt(log, seq)
        id == BranchId(s, seq)
    IN /\ s \notin store.torn
       /\ store' = [store EXCEPT !.forks = @ + 1]
       /\ job' = [job EXCEPT ![t] =
                     [Idle EXCEPT !.op = "fork", !.session = s, !.branch = id,
                         !.todo = Append(Prefix(log, i - 1, id), Audit(s, log, id))]]

\* Reads the file and goes on to append the branch, then the audit record.
ForkFile(t, s, seq) ==
    LET log == Log(store, s)
        i == PointAt(log, seq)
        id == BranchId(s, seq)
    IN /\ s \notin store.torn
       /\ store' = [store EXCEPT !.forks = @ + 1]
       /\ job' = [job EXCEPT ![t] =
                     [Idle EXCEPT !.op = "fork", !.session = s, !.branch = id,
                         !.todo = Append(Prefix(log, i, id), Audit(s, log, id))]]

\* A point that does not exist, a full store or a torn file change nothing.
Fork(t, s, seq) ==
    /\ past.forks < MaxForks
    /\ job[t].op = "idle" /\ past.ops < MaxOps
    /\ past' = [past EXCEPT !.ops = @ + 1, !.forks = @ + 1]
    /\ IF store.kind = "memory" THEN ForkInMemory(t, s, seq) ELSE ForkFile(t, s, seq)
    /\ UNCHANGED plugin

\* The length that the replay after the fork finds; a torn file has none.
Measure(t) ==
    /\ job[t].op = "measure"
    /\ job' = [job EXCEPT ![t] =
                  IF job[t].session \in store.torn THEN Idle
                  ELSE [@ EXCEPT !.op = "realign",
                                 !.len = Len(Log(store, job[t].session))]]
    /\ UNCHANGED <<store, plugin, past>>

\* The caller gets the branch's id.
Realign(t) ==
    /\ job[t].op = "realign"
    /\ plugin' = [plugin EXCEPT !.next = Put(@, job[t].session, job[t].len)]
    /\ past' = [past EXCEPT !.branches = @ \cup {job[t].branch}]
    /\ job' = [job EXCEPT ![t] = Idle]
    /\ UNCHANGED store

-----------------------------------------------------------------------------
(* The process dies, perhaps in the middle of a frame, and starts again    *)
(* over the same directory.                                                *)

Writing == {job[t].todo[1].session :
               t \in {t \in LogThreads : job[t].todo # <<>> /\ job[t].todo[1].seq # Unset}}

Crash ==
    /\ store.kind = "file"
    /\ past.crashes < MaxCrashes
    /\ \/ store' = [store EXCEPT !.forks = 0]
       \/ \E s \in Writing : store' = [store EXCEPT !.forks = 0, !.torn = @ \cup {s}]
    /\ plugin' = [next |-> [s \in {} |-> 0], recorded |-> 0, lock |-> NoThread]
    /\ job' = [t \in LogThreads |-> Idle]
    /\ past' = [past EXCEPT !.crashes = @ + 1]

LogNext ==
    \/ \E t \in LogThreads : \E history \in Histories : BeginRequest(t, history)
    \/ \E t \in LogThreads : Chunk(t) \/ Complete(t)
    \/ \E t \in LogThreads : \E s \in past.branches : AppendLog(t, s)
    \/ \E t \in LogThreads : Number(t) \/ AppendStored(t) \/ AppendFails(t)
    \/ \E t \in LogThreads : NothingToRecord(t) \/ Measure(t) \/ Realign(t)
    \/ \E t \in LogThreads : \E s \in {Root} \cup past.branches :
          \E i \in 1..Len(Log(store, s)) : Fork(t, s, Log(store, s)[i].seq)
    \/ Crash

LogSpec == LogInit /\ [][LogNext]_logVars

-----------------------------------------------------------------------------
Logged(s, event) == {i \in 1..Len(Log(store, s)) : Log(store, s)[i].event = event}

\* A trajectory only grows: no append, fork or restart rewrites or removes a
\* record of any session (the append-only paradigm of session_log.rs).
AppendOnlyStep == \A s \in DOMAIN store.sessions : IsPrefix(Log(store, s), Log(store', s))
AppendOnly == [][AppendOnlyStep]_logVars

\* The gauge that the cap is compared with is the number of records held,
\* forks included, and never above the cap (InMemoryBackend append, fork).
GaugeIsExact ==
    store.kind = "memory" =>
        /\ store.total = SumFunction([s \in DOMAIN store.sessions |-> Len(store.sessions[s])])
        /\ store.total <= MaxRecords

\* What a caller was told is logged is logged, once, whatever other threads
\* append, fork or fail to; it survives a crash (append_event, append).
AckedIsKept ==
    \A a \in past.acked : LET found == Cardinality(Logged(a[1], a[2]))
                          IN found >= 1 /\ (past.crashes = 0 => found = 1)

\* A message position of the session is recorded once in the life of the
\* process, though several turns replay the same history at once; only a
\* turn that failed half-way may be recorded again (on_request's lock).
PositionsOnce ==
    past.crashes = 0 /\ past.failures = 0 /\ ~AtCap =>
        \A i, j \in 1..Len(Log(store, Root)) :
            LET a == Log(store, Root)[i].event
                b == Log(store, Root)[j].event
            IN Speaks(a.kind) /\ Speaks(b.kind) /\ a.at = b.at => i = j

\* A branch whose id was given out starts with what the original held up to
\* the fork point, though the file backend copies it record by record while
\* others append (fork).
ForkCarriesPrefix ==
    past.crashes = 0 =>
        \A id \in past.branches :
            LET origin == Log(store, id[1])
                i == PointAt(origin, id[2])
            IN /\ i <= Len(Log(store, id))
               /\ \A j \in 1..i : Log(store, id)[j].event = origin[j].event
               /\ Cardinality({j \in 1..Len(origin) : origin[j].event.to = id}) = 1

\* No trajectory is ever rewritten; an acknowledged record stays, once, across
\* crashes; a branch starts with what its original held; and the gauge counts
\* every record of both.
RecordsAreKept == AppendOnly /\ [](AckedIsKept /\ ForkCarriesPrefix /\ GaugeIsExact)

=============================================================================
