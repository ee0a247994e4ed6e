------------------------------- MODULE Replay -------------------------------
(***************************************************************************)
(* src/services/replay.rs: a recorded session read back as turns.  The     *)
(* session keeps growing between loads.  Its writer numbers the records; a *)
(* failed append leaves a gap and a restarted writer starts again at zero. *)
(***************************************************************************)
EXTENDS Integers, FiniteSets, SequencesExt

CONSTANTS Lists,          \* a turn's lists: inputs, blocks, notes
          MaxLoaded, MaxTurnBlocks,    \* ReplayConfig
          MaxRecorded, MaxRenumbered        \* bounds

VARIABLES recorded,       \* what the backend's replay returns
          next,           \* the writer's next number, and its irregularities
          loaded          \* what a load gave, and up to which number

replayVars == <<recorded, next, loaded>>

\* A record goes to one of the lists or is half of the pair that ends a turn.
Events == Lists \cup {"latency", "usage"}

Refused == [given |-> FALSE, turns |-> <<>>]

\* A block is told from another by the record it came from.
NewTurn(seq) ==
    [of |-> [list \in Lists |-> <<>>], latency |-> FALSE, usage |-> FALSE,
     first |-> seq, last |-> seq]

NoTurn == <<>>

IsTerminated(turn) == turn.latency /\ turn.usage

Read(turn, record) ==
    LET event == record.event
        seq == record.seq
    IN [turn EXCEPT
          !.last = seq,
          !.of = [list \in Lists |-> IF list = event THEN Append(@[list], seq) ELSE @[list]],
          !.latency = @ \/ event = "latency",
          !.usage = @ \/ event = "usage"]

\* The turns that are closed and the one being built, if there is one.
ReadRecord(built, record) ==
    LET turn == Read(IF built.current = NoTurn THEN NewTurn(record.seq) ELSE built.current[1],
                     record)
    IN IF IsTerminated(turn)
       THEN [turns |-> Append(built.turns, turn), current |-> NoTurn]
       ELSE [built EXCEPT !.current = <<turn>>]

Segmented(records) ==
    LET built == FoldLeft(ReadRecord, [turns |-> <<>>, current |-> NoTurn], records)
    IN built.turns \o built.current

StrictlyIncreasing(records) ==
    \A i \in 2..Len(records) : records[i - 1].seq < records[i].seq

Assemble(records) ==
    LET turns == Segmented(records)
    IN IF \/ Len(records) > MaxLoaded
          \/ ~StrictlyIncreasing(records)
          \/ \E i \in 1..Len(turns) : Len(turns[i].of["blocks"]) > MaxTurnBlocks
       THEN Refused ELSE [given |-> TRUE, turns |-> turns]

UpTo(records, seq) == SelectSeq(records, LAMBDA r : r.seq <= seq)

-----------------------------------------------------------------------------
NotLoaded == [upto |-> 0, answer |-> Refused]

Init ==
    /\ recorded = <<>>
    /\ next = [seq |-> 0, renumbered |-> 0]
    /\ loaded = NotLoaded

\* SessionLog append_event; a trajectory is a value, let go once it is looked at.
Record(event) ==
    /\ Len(recorded) < MaxRecorded
    /\ recorded' = Append(recorded, [seq |-> next.seq, event |-> event])
    /\ next' = [next EXCEPT !.seq = @ + 1]
    /\ loaded' = NotLoaded

\* A number that was given out and not stored, or a new process.
Renumber(seq) ==
    /\ next.renumbered < MaxRenumbered
    /\ next' = [seq |-> seq, renumbered |-> next.renumbered + 1]
    /\ loaded' = NotLoaded
    /\ UNCHANGED recorded

\* load keeps all; load_prefix and load_at_point refuse to keep nothing.
Load(upto, all) ==
    LET kept == UpTo(recorded, upto)
    IN /\ loaded' = [upto |-> upto, answer |-> IF kept = <<>> /\ ~all THEN Refused ELSE Assemble(kept)]
       /\ UNCHANGED <<recorded, next>>

Next ==
    \/ \E event \in Events : Record(event)
    \/ \E seq \in {0, next.seq + 1} : Renumber(seq)
    \/ Load(MaxRecorded + MaxRenumbered, TRUE)
    \/ \E upto \in 0..MaxRecorded : Load(upto, FALSE)

-----------------------------------------------------------------------------
(* What a load promises *)

NumbersOf(records, event) ==
    LET of == SelectSeq(records, LAMBDA r : r.event = event)
    IN [i \in 1..Len(of) |-> of[i].seq]

Within(turn, seq) == turn.first <= seq /\ seq <= turn.last

\* Nothing is dropped or reordered: into_stream yields every block recorded,
\* the turns' ranges follow one another, and each but the last is whole.
TurnsAreTheRecords(records, turns) ==
    /\ \A list \in Lists :
          FlattenSeq([i \in 1..Len(turns) |-> turns[i].of[list]]) = NumbersOf(records, list)
    /\ \A r \in ToSet(records) :
          Cardinality({i \in 1..Len(turns) : Within(turns[i], r.seq)}) = 1
    /\ \A i \in 1..Len(turns) - 1 : IsTerminated(turns[i])

\* A closed turn has the pair once complete at its last record and not before.
TurnsEndAtTheirPair(records, turns) ==
    \A i \in 1..Len(turns) :
        LET own == {r \in ToSet(records) : Within(turns[i], r.seq)}
            before == {r.event : r \in {s \in own : s.seq < turns[i].last}}
        IN /\ ~({"latency", "usage"} \subseteq before)
           /\ IsTerminated(turns[i]) <=> {"latency", "usage"} \subseteq {r.event : r \in own}

\* A load gives every record of the session up to its number, in turns that
\* end at their latency and usage, or nothing; and the closed turns of a load
\* up to one number are those of any later load (assemble, load_prefix).
ReplaysWhole ==
    LET kept == UpTo(recorded, loaded.upto)
        turns == loaded.answer.turns
        later == Assemble(recorded)
    IN loaded.answer.given =>
          /\ TurnsAreTheRecords(kept, turns)
          /\ TurnsEndAtTheirPair(kept, turns)
          /\ later.given => \A i \in 1..Len(turns) : IsTerminated(turns[i]) => turns[i] = later.turns[i]
=============================================================================
