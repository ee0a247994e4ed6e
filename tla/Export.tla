------------------------------- MODULE Export -------------------------------
(***************************************************************************)
(* src/export.rs: an envelope of the memory graph and of the prompt cache, *)
(* built from live components and applied to them.  Both are behind locks  *)
(* of their own, so that imports, exports and the components' own edits    *)
(* interleave between any two of these steps.  A holder that panics        *)
(* poisons a lock.  What the components hold is the number of whoever      *)
(* wrote it last.                                                          *)
(***************************************************************************)
EXTENDS Integers

CONSTANTS Imports,      \* calls of import_into
          Exports,      \* calls of from_live
          MaxClock      \* bound: the components are edited up to it

Components == {"graph", "cache"}

VARIABLES live,         \* each component: its writer, and the clock of its write
          poisoned,     \* the locks
          imports,      \* each import: its step, whether it is valid, what it wrote
          exports,      \* each export: its step, what it read and when
          clock         \* of the commits and edits

exportVars == <<live, poisoned, imports, exports, clock>>

NewImport(valid) == [pc |-> "new", valid |-> valid, wrote |-> {}, from |-> 0, to |-> 0]
Nothing == [c \in Components |-> [by |-> "nobody", at |-> 0]]

\* An envelope that is not valid: of an unknown version, or one of its sections is.
Init ==
    /\ live = Nothing
    /\ poisoned = {}
    /\ imports \in [Imports -> {NewImport(valid) : valid \in BOOLEAN}]
    /\ exports = [x \in Exports |-> [pc |-> "new", read |-> Nothing, from |-> 0, to |-> 0]]
    /\ clock = 0

Write(c, who) ==
    /\ live' = [live EXCEPT ![c] = [by |-> who, at |-> clock + 1]]
    /\ clock' = clock + 1

Goes(i, pc) == imports' = [imports EXCEPT ![i].pc = pc]

\* Phase 1: the envelope and both sections are looked at, no lock is taken.
Stage(i) ==
    /\ imports[i].pc = "new"
    /\ imports' = [imports EXCEPT
          ![i].pc = IF imports[i].valid THEN "staged" ELSE "refused",
          ![i].from = clock]
    /\ UNCHANGED <<live, poisoned, exports, clock>>

\* Phase 2: the graph and then the cache, each under its lock.
Commit(i, c, next) ==
    IF c \in poisoned THEN Goes(i, "failed") /\ UNCHANGED <<live, clock>>
    ELSE /\ Write(c, i)
         /\ imports' = [imports EXCEPT ![i].pc = next, ![i].wrote = @ \cup {c}, ![i].to = clock + 1]

CommitGraph(i) ==
    /\ imports[i].pc = "staged"
    /\ Commit(i, "graph", "half")
    /\ UNCHANGED <<poisoned, exports>>

CommitCache(i) ==
    /\ imports[i].pc = "half"
    /\ Commit(i, "cache", "done")
    /\ UNCHANGED <<poisoned, exports>>

\* from_live: the graph, and then the cache.
ReadGraph(x) ==
    /\ exports[x].pc = "new"
    /\ exports' = [exports EXCEPT
          ![x].pc = IF "graph" \in poisoned THEN "failed" ELSE "half",
          ![x].read["graph"] = live["graph"],
          ![x].from = clock]
    /\ UNCHANGED <<live, poisoned, imports, clock>>

ReadCache(x) ==
    /\ exports[x].pc = "half"
    /\ exports' = [exports EXCEPT
          ![x].pc = IF "cache" \in poisoned THEN "failed" ELSE "done",
          ![x].read["cache"] = live["cache"],
          ![x].to = clock + 1]
    /\ UNCHANGED <<live, poisoned, imports, clock>>

\* A component is used, or a holder of its lock panics.
Edit(c) ==
    /\ clock < MaxClock
    /\ c \notin poisoned
    /\ \/ Write(c, "user") /\ UNCHANGED poisoned
       \/ poisoned' = poisoned \cup {c} /\ UNCHANGED <<live, clock>>
    /\ UNCHANGED <<imports, exports>>

Next ==
    \/ \E i \in Imports : Stage(i) \/ CommitGraph(i) \/ CommitCache(i)
    \/ \E x \in Exports : ReadGraph(x) \/ ReadCache(x)
    \/ \E c \in Components : Edit(c)

-----------------------------------------------------------------------------
\* An import that is refused has changed nothing; one that fails at a poisoned
\* lock has replaced what comes before it and no more; and one that is done
\* has replaced both (export.rs import_into).
ImportsAreWhole ==
    \A i \in Imports :
        LET import == imports[i]
        IN /\ import.pc = "refused" => import.wrote = {}
           /\ import.pc = "failed" => /\ import.wrote # Components
                                      /\ "graph" \in import.wrote => "cache" \in poisoned
           /\ import.pc = "done" => import.wrote = Components

Ended(i) == imports[i].pc = "done"

Overlap(a, b) == a.from < b.to /\ b.from < a.to

\* The graph of one import and the cache of another are found together only
\* when those overlapped, or when the export that found them overlapped one:
\* import_into is no transaction, and mixes no more than its two steps do.
MixesOnlyOverlaps ==
    \A i, j \in {k \in Imports : Ended(k)} : i # j =>
        /\ live["graph"].by = i /\ live["cache"].by = j => Overlap(imports[i], imports[j])
        /\ \A x \in {y \in Exports : exports[y].pc = "done"} :
              exports[x].read["graph"].by = i /\ exports[x].read["cache"].by = j =>
                 \/ Overlap(imports[i], imports[j])
                 \/ \E k \in {i, j} : Overlap(imports[k], exports[x])

\* What is exported and imported stays whole.
EnvelopesStayWhole == ImportsAreWhole /\ MixesOnlyOverlaps
=============================================================================
