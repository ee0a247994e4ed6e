---------------------------- MODULE MemoryGraph -----------------------------
(***************************************************************************)
(* The memory plugin's working graph (plugins/memory/graph.rs): nodes and  *)
(* relationships keyed by id, for each node the lists of the relationships *)
(* that leave and enter it, and for each relationship the position it is   *)
(* believed to have in those lists.  Every operation of the graph is an    *)
(* action; the plugin holds its mutex for each.                            *)
(*                                                                         *)
(* A relationship id is the sequence of its original name and the numbers  *)
(* merges have appended to it: "a-2" is <<1, 2>>.  A node's labels and   *)
(* properties are one payload.                                             *)
(***************************************************************************)
EXTENDS SequencesExt, Integers

CONSTANTS
    Nodes,          \* node ids
    Ids,            \* relationship ids callers use
    Links,          \* the ends callers relate, as [from, to]
    Payloads,       \* what a node may carry
    Imports,        \* snapshots a caller may load or merge
    MaxRelationships    \* bound: relationships of a graph

VARIABLE graph

LOCAL Rel == INSTANCE Relation

Empty == [nodes |-> <<>>, rels |-> <<>>,
          outgoing |-> [n \in Nodes |-> <<>>], incoming |-> [n \in Nodes |-> <<>>],
          outAt |-> <<>>, inAt |-> <<>>]

Init == graph = Empty

Without(f, k) == [x \in DOMAIN f \ {k} |-> f[x]]

UpsertNode(g, n, payload) == [g EXCEPT !.nodes = (n :> payload) @@ @]

\* Slip: the position kept for a relationship is taken unseen.
PositionTrusted(list, at, id) ==
    IF id \in DOMAIN at /\ at[id] \in DOMAIN list
    THEN at[id]
    ELSE CHOOSE i \in DOMAIN list : list[i] = id

\* Where `list` holds `id`: at the position kept for it when it is found
\* there, else wherever a scan finds it.
PositionIn(list, at, id) ==
    IF id \in DOMAIN at /\ at[id] \in DOMAIN list /\ list[at[id]] = id
    THEN at[id]
    ELSE CHOOSE i \in DOMAIN list : list[i] = id

\* The last of the list takes the removed one's place. The position kept for
\* the one that moved is not updated: the removal hands back the removed id.
SwapRemoved(list, i) ==
    LET last == list[Len(list)] IN Front([list EXCEPT ![i] = last])

RemoveRelationship(g, id) ==
    IF id \notin DOMAIN g.rels THEN g
    ELSE LET from == g.rels[id].from
             to == g.rels[id].to
         IN [g EXCEPT
                !.rels = Without(@, id),
                !.outgoing[from] = SwapRemoved(@, PositionIn(@, g.outAt, id)),
                !.incoming[to] = SwapRemoved(@, PositionIn(@, g.inAt, id)),
                !.outAt = Without(@, id),
                !.inAt = Without(@, id)]

\* The relationship at the end of both lists.
Link(g, id, rel) ==
    [g EXCEPT
        !.rels = (id :> rel) @@ @,
        !.outgoing[rel.from] = Append(@, id),
        !.incoming[rel.to] = Append(@, id),
        !.outAt = (id :> Len(g.outgoing[rel.from]) + 1) @@ @,
        !.inAt = (id :> Len(g.incoming[rel.to]) + 1) @@ @]

\* An insert under an id in use replaces that relationship.
AddRelationship(g, id, rel) ==
    IF {rel.from, rel.to} \subseteq DOMAIN g.nodes
    THEN Link(RemoveRelationship(g, id), id, rel)
    ELSE g

RemoveNode(g, n) ==
    IF n \notin DOMAIN g.nodes THEN g
    ELSE LET stripped == FoldLeft(RemoveRelationship, [g EXCEPT !.nodes = Without(@, n)],
                                  g.outgoing[n] \o g.incoming[n])
         IN [stripped EXCEPT !.outgoing[n] = <<>>, !.incoming[n] = <<>>]

\* A snapshot is refused whole, for an id listed twice or an unknown endpoint.
IdsOf(records) == {records[i].id : i \in DOMAIN records}
Importable(s) ==
    /\ Cardinality(IdsOf(s.nodes)) = Len(s.nodes)
    /\ Cardinality(IdsOf(s.rels)) = Len(s.rels)
    /\ \A i \in DOMAIN s.rels : {s.rels[i].from, s.rels[i].to} \subseteq IdsOf(s.nodes)

Ends(record) == [from |-> record.from, to |-> record.to]

FromSnapshot(s) ==
    FoldLeft(LAMBDA g, r : AddRelationship(g, r.id, Ends(r)),
             FoldLeft(LAMBDA g, n : UpsertNode(g, n.id, n.payload), Empty, s.nodes),
             s.rels)

\* An incoming id in use gets the first number that makes it unlike every id
\* of either graph.
Renamed(g, other, id) ==
    LET taken == DOMAIN g.rels \cup DOMAIN other.rels
        free == {n \in 2..(Cardinality(taken) + 2) : Append(id, n) \notin taken}
    IN IF id \in DOMAIN g.rels THEN Append(id, Min(free)) ELSE id

\* The other's relationships come in in the order of a hash map.
Merged(g, other, keep, order) ==
    LET union == [g EXCEPT !.nodes = IF keep THEN @ @@ other.nodes ELSE other.nodes @@ @]
    IN FoldLeft(LAMBDA m, id : Link(m, Renamed(g, other, id), other.rels[id]), union, order)

\* The nodes one relationship away from a level, not seen before.
Across(g, level, direction) ==
    LET leaving == {g.rels[id].to : id \in UNION {Range(g.outgoing[n]) : n \in level}}
        entering == {g.rels[id].from : id \in UNION {Range(g.incoming[n]) : n \in level}}
    IN (IF direction # "incoming" THEN leaving ELSE {})
       \cup (IF direction # "outgoing" THEN entering ELSE {})

Within(g, roots, depth, direction) ==
    LET seen[d \in 0..depth] ==
            IF d = 0 THEN roots \cap DOMAIN g.nodes
            ELSE seen[d - 1] \cup Across(g, seen[d - 1], direction)
    IN seen[depth]

Traverse(g, start, depth, direction) == Within(g, {start}, depth, direction)
IsConnected(g, from, to) ==
    {from, to} \subseteq DOMAIN g.nodes
    /\ to \in Traverse(g, from, Cardinality(Nodes), "outgoing")

\* "a" before "a-2", "a-2" before "b".
IdLess(a, b) ==
    \E i \in DOMAIN b : /\ i \notin DOMAIN a \/ a[i] < b[i]
                       /\ SubSeq(a, 1, i - 1) = SubSeq(b, 1, i - 1)

\* The nodes within reach of the roots, whichever way, and the relationships
\* between them in the order of their ids.
Subgraph(g, roots, depth) ==
    LET ids == Within(g, roots, depth, "any")
        kept == {id \in DOMAIN g.rels : {g.rels[id].from, g.rels[id].to} \subseteq ids}
    IN FoldLeft(LAMBDA m, id : Link(m, id, g.rels[id]),
                [Empty EXCEPT !.nodes = [n \in ids |-> g.nodes[n]]],
                SetToSortSeq(kept, IdLess))

Upsert == \E n \in Nodes, payload \in Payloads : graph' = UpsertNode(graph, n, payload)

Add ==
    \E id \in Ids, link \in Links :
        /\ Cardinality(DOMAIN graph.rels \cup {id}) <= MaxRelationships
        /\ graph' = AddRelationship(graph, id, link)

Delete ==
    \/ \E n \in Nodes : graph' = RemoveNode(graph, n)
    \/ \E id \in Ids \cup DOMAIN graph.rels : graph' = RemoveRelationship(graph, id)

Load == \E s \in Imports : graph' = IF Importable(s) THEN FromSnapshot(s) ELSE graph

Merge ==
    \E s \in {i \in Imports : Importable(i)}, keep \in BOOLEAN :
        LET other == FromSnapshot(s)
        IN /\ Cardinality(DOMAIN graph.rels) + Len(s.rels) <= MaxRelationships
           /\ \E order \in SetToSeqs(DOMAIN other.rels) :
                  graph' = Merged(graph, other, keep, order)

\* The caller puts a part of the graph in its place.
KeepSubgraph ==
    \E roots \in SUBSET Nodes, depth \in 0..1 : graph' = Subgraph(graph, roots, depth)

Next == Upsert \/ Add \/ Delete \/ Load \/ Merge \/ KeepSubgraph

Spec == Init /\ [][Next]_graph
-----------------------------------------------------------------------------
\* Every list holds each relationship of its node once and nothing else, and
\* every relationship has its ends, whatever the kept positions say.
ListsMirrorRelationships ==
    /\ \A n \in Nodes :
          /\ IsInjective(graph.outgoing[n])
          /\ IsInjective(graph.incoming[n])
          /\ Range(graph.outgoing[n]) = {id \in DOMAIN graph.rels : graph.rels[id].from = n}
          /\ Range(graph.incoming[n]) = {id \in DOMAIN graph.rels : graph.rels[id].to = n}
    /\ \A id \in DOMAIN graph.rels :
          {graph.rels[id].from, graph.rels[id].to} \subseteq DOMAIN graph.nodes

\* A merge leaves every relationship of this graph as it was and brings in
\* every one of the other, under its id or a new one, and every node of both.
MergeLosesNothing ==
    \A s \in {i \in Imports : Importable(i)}, keep \in BOOLEAN :
        LET other == FromSnapshot(s)
            m == Merged(graph, other, keep, SetToSeq(DOMAIN other.rels))
        IN /\ DOMAIN m.nodes = DOMAIN graph.nodes \cup DOMAIN other.nodes
           /\ \A id \in DOMAIN graph.rels : m.rels[id] = graph.rels[id]
           /\ \A id \in DOMAIN other.rels :
                  m.rels[Renamed(graph, other, id)] = other.rels[id]
           /\ Cardinality(DOMAIN m.rels) =
                  Cardinality(DOMAIN graph.rels) + Cardinality(DOMAIN other.rels)

\* Walking the lists level by level finds what the relationships connect.
WalksFollowRelationships ==
    LET edge == [a, b \in Nodes |-> \E id \in DOMAIN graph.rels :
                                      graph.rels[id] = [from |-> a, to |-> b]]
        path == Rel!TransitiveClosure(edge, Nodes)
    IN \A a, b \in DOMAIN graph.nodes : IsConnected(graph, a, b) <=> a = b \/ path[a, b]

GraphIsWhole == ListsMirrorRelationships /\ MergeLosesNothing /\ WalksFollowRelationships
=============================================================================
