--------------------------- MODULE EntityExtraction ---------------------------
(***************************************************************************)
(* src/services/entity_extraction.rs: a schema is validated once, and a    *)
(* model's candidate row by row against it: entities, and then the         *)
(* relationships between them.  Rows are told apart by a text that is      *)
(* derived from them, their id.  Text is a sequence of symbols: one stands *)
(* for a character, a tag such as "string:", or a length with its colon.   *)
(* A JSON value is a record of its kind and its text, elems or members; a  *)
(* map of properties is a function on names.                               *)
(***************************************************************************)
EXTENDS Integers, SequencesExt

CONSTANTS Schemas, EntityRows, RelationshipRows,
          Blank,        \* a character that trim takes off
          MaxRows       \* bound: of a candidate

VARIABLES schema, phase,            \* "new", "entities", "relationships", "done", "refused"
          entityRows, linkRows,     \* the candidate, as far as it is read
          nodes, links              \* what is accepted of it

extractionVars == <<schema, phase, entityRows, linkRows, nodes, links>>

-----------------------------------------------------------------------------
(* The schema                                                              *)

Named(list, name) == {list[i] : i \in {j \in DOMAIN list : list[j].name = name}}
Names(list) == [i \in DOMAIN list |-> list[i].name]

IsBlankName(name) == ToSet(name) \subseteq {Blank}

NamesAreGood(names) ==
    /\ \A name \in ToSet(names) : ~IsBlankName(name)
    /\ IsInjective(names)

IdentityIsGood(table) ==
    /\ table.identity # <<>>
    /\ IsInjective(table.identity)
    /\ \A name \in ToSet(table.identity) :
          \E column \in Named(table.columns, name) : column.required

ValidSchema(s) ==
    /\ ~IsBlankName(s.name)
    /\ NamesAreGood(Names(s.entities) \o Names(s.relationships))
    /\ \A table \in ToSet(s.entities) \cup ToSet(s.relationships) :
          NamesAreGood(Names(table.columns))
    /\ \A table \in ToSet(s.entities) : IdentityIsGood(table)
    /\ \A table \in ToSet(s.relationships) :
          {table.from, table.to} \subseteq ToSet(Names(s.entities))

-----------------------------------------------------------------------------
(* Rows                                                                    *)

TypeMatches(type, value) ==
    \/ type = value.kind
    \/ type = "number" /\ value.kind = "integer"

\* validate_properties
Fits(table, properties) ==
    /\ \A name \in DOMAIN properties :
          IF Named(table.columns, name) = {} THEN table.open
          ELSE \A column \in Named(table.columns, name) :
                  TypeMatches(column.type, properties[name])
    /\ \A column \in ToSet(table.columns) : column.required => column.name \in DOMAIN properties

Identity(table, properties) == [name \in ToSet(table.identity) |-> properties[name]]

IsReference(reference, tableName) ==
    /\ reference.table = tableName
    /\ \E table \in Named(schema.entities, tableName) :
          /\ DOMAIN reference.identity = ToSet(table.identity)
          /\ \A name \in DOMAIN reference.identity :
                \A column \in Named(table.columns, name) :
                    TypeMatches(column.type, reference.identity[name])

-----------------------------------------------------------------------------
(* Ids                                                                     *)

LengthOf(n) == <<ToString(n) \o ":">>
Prefixed(s) == LengthOf(Len(s)) \o s

RECURSIVE Canonical(_)

CanonicalMap(members) ==
    LET names == SetToSeq(DOMAIN members)    \* in an order of their own
    IN <<"object:">> \o LengthOf(Len(names))
       \o FlattenSeq([i \in DOMAIN names |-> Prefixed(names[i]) \o Canonical(members[names[i]])])

Canonical(value) ==
    CASE value.kind \in {"null", "true", "false"} -> <<value.kind>>
      [] value.kind \in {"integer", "number"} -> <<"number:">> \o Prefixed(value.text)
      [] value.kind = "string" -> <<"string:">> \o Prefixed(value.text)
      [] value.kind = "array" ->
            <<"array:">> \o LengthOf(Len(value.elems))
            \o FlattenSeq([i \in DOMAIN value.elems |-> Canonical(value.elems[i])])
      [] value.kind = "object" -> CanonicalMap(value.members)

EntityId(tableName, identity) ==
    <<"entity:">> \o Prefixed(tableName) \o <<":">> \o CanonicalMap(identity)

RelationshipId(tableName, from, to, properties) ==
    <<"relationship:">> \o Prefixed(tableName) \o Prefixed(from) \o Prefixed(to)
    \o CanonicalMap(properties)

-----------------------------------------------------------------------------
Init ==
    /\ schema \in Schemas
    /\ phase = "new"
    /\ entityRows = <<>> /\ linkRows = <<>>
    /\ nodes = {} /\ links = {}

\* EntityExtractor::new
New ==
    /\ phase = "new"
    /\ phase' = IF ValidSchema(schema) THEN "entities" ELSE "refused"
    /\ UNCHANGED <<schema, entityRows, linkRows, nodes, links>>

NodeOf(table, row) ==
    [id |-> EntityId(row.table, Identity(table, row.properties)), labels |-> table.labels,
     properties |-> row.properties]

Conflicts(values, value) == \E v \in values : v.id = value.id /\ v # value

\* What is refused ends the call with none of it accepted.
Refuse == phase' = "refused" /\ nodes' = {} /\ links' = {}

EntityFits(table, row) == Fits(table, row.properties) /\ ~Conflicts(nodes, NodeOf(table, row))

ReadEntity(row) ==
    /\ phase = "entities" /\ Len(entityRows) < MaxRows
    /\ entityRows' = Append(entityRows, row)
    /\ \/ \E table \in Named(schema.entities, row.table) :
             /\ EntityFits(table, row)
             /\ nodes' = nodes \cup {NodeOf(table, row)}
             /\ UNCHANGED <<phase, links>>
       \/ /\ \A table \in Named(schema.entities, row.table) : ~EntityFits(table, row)
          /\ Refuse
    /\ UNCHANGED <<schema, linkRows>>

EntitiesEnd ==
    /\ phase = "entities"
    /\ phase' = "relationships"
    /\ UNCHANGED <<schema, entityRows, linkRows, nodes, links>>

LinkOf(table, row) ==
    LET from == EntityId(row.from.table, row.from.identity)
        to == EntityId(row.to.table, row.to.identity)
    IN [id |-> RelationshipId(row.table, from, to, row.properties), from |-> from, to |-> to,
        kind |-> table.kind, properties |-> row.properties]

LinkFits(table, row) ==
    /\ Fits(table, row.properties)
    /\ IsReference(row.from, table.from) /\ IsReference(row.to, table.to)
    /\ {LinkOf(table, row).from, LinkOf(table, row).to} \subseteq {n.id : n \in nodes}
    /\ ~Conflicts(links, LinkOf(table, row))

ReadRelationship(row) ==
    /\ phase = "relationships" /\ Len(entityRows) + Len(linkRows) < MaxRows
    /\ linkRows' = Append(linkRows, row)
    /\ \/ \E table \in Named(schema.relationships, row.table) :
             /\ LinkFits(table, row)
             /\ links' = links \cup {LinkOf(table, row)}
             /\ UNCHANGED <<phase, nodes>>
       \/ /\ \A table \in Named(schema.relationships, row.table) : ~LinkFits(table, row)
          /\ Refuse
    /\ UNCHANGED <<schema, entityRows>>

\* The delta is what is accepted, in the order of its ids.
Report ==
    /\ phase = "relationships"
    /\ phase' = "done"
    /\ UNCHANGED <<schema, entityRows, linkRows, nodes, links>>

Next ==
    \/ New
    \/ \E row \in EntityRows : ReadEntity(row)
    \/ EntitiesEnd
    \/ \E row \in RelationshipRows : ReadRelationship(row)
    \/ Report

-----------------------------------------------------------------------------
(* What an extraction promises, in terms of values and not of ids          *)

SharesIdentity(a, b) ==
    /\ a.table = b.table
    /\ \A table \in Named(schema.entities, a.table) :
          \A name \in ToSet(table.identity) : a.properties[name] = b.properties[name]

Answers(row, reference) ==
    /\ row.table = reference.table
    /\ \A table \in Named(schema.entities, row.table) :
          reference.identity = Identity(table, row.properties)

\* The rows agree with the schema and with one another, in whatever order.
Sound ==
    LET entities == ToSet(entityRows)
    IN /\ \A e \in entities : \E table \in Named(schema.entities, e.table) : Fits(table, e.properties)
       /\ \A e, f \in entities : SharesIdentity(e, f) => e = f
       /\ \A r \in ToSet(linkRows) :
             \E table \in Named(schema.relationships, r.table) :
                /\ Fits(table, r.properties)
                /\ r.from.table = table.from /\ r.to.table = table.to
                /\ \E e, f \in entities : Answers(e, r.from) /\ Answers(f, r.to)

\* A candidate is accepted whole or not at all, whatever the order of its rows
\* is: one node of each identity, whose ids are never those of another, and
\* relationships that join the nodes they name.
ExtractsTotally ==
    /\ phase \in {"new", "refused"} => nodes = {} /\ links = {}
    /\ phase \in {"entities", "relationships", "done"} =>
         /\ Sound
         /\ Cardinality(nodes) = Cardinality(ToSet(entityRows))
         /\ Cardinality(links) = Cardinality(ToSet(linkRows))
         /\ \A r \in ToSet(linkRows) : \E link \in links, from, to \in nodes :
               /\ link.from = from.id /\ link.to = to.id /\ link.properties = r.properties
               /\ \E e, f \in ToSet(entityRows) :
                     /\ Answers(e, r.from) /\ e.properties = from.properties
                     /\ Answers(f, r.to) /\ f.properties = to.properties
    /\ phase = "refused" /\ ValidSchema(schema) => ~Sound
=============================================================================
