------------------------------ MODULE LruCache ------------------------------
(***************************************************************************)
(* What the prompt cache promises: a bounded line of entries, least        *)
(* recently used first.  A hit goes to the end of the line, a new pair     *)
(* joins at the end and pushes the oldest live one out, expired entries    *)
(* count for nothing, and an import replaces the whole line at once.       *)
(* PromptCache implements this with two maps, a touch counter and a lower  *)
(* bound on the expiries.                                                  *)
(***************************************************************************)
EXTENDS Naturals, Sequences, FiniteSets

CONSTANTS Keys, Responses, Capacity, Ttl, Forever, Readings

VARIABLES line,     \* the entries [key, response, expires], oldest use first
          pending   \* the line an import is about to install, if one is

Without(s, k) == SelectSeq(s, LAMBDA e : e.key # k)
Live(s, now) == SelectSeq(s, LAMBDA e : e.expires > now)
Newest(s, n) == IF Len(s) <= n THEN s ELSE SubSeq(s, Len(s) - n + 1, Len(s))

Lookup(i, now) ==
    /\ line' = IF line[i].expires > now
               THEN Append(Without(line, line[i].key), line[i])
               ELSE Without(line, line[i].key)
    /\ UNCHANGED pending

Insert(k, response, now) ==
    LET entry == [key |-> k, response |-> response,
                  expires |-> IF now + Ttl > Forever THEN Forever ELSE now + Ttl]
    IN  /\ line' = Newest(Append(Without(Live(line, now), k), entry), Capacity)
        /\ UNCHANGED pending

Stage ==
    /\ pending = {}
    /\ Cardinality(pending') = 1
    /\ \A s \in pending' :
          /\ Len(s) <= Capacity
          /\ \A i, j \in 1..Len(s) : i # j => s[i].key # s[j].key
    /\ UNCHANGED line

Commit == line' \in pending /\ pending' = {}

Init == line = <<>> /\ pending = {}

Next == \/ \E now \in Readings, i \in 1..Len(line) : Lookup(i, now)
        \/ \E now \in Readings, k \in Keys, response \in Responses : Insert(k, response, now)
        \/ Stage
        \/ Commit

Spec == Init /\ [][Next]_<<line, pending>>
=============================================================================
