----------------------------- MODULE Redaction ------------------------------
(***************************************************************************)
(* The redaction plugin (plugins/redaction.rs): a request's fields are     *)
(* scrubbed one after the other, and in each the matches of the policy's   *)
(* rules are taken leftmost first, the longest of those, then the earlier  *)
(* rule.  Every rule keeps the next match it has found; only the ones that *)
(* the match just taken has overrun are searched for again.                *)
(*                                                                         *)
(* A text is a sequence of characters, an offset the number of characters  *)
(* before it, a span the offsets <<start, end>>.                           *)
(***************************************************************************)
EXTENDS SequencesExt, Integers

CONSTANTS
    Policies,       \* sequences of rules, each [kind, by, ...] as Spans reads it
    Requests,       \* sequences of texts
    MaxMatches,     \* max_matches_per_text
    Digits, Alnum   \* the characters of those classes

VARIABLES
    policy,         \* one of Policies
    fields,         \* the request's texts
    at,             \* the field being scrubbed, 0 when none is
    pending,        \* for each rule its next match, or none; <<>> before the search
    matches,        \* taken in this field, as [start, end, rule]
    tally,          \* matches of the fields before
    outcome,        \* of the last request: "none", "sent" or "refused"
    again           \* whether the request has been through before

vars == <<policy, fields, at, pending, matches, tally, outcome, again>>

Init ==
    /\ policy \in Policies
    /\ fields = <<>>
    /\ at = 0
    /\ pending = <<>>
    /\ matches = <<>>
    /\ tally = 0
    /\ outcome = "none"
    /\ again = FALSE

-----------------------------------------------------------------------------
TokenChars == Alnum \cup {"-", "_"}
LocalChars == Alnum \cup {".", "_", "-"}
DomainChars == Alnum \cup {".", "-"}
Separators == {"-", " "}

Occurs(value, text, i) ==
    i + Len(value) <= Len(text) /\ SubSeq(text, i + 1, i + Len(value)) = value

\* The end of the longest run of these characters from offset i.
RunEnd(text, i, chars) ==
    Max({n \in i..Len(text) : \A j \in i + 1..n : text[j] \in chars})

LeastOf(a, b) == IF a < b THEN a ELSE b

LiteralSpans(rule, text, from) ==
    {<<i, i + Len(rule.value)>> : i \in {j \in from..Len(text) : Occurs(rule.value, text, j)}}

\* The body is cut at the most it may have.
PrefixedSpans(rule, text, from) ==
    LET body(i) == i + Len(rule.value)
        end(i) == LeastOf(RunEnd(text, body(i), TokenChars), body(i) + rule.max)
    IN {<<i, end(i)>> : i \in {j \in from..Len(text) :
                                  Occurs(rule.value, text, j) /\ end(j) - body(j) >= rule.min}}

\* Single separators between digits belong to the run, which ends on a digit.
IsRun(text, i, end) ==
    /\ i < end
    /\ {text[i + 1], text[end]} \subseteq Digits
    /\ \A j \in i + 2..end - 1 :
          text[j] \in Digits \/ (text[j] \in Separators /\ text[j + 1] \in Digits)
NumDigits(text, i, end) == Cardinality({j \in i + 1..end : text[j] \in Digits})

DigitSpans(rule, text, from) ==
    LET runs == {r \in (from..Len(text)) \X (from..Len(text)) :
                     IsRun(text, r[1], r[2]) /\ NumDigits(text, r[1], r[2]) \in rule.min..rule.max}
    IN {r \in runs : \A s \in runs : s[1] = r[1] => s[2] <= r[2]}

\* Around each @: a local part that opens on a letter or digit and does not
\* reach back past `from`, a domain with a dot inside that ends on one.
EmailSpans(text, from) ==
    LET first(p) == Min({i \in from..p - 1 : /\ \A j \in i + 1..p - 1 : text[j] \in LocalChars
                                             /\ text[i + 1] \in Alnum} \cup {p - 1})
        ends(p) == {e \in p + 1..RunEnd(text, p, DomainChars) : text[e] \in Alnum}
        domain(p) == IF ends(p) = {} THEN <<>> ELSE SubSeq(text, p + 1, Max(ends(p)))
        isEmail(p) == /\ text[p] = "@"
                      /\ first(p) < p - 1
                      /\ Len(domain(p)) >= 3
                      /\ domain(p)[1] # "."
                      /\ "." \in Range(domain(p))
    IN {<<first(p), p + Len(domain(p))>> : p \in {q \in from + 1..Len(text) : isEmail(q)}}

Spans(rule, text, from) ==
    CASE rule.by = "literal" -> LiteralSpans(rule, text, from)
      [] rule.by = "prefixed" -> PrefixedSpans(rule, text, from)
      [] rule.by = "digits" -> DigitSpans(rule, text, from)
      [] rule.by = "email" -> EmailSpans(text, from)

\* The rule's first match from there on, if it has one.
FindFrom(rule, text, from) ==
    LET spans == Spans(rule, text, from)
    IN {s \in spans : \A t \in spans : s[1] <= t[1]}

Candidates ==
    UNION {{[start |-> s[1], end |-> s[2], rule |-> r] : s \in pending[r]} : r \in DOMAIN pending}

Preferred(c, d) ==
    \/ c.start < d.start
    \/ c.start = d.start /\ c.end > d.end
    \/ c.start = d.start /\ c.end = d.end /\ c.rule <= d.rule

Selected == CHOOSE c \in Candidates : \A d \in Candidates : Preferred(c, d)

\* Slip: only a match that lies behind the cursor altogether is found anew.
StaleIfOverrun(span, cursor) == span[2] <= cursor

Stale(span, cursor) == span[1] < cursor

Replacement(rule) == <<"[">> \o rule.kind \o <<"]">>

\* The text with a replacement for each match.
Scrubbed(text) ==
    LET upto == FoldLeft(
            LAMBDA s, m : [out |-> s.out \o SubSeq(text, s.cursor + 1, m.start)
                                         \o Replacement(policy[m.rule]),
                           cursor |-> m.end],
            [out |-> <<>>, cursor |-> 0], matches)
    IN upto.out \o SubSeq(text, upto.cursor + 1, Len(text))

-----------------------------------------------------------------------------
Start(request, before) ==
    /\ at = 0
    /\ at' = 1
    /\ fields' = request
    /\ tally' = 0
    /\ outcome' = "none"
    /\ again' = before
    /\ UNCHANGED <<policy, pending, matches>>

Submit(request) == outcome = "none" /\ Start(request, FALSE)

\* Arguments nested too deep refuse the request before anything is rewritten.
SubmitTooDeep(request) ==
    /\ at = 0 /\ outcome = "none"
    /\ fields' = request
    /\ outcome' = "refused"
    /\ UNCHANGED <<policy, at, pending, matches, tally, again>>

\* The conversation's next request carries the texts as they were sent.
SubmitAgain == outcome = "sent" /\ ~again /\ Start(fields, TRUE)

Search ==
    /\ at # 0 /\ pending = <<>>
    /\ pending' = [r \in DOMAIN policy |-> FindFrom(policy[r], fields[at], 0)]
    /\ UNCHANGED <<policy, fields, at, matches, tally, outcome, again>>

Take ==
    /\ Candidates # {}
    /\ Len(matches) < MaxMatches
    /\ matches' = Append(matches, Selected)
    /\ pending' = [r \in DOMAIN policy |->
                     IF \E s \in pending[r] : Stale(s, Selected.end)
                     THEN FindFrom(policy[r], fields[at], Selected.end)
                     ELSE pending[r]]
    /\ UNCHANGED <<policy, fields, at, tally, outcome, again>>

\* One match too many: the fields before stay rewritten.
Refuse ==
    /\ Candidates # {}
    /\ Len(matches) = MaxMatches
    /\ outcome' = "refused"
    /\ at' = 0
    /\ pending' = <<>>
    /\ matches' = <<>>
    /\ UNCHANGED <<policy, fields, tally, again>>

Replace ==
    /\ pending # <<>> /\ Candidates = {}
    /\ fields' = [fields EXCEPT ![at] = Scrubbed(@)]
    /\ tally' = tally + Len(matches)
    /\ pending' = <<>>
    /\ matches' = <<>>
    /\ IF at < Len(fields)
       THEN at' = at + 1 /\ UNCHANGED outcome
       ELSE at' = 0 /\ outcome' = "sent"
    /\ UNCHANGED <<policy, again>>

Next ==
    \/ \E request \in Requests : Submit(request) \/ SubmitTooDeep(request)
    \/ SubmitAgain \/ Search \/ Take \/ Refuse \/ Replace

Spec == Init /\ [][Next]_vars
-----------------------------------------------------------------------------
Cursor == IF matches = <<>> THEN 0 ELSE Last(matches).end

\* What each rule keeps is what a search from the cursor finds (scrub).
KeptIsFresh ==
    pending # <<>> =>
        \A r \in DOMAIN policy : pending[r] = FindFrom(policy[r], fields[at], Cursor)

\* Matches follow one another without overlap.
MatchesApart ==
    \A k \in DOMAIN matches :
        matches[k].start < matches[k].end /\ (k > 1 => matches[k - 1].end <= matches[k].start)

\* Once no rule has a further match, none has one in a stretch that is kept,
\* taken by itself.
NothingLeft ==
    pending # <<>> /\ Candidates = {} =>
        LET edge(k) == IF k = 0 THEN 0 ELSE matches[k].end
            until(k) == IF k = Len(matches) THEN Len(fields[at]) ELSE matches[k + 1].start
        IN \A k \in 0..Len(matches), r \in DOMAIN policy :
               FindFrom(policy[r], SubSeq(fields[at], edge(k) + 1, until(k)), 0) = {}

\* A request that went through goes through again as it is, under a policy
\* that matches none of its own replacements.
Inert == \A r, s \in DOMAIN policy : FindFrom(policy[r], Replacement(policy[s]), 0) = {}
Converges == again /\ Inert => tally = 0 /\ matches = <<>> /\ outcome # "refused"

ScrubLeavesNothing == KeptIsFresh /\ MatchesApart /\ NothingLeft /\ Converges
=============================================================================
