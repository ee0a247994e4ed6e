----------------------------- MODULE TurnProofs -----------------------------
(***************************************************************************)
(* What a turn of the client keeps true, for any number of turns, plugins, *)
(* models, tools, calls and blocks.                                        *)
(*                                                                         *)
(*   The stream: what is replayed is what was told live, and the end of a  *)
(*   turn is told once, whatever the plugins answer and wherever a stream  *)
(*   breaks.                                                               *)
(*                                                                         *)
(*   The ledger of the cost plugin balances: the total is a sum over the   *)
(*   turns whose charge stands, and is covered by a sum over the buckets.  *)
(*   Each operation changes one term of either sum.                        *)
(*                                                                         *)
(*   The tool chain lets no call past the plugins that gate it, and what   *)
(*   comes out answers the calls that went in, each once.                  *)
(*                                                                         *)
(*   The orchestrator hands over nothing it refused, and loses no refusal: *)
(*   each is told to every run after it, or ends the turn in an error.     *)
(***************************************************************************)
EXTENDS ClientTurn, CostPlugin, ToolChain, Orchestrator, FiniteLemmas

-----------------------------------------------------------------------------
(* The stream of a turn.                                                   *)

Item == Block \cup {Refused}

Response == [content : Seq(Block), tokens : Nat, reported : BOOLEAN, some : BOOLEAN]

Ahead == {"effective", "dispatch"}
Streams == {"stream", "replay", "bare"}

TurnType ==
    [pc : {"idle", "failed", "dropped"} \cup Ahead \cup Streams,
     request : Requests \cup {"none"}, asked : {0, Plugins} \cup (0..Plugins),
     wants : BOOLEAN, usage : BOOLEAN, response : Response, sawError : BOOLEAN,
     done : BOOLEAN, left : Seq(Block), handle : Response, seen : Seq(Item), closed : Nat]

TurnShape ==
    /\ client \in [cache : BOOLEAN, orchestrator : BOOLEAN]
    /\ cache \in [Requests -> Response]
    /\ turn \in [Turns -> TurnType]

\* A response that tells of the items s.
Tells(s, response) ==
    WithoutErrors(s, response.content) /\ response.tokens = NumGenerated(s)

\* How far a turn is, and what its response and its handle hold by then.
Staged(u) ==
    /\ u.closed = IF u.pc \in {"stream", "replay"} /\ u.done THEN 1 ELSE 0
    /\ u.done => u.pc \in Streams
    /\ u.pc \in Ahead \cup Streams => u.asked = Plugins /\ u.request \in Requests
    /\ u.pc \in {"idle"} \cup Ahead => u.response = Empty /\ u.seen = <<>> /\ ~u.sawError
    /\ u.handle.some => u.done /\ u.closed = 1 /\ Tells(u.seen, u.handle)
    /\ u.pc = "stream" /\ ~u.done =>
          /\ Tells(u.seen, u.response)
          /\ ~u.sawError => u.response.content = u.seen
    /\ u.pc = "replay" /\ ~u.done =>
          /\ u.seen \o u.left = u.response.content
          /\ Tells(u.response.content, u.response)
    /\ u.pc = "replay" /\ u.done => u.left = <<>>

Ended(u) == u.pc = "stream" /\ u.done

\* A live turn of request r gave its consumer s, whole.
Live(r, s) == \E u \in Turns : Ended(turn[u]) /\ turn[u].request = r /\ turn[u].seen = s

Cached(r) == cache[r].some => Tells(cache[r].content, cache[r]) /\ Live(r, cache[r].content)

Replayed(t) ==
    At(t, "replay") =>
        Live(turn[t].request, IF turn[t].done THEN turn[t].seen ELSE turn[t].response.content)

TurnInv ==
    /\ TurnShape
    /\ \A t \in Turns : Staged(turn[t])
    /\ \A r \in Requests : Cached(r)
    /\ \A t \in Turns : Replayed(t)

-----------------------------------------------------------------------------
(* What a stream has yielded.                                              *)

\* Nothing tells of nothing.
LEMMA EmptyTells ==
    /\ Empty \in Response /\ NoResponse \in Response /\ ~NoResponse.some
    /\ Empty.content = <<>> /\ Tells(<<>>, Empty)
<1>1. Empty \in Response /\ NoResponse \in Response
  <2>1. <<>> \in Seq(Block)
    OBVIOUS
  <2>2. NoResponse \in Response
    BY <2>1 DEF NoResponse, Response
  <2>3. Empty \in Response
    BY <2>2 DEF Empty, Response
  <2>4. QED
    BY <2>2, <2>3
<1>2. Empty.content = <<>> /\ Empty.tokens = 0
  BY DEF Empty, NoResponse
<1>3. WithoutErrors(<<>>, <<>>)
  <2> DEFINE place == [k \in 1..0 |-> k]
  <2>1. Len(<<>>) = 0 /\ 1..0 = {}
    OBVIOUS
  <2>2. place \in [{} -> {}]
    BY <2>1
  <2> HIDE DEF place
  <2>3. QED
    BY <2>1, <2>2 DEF WithoutErrors
<1>4. NumGenerated(<<>>) = 0
  <2>1. {i \in 1..Len(<<>>) : <<>>[i] \in Generated} = {}
    OBVIOUS
  <2>2. QED
    BY <2>1, FS_EmptySet DEF NumGenerated
<1>5. QED
  BY <1>1, <1>2, <1>3, <1>4 DEF Tells, NoResponse

\* One more item counts as it should.
LEMMA OneMoreGenerated ==
    ASSUME NEW s \in Seq(Item), NEW item \in Item
    PROVE  /\ NumGenerated(s) \in Nat
           /\ NumGenerated(Append(s, item)) = NumGenerated(s) + Count(item)
<1> DEFINE G(q) == {i \in 1..Len(q) : q[i] \in Generated}
           n == Len(s) + 1
           longer == Append(s, item)
<1>1. n \in Nat /\ Len(longer) = n /\ longer[n] = item /\ \A i \in 1..Len(s) : longer[i] = s[i]
  OBVIOUS
<1>2. 1..n = 1..Len(s) \cup {n} /\ n \notin 1..Len(s)
  OBVIOUS
<1>3. IsFiniteSet(G(s)) /\ Cardinality(G(s)) \in Nat
  <2>1. IsFiniteSet(1..Len(s))
    BY FS_Interval
  <2>2. IsFiniteSet(G(s))
    BY <2>1, FS_Subset
  <2>3. QED
    BY <2>2, FS_CardinalityType
<1>4. n \notin G(s)
  BY <1>2
<1>5. NumGenerated(s) = Cardinality(G(s)) /\ NumGenerated(longer) = Cardinality(G(longer))
  BY DEF NumGenerated
<1>6. \A i : i \in G(s) <=> i \in 1..Len(s) /\ s[i] \in Generated
  OBVIOUS
<1>7. \A i : i \in G(longer) <=> i \in 1..Len(longer) /\ longer[i] \in Generated
  OBVIOUS
<1> HIDE DEF longer, n, G
<1>8. CASE item \in Generated
  <2>1. G(longer) = G(s) \cup {n}
    BY <1>1, <1>2, <1>6, <1>7, <1>8
  <2>2. Cardinality(G(s) \cup {n}) = Cardinality(G(s)) + 1
    BY <1>3, <1>4, FS_AddElement
  <2>3. QED
    BY <1>3, <1>5, <1>8, <2>1, <2>2 DEF Count, longer
<1>9. CASE item \notin Generated
  <2>1. G(longer) = G(s)
    BY <1>1, <1>2, <1>6, <1>7, <1>9
  <2>2. QED
    BY <1>3, <1>5, <1>9, <2>1 DEF Count, longer
<1>10. QED
  BY <1>8, <1>9

\* A refused item is left out,
LEMMA RefusedTold ==
    ASSUME NEW s \in Seq(Item), NEW c \in Seq(Block), WithoutErrors(s, c)
    PROVE  WithoutErrors(Append(s, Refused), c)
<1> DEFINE longer == Append(s, Refused)
<1>1. PICK place \in [1..Len(c) -> 1..Len(s)] :
        /\ \A j, k \in 1..Len(c) : j < k => place[j] < place[k]
        /\ \A i \in 1..Len(s) : s[i] # Refused <=> \E k \in 1..Len(c) : place[k] = i
        /\ \A k \in 1..Len(c) : c[k] = s[place[k]]
  BY DEF WithoutErrors
<1>2. /\ Len(s) \in Nat /\ Len(longer) = Len(s) + 1 /\ longer[Len(s) + 1] = Refused
      /\ \A i \in 1..Len(s) : longer[i] = s[i]
  OBVIOUS
<1> HIDE DEF longer
<1>3. place \in [1..Len(c) -> 1..Len(longer)]
  BY <1>2
<1>4. ASSUME NEW i \in 1..Len(longer)
      PROVE  longer[i] # Refused <=> \E k \in 1..Len(c) : place[k] = i
  <2>1. CASE i \in 1..Len(s)
    BY <1>1, <1>2, <2>1
  <2>2. CASE i = Len(s) + 1
    <3>1. \A k \in 1..Len(c) : place[k] # i
      BY <1>2, <2>2
    <3>2. QED
      BY <1>2, <2>2, <3>1
  <2>3. QED
    BY <1>2, <2>1, <2>2
<1>5. \A k \in 1..Len(c) : c[k] = longer[place[k]]
  BY <1>1, <1>2
<1>6. WithoutErrors(longer, c)
  BY <1>1, <1>3, <1>4, <1>5 DEF WithoutErrors
<1>7. QED
  BY <1>6 DEF longer

\* any other one is added.
LEMMA BlockTold ==
    ASSUME NEW s \in Seq(Item), NEW c \in Seq(Block), WithoutErrors(s, c), NEW item \in Block
    PROVE  WithoutErrors(Append(s, item), Append(c, item))
<1> DEFINE longer == Append(s, item)
           told == Append(c, item)
           m == Len(c) + 1
           n == Len(s) + 1
<1>1. PICK place \in [1..Len(c) -> 1..Len(s)] :
        /\ \A j, k \in 1..Len(c) : j < k => place[j] < place[k]
        /\ \A i \in 1..Len(s) : s[i] # Refused <=> \E k \in 1..Len(c) : place[k] = i
        /\ \A k \in 1..Len(c) : c[k] = s[place[k]]
  BY DEF WithoutErrors
<1> DEFINE placed == [k \in 1..m |-> IF k = m THEN n ELSE place[k]]
<1>2. /\ n \in Nat /\ Len(longer) = n /\ longer[n] = item
      /\ \A i \in 1..Len(s) : longer[i] = s[i]
  OBVIOUS
<1>3. /\ m \in Nat /\ Len(told) = m /\ told[m] = item
      /\ \A k \in 1..Len(c) : told[k] = c[k]
  OBVIOUS
<1>4. 1..n = 1..Len(s) \cup {n} /\ n \notin 1..Len(s) /\ \A i \in 1..Len(s) : i < n
  OBVIOUS
<1>5. 1..m = 1..Len(c) \cup {m} /\ m \notin 1..Len(c) /\ \A k \in 1..Len(c) : k < m
  OBVIOUS
<1>6. item # Refused
  BY DEF Block, Refused
<1>7. placed[m] = n /\ \A k \in 1..Len(c) : placed[k] = place[k]
  BY <1>5
<1>8. placed \in [1..m -> 1..n]
  BY <1>4, <1>5
<1> HIDE DEF longer, told, m, n, placed
<1>9. ASSUME NEW j \in 1..m, NEW k \in 1..m, j < k
      PROVE  placed[j] < placed[k]
  <2>1. j \in 1..Len(c)
    BY <1>3, <1>5, <1>9
  <2>2. CASE k = m
    BY <1>4, <1>7, <2>1, <2>2
  <2>3. CASE k \in 1..Len(c)
    BY <1>1, <1>7, <1>9, <2>1, <2>3
  <2>4. QED
    BY <1>5, <2>2, <2>3
<1>10. ASSUME NEW i \in 1..n
       PROVE  longer[i] # Refused <=> \E k \in 1..m : placed[k] = i
  <2>1. CASE i = n
    BY <1>2, <1>5, <1>6, <1>7, <2>1
  <2>2. CASE i \in 1..Len(s)
    <3>1. longer[i] # Refused <=> \E k \in 1..Len(c) : place[k] = i
      BY <1>1, <1>2, <2>2
    <3>2. placed[m] # i
      BY <1>4, <1>7, <2>2
    <3>3. QED
      BY <1>5, <1>7, <3>1, <3>2
  <2>3. QED
    BY <1>4, <2>1, <2>2
<1>11. ASSUME NEW k \in 1..m PROVE told[k] = longer[placed[k]]
  <2>1. CASE k = m
    BY <1>2, <1>3, <1>7, <2>1
  <2>2. CASE k \in 1..Len(c)
    <3>1. place[k] \in 1..Len(s) /\ c[k] = s[place[k]]
      BY <1>1, <2>2
    <3>2. longer[place[k]] = s[place[k]]
      BY <1>2, <3>1
    <3>3. told[k] = c[k] /\ placed[k] = place[k]
      BY <1>3, <1>7, <2>2
    <3> QED BY <3>1, <3>2, <3>3
  <2>3. QED
    BY <1>5, <2>1, <2>2
<1>12. WithoutErrors(longer, told)
  <2>1. Len(told) = m /\ Len(longer) = n
    BY <1>2, <1>3
  <2>2. \A j, k \in 1..Len(told) : j < k => placed[j] < placed[k]
    BY <1>9, <2>1
  <2>3. \A i \in 1..Len(longer) :
           longer[i] # Refused <=> \E k \in 1..Len(told) : placed[k] = i
    BY <1>10, <2>1
  <2>4. \A k \in 1..Len(told) : told[k] = longer[placed[k]]
    BY <1>11, <2>1
  <2>5. placed \in [1..Len(told) -> 1..Len(longer)]
    BY <1>8, <2>1
  <2> SUFFICES \E p \in [1..Len(told) -> 1..Len(longer)] :
                  /\ \A j, k \in 1..Len(told) : j < k => p[j] < p[k]
                  /\ \A i \in 1..Len(longer) :
                        longer[i] # Refused <=> \E k \in 1..Len(told) : p[k] = i
                  /\ \A k \in 1..Len(told) : told[k] = longer[p[k]]
    BY DEF WithoutErrors
  <2> WITNESS placed \in [1..Len(told) -> 1..Len(longer)]
  <2> QED BY <2>2, <2>3, <2>4
<1>13. QED
  BY <1>12 DEF longer, told

\* Whatever hooks and tools make of a block is an item.
LEMMA OutcomesAreItems == Outcomes \subseteq Item
<1>1. ASSUME NEW block \in Block, NEW answers
      PROVE  LocalTool(block, answers) \in Item
  <2> DEFINE takers == {p \in 1..Plugins : answers[p] # "pass"}
             first == CHOOSE p \in takers : \A q \in takers : p <= q
  <2>1. LocalTool(block, answers) \in {block, "result", Refused}
    <3>1. LocalTool(block, answers)
            = IF block # "call" \/ takers = {} THEN block
              ELSE CASE answers[first] = "result" -> "result" [] OTHER -> Refused
      BY DEF LocalTool
    <3> HIDE DEF takers, first
    <3>2. QED
      BY <3>1
  <2>2. QED
    BY <2>1 DEF Item, Block
<1>2. ASSUME NEW item \in Item, NEW edits
      PROVE  ChunkHooks(item, edits) \in Item
  BY DEF ChunkHooks, Item, Block
<1>3. QED
  BY <1>1, <1>2 DEF Outcomes

\* Two stages of a turn between which only its items and its response differ.
Alike(u, v) ==
    /\ v.pc = u.pc /\ v.request = u.request /\ v.asked = u.asked
    /\ v.wants = u.wants /\ v.usage = u.usage /\ v.done = u.done
    /\ v.left = u.left /\ v.handle = u.handle /\ v.closed = u.closed

\* An item yielded: it is seen, and the response tells of it as well.
LEMMA YieldTells ==
    ASSUME NEW u \in TurnType, NEW item \in Item
    PROVE  LET v == Yield(u, item) IN
           /\ v \in TurnType
           /\ Alike(u, v)
           /\ v.seen = Append(u.seen, item)
           /\ Tells(u.seen, u.response) => Tells(v.seen, v.response)
           /\ (~u.sawError => u.response.content = u.seen)
                => (~v.sawError => v.response.content = v.seen)
<1> DEFINE content == IF item = Refused THEN u.response.content
                      ELSE Append(u.response.content, item)
           tokens == u.response.tokens + Count(item)
           told == [u.response EXCEPT !.content = content]
           counted == [told EXCEPT !.tokens = tokens]
           viewed == [u EXCEPT !.seen = Append(@, item)]
           erred == [viewed EXCEPT !.sawError = @ \/ item = Refused]
           v == [erred EXCEPT !.response = counted]
<1>1. u.response \in Response /\ u.seen \in Seq(Item) /\ u.sawError \in BOOLEAN
  BY DEF TurnType
<1>2. item # Refused => item \in Block
  BY DEF Item
<1>3. Count(item) \in Nat
  BY DEF Count
<1>4. content \in Seq(Block) /\ tokens \in Nat
  BY <1>1, <1>2, <1>3 DEF Response
<1> HIDE DEF content, tokens
<1>5. told \in Response /\ told.content = content
  BY <1>1, <1>4 DEF Response
<1> HIDE DEF told
<1>6. counted \in Response /\ counted.content = content /\ counted.tokens = tokens
  BY <1>4, <1>5 DEF Response
<1> HIDE DEF counted
<1>7. /\ viewed \in TurnType
      /\ Alike(u, viewed) /\ viewed.sawError = u.sawError
      /\ viewed.seen = Append(u.seen, item)
  <2>1. Append(u.seen, item) \in Seq(Item)
    BY <1>1
  <2>2. QED
    BY <1>1, <2>1 DEF TurnType, Alike
<1> HIDE DEF viewed
<1>8. /\ erred \in TurnType
      /\ Alike(viewed, erred) /\ erred.seen = viewed.seen
      /\ viewed.sawError \/ item = Refused => erred.sawError
  <2>1. viewed.sawError \in BOOLEAN
    BY <1>7 DEF TurnType
  <2>2. erred \in TurnType
    <3>1. PICK flag \in BOOLEAN : flag = (viewed.sawError \/ item = Refused)
      BY <2>1
    <3>2. erred = [viewed EXCEPT !.sawError = flag]
      BY <3>1
    <3> HIDE DEF erred
    <3>3. QED
      BY <1>7, <3>2 DEF TurnType
  <2>3. /\ Alike(viewed, erred) /\ erred.seen = viewed.seen
        /\ erred.sawError = (viewed.sawError \/ item = Refused)
    BY <1>7 DEF TurnType, Alike
  <2>4. QED
    BY <2>2, <2>3
<1> HIDE DEF erred
<1>9. /\ v \in TurnType
      /\ Alike(erred, v) /\ v.seen = erred.seen /\ v.response = counted
      /\ erred.sawError => v.sawError
  <2>1. v \in TurnType
    BY <1>6, <1>8 DEF TurnType
  <2>2. /\ Alike(erred, v) /\ v.seen = erred.seen /\ v.response = counted
        /\ v.sawError = erred.sawError
    BY <1>8 DEF TurnType, Alike
  <2>3. QED
    BY <2>1, <2>2
<1>10. v = Yield(u, item)
  BY DEF v, erred, viewed, counted, told, content, tokens, Yield
<1> HIDE DEF v
<1>11. v.seen = Append(u.seen, item) /\ v.response.content = content /\ v.response.tokens = tokens
  BY <1>6, <1>7, <1>8, <1>9
<1>12. ASSUME Tells(u.seen, u.response) PROVE Tells(v.seen, v.response)
  <2>1. NumGenerated(v.seen) = tokens
    BY <1>1, <1>11, <1>12, OneMoreGenerated DEF Tells, tokens
  <2>2. CASE item = Refused
    <3>1. WithoutErrors(v.seen, u.response.content)
      BY <1>1, <1>11, <1>12, <2>2, RefusedTold DEF Tells, Response
    <3>2. QED
      BY <1>11, <2>1, <2>2, <3>1 DEF Tells, content
  <2>3. CASE item # Refused
    <3>1. WithoutErrors(v.seen, Append(u.response.content, item))
      BY <1>1, <1>2, <1>11, <1>12, <2>3, BlockTold DEF Tells, Response
    <3>2. QED
      BY <1>11, <2>1, <2>3, <3>1 DEF Tells, content
  <2>4. QED
    BY <2>2, <2>3
<1>13. ASSUME ~u.sawError => u.response.content = u.seen, ~v.sawError
       PROVE  v.response.content = v.seen
  BY <1>7, <1>8, <1>9, <1>11, <1>13 DEF content
<1>14. QED
  <2>1. Alike(u, v)
    BY <1>7, <1>8, <1>9 DEF Alike
  <2>2. QED
    BY <1>9, <1>10, <1>11, <1>12, <1>13, <2>1

-----------------------------------------------------------------------------
(* One turn moves.                                                         *)

\* What a step may make of an ended turn: its consumer has seen what it has.
Follows(u, v) == Ended(u) => Ended(v) /\ v.request = u.request /\ v.seen = u.seen

\* A step of one turn, from what it makes of the turn and of the cache.
LEMMA OneTurnMoves ==
    ASSUME TurnInv, NEW t \in Turns, NEW v \in TurnType, turn' = [turn EXCEPT ![t] = v],
           UNCHANGED client,
           Staged(v), Follows(turn[t], v),
           v.pc = "replay" =>
               Live(v.request, IF v.done THEN v.seen ELSE v.response.content),
           cache' \in [Requests -> Response],
           \A r \in Requests :
               \/ cache'[r].some => cache'[r] = cache[r]
               \/ /\ Tells(cache'[r].content, cache'[r])
                  /\ Ended(v) /\ v.request = r /\ v.seen = cache'[r].content
    PROVE  TurnInv'
<1>1. /\ turn' \in [Turns -> TurnType] /\ turn'[t] = v
      /\ \A u \in Turns : u # t => turn'[u] = turn[u]
  BY DEF TurnInv, TurnShape
<1>2. ASSUME NEW r, NEW s, Live(r, s) PROVE Live(r, s)'
  <2>1. PICK u \in Turns : Ended(turn[u]) /\ turn[u].request = r /\ turn[u].seen = s
    BY <1>2 DEF Live
  <2>2. Ended(turn'[u]) /\ turn'[u].request = r /\ turn'[u].seen = s
    BY <1>1, <2>1 DEF Follows
  <2>3. QED
    BY <2>2 DEF Live, Ended
<1>3. TurnShape'
  BY <1>1 DEF TurnInv, TurnShape
<1>4. \A u \in Turns : Staged(turn[u])'
  <2>1. \A u \in Turns : Staged(turn'[u])
    BY <1>1 DEF TurnInv
  <2>2. QED
    BY <2>1 DEF Staged, Tells, Empty, NoResponse
<1>5. ASSUME NEW r \in Requests, cache'[r].some
      PROVE  (Tells(cache[r].content, cache[r]) /\ Live(r, cache[r].content))'
  <2>1. PICK response : response = cache'[r]
    OBVIOUS
  <2>2. Tells(response.content, response) /\ Live(r, response.content)'
    <3>1. CASE cache'[r] = cache[r]
      <4>1. Tells(response.content, response) /\ Live(r, response.content)
        BY <1>5, <2>1, <3>1 DEF TurnInv, Cached
      <4>2. QED
        BY <1>2, <4>1
    <3>2. CASE /\ Tells(cache'[r].content, cache'[r])
               /\ Ended(v) /\ v.request = r /\ v.seen = cache'[r].content
      <4>1. Ended(turn'[t]) /\ turn'[t].request = r /\ turn'[t].seen = response.content
        BY <1>1, <2>1, <3>2
      <4>2. QED
        BY <2>1, <3>2, <4>1 DEF Live, Ended
    <3>3. QED
      BY <1>5, <3>1, <3>2
  <2>3. Live(r, response.content)' <=> Live(r, cache[r].content)'
    BY <2>1 DEF Live
  <2>4. Tells(cache[r].content, cache[r])'
    BY <2>1, <2>2 DEF Tells, WithoutErrors, NumGenerated
  <2>5. QED
    BY <2>2, <2>3, <2>4
<1>6. ASSUME NEW u \in Turns, turn'[u].pc = "replay"
      PROVE  Live(turn[u].request, IF turn[u].done THEN turn[u].seen ELSE turn[u].response.content)'
  <2>1. CASE u = t
    BY <1>1, <1>2, <1>6, <2>1
  <2>2. CASE u # t
    BY <1>1, <1>2, <1>6, <2>2 DEF TurnInv, Replayed, At
  <2>3. QED
    BY <2>1, <2>2
<1>7. \A r \in Requests : Cached(r)'
  BY <1>5 DEF Cached
<1>8. \A u \in Turns : Replayed(u)'
  BY <1>6 DEF Replayed, At
<1>9. QED
  BY <1>3, <1>4, <1>7, <1>8 DEF TurnInv

\* No turn moves, and the cache gains nothing.
LEMMA NoneMoves ==
    ASSUME TurnInv, UNCHANGED <<client, turn>>, cache' \in [Requests -> Response],
           \A r \in Requests : cache'[r].some => cache'[r] = cache[r]
    PROVE  TurnInv'
<1>1. TurnShape'
  BY DEF TurnInv, TurnShape
<1>2. \A t \in Turns : Staged(turn[t])'
  BY DEF TurnInv, Staged, Tells, Empty, NoResponse
<1>3. \A r, s : Live(r, s) => Live(r, s)'
  BY DEF Live
<1>4. ASSUME NEW r \in Requests, cache'[r].some
      PROVE  (Tells(cache[r].content, cache[r]) /\ Live(r, cache[r].content))'
  <2>1. PICK response : response = cache[r] /\ response = cache'[r]
    BY <1>4
  <2>2. Tells(response.content, response) /\ Live(r, response.content)
    BY <1>4, <2>1 DEF TurnInv, Cached
  <2>3. Live(r, response.content)'
    BY <1>3, <2>2
  <2>4. Live(r, response.content)' <=> Live(r, cache[r].content)'
    BY <2>1 DEF Live
  <2>5. Tells(cache[r].content, cache[r])'
    BY <2>1, <2>2 DEF Tells, WithoutErrors, NumGenerated
  <2>6. QED
    BY <2>3, <2>4, <2>5
<1>5. \A r \in Requests : Cached(r)'
  BY <1>4 DEF Cached
<1>6. \A t \in Turns : Replayed(t)'
  BY DEF TurnInv, Replayed, At, Live
<1>7. QED
  BY <1>1, <1>2, <1>5, <1>6 DEF TurnInv

\* The hooks of a request: it goes on, or ends with the refusal.
LEMMA HooksInv ==
    ASSUME TurnInv, NEW t \in Turns, NEW r \in Requests, NEW p \in 0..Plugins, NEW w \in BOOLEAN,
           RunRequestHooks(t, r, p, w)
    PROVE  TurnInv'
<1> DEFINE u == turn[t]
<1>1. u \in TurnType /\ Staged(u) /\ u.pc = "idle" /\ cache \in [Requests -> Response]
  BY DEF TurnInv, TurnShape, RunRequestHooks, At
<1>2. ~u.done /\ u.closed = 0 /\ ~u.handle.some /\ u.response = Empty /\ u.seen = <<>> /\ ~u.sawError
  BY <1>1 DEF Staged, Streams, TurnType
<1>3. CASE p = 0
  <2> DEFINE v == [u EXCEPT !.pc = "effective", !.asked = Plugins, !.request = r, !.wants = w]
  <2>1. v \in TurnType
    BY <1>1 DEF TurnType, Ahead
  <2>2. Staged(v)
    BY <1>1, <1>2 DEF Staged, Ahead, TurnType
  <2>3. Follows(u, v) /\ v.pc # "replay"
    BY <1>1 DEF Follows, Ended, TurnType
  <2>4. turn' = [turn EXCEPT ![t] = v] /\ UNCHANGED <<client, cache>>
    BY <1>3 DEF RunRequestHooks, Set
  <2> HIDE DEF v
  <2>5. QED
    BY <1>1, <2>1, <2>2, <2>3, <2>4, OneTurnMoves
<1>4. CASE p # 0
  <2> DEFINE v == [u EXCEPT !.pc = "failed", !.asked = p]
  <2>1. v \in TurnType
    BY <1>1 DEF TurnType
  <2>2. Staged(v)
    BY <1>1, <1>2 DEF Staged, Ahead, Streams, TurnType
  <2>3. Follows(u, v) /\ v.pc # "replay"
    BY <1>1 DEF Follows, Ended, TurnType
  <2>4. turn' = [turn EXCEPT ![t] = v] /\ UNCHANGED <<client, cache>>
    BY <1>4 DEF RunRequestHooks, Set
  <2> HIDE DEF v
  <2>5. QED
    BY <1>1, <2>1, <2>2, <2>3, <2>4, OneTurnMoves
<1>5. QED
  BY <1>3, <1>4

\* A lookup: a hit is replayed from its start, a miss goes on.
LEMMA LookUpInv ==
    ASSUME TurnInv, NEW t \in Turns, LookUp(t)
    PROVE  TurnInv'
<1> DEFINE u == turn[t]
           entry == cache[u.request]
<1>1. u \in TurnType /\ Staged(u) /\ u.pc = "effective" /\ cache \in [Requests -> Response]
  BY DEF TurnInv, TurnShape, LookUp, At
<1>2. /\ ~u.done /\ u.closed = 0 /\ ~u.handle.some /\ u.response = Empty /\ u.seen = <<>>
      /\ ~u.sawError /\ u.asked = Plugins /\ u.request \in Requests
  BY <1>1 DEF Staged, Ahead, Streams, TurnType
<1>3. CASE client.cache /\ entry.some
  <2> DEFINE v == [u EXCEPT !.pc = "replay", !.response = entry, !.left = entry.content]
  <2>1. entry \in Response /\ entry.content \in Seq(Block)
    BY <1>1, <1>2 DEF Response
  <2>2. Tells(entry.content, entry) /\ Live(u.request, entry.content)
    BY <1>2, <1>3 DEF TurnInv, Cached
  <2>3. turn' = [turn EXCEPT ![t] = v] /\ UNCHANGED <<client, cache>>
    BY <1>3 DEF LookUp, Set
  <2> HIDE DEF entry
  <2>4. v \in TurnType
    BY <1>1, <2>1 DEF TurnType, Streams
  <2>5. <<>> \o entry.content = entry.content
    BY <2>1
  <2>6. Staged(v)
    BY <1>1, <1>2, <2>2, <2>5 DEF Staged, Ahead, TurnType
  <2>7. /\ Follows(u, v)
        /\ v.pc = "replay" => Live(v.request, IF v.done THEN v.seen ELSE v.response.content)
    BY <1>1, <1>2, <2>2 DEF Follows, Ended, TurnType
  <2> HIDE DEF v
  <2>8. QED
    BY <1>1, <2>3, <2>4, <2>6, <2>7, OneTurnMoves
<1>4. CASE ~(client.cache /\ entry.some)
  <2> DEFINE v == [u EXCEPT !.pc = "dispatch"]
  <2>1. v \in TurnType
    BY <1>1 DEF TurnType, Ahead
  <2>2. Staged(v)
    BY <1>1, <1>2 DEF Staged, Ahead, TurnType
  <2>3. Follows(u, v) /\ v.pc # "replay"
    BY <1>1 DEF Follows, Ended, TurnType
  <2>4. turn' = [turn EXCEPT ![t] = v] /\ UNCHANGED <<client, cache>>
    BY <1>4 DEF LookUp, Set
  <2> HIDE DEF v
  <2>5. QED
    BY <1>1, <2>1, <2>2, <2>3, <2>4, OneTurnMoves
<1>5. QED
  BY <1>3, <1>4

\* The dispatch: an error, or a stream of nothing yet.
LEMMA DispatchInv ==
    ASSUME TurnInv, NEW t \in Turns, Dispatch(t)
    PROVE  TurnInv'
<1> DEFINE u == turn[t]
<1>1. u \in TurnType /\ Staged(u) /\ u.pc = "dispatch" /\ cache \in [Requests -> Response]
  BY DEF TurnInv, TurnShape, Dispatch, At
<1>2. /\ ~u.done /\ u.closed = 0 /\ ~u.handle.some /\ u.response = Empty /\ u.seen = <<>>
      /\ ~u.sawError /\ u.asked = Plugins /\ u.request \in Requests
  BY <1>1 DEF Staged, Ahead, Streams, TurnType
<1>3. PICK pc \in {"failed", "bare", "stream"} :
        turn' = [turn EXCEPT ![t] = [u EXCEPT !.pc = pc]] /\ UNCHANGED <<client, cache>>
  BY DEF Dispatch, Set
<1> DEFINE v == [u EXCEPT !.pc = pc]
<1>4. v \in TurnType
  BY <1>1 DEF TurnType, Streams
<1>5. Tells(<<>>, Empty) /\ Empty.content = <<>>
  BY EmptyTells
<1>6. Staged(v)
  BY <1>1, <1>2, <1>5 DEF Staged, Ahead, Streams, TurnType
<1>7. Follows(u, v) /\ v.pc # "replay"
  BY <1>1 DEF Follows, Ended, TurnType
<1> HIDE DEF v
<1>8. turn' = [turn EXCEPT ![t] = v] /\ UNCHANGED <<client, cache>>
  BY <1>3 DEF v
<1>9. QED
  BY <1>1, <1>4, <1>6, <1>7, <1>8, OneTurnMoves

\* A poll yields an item of a live stream.
LEMMA PollItemInv ==
    ASSUME TurnInv, NEW t \in Turns, At(t, "stream"), ~turn[t].done, NEW item \in Item,
           Set(t, Yield(turn[t], item)), UNCHANGED <<client, cache>>
    PROVE  TurnInv'
<1>1. PICK u : u = turn[t]
  OBVIOUS
<1>2. u \in TurnType /\ Staged(u) /\ u.pc = "stream" /\ ~u.done /\ cache \in [Requests -> Response]
  BY <1>1 DEF TurnInv, TurnShape, At
<1>3. PICK v : v = Yield(u, item)
  OBVIOUS
<1>4. /\ v \in TurnType /\ Alike(u, v)
      /\ Tells(u.seen, u.response) => Tells(v.seen, v.response)
      /\ (~u.sawError => u.response.content = u.seen)
             => (~v.sawError => v.response.content = v.seen)
  BY <1>2, <1>3, YieldTells
<1>5. Staged(v)
  BY <1>2, <1>4 DEF Staged, Alike, Ahead
<1>6. Follows(u, v) /\ v.pc # "replay"
  BY <1>2, <1>4 DEF Follows, Ended, Alike
<1>7. turn' = [turn EXCEPT ![t] = v]
  BY <1>1, <1>3 DEF Set
<1>8. QED
  BY <1>1, <1>2, <1>4, <1>5, <1>6, <1>7, OneTurnMoves

\* Usage is reported.
LEMMA ReportInv ==
    ASSUME TurnInv, NEW t \in Turns, ReportUsage(t)
    PROVE  TurnInv'
<1> DEFINE u == turn[t]
           v == [u EXCEPT !.usage = TRUE]
<1>1. u \in TurnType /\ Staged(u) /\ u.pc = "stream" /\ ~u.done /\ cache \in [Requests -> Response]
  BY DEF TurnInv, TurnShape, ReportUsage, At
<1>2. v \in TurnType
  BY <1>1 DEF TurnType
<1>3. Staged(v)
  BY <1>1 DEF Staged, TurnType
<1>4. Follows(u, v) /\ v.pc # "replay"
  BY <1>1 DEF Follows, Ended, TurnType
<1>5. turn' = [turn EXCEPT ![t] = v] /\ UNCHANGED <<client, cache>>
  BY DEF ReportUsage, Set
<1> HIDE DEF v
<1>6. QED
  BY <1>1, <1>2, <1>3, <1>4, <1>5, OneTurnMoves

\* A response published: it is the caller's, or stays with the stream.
LEMMA PublishIs ==
    ASSUME NEW u \in TurnType
    PROVE  LET v == Publish(u) IN
           /\ v \in TurnType
           /\ v.pc = u.pc /\ v.request = u.request /\ v.asked = u.asked /\ v.seen = u.seen
           /\ v.left = u.left /\ v.closed = u.closed /\ (u.done => v.done)
           /\ v.handle = u.response \/ v.handle = u.handle
<1>1. CASE ~u.wants
  BY <1>1 DEF Publish
<1>2. CASE u.wants
  <2> DEFINE handed == [u EXCEPT !.handle = u.response]
             served == [handed EXCEPT !.wants = FALSE]
             emptied == [u.response EXCEPT !.content = <<>>]
             v == [served EXCEPT !.response = emptied]
  <2>1. u.response \in Response
    BY DEF TurnType
  <2>2. emptied \in Response
    <3>1. <<>> \in Seq(Block)
      OBVIOUS
    <3>2. QED
      BY <2>1, <3>1 DEF Response
  <2> HIDE DEF emptied
  <2>3. /\ handed \in TurnType
        /\ handed.pc = u.pc /\ handed.request = u.request /\ handed.asked = u.asked
        /\ handed.seen = u.seen /\ handed.left = u.left /\ handed.closed = u.closed
        /\ (u.done => handed.done) /\ handed.handle = u.response /\ handed.response = u.response
    BY <2>1 DEF TurnType
  <2> HIDE DEF handed
  <2>4. /\ served \in TurnType
        /\ served.pc = u.pc /\ served.request = u.request /\ served.asked = u.asked
        /\ served.seen = u.seen /\ served.left = u.left /\ served.closed = u.closed
        /\ (u.done => served.done) /\ served.handle = u.response /\ served.response = u.response
    BY <2>3 DEF TurnType
  <2> HIDE DEF served
  <2>5. /\ v \in TurnType
        /\ v.pc = u.pc /\ v.request = u.request /\ v.asked = u.asked /\ v.seen = u.seen
        /\ v.left = u.left /\ v.closed = u.closed /\ (u.done => v.done)
        /\ v.handle = u.response
    BY <2>2, <2>4 DEF TurnType
  <2>6. v = Publish(u)
    <3>1. served.response = u.response
      BY <2>4
    <3>2. Publish(u) = [u EXCEPT !.handle = u.response, !.wants = FALSE, !.response.content = <<>>]
      BY <1>2 DEF Publish
    <3>3. QED
      BY <3>1, <3>2 DEF v, served, handed, emptied
  <2> HIDE DEF v
  <2>7. QED
    BY <2>5, <2>6
<1>3. QED
  BY <1>1, <1>2

\* A turn completed: its response gets what was reported, its items stay.
LEMMA CompletedIs ==
    ASSUME NEW u \in TurnType
    PROVE  LET v == Completed(u) IN
           /\ v \in TurnType /\ v.done
           /\ v.pc = u.pc /\ v.request = u.request /\ v.asked = u.asked /\ v.seen = u.seen
           /\ v.closed = u.closed + 1 /\ v.handle = u.handle
           /\ v.response.content = u.response.content /\ v.response.tokens = u.response.tokens
<1> DEFINE ended == [u EXCEPT !.done = TRUE]
           more == u.closed + 1
           told == [ended EXCEPT !.closed = more]
           taken == [told EXCEPT !.usage = FALSE]
           reported == [u.response EXCEPT !.reported = u.usage]
           v == [taken EXCEPT !.response = reported]
<1>1. u.response \in Response /\ u.usage \in BOOLEAN /\ u.closed \in Nat
  BY DEF TurnType
<1>2. /\ reported \in Response
      /\ reported.content = u.response.content /\ reported.tokens = u.response.tokens
  BY <1>1 DEF Response
<1>3. /\ ended \in TurnType /\ ended.done
      /\ ended.pc = u.pc /\ ended.request = u.request /\ ended.asked = u.asked
      /\ ended.seen = u.seen /\ ended.closed = u.closed /\ ended.handle = u.handle
      /\ ended.response = u.response
  BY DEF TurnType
<1> HIDE DEF ended
<1>4. /\ told \in TurnType /\ told.done
      /\ told.pc = u.pc /\ told.request = u.request /\ told.asked = u.asked
      /\ told.seen = u.seen /\ told.closed = u.closed + 1 /\ told.handle = u.handle
      /\ told.response = u.response
  <2>1. more \in Nat
    BY <1>1
  <2> HIDE DEF more
  <2>2. /\ told \in TurnType /\ told.done
        /\ told.pc = u.pc /\ told.request = u.request /\ told.asked = u.asked
        /\ told.seen = u.seen /\ told.closed = more /\ told.handle = u.handle
        /\ told.response = u.response
    BY <1>3, <2>1 DEF TurnType
  <2>3. QED
    BY <2>2 DEF more
<1> HIDE DEF told
<1>5. /\ taken \in TurnType /\ taken.done
      /\ taken.pc = u.pc /\ taken.request = u.request /\ taken.asked = u.asked
      /\ taken.seen = u.seen /\ taken.closed = u.closed + 1 /\ taken.handle = u.handle
      /\ taken.response = u.response
  BY <1>4 DEF TurnType
<1>6. v = Completed(u)
  <2>1. ended.closed + 1 = more
    BY <1>3
  <2>2. QED
    BY <2>1 DEF Completed, ended, told, taken
<1> HIDE DEF taken, reported
<1>7. /\ v \in TurnType /\ v.done
      /\ v.pc = u.pc /\ v.request = u.request /\ v.asked = u.asked
      /\ v.seen = u.seen /\ v.closed = u.closed + 1 /\ v.handle = u.handle
      /\ v.response = reported
  BY <1>2, <1>5 DEF TurnType
<1> HIDE DEF v
<1>8. QED
  BY <1>2, <1>6, <1>7

\* The end of a live stream: hooks, write-back and hand-over, at the first
\* poll that finds it.
LEMMA EndInv ==
    ASSUME TurnInv, NEW t \in Turns, PollEnd(t)
    PROVE  TurnInv'
<1>1. PICK u : u = turn[t]
  OBVIOUS
<1>2. u \in TurnType /\ Staged(u) /\ u.pc = "stream" /\ cache \in [Requests -> Response]
  BY <1>1 DEF TurnInv, TurnShape, PollEnd, At
<1>3. CASE u.done
  <2>1. UNCHANGED <<client, turn, cache>>
    BY <1>1, <1>3 DEF PollEnd, FirstEnd
  <2>2. QED
    BY <1>2, <2>1, NoneMoves
<1>4. CASE ~u.done
  <2>1. PICK whole : whole = Completed(u)
    OBVIOUS
  <2>2. PICK v : v = Publish(whole)
    OBVIOUS
  <2>3. /\ turn' = [turn EXCEPT ![t] = v] /\ UNCHANGED client
        /\ cache' = IF client.cache /\ ~u.sawError
                    THEN [cache EXCEPT ![u.request] = whole.response] ELSE cache
    BY <1>1, <1>4, <2>1, <2>2 DEF PollEnd, FirstEnd, Set, WriteBack
  <2>4. /\ u.closed = 0 /\ ~u.handle.some /\ u.asked = Plugins /\ u.request \in Requests
        /\ Tells(u.seen, u.response) /\ (~u.sawError => u.response.content = u.seen)
    BY <1>2, <1>4 DEF Staged, Streams
  <2>5. /\ whole \in TurnType /\ whole.done
        /\ whole.pc = "stream" /\ whole.request = u.request /\ whole.asked = Plugins
        /\ whole.seen = u.seen /\ whole.closed = 1 /\ whole.handle = u.handle
        /\ whole.response.content = u.response.content
        /\ whole.response.tokens = u.response.tokens
    BY <1>2, <2>1, <2>4, CompletedIs
  <2>6. /\ v \in TurnType
        /\ v.pc = "stream" /\ v.request = u.request /\ v.asked = Plugins /\ v.seen = u.seen
        /\ v.closed = 1 /\ v.done /\ (v.handle = whole.response \/ v.handle = u.handle)
    BY <2>2, <2>5, PublishIs
  <2>7. Tells(u.seen, whole.response)
    BY <2>4, <2>5 DEF Tells
  <2>8. Staged(v)
    BY <2>4, <2>6, <2>7 DEF Staged, Streams, Ahead
  <2>9. Follows(turn[t], v) /\ v.pc # "replay"
    BY <1>1, <1>4, <2>6 DEF Follows, Ended
  <2>10. whole.response \in Response
    BY <2>5 DEF TurnType
  <2>11. cache' \in [Requests -> Response]
    BY <1>2, <2>3, <2>10
  <2>12. ASSUME NEW r \in Requests
         PROVE  \/ cache'[r].some => cache'[r] = cache[r]
                \/ /\ Tells(cache'[r].content, cache'[r])
                   /\ Ended(v) /\ v.request = r /\ v.seen = cache'[r].content
    <3>1. CASE cache'[r] = cache[r]
      BY <3>1
    <3>2. CASE cache'[r] # cache[r]
      <4>1. r = u.request /\ ~u.sawError /\ cache'[r] = whole.response
        BY <1>2, <2>3, <2>4, <3>2
      <4>2. u.seen = whole.response.content
        BY <2>4, <2>5, <4>1
      <4>3. QED
        BY <2>6, <2>7, <4>1, <4>2 DEF Ended
    <3>3. QED
      BY <3>1, <3>2
  <2>13. QED
    BY <2>3, <2>6, <2>8, <2>9, <2>11, <2>12, OneTurnMoves
<1>5. QED
  BY <1>3, <1>4

\* Taking the first item off a sequence and putting it behind another.
LEMMA HeadMovesOver ==
    ASSUME NEW S, NEW s \in Seq(S), NEW q \in Seq(S), q # <<>>
    PROVE  /\ Head(q) \in S /\ Tail(q) \in Seq(S)
           /\ Append(s, Head(q)) \o Tail(q) = s \o q
<1>1. Head(q) \in S /\ Tail(q) \in Seq(S) /\ Len(q) \in Nat \ {0} /\ Len(Tail(q)) = Len(q) - 1
  OBVIOUS
<1>2. PICK h, rest : h = Head(q) /\ rest = Tail(q)
  OBVIOUS
<1>3. /\ q[1] = h
      /\ \A i \in 1..(Len(q) - 1) : rest[i] = q[i + 1]
  BY <1>1, <1>2
<1>4. Append(s, h) \in Seq(S) /\ Len(Append(s, h)) = Len(s) + 1
  BY <1>1, <1>2
<1> DEFINE left == Append(s, h) \o rest
           right == s \o q
<1>5. Len(left) = Len(s) + Len(q) /\ Len(right) = Len(s) + Len(q)
  BY <1>1, <1>2, <1>4
<1>6. left \in Seq(S) /\ right \in Seq(S)
  BY <1>1, <1>2, <1>4
<1>7. ASSUME NEW i \in 1..(Len(s) + Len(q))
      PROVE  left[i] = right[i]
  <2>1. CASE i \in 1..Len(s)
    BY <1>1, <1>2, <1>4, <2>1
  <2>2. CASE i = Len(s) + 1
    BY <1>1, <1>2, <1>3, <1>4, <2>2
  <2>3. CASE i > Len(s) + 1
    <3>1. left[i] = rest[i - (Len(s) + 1)]
      BY <1>1, <1>2, <1>4, <2>3
    <3>2. right[i] = q[i - Len(s)]
      BY <1>1, <2>3
    <3>3. i - (Len(s) + 1) \in 1..(Len(q) - 1)
      BY <1>1, <2>3
    <3>4. rest[i - (Len(s) + 1)] = q[(i - (Len(s) + 1)) + 1]
      BY <1>3, <3>3
    <3>5. QED
      BY <1>1, <3>1, <3>2, <3>4
  <2>4. Len(s) \in Nat /\ Len(q) \in Nat
    OBVIOUS
  <2>5. i \in 1..Len(s) \/ i = Len(s) + 1 \/ i > Len(s) + 1
    BY <2>4
  <2>6. QED
    BY <2>1, <2>2, <2>3, <2>5
<1> HIDE DEF left, right
<1>8. left = right
  BY <1>1, <1>5, <1>6, <1>7
<1>9. QED
  BY <1>1, <1>2, <1>8 DEF left, right

\* A poll of a replay: the next item, or the end at the first poll past it.
LEMMA ReplayInv ==
    ASSUME TurnInv, NEW t \in Turns, PollReplay(t)
    PROVE  TurnInv'
<1>1. PICK u : u = turn[t]
  OBVIOUS
<1>2. u \in TurnType /\ Staged(u) /\ u.pc = "replay" /\ cache \in [Requests -> Response]
  BY <1>1 DEF TurnInv, TurnShape, PollReplay, At
<1>3. /\ u.asked = Plugins /\ u.request \in Requests
      /\ Live(u.request, IF u.done THEN u.seen ELSE u.response.content)
  BY <1>1, <1>2 DEF Staged, Streams, TurnInv, Replayed, At
<1>4. u.left \in Seq(Block) /\ u.seen \in Seq(Item) /\ u.closed \in Nat /\ u.response \in Response
  BY <1>2 DEF TurnType
<1>5. CASE u.left # <<>>
  <2>1. PICK item, rest : item = Head(u.left) /\ rest = Tail(u.left)
    OBVIOUS
  <2>2. item \in Item /\ rest \in Seq(Block) /\ Append(u.seen, item) \o rest = u.seen \o u.left
    <3>1. item \in Block /\ rest \in Seq(Block)
      BY <1>4, <1>5, <2>1
    <3>2. u.left \in Seq(Item)
      BY <1>4 DEF Item
    <3>3. QED
      BY <1>4, <1>5, <2>1, <3>1, <3>2, HeadMovesOver DEF Item
  <2>3. PICK seen : seen = Append(u.seen, item)
    OBVIOUS
  <2>4. seen \in Seq(Item) /\ seen \o rest = u.seen \o u.left
    <3>1. Append(u.seen, item) \in Seq(Item)
      BY <1>4, <2>2
    <3>2. QED
      BY <2>2, <2>3, <3>1
  <2> DEFINE v == [u EXCEPT !.seen = seen, !.left = rest]
  <2>5. turn' = [turn EXCEPT ![t] = v] /\ UNCHANGED <<client, cache>>
    BY <1>1, <1>5, <2>1, <2>3 DEF PollReplay, Set
  <2>6. ~u.done /\ u.seen \o u.left = u.response.content
    BY <1>2, <1>5 DEF Staged
  <2>7. v \in TurnType
    BY <1>2, <2>2, <2>4 DEF TurnType
  <2>8. Staged(v)
    BY <1>2, <2>4, <2>6 DEF Staged, Ahead, TurnType
  <2>9. /\ Follows(u, v)
        /\ v.pc = "replay" => Live(v.request, IF v.done THEN v.seen ELSE v.response.content)
    BY <1>2, <1>3, <2>6 DEF Follows, Ended, TurnType
  <2> HIDE DEF v
  <2>10. QED
    BY <1>1, <1>2, <2>5, <2>7, <2>8, <2>9, OneTurnMoves
<1>6. CASE u.left = <<>> /\ u.done
  <2>1. UNCHANGED <<client, turn, cache>>
    BY <1>1, <1>6 DEF PollReplay, FirstEnd
  <2>2. QED
    BY <1>2, <2>1, NoneMoves
<1>7. CASE u.left = <<>> /\ ~u.done
  <2> DEFINE ended == [u EXCEPT !.done = TRUE]
             more == u.closed + 1
             told == [ended EXCEPT !.closed = more]
  <2>1. PICK v : v = Publish(told)
    OBVIOUS
  <2>2. more = 1 /\ ~u.handle.some /\ u.seen \o u.left = u.response.content
        /\ Tells(u.response.content, u.response)
    BY <1>2, <1>7 DEF Staged
  <2>3. u.seen = u.response.content
    <3>1. u.seen \o <<>> = u.seen
      BY <1>4
    <3>2. QED
      BY <1>7, <2>2, <3>1
  <2>4. /\ ended \in TurnType /\ ended.done
        /\ ended.pc = "replay" /\ ended.request = u.request /\ ended.asked = Plugins
        /\ ended.seen = u.seen /\ ended.left = <<>> /\ ended.closed = u.closed
        /\ ended.handle = u.handle /\ ended.response = u.response
    BY <1>2, <1>3, <1>7 DEF TurnType
  <2>5. turn' = [turn EXCEPT ![t] = v] /\ UNCHANGED <<client, cache>>
    <3>1. [u EXCEPT !.done = TRUE, !.closed = @ + 1] = told
      BY <2>4
    <3>2. QED
      BY <1>1, <1>7, <2>1, <3>1 DEF PollReplay, FirstEnd, Set
  <2> HIDE DEF ended, more
  <2>6. /\ told \in TurnType /\ told.done
        /\ told.pc = "replay" /\ told.request = u.request /\ told.asked = Plugins
        /\ told.seen = u.seen /\ told.left = <<>> /\ told.closed = 1
        /\ told.handle = u.handle /\ told.response = u.response
    BY <2>2, <2>4 DEF TurnType
  <2> HIDE DEF told
  <2>7. /\ v \in TurnType
        /\ v.pc = "replay" /\ v.request = u.request /\ v.asked = Plugins /\ v.seen = u.seen
        /\ v.left = <<>> /\ v.closed = 1 /\ v.done
        /\ (v.handle = u.response \/ v.handle = u.handle)
    BY <2>1, <2>6, PublishIs
  <2>8. Staged(v)
    BY <1>3, <2>2, <2>3, <2>7 DEF Staged, Ahead, Streams
  <2>9. /\ Follows(u, v)
        /\ v.pc = "replay" => Live(v.request, IF v.done THEN v.seen ELSE v.response.content)
    BY <1>2, <1>3, <1>7, <2>3, <2>7 DEF Follows, Ended
  <2>10. QED
    BY <1>1, <1>2, <2>5, <2>7, <2>8, <2>9, OneTurnMoves
<1>8. QED
  BY <1>5, <1>6, <1>7

\* The stream of an orchestrator without a cache yields an item or ends.
LEMMA BareInv ==
    ASSUME TurnInv, NEW t \in Turns, EndBare(t) \/ \E item \in {"text", Refused} : PollBare(t, item)
    PROVE  TurnInv'
<1>1. PICK u : u = turn[t]
  OBVIOUS
<1>2. u \in TurnType /\ Staged(u) /\ u.pc = "bare" /\ ~u.done /\ cache \in [Requests -> Response]
  BY <1>1 DEF TurnInv, TurnShape, EndBare, PollBare, At
<1>3. ~u.handle.some /\ u.closed = 0 /\ u.asked = Plugins /\ u.request \in Requests
  BY <1>2 DEF Staged, Streams
<1>4. CASE EndBare(t)
  <2> DEFINE v == [u EXCEPT !.done = TRUE]
  <2>1. turn' = [turn EXCEPT ![t] = v] /\ UNCHANGED <<client, cache>>
    BY <1>1, <1>4 DEF EndBare, Set
  <2>2. v \in TurnType
    BY <1>2 DEF TurnType
  <2>3. Staged(v)
    BY <1>2, <1>3 DEF Staged, Ahead, Streams, TurnType
  <2>4. Follows(u, v) /\ v.pc # "replay"
    BY <1>2 DEF Follows, Ended, TurnType
  <2> HIDE DEF v
  <2>5. QED
    BY <1>1, <1>2, <2>1, <2>2, <2>3, <2>4, OneTurnMoves
<1>5. ASSUME NEW item \in {"text", Refused}, PollBare(t, item)
      PROVE  TurnInv'
  <2>1. PICK seen : seen = Append(u.seen, item)
    OBVIOUS
  <2>2. seen \in Seq(Item)
    <3>1. u.seen \in Seq(Item) /\ item \in Item
      BY <1>2 DEF TurnType, Item, Block
    <3>2. QED
      BY <2>1, <3>1
  <2> DEFINE v == [u EXCEPT !.seen = seen]
  <2>3. turn' = [turn EXCEPT ![t] = v] /\ UNCHANGED <<client, cache>>
    BY <1>1, <1>5, <2>1 DEF PollBare, Set
  <2>4. v \in TurnType
    BY <1>2, <2>2 DEF TurnType
  <2>5. Staged(v)
    BY <1>2, <1>3 DEF Staged, Ahead, Streams, TurnType
  <2>6. Follows(u, v) /\ v.pc # "replay"
    BY <1>2 DEF Follows, Ended, TurnType
  <2> HIDE DEF v
  <2>7. QED
    BY <1>1, <1>2, <2>3, <2>4, <2>5, <2>6, OneTurnMoves
<1>6. QED
  BY <1>4, <1>5

\* The caller takes the response out of its handle.
LEMMA TakeInv ==
    ASSUME TurnInv, NEW t \in Turns, TakeResponse(t)
    PROVE  TurnInv'
<1>1. PICK u : u = turn[t]
  OBVIOUS
<1>2. u \in TurnType /\ Staged(u) /\ cache \in [Requests -> Response]
  BY <1>1 DEF TurnInv, TurnShape
<1>3. PICK none : none = NoResponse
  OBVIOUS
<1>4. none \in Response /\ ~none.some
  BY <1>3, EmptyTells
<1> DEFINE v == [u EXCEPT !.handle = none]
<1>5. turn' = [turn EXCEPT ![t] = v] /\ UNCHANGED <<client, cache>>
  BY <1>1, <1>3 DEF TakeResponse, Set
<1>6. v \in TurnType
  BY <1>2, <1>4 DEF TurnType
<1>7. Staged(v)
  BY <1>2, <1>4 DEF Staged, TurnType
<1>8. Follows(u, v)
  BY <1>2 DEF Follows, Ended, TurnType
<1>9. v.pc = "replay" => Live(v.request, IF v.done THEN v.seen ELSE v.response.content)
  BY <1>1, <1>2 DEF TurnInv, Replayed, At, TurnType
<1> HIDE DEF v
<1>10. QED
  BY <1>1, <1>2, <1>5, <1>6, <1>7, <1>8, <1>9, OneTurnMoves

\* The consumer drops a stream before its end.
LEMMA DropInv ==
    ASSUME TurnInv, NEW t \in Turns, DropStream(t)
    PROVE  TurnInv'
<1>1. PICK u : u = turn[t]
  OBVIOUS
<1>2. u \in TurnType /\ Staged(u) /\ ~u.done /\ cache \in [Requests -> Response]
  BY <1>1 DEF TurnInv, TurnShape, DropStream
<1> DEFINE v == [u EXCEPT !.pc = "dropped"]
<1>3. turn' = [turn EXCEPT ![t] = v] /\ UNCHANGED <<client, cache>>
  BY <1>1 DEF DropStream, Set
<1>4. v \in TurnType
  BY <1>2 DEF TurnType
<1>5. Staged(v)
  BY <1>2 DEF Staged, Ahead, Streams, TurnType
<1>6. Follows(u, v) /\ v.pc # "replay"
  BY <1>2 DEF Follows, Ended, TurnType
<1> HIDE DEF v
<1>7. QED
  BY <1>1, <1>2, <1>3, <1>4, <1>5, <1>6, OneTurnMoves

\* The cache loses an entry.
LEMMA ForgetInv ==
    ASSUME TurnInv, NEW r \in Requests, Forget(r)
    PROVE  TurnInv'
<1>1. NoResponse \in Response /\ ~NoResponse.some
  BY EmptyTells
<1>2. cache \in [Requests -> Response] /\ cache' = [cache EXCEPT ![r] = NoResponse]
  BY DEF TurnInv, TurnShape, Forget
<1>3. /\ cache' \in [Requests -> Response]
      /\ \A q \in Requests : cache'[q].some => cache'[q] = cache[q]
  BY <1>1, <1>2
<1>4. QED
  BY <1>3, NoneMoves DEF Forget

\* No turn has begun and the cache is empty.
LEMMA InitInv == Init => TurnInv
<1> SUFFICES ASSUME Init PROVE TurnInv
  OBVIOUS
<1>1. Empty \in Response /\ NoResponse \in Response /\ ~NoResponse.some
  BY EmptyTells
<1>2. Fresh \in TurnType /\ Staged(Fresh) /\ Fresh.pc = "idle"
  <2>1. PICK empty, none : empty = Empty /\ none = NoResponse
    OBVIOUS
  <2>2. <<>> \in Seq(Block) /\ <<>> \in Seq(Item)
    OBVIOUS
  <2>3. Fresh = [pc |-> "idle", request |-> "none", asked |-> 0,
                 wants |-> FALSE, usage |-> FALSE, response |-> empty, sawError |-> FALSE,
                 done |-> FALSE, left |-> <<>>, handle |-> none, seen |-> <<>>, closed |-> 0]
    BY <2>1 DEF Fresh
  <2>4. empty \in Response /\ none \in Response /\ ~none.some
    BY <1>1, <2>1
  <2>5. Fresh \in TurnType
    BY <2>2, <2>3, <2>4 DEF TurnType
  <2>6. Staged(Fresh)
    BY <2>1, <2>3, <2>4 DEF Staged, Ahead, Streams
  <2>7. QED
    BY <2>3, <2>5, <2>6
<1>3. TurnShape
  BY <1>1, <1>2 DEF Init, TurnShape
<1>4. \A t \in Turns : turn[t] = Fresh
  BY DEF Init
<1>5. \A r \in Requests : Cached(r)
  BY <1>1 DEF Init, Cached
<1>6. \A t \in Turns : Replayed(t)
  BY <1>2, <1>4 DEF Replayed, At
<1>7. QED
  BY <1>2, <1>3, <1>4, <1>5, <1>6 DEF TurnInv

\* Every step keeps the invariant.
LEMMA NextInv == TurnInv /\ [Next]_turnVars => TurnInv'
<1> SUFFICES ASSUME TurnInv, [Next]_turnVars PROVE TurnInv'
  OBVIOUS
<1>1. ASSUME NEW t \in Turns, NEW r \in Requests, NEW p \in 0..Plugins, NEW w \in BOOLEAN,
             RunRequestHooks(t, r, p, w)
      PROVE  TurnInv'
  BY <1>1, HooksInv
<1>2. ASSUME NEW t \in Turns, LookUp(t) PROVE TurnInv'
  BY <1>2, LookUpInv
<1>3. ASSUME NEW t \in Turns, Dispatch(t) PROVE TurnInv'
  BY <1>3, DispatchInv
<1>4. ASSUME NEW t \in Turns, PollBlock(t) PROVE TurnInv'
  <2>1. PICK item \in Outcomes : Set(t, Yield(turn[t], item))
    BY <1>4 DEF PollBlock
  <2>2. item \in Item
    BY OutcomesAreItems
  <2>3. QED
    BY <1>4, <2>1, <2>2, PollItemInv DEF PollBlock
<1>5. ASSUME NEW t \in Turns, PollError(t) PROVE TurnInv'
  <2>1. Refused \in Item
    BY DEF Item
  <2>2. QED
    BY <1>5, <2>1, PollItemInv DEF PollError
<1>6. ASSUME NEW t \in Turns, ReportUsage(t) PROVE TurnInv'
  BY <1>6, ReportInv
<1>7. ASSUME NEW t \in Turns, PollEnd(t) PROVE TurnInv'
  BY <1>7, EndInv
<1>8. ASSUME NEW t \in Turns, PollReplay(t) PROVE TurnInv'
  BY <1>8, ReplayInv
<1>9. ASSUME NEW t \in Turns, EndBare(t) \/ \E item \in {"text", Refused} : PollBare(t, item)
      PROVE  TurnInv'
  BY <1>9, BareInv
<1>10. ASSUME NEW t \in Turns, TakeResponse(t) PROVE TurnInv'
  BY <1>10, TakeInv
<1>11. ASSUME NEW t \in Turns, DropStream(t) PROVE TurnInv'
  BY <1>11, DropInv
<1>12. ASSUME NEW r \in Requests, Forget(r) PROVE TurnInv'
  BY <1>12, ForgetInv
<1>13. CASE UNCHANGED turnVars
  <2>1. cache \in [Requests -> Response]
    BY DEF TurnInv, TurnShape
  <2>2. QED
    BY <1>13, <2>1, NoneMoves DEF turnVars
<1>14. QED
  BY <1>1, <1>2, <1>3, <1>4, <1>5, <1>6, <1>7, <1>8, <1>9, <1>10, <1>11, <1>12, <1>13 DEF Next

\* The invariant holds throughout.
LEMMA InvHolds == Spec => []TurnInv
<1>1. QED
  BY InitInv, NextInv, PTL DEF Spec

-----------------------------------------------------------------------------
(* Theorems.                                                               *)

\* Whatever plugins refuse, streams break and entries are lost, and in
\* whatever order turns of one request run, a response that may be replayed is
\* one that a consumer was given whole, and a replay that ended gave its own
\* consumer the same (client.rs PluginStream and CacheHitStream).
THEOREM ReplaysAreLiveTurns == Spec => []ReplayIsFaithful
<1>1. TurnInv => CacheHoldsWhatWasSeen
  BY DEF TurnInv, Cached, Live, Ended, CacheHoldsWhatWasSeen, At
<1>2. TurnInv => ReplayEqualsALiveTurn
  BY DEF TurnInv, Replayed, Live, Ended, ReplayEqualsALiveTurn, At
<1>3. TurnInv => ReplayIsFaithful
  BY <1>1, <1>2 DEF ReplayIsFaithful
<1>4. QED
  BY <1>3, InvHolds, PTL

\* The plugins' terminal hooks run once for a stream that ended and never
\* else, and what the caller's handle holds is exactly what its stream
\* yielded, errors left out, of a live turn and of a replay (client.rs
\* poll_next of both streams, publish_response).
THEOREM EndsAreToldOnce == Spec => []EndIsToldOnce
<1>1. ASSUME TurnInv, NEW t \in Turns
      PROVE  /\ turn[t].closed = IF Instrumented(t) /\ turn[t].done THEN 1 ELSE 0
             /\ turn[t].closed = 1 => turn[t].asked = Plugins
  <2>1. Staged(turn[t])
    BY <1>1 DEF TurnInv
  <2>2. turn[t].closed = IF Instrumented(t) /\ turn[t].done THEN 1 ELSE 0
    BY <2>1 DEF Staged, Instrumented
  <2>3. turn[t].closed = 1 => turn[t].pc \in Streams
    BY <2>2 DEF Instrumented, Streams
  <2>4. QED
    BY <2>1, <2>2, <2>3 DEF Staged
<1>2. ASSUME TurnInv, NEW t \in Turns, turn[t].handle.some
      PROVE  /\ turn[t].done /\ turn[t].closed = 1
             /\ WithoutErrors(turn[t].seen, turn[t].handle.content)
             /\ turn[t].handle.tokens = NumGenerated(turn[t].seen)
  BY <1>2 DEF TurnInv, Staged, Tells
<1>3. TurnInv => EndIsToldOnce
  BY <1>1, <1>2 DEF EndIsToldOnce, ClosedOnceIffEnded, HandleIsTheStream
<1>4. QED
  BY <1>3, InvHolds, PTL

-----------------------------------------------------------------------------
(* The ledger of the cost plugin.                                          *)

Entry == [Fields -> Nat]
Keys == Models \cup {Overflow}

\* The buckets of a ledger: a few, each an entry.
Breakdown(p) ==
    /\ p \in [DOMAIN p -> Entry]
    /\ IsFiniteSet(DOMAIN p)
    /\ Cardinality(DOMAIN p \ {Overflow}) <= MaxTracked

LedgerType == [totals : Entry, unpriced : Nat, overflowTurns : Nat, images : Nat,
               perModel : UNION {[K -> Entry] : K \in SUBSET Keys}]

ChargeType == [pc : {"idle", "observed", "running", "over", "refused"},
               model : Models \cup {"none"}, entry : Entry, images : Nat, since : Nat,
               warned : BOOLEAN]

LedgerShape ==
    /\ ledger \in LedgerType
    /\ charge \in [CostTurns -> ChargeType]
    /\ period \in [resets : Nat, torn : BOOLEAN]

\* A turn that goes on has a model, and its charge is of this period or before.
Running ==
    \A t \in CostTurns :
        /\ charge[t].pc \in {"observed", "running"} => charge[t].model \in Models
        /\ charge[t].since <= period.resets

\* In every field the buckets cover the totals.
Covers(l) == \A f \in Fields : SumOf(l, f) >= l.totals[f]

LedgerInv == LedgerShape /\ Running /\ Breakdown(ledger.perModel) /\ Covers(ledger) /\ BudgetKept

-----------------------------------------------------------------------------
(* Entries.                                                                *)

\* Adding, taking off and committing work field by field.
LEMMA EntryArithmetic ==
    ASSUME NEW e \in Entry, NEW d \in Entry, NEW n \in Nat
    PROVE  /\ Add(e, d) \in Entry /\ \A f \in Fields : Add(e, d)[f] = e[f] + d[f]
           /\ Sub(e, d) \in Entry /\ \A f \in Fields : Sub(e, d)[f] = Minus(e[f], d[f])
           /\ Commit(e, d, n) \in Entry
           /\ \A f \in Fields :
                 Commit(e, d, n)[f] = (IF f = "spent" THEN Minus(e[f], n) ELSE e[f]) + d[f]
<1>1. DOMAIN e = Fields /\ \A f \in Fields : e[f] \in Nat /\ d[f] \in Nat
  BY DEF Entry
<1>2. \A a, b \in Nat : Minus(a, b) \in Nat
  BY DEF Minus
<1>3. /\ Add(e, d) \in Entry /\ \A f \in Fields : Add(e, d)[f] = e[f] + d[f]
  BY <1>1 DEF Add, Entry
<1>4. /\ Sub(e, d) \in Entry /\ \A f \in Fields : Sub(e, d)[f] = Minus(e[f], d[f])
  BY <1>1, <1>2 DEF Sub, Entry
<1> DEFINE r == [e EXCEPT !.spent = Minus(@, n)]
<1>5. /\ r \in Entry /\ DOMAIN r = Fields
      /\ \A f \in Fields : r[f] = IF f = "spent" THEN Minus(e[f], n) ELSE e[f]
  BY <1>1, <1>2 DEF Entry
<1>6. Commit(e, d, n) = Add(r, d)
  BY DEF Commit
<1> HIDE DEF r
<1>7. Commit(e, d, n) \in Entry /\ \A f \in Fields : Commit(e, d, n)[f] = r[f] + d[f]
  BY <1>1, <1>5, <1>6 DEF Add, Entry
<1>8. QED
  BY <1>3, <1>4, <1>5, <1>7

\* An entry of nothing.
LEMMA NoEntryIsZero == NoEntry \in Entry /\ \A f \in Fields : NoEntry[f] = 0
BY DEF NoEntry, Entry

\* Prices are numbers.
LEMMA PricedIsNat ==
    ASSUME NEW model \in Models, NEW tokens \in Nat, NEW which \in {"in", "out", "read"}
    PROVE  Priced(model, tokens, which) \in Nat
<1>1. CASE Rates[model] = NoRates
  BY <1>1 DEF Priced
<1>2. CASE Rates[model] # NoRates
  <2>1. Rates[model][which] \in Nat
    BY <1>2, CostAssumption
  <2>2. tokens * Rates[model][which] \in Nat
    BY <2>1
  <2>3. \A n \in Nat : n \div PerMtok \in Nat
    BY CostAssumption
  <2>4. QED
    BY <1>2, <2>2, <2>3 DEF Priced, Price
<1>3. QED
  BY <1>1, <1>2

\* Estimates are numbers.
LEMMA EstimatesAreNats ==
    ASSUME NEW content \in Content
    PROVE  /\ EstimatePrompt(content) \in Nat
           /\ EstimateCompletion(content) \in Nat
           /\ ImageBlocks(content) \in Nat
<1>1. /\ IsFiniteSet(DOMAIN content)
      /\ \A i \in DOMAIN content : content[i].size \in Nat
  <2>1. DOMAIN content = 1..Len(content) /\ Len(content) \in Nat
    BY DEF Content
  <2>2. IsFiniteSet(DOMAIN content)
    BY <2>1, FS_Interval
  <2>3. \A i \in DOMAIN content : content[i].size \in Nat
    <3> DEFINE B == [kind : {"text", "thinking", "call", "result", "image"}, size : Nat]
    <3>1. content \in Seq(B)
      BY DEF Content
    <3>2. \A b \in B : b.size \in Nat
      OBVIOUS
    <3> HIDE DEF B
    <3>3. \A i \in 1..Len(content) : content[i] \in B
      BY <3>1
    <3>4. QED
      BY <2>1, <3>2, <3>3
  <2>4. QED
    BY <2>2, <2>3
<1>2. \A kinds : IsFiniteSet(BlocksOf(content, kinds))
  BY <1>1, FS_Subset DEF BlocksOf
<1>3. ASSUME NEW kinds
      PROVE  SizeOf(content, kinds) \in Nat
  <2> DEFINE sizes == [i \in DOMAIN content |-> content[i].size]
  <2>1. \A i \in BlocksOf(content, kinds) : sizes[i] \in Nat
    BY <1>1 DEF BlocksOf
  <2> HIDE DEF sizes
  <2>2. SumFunctionOnSet(sizes, BlocksOf(content, kinds)) \in Nat
    BY <1>2, <2>1, SumOfNats
  <2>3. QED
    BY <2>2 DEF SizeOf, sizes
<1>4. QED
  BY <1>2, <1>3, FS_CardinalityType DEF EstimatePrompt, EstimateCompletion, ImageBlocks

-----------------------------------------------------------------------------
(* Buckets.                                                                *)

\* A sum over the buckets changes by what one bucket changes.
LEMMA OneBucket ==
    ASSUME NEW l, NEW m, NEW key, NEW f \in Fields,
           Breakdown(l.perModel), m.perModel \in [DOMAIN m.perModel -> Entry],
           DOMAIN m.perModel \subseteq DOMAIN l.perModel \cup {key},
           DOMAIN l.perModel \subseteq DOMAIN m.perModel \cup {key},
           \A k \in DOMAIN l.perModel \ {key} : m.perModel[k] = l.perModel[k]
    PROVE  /\ IsFiniteSet(DOMAIN m.perModel)
           /\ SumOf(l, f) \in Nat /\ SumOf(m, f) \in Nat
           /\ SumOf(m, f) + (IF key \in DOMAIN l.perModel THEN l.perModel[key][f] ELSE 0)
                = SumOf(l, f) + (IF key \in DOMAIN m.perModel THEN m.perModel[key][f] ELSE 0)
<1> DEFINE S == DOMAIN l.perModel
           T == DOMAIN m.perModel
           a == [k \in S |-> l.perModel[k][f]]
           b == [k \in T |-> m.perModel[k][f]]
<1>1. IsFiniteSet(S) /\ T \subseteq S \cup {key} /\ S \subseteq T \cup {key}
  BY DEF Breakdown
<1>2. (\A k \in S : a[k] \in Nat) /\ \A k \in T : b[k] \in Nat
  BY DEF Breakdown, Entry
<1>3. \A k \in S \ {key} : b[k] = a[k]
  OBVIOUS
<1>4. /\ key \in S => a[key] = l.perModel[key][f]
      /\ key \in T => b[key] = m.perModel[key][f]
  OBVIOUS
<1>5. SumOf(l, f) = SumFunctionOnSet(a, S) /\ SumOf(m, f) = SumFunctionOnSet(b, T)
  BY DEF SumOf, SumFunction
<1> HIDE DEF a, b, S, T
<1>6. /\ IsFiniteSet(T)
      /\ SumFunctionOnSet(a, S) \in Nat /\ SumFunctionOnSet(b, T) \in Nat
      /\ SumFunctionOnSet(b, T) + (IF key \in S THEN a[key] ELSE 0)
           = SumFunctionOnSet(a, S) + (IF key \in T THEN b[key] ELSE 0)
  BY <1>1, <1>2, <1>3, SumWith
<1>7. QED
  BY <1>4, <1>5, <1>6 DEF S, T

\* No bucket has more than all together.
LEMMA OneTerm ==
    ASSUME NEW l, Breakdown(l.perModel), NEW key \in DOMAIN l.perModel, NEW f \in Fields
    PROVE  SumOf(l, f) >= l.perModel[key][f]
<1> DEFINE S == DOMAIN l.perModel
           a == [k \in S |-> l.perModel[k][f]]
<1>1. IsFiniteSet(S) /\ \A k \in S : a[k] \in Nat
  BY DEF Breakdown, Entry
<1>2. SumOf(l, f) = SumFunctionOnSet(a, S)
  BY DEF SumOf, SumFunction
<1>3. a[key] = l.perModel[key][f]
  OBVIOUS
<1> HIDE DEF a
<1>4. SumFunctionOnSet(a, S) = a[key] + SumFunctionOnSet(a, S \ {key})
  BY <1>1, SumSplits
<1>5. SumFunctionOnSet(a, S \ {key}) \in Nat
  BY <1>1, SumOfNats, FS_Subset
<1>6. QED
  BY <1>1, <1>2, <1>3, <1>4, <1>5

\* A bucket made on demand stays within the tracked models.
LEMMA KeyHasRoom ==
    ASSUME NEW l, Breakdown(l.perModel), NEW model
    PROVE  LET key == KeyFor(l, model)
           IN  /\ key \in {model, Overflow}
               /\ \A T : DOMAIN l.perModel \subseteq T /\ T \subseteq DOMAIN l.perModel \cup {key}
                           => Cardinality(T \ {Overflow}) <= MaxTracked
<1> DEFINE key == KeyFor(l, model)
           D == DOMAIN l.perModel
<1>1. key \in {model, Overflow}
  BY DEF KeyFor
<1>2. IsFiniteSet(D \ {Overflow}) /\ Cardinality(D \ {Overflow}) \in Nat /\ MaxTracked \in Nat
  BY CostAssumption, FS_Subset, FS_CardinalityType DEF Breakdown
<1>3. ASSUME NEW T, D \subseteq T, T \subseteq D \cup {key}
      PROVE  Cardinality(T \ {Overflow}) <= MaxTracked
  <2>1. CASE key \in D \/ key = Overflow
    <3>1. T \ {Overflow} = D \ {Overflow}
      BY <1>3, <2>1
    <3>2. QED
      BY <3>1 DEF Breakdown
  <2>2. CASE key \notin D /\ key # Overflow
    <3>1. Cardinality(D \ {Overflow}) < MaxTracked
      BY <2>2 DEF KeyFor, Tracked
    <3>2. T \ {Overflow} = D \ {Overflow} \/ T \ {Overflow} = (D \ {Overflow}) \cup {key}
      BY <1>3, <2>2
    <3>3. Cardinality((D \ {Overflow}) \cup {key}) = Cardinality(D \ {Overflow}) + 1
      BY <1>2, <2>2, FS_AddElement
    <3>4. QED
      BY <1>2, <3>1, <3>2, <3>3
  <2>3. QED
    BY <2>1, <2>2
<1>4. QED
  BY <1>1, <1>3

\* The buckets p are those of l, with the entry under the key.
IsWith(p, l, key, entry) ==
    /\ Breakdown(p)
    /\ DOMAIN p = DOMAIN l.perModel \cup {key}
    /\ p[key] = entry
    /\ \A k \in DOMAIN l.perModel \ {key} : p[k] = l.perModel[k]

\* A bucket that is set to an entry.
LEMMA BucketIsSet ==
    ASSUME NEW l, Breakdown(l.perModel), NEW model, NEW entry \in Entry
    PROVE  IsWith(WithBucket(l, KeyFor(l, model), entry), l, KeyFor(l, model), entry)
<1>1. PICK key : key = KeyFor(l, model)
  OBVIOUS
<1>2. PICK p : p = WithBucket(l, key, entry)
  OBVIOUS
<1>3. /\ DOMAIN p = DOMAIN l.perModel \cup {key}
      /\ p[key] = entry
      /\ \A k \in DOMAIN l.perModel \ {key} : p[k] = l.perModel[k]
      /\ p \in [DOMAIN p -> Entry]
  BY <1>2 DEF WithBucket, Breakdown
<1>4. IsFiniteSet(DOMAIN p)
  <2>1. IsFiniteSet(DOMAIN l.perModel \cup {key})
    BY FS_AddElement DEF Breakdown
  <2>2. QED
    BY <1>3, <2>1
<1>5. Cardinality(DOMAIN p \ {Overflow}) <= MaxTracked
  BY <1>1, <1>3, KeyHasRoom
<1>6. IsWith(p, l, key, entry)
  BY <1>3, <1>4, <1>5 DEF Breakdown, IsWith
<1>7. QED
  BY <1>1, <1>2, <1>6

-----------------------------------------------------------------------------
(* Operations of the ledger.                                               *)

Totalled(l) == l \in LedgerType /\ Breakdown(l.perModel) /\ Covers(l)

\* What the fields of a ledger are.
LEMMA LedgerFields ==
    ASSUME NEW l, l \in LedgerType
    PROVE  /\ l.totals \in Entry /\ l.unpriced \in Nat /\ l.overflowTurns \in Nat
           /\ l.images \in Nat /\ DOMAIN l.perModel \subseteq Keys
           /\ l.perModel \in [DOMAIN l.perModel -> Entry]
BY DEF LedgerType

\* The ledger m has the buckets of l but for one, and that grew with the totals.
LEMMA CoveredAfter ==
    ASSUME NEW l, Totalled(l), NEW m, NEW key \in Keys,
           NEW totals \in Entry, NEW p, Breakdown(p), NEW u \in Nat, NEW o \in Nat, NEW i \in Nat,
           m = [totals |-> totals, unpriced |-> u, overflowTurns |-> o, images |-> i,
                perModel |-> p],
           DOMAIN p \subseteq DOMAIN l.perModel \cup {key},
           DOMAIN l.perModel \subseteq DOMAIN p \cup {key},
           \A k \in DOMAIN l.perModel \ {key} : p[k] = l.perModel[k],
           NEW old, old = IF key \in DOMAIN l.perModel THEN l.perModel[key] ELSE NoEntry,
           NEW new, new = IF key \in DOMAIN p THEN p[key] ELSE NoEntry,
           \* What the totals gain or do not lose, the bucket does.
           \A f \in Fields : \A s \in Nat :
              s >= l.totals[f] /\ s >= old[f] => s + new[f] >= totals[f] + old[f]
    PROVE  Totalled(m)
<1>1. /\ l.totals \in Entry /\ DOMAIN l.perModel \subseteq Keys
      /\ l.perModel \in [DOMAIN l.perModel -> Entry]
  BY LedgerFields DEF Totalled
<1>2. m.totals = totals /\ m.perModel = p
  OBVIOUS
<1>3. m \in LedgerType
  <2>1. p \in [DOMAIN p -> Entry] /\ DOMAIN p \in SUBSET Keys
    BY <1>1 DEF Breakdown
  <2>2. p \in UNION {[K -> Entry] : K \in SUBSET Keys}
    BY <2>1
  <2>3. QED
    BY <2>2 DEF LedgerType
<1>4. ASSUME NEW f \in Fields
      PROVE  SumOf(m, f) >= m.totals[f]
  <2>1. /\ SumOf(l, f) \in Nat /\ SumOf(m, f) \in Nat
        /\ SumOf(m, f) + (IF key \in DOMAIN l.perModel THEN l.perModel[key][f] ELSE 0)
             = SumOf(l, f) + (IF key \in DOMAIN m.perModel THEN m.perModel[key][f] ELSE 0)
    <3> DEFINE q == m.perModel
    <3>1. /\ Breakdown(l.perModel) /\ q \in [DOMAIN q -> Entry]
          /\ DOMAIN q \subseteq DOMAIN l.perModel \cup {key}
          /\ DOMAIN l.perModel \subseteq DOMAIN q \cup {key}
          /\ \A k \in DOMAIN l.perModel \ {key} : q[k] = l.perModel[k]
      <4>1. q = p
        BY <1>2
      <4> HIDE DEF q
      <4>2. QED
        BY <4>1 DEF Totalled, Breakdown
    <3>2. QED
      BY <3>1, OneBucket
  <2>2. old \in Entry /\ new \in Entry
    BY <1>1, NoEntryIsZero DEF Breakdown
  <2>3. SumOf(m, f) + old[f] = SumOf(l, f) + new[f]
    BY <1>2, <2>1, NoEntryIsZero
  <2>4. old[f] \in Nat /\ new[f] \in Nat /\ totals[f] \in Nat /\ l.totals[f] \in Nat
    BY <1>1, <2>2 DEF Entry
  <2>5. SumOf(l, f) >= l.totals[f]
    BY DEF Totalled, Covers
  <2>6. SumOf(l, f) >= old[f]
    <3>1. CASE key \in DOMAIN l.perModel
      <4>1. SumOf(l, f) >= l.perModel[key][f]
        BY <3>1, OneTerm DEF Totalled
      <4>2. QED
        BY <3>1, <4>1
    <3>2. CASE key \notin DOMAIN l.perModel
      BY <2>1, <3>2, NoEntryIsZero
    <3>3. QED
      BY <3>1, <3>2
  <2>7. SumOf(l, f) + new[f] >= totals[f] + old[f]
    BY <2>1, <2>5, <2>6
  <2>8. QED
    BY <1>2, <2>1, <2>3, <2>4, <2>7
<1>5. QED
  BY <1>2, <1>3, <1>4 DEF Totalled, Covers

\* A charge raises the totals and a bucket alike.
LEMMA ChargeKeepsCover ==
    ASSUME NEW l, Totalled(l), NEW model \in Models, NEW entry \in Entry, NEW images \in Nat
    PROVE  LET m == ChargeRequest(l, model, entry, images)
           IN  Totalled(m) /\ m.totals = Add(l.totals, entry)
<1> DEFINE key == KeyFor(l, model)
           p == WithBucket(l, key, Add(Bucket(l, key), entry))
           u == l.unpriced + (IF Rates[model] = NoRates THEN 1 ELSE 0)
           m == ChargeRequest(l, model, entry, images)
<1>1. /\ l.totals \in Entry /\ l.unpriced \in Nat /\ l.overflowTurns \in Nat
      /\ l.images \in Nat
  BY LedgerFields DEF Totalled
<1>2. m = [totals |-> Add(l.totals, entry), unpriced |-> u, overflowTurns |-> l.overflowTurns,
           images |-> l.images + images, perModel |-> p]
  <2> HIDE DEF p, u
  <2>1. m = [l EXCEPT !.totals = Add(@, entry), !.images = @ + images, !.unpriced = u,
                      !.perModel = p]
    BY DEF ChargeRequest, p, u
  <2>2. QED
    BY <2>1 DEF Totalled, LedgerType
<1>3. Bucket(l, key) \in Entry
  BY NoEntryIsZero DEF Totalled, Breakdown, Bucket
<1>4. /\ Add(l.totals, entry) \in Entry
      /\ \A f \in Fields : Add(l.totals, entry)[f] = l.totals[f] + entry[f]
      /\ Add(Bucket(l, key), entry) \in Entry
      /\ \A f \in Fields : Add(Bucket(l, key), entry)[f] = Bucket(l, key)[f] + entry[f]
  BY <1>1, <1>3, EntryArithmetic
<1>5. /\ Breakdown(p) /\ DOMAIN p = DOMAIN l.perModel \cup {key}
      /\ p[key] = Add(Bucket(l, key), entry)
      /\ \A k \in DOMAIN l.perModel \ {key} : p[k] = l.perModel[k]
  <2>1. IsWith(p, l, key, Add(Bucket(l, key), entry))
    BY <1>4, BucketIsSet DEF Totalled
  <2> HIDE DEF p, key
  <2>2. QED
    BY <2>1 DEF IsWith
<1>6. u \in Nat /\ l.images + images \in Nat /\ key \in Keys
  BY <1>1 DEF KeyFor, Keys
<1>7. \A f \in Fields : \A s \in Nat :
         s >= l.totals[f] /\ s >= Bucket(l, key)[f]
           => s + p[key][f] >= Add(l.totals, entry)[f] + Bucket(l, key)[f]
  <2>1. \A f \in Fields : l.totals[f] \in Nat /\ Bucket(l, key)[f] \in Nat /\ entry[f] \in Nat
    BY <1>1, <1>3 DEF Entry
  <2> HIDE DEF p, key
  <2>2. QED
    BY <1>4, <1>5, <2>1
<1>8. Bucket(l, key) = IF key \in DOMAIN l.perModel THEN l.perModel[key] ELSE NoEntry
  BY DEF Bucket
<1> HIDE DEF p, u, key, m
<1>9. Totalled(m)
  BY <1>1, <1>2, <1>4, <1>5, <1>6, <1>7, <1>8, CoveredAfter
<1>10. QED
  BY <1>2, <1>9 DEF m

\* Taking the same off the total and off a bucket, neither below zero.
LEMMA MinusCovers ==
    ASSUME NEW s \in Nat, NEW total \in Nat, NEW old \in Nat, NEW n \in Nat,
           s >= total, s >= old
    PROVE  s + Minus(old, n) >= Minus(total, n) + old
BY DEF Minus

\* A refund takes the same off both, also when the bucket is another by then, or
\* goes.
LEMMA RefundKeepsCover ==
    ASSUME NEW l, Totalled(l), NEW model \in Models, NEW entry \in Entry, NEW images \in Nat
    PROVE  LET m == RefundRequest(l, model, entry, images)
           IN  Totalled(m) /\ m.totals = Sub(l.totals, entry)
<1> DEFINE key == KeyFor(l, model)
           D == DOMAIN l.perModel
           rest == Sub(Bucket(l, key), entry)
           p == IF key \notin D \/ rest = NoEntry THEN [k \in D \ {key} |-> l.perModel[k]]
                ELSE WithBucket(l, key, rest)
           u == Minus(l.unpriced, IF Rates[model] = NoRates THEN 1 ELSE 0)
           m == RefundRequest(l, model, entry, images)
           new == IF key \in DOMAIN p THEN p[key] ELSE NoEntry
<1>1. /\ l.totals \in Entry /\ l.unpriced \in Nat /\ l.overflowTurns \in Nat
      /\ l.images \in Nat
  BY LedgerFields DEF Totalled
<1>2. m = [totals |-> Sub(l.totals, entry), unpriced |-> u,
           overflowTurns |-> l.overflowTurns, images |-> Minus(l.images, images),
           perModel |-> p]
  <2> HIDE DEF p, u
  <2>1. m = [l EXCEPT !.totals = Sub(@, entry), !.images = Minus(@, images), !.unpriced = u,
                      !.perModel = p]
    BY DEF RefundRequest, p, u
  <2>2. QED
    BY <2>1 DEF Totalled, LedgerType
<1>3. Bucket(l, key) \in Entry
  BY NoEntryIsZero DEF Totalled, Breakdown, Bucket
<1>4. /\ Sub(l.totals, entry) \in Entry
      /\ \A f \in Fields : Sub(l.totals, entry)[f] = Minus(l.totals[f], entry[f])
      /\ rest \in Entry
      /\ \A f \in Fields : rest[f] = Minus(Bucket(l, key)[f], entry[f])
  BY <1>1, <1>3, EntryArithmetic
<1>5. /\ Breakdown(p)
      /\ DOMAIN p \subseteq D \cup {key} /\ D \subseteq DOMAIN p \cup {key}
      /\ \A k \in D \ {key} : p[k] = l.perModel[k]
      /\ key \in D => new = rest
      /\ key \notin D => new = NoEntry
  <2>1. CASE key \notin D \/ rest = NoEntry
    <3>1. p = [k \in D \ {key} |-> l.perModel[k]]
      BY <2>1
    <3>2. /\ DOMAIN p = D \ {key} /\ p \in [D \ {key} -> Entry]
          /\ \A k \in D \ {key} : p[k] = l.perModel[k]
      <4> HIDE DEF p
      <4>1. QED
        BY <3>1 DEF Totalled, Breakdown
    <3>3. IsFiniteSet(D \ {key}) /\ IsFiniteSet(D \ {Overflow})
      BY FS_Subset DEF Totalled, Breakdown
    <3>4. Cardinality((D \ {key}) \ {Overflow}) <= MaxTracked
      <4>1. /\ Cardinality((D \ {key}) \ {Overflow}) <= Cardinality(D \ {Overflow})
            /\ Cardinality((D \ {key}) \ {Overflow}) \in Nat
            /\ Cardinality(D \ {Overflow}) \in Nat
        BY <3>3, FS_Subset, FS_CardinalityType
      <4>2. QED
        BY <4>1, CostAssumption DEF Totalled, Breakdown
    <3> HIDE DEF p, rest
    <3>5. QED
      BY <2>1, <3>2, <3>3, <3>4 DEF Breakdown
  <2>2. CASE key \in D /\ rest # NoEntry
    <3>1. IsWith(WithBucket(l, key, rest), l, key, rest)
      BY <1>4, BucketIsSet DEF Totalled
    <3>2. p = WithBucket(l, key, rest)
      BY <2>2
    <3>3. IsWith(p, l, key, rest)
      BY <3>1, <3>2
    <3> HIDE DEF p, rest, key
    <3>4. QED
      BY <2>2, <3>3 DEF IsWith
  <2>3. QED
    BY <2>1, <2>2
<1>6. u \in Nat /\ Minus(l.images, images) \in Nat /\ key \in Keys
  BY <1>1 DEF KeyFor, Keys, Minus
<1>7. Bucket(l, key) = IF key \in D THEN l.perModel[key] ELSE NoEntry
  BY DEF Bucket
<1> HIDE DEF p, u, key, m, rest, new
<1>8. ASSUME NEW f \in Fields, NEW s \in Nat, s >= l.totals[f], s >= Bucket(l, key)[f]
      PROVE  s + new[f] >= Sub(l.totals, entry)[f] + Bucket(l, key)[f]
  <2>1. l.totals[f] \in Nat /\ Bucket(l, key)[f] \in Nat /\ entry[f] \in Nat
    BY <1>1, <1>3 DEF Entry
  <2>2. CASE key \in D
    BY <1>4, <1>5, <1>8, <2>1, <2>2, MinusCovers
  <2>3. CASE key \notin D
    <3>1. new[f] = 0 /\ Bucket(l, key)[f] = 0
      BY <1>5, <1>7, <2>3, NoEntryIsZero
    <3>2. Sub(l.totals, entry)[f] <= l.totals[f] /\ Sub(l.totals, entry)[f] \in Nat
      BY <1>4, <2>1 DEF Minus
    <3>3. QED
      BY <1>8, <2>1, <3>1, <3>2
  <2>4. QED
    BY <2>2, <2>3
<1>9. new = IF key \in DOMAIN p THEN p[key] ELSE NoEntry
  BY DEF new
<1>10. Totalled(m)
  BY <1>1, <1>2, <1>4, <1>5, <1>6, <1>7, <1>8, <1>9, CoveredAfter
<1>11. QED
  BY <1>2, <1>10 DEF m

\* A commit lowers and raises the spend of both alike.
LEMMA CommitKeepsCover ==
    ASSUME NEW l, Totalled(l), NEW model \in Models, NEW delta \in Entry, NEW n \in Nat
    PROVE  LET m == CommitResponse(l, model, delta, n)
           IN  Totalled(m) /\ m.totals = Commit(l.totals, delta, n)
<1> DEFINE key == KeyFor(l, model)
           e == Commit(Bucket(l, key), delta, n)
           p == WithBucket(l, key, e)
           o == l.overflowTurns + (IF key = Overflow THEN 1 ELSE 0)
           m == CommitResponse(l, model, delta, n)
<1>1. /\ l.totals \in Entry /\ l.unpriced \in Nat /\ l.overflowTurns \in Nat
      /\ l.images \in Nat
  BY LedgerFields DEF Totalled
<1>2. m = [totals |-> Commit(l.totals, delta, n), unpriced |-> l.unpriced, overflowTurns |-> o,
           images |-> l.images, perModel |-> p]
  <2> HIDE DEF p, o
  <2>1. m = [l EXCEPT !.totals = Commit(@, delta, n), !.overflowTurns = o, !.perModel = p]
    BY DEF CommitResponse, p, o
  <2>2. QED
    BY <2>1 DEF Totalled, LedgerType
<1>3. Bucket(l, key) \in Entry
  BY NoEntryIsZero DEF Totalled, Breakdown, Bucket
<1>4. /\ Commit(l.totals, delta, n) \in Entry
      /\ \A f \in Fields : Commit(l.totals, delta, n)[f]
            = (IF f = "spent" THEN Minus(l.totals[f], n) ELSE l.totals[f]) + delta[f]
      /\ e \in Entry
      /\ \A f \in Fields : e[f]
            = (IF f = "spent" THEN Minus(Bucket(l, key)[f], n) ELSE Bucket(l, key)[f])
                + delta[f]
  BY <1>1, <1>3, EntryArithmetic
<1>5. IsWith(p, l, key, e)
  BY <1>4, BucketIsSet DEF Totalled
<1>6. o \in Nat /\ key \in Keys
  BY <1>1 DEF KeyFor, Keys
<1>7. Bucket(l, key) = IF key \in DOMAIN l.perModel THEN l.perModel[key] ELSE NoEntry
  BY DEF Bucket
<1> HIDE DEF p, o, key, m, e
<1>8. /\ Breakdown(p) /\ DOMAIN p = DOMAIN l.perModel \cup {key} /\ p[key] = e
      /\ \A k \in DOMAIN l.perModel \ {key} : p[k] = l.perModel[k]
  BY <1>5 DEF IsWith
<1>9. ASSUME NEW f \in Fields, NEW s \in Nat, s >= l.totals[f], s >= Bucket(l, key)[f]
      PROVE  s + e[f] >= Commit(l.totals, delta, n)[f] + Bucket(l, key)[f]
  <2>1. l.totals[f] \in Nat /\ Bucket(l, key)[f] \in Nat /\ delta[f] \in Nat
    BY <1>1, <1>3 DEF Entry
  <2>2. CASE f = "spent"
    <3>1. s + Minus(Bucket(l, key)[f], n) >= Minus(l.totals[f], n) + Bucket(l, key)[f]
      BY <1>9, <2>1, MinusCovers
    <3>2. Minus(Bucket(l, key)[f], n) \in Nat /\ Minus(l.totals[f], n) \in Nat
      BY <2>1 DEF Minus
    <3>3. QED
      BY <1>4, <2>1, <2>2, <3>1, <3>2
  <2>3. CASE f # "spent"
    BY <1>4, <1>9, <2>1, <2>3
  <2>4. QED
    BY <2>2, <2>3
<1>10. Totalled(m)
  BY <1>1, <1>2, <1>4, <1>6, <1>7, <1>8, <1>9, CoveredAfter
<1>11. QED
  BY <1>2, <1>10 DEF m

-----------------------------------------------------------------------------
(* Charges.                                                                *)

\* Only turn t's charge may have changed, within a period.
OnlyTurn(t) ==
    /\ \A u \in CostTurns \ {t} : charge'[u] = charge[u]
    /\ period'.resets = period.resets

\* What is charged changes by the turn's own charge.
LEMMA OneCharge ==
    ASSUME LedgerShape, LedgerShape', NEW t \in CostTurns, OnlyTurn(t)
    PROVE  /\ Charged \in Nat /\ Charged' \in Nat
           /\ Charged' + (IF t \in Standing THEN charge[t].entry["prompt"] ELSE 0)
                = Charged + (IF t \in Standing' THEN charge'[t].entry["prompt"] ELSE 0)
<1> DEFINE a == [u \in CostTurns |-> charge[u].entry.prompt]
           b == [u \in CostTurns |-> charge'[u].entry.prompt]
<1>1. IsFiniteSet(Standing) /\ Standing \subseteq CostTurns /\ Standing' \subseteq CostTurns
  BY CostAssumption, FS_Subset DEF Standing
<1>2. /\ \A u \in CostTurns : a[u] \in Nat
      /\ \A u \in CostTurns : b[u] \in Nat
  BY DEF LedgerShape, ChargeType, Entry, Fields
<1>3. \A u \in CostTurns \ {t} : b[u] = a[u] /\ (u \in Standing <=> u \in Standing')
  BY DEF OnlyTurn, Standing
<1>4. Charged = SumFunctionOnSet(a, Standing)
  BY DEF Charged
<1>5. Charged' = SumFunctionOnSet(b, Standing')
  BY DEF Charged
<1>6. a[t] = charge[t].entry["prompt"] /\ b[t] = charge'[t].entry["prompt"]
  OBVIOUS
<1> HIDE DEF a, b
<1>7. Standing' \subseteq Standing \cup {t} /\ Standing \subseteq Standing' \cup {t}
  BY <1>1, <1>3
<1>8. PICK S, T : S = Standing /\ T = Standing'
  OBVIOUS
<1>9. /\ SumFunctionOnSet(a, S) \in Nat /\ SumFunctionOnSet(b, T) \in Nat
      /\ SumFunctionOnSet(b, T) + (IF t \in S THEN a[t] ELSE 0)
           = SumFunctionOnSet(a, S) + (IF t \in T THEN b[t] ELSE 0)
  <2>1. \A u \in S : a[u] \in Nat
    BY <1>1, <1>2, <1>8
  <2>2. \A u \in T : b[u] \in Nat
    BY <1>1, <1>2, <1>8
  <2>3. \A u \in S \ {t} : b[u] = a[u]
    BY <1>1, <1>3, <1>8
  <2>4. IsFiniteSet(S) /\ T \subseteq S \cup {t} /\ S \subseteq T \cup {t}
    BY <1>1, <1>7, <1>8
  <2>5. QED
    BY <2>1, <2>2, <2>3, <2>4, SumWith
<1>10. QED
  BY <1>4, <1>5, <1>6, <1>8, <1>9

\* The parts of a state with that shape.
LEMMA Parts ==
    ASSUME LedgerShape
    PROVE  /\ ledger.totals \in Entry /\ ledger.totals["prompt"] \in Nat
           /\ ledger.totals.prompt = ledger.totals["prompt"]
           /\ period.resets \in Nat /\ period.torn \in BOOLEAN
           /\ \A t \in CostTurns : charge[t] \in ChargeType /\ charge[t].entry["prompt"] \in Nat
BY LedgerFields DEF LedgerShape, ChargeType, Entry, Fields

\* A new ledger is empty.
LEMMA NewIsTotalled == Totalled(NewLedger) /\ NewLedger.totals = NoEntry
<1> DEFINE p == [k \in {} |-> NoEntry]
<1>1. /\ NewLedger.totals = NoEntry /\ NewLedger.perModel = p
  BY DEF NewLedger
<1>2. DOMAIN p = {} /\ p \in [{} -> Entry]
  OBVIOUS
<1>3. NewLedger \in LedgerType
  <2>1. p \in UNION {[K -> Entry] : K \in SUBSET Keys}
    BY <1>2
  <2> HIDE DEF p
  <2>2. QED
    BY <2>1, NoEntryIsZero DEF NewLedger, LedgerType, p
<1>4. Breakdown(p)
  <2>1. DOMAIN p \ {Overflow} = {}
    BY <1>2
  <2>2. QED
    BY <1>2, <2>1, FS_EmptySet, CostAssumption DEF Breakdown
<1>5. ASSUME NEW f \in Fields
      PROVE  SumOf(NewLedger, f) >= NewLedger.totals[f]
  <2> DEFINE a == [k \in DOMAIN p |-> p[k][f]]
  <2>1. SumOf(NewLedger, f) = SumFunctionOnSet(a, DOMAIN p)
    BY <1>1 DEF SumOf, SumFunction
  <2>2. SumFunctionOnSet(a, DOMAIN p) = 0
    <3> HIDE DEF a
    <3>1. QED
      BY <1>2, FS_EmptySet, SumOfNats
  <2>3. QED
    BY <1>1, <2>1, <2>2, NoEntryIsZero
<1>6. QED
  BY <1>1, <1>3, <1>4, <1>5 DEF Totalled, Covers

\* It holds at first.
LEMMA InitHolds == CostInit => LedgerInv
<1> SUFFICES ASSUME CostInit
             PROVE  LedgerInv
  OBVIOUS
<1>1. ledger = [totals |-> NoEntry, unpriced |-> 0, overflowTurns |-> 0, images |-> 0,
                perModel |-> [k \in {} |-> NoEntry]]
  BY DEF CostInit, NewLedger
<1>2. /\ LedgerShape /\ Breakdown(ledger.perModel) /\ Covers(ledger)
  <2>1. Totalled(ledger)
    BY NewIsTotalled DEF CostInit
  <2>2. NoCharge \in ChargeType
    BY NoEntryIsZero DEF NoCharge, ChargeType
  <2>3. LedgerShape
    BY <2>1, <2>2 DEF CostInit, LedgerShape, Totalled
  <2>4. QED
    BY <2>1, <2>3 DEF Totalled
<1>3. Running
  BY DEF CostInit, Running, NoCharge
<1>4. BudgetKept
  <2>1. Standing = {}
    BY DEF CostInit, Standing, NoCharge
  <2>2. Charged = 0
    BY <2>1, FS_EmptySet, SumOfNats DEF Charged
  <2>3. ledger.totals.prompt = 0
    BY <1>1, NoEntryIsZero DEF Fields
  <2>4. QED
    BY <2>2, <2>3, CostAssumption DEF BudgetKept
<1>5. QED
  BY <1>2, <1>3, <1>4 DEF LedgerInv

-----------------------------------------------------------------------------
(* Steps.                                                                  *)

\* A step of one turn that leaves the ledger and what stands charged alone.
LEMMA LedgerRests ==
    ASSUME LedgerInv, LedgerShape', NEW t \in CostTurns, OnlyTurn(t), UNCHANGED <<ledger, period>>,
           charge'[t].pc \in {"observed", "running"} => charge'[t].model \in Models,
           charge'[t].since <= period.resets,
           t \in Standing <=> t \in Standing',
           t \in Standing => charge'[t].entry = charge[t].entry
    PROVE  LedgerInv'
<1>1. Charged' = Charged
  BY OneCharge, Parts DEF LedgerInv
<1>2. BudgetKept'
  BY <1>1 DEF LedgerInv, BudgetKept
<1>3. Running'
  BY DEF LedgerInv, Running, OnlyTurn
<1>4. Breakdown(ledger.perModel)' /\ Covers(ledger)'
  BY DEF LedgerInv, Breakdown, Covers, SumOf
<1>5. QED
  BY <1>2, <1>3, <1>4 DEF LedgerInv

\* A request is charged within the cap, or refused.
LEMMA OnRequestStep ==
    ASSUME LedgerInv, NEW t \in CostTurns, NEW model \in Models, NEW content \in Prompts,
           OnRequest(t, model, content)
    PROVE  LedgerInv'
<1> DEFINE tokens == EstimatePrompt(content)
           images == ImageBlocks(content)
           entry == [NoEntry EXCEPT !.prompt = tokens, !.spent = Priced(model, tokens, "in")]
<1>1. tokens \in Nat /\ images \in Nat
  BY CostAssumption, EstimatesAreNats
<1>2. Priced(model, tokens, "in") \in Nat
  BY <1>1, PricedIsNat
<1>3. entry \in Entry /\ entry["prompt"] = tokens
  <2> HIDE DEF tokens
  <2>1. QED
    BY <1>1, <1>2, NoEntryIsZero DEF Entry, Fields
<1>4. charge[t].pc = "idle" /\ UNCHANGED period
  BY DEF OnRequest
<1>5. CASE /\ charge' = [charge EXCEPT ![t] = Over("refused")]
           /\ UNCHANGED ledger
  <2>1. Over("refused") \in ChargeType /\ Over("refused").pc = "refused"
        /\ Over("refused").since = 0
    BY NoEntryIsZero DEF Over, NoCharge, ChargeType
  <2> HIDE DEF entry, images, tokens
  <2>2. LedgerShape' /\ charge'[t] = Over("refused") /\ OnlyTurn(t)
    BY <1>4, <1>5, <2>1 DEF LedgerInv, LedgerShape, OnlyTurn
  <2>3. t \notin Standing /\ t \notin Standing'
    BY <1>4, <2>1, <2>2 DEF Standing
  <2>4. charge'[t].pc = "refused" /\ charge'[t].since <= period.resets
    BY <2>1, <2>2, Parts DEF LedgerInv
  <2>5. UNCHANGED <<ledger, period>>
    BY <1>4, <1>5
  <2>6. QED
    BY <2>2, <2>3, <2>4, <2>5, LedgerRests
<1>6. CASE /\ ~OverCap(ledger, entry)
           /\ ledger' = ChargeRequest(ledger, model, entry, images)
           /\ charge' = [charge EXCEPT ![t] =
                 [pc |-> "observed", model |-> model, entry |-> entry, images |-> images,
                  since |-> period.resets, warned |-> TotalTokens(ledger') >= WarnAt]]
  <2> HIDE DEF entry, images, tokens
  <2>1. Totalled(ledger') /\ ledger'.totals = Add(ledger.totals, entry)
    BY <1>1, <1>3, <1>6, ChargeKeepsCover DEF LedgerInv, LedgerShape, Totalled
  <2>2. /\ charge'[t] \in ChargeType /\ charge'[t].pc = "observed"
        /\ charge'[t].model = model
        /\ charge'[t].entry = entry /\ charge'[t].since = period.resets
    BY <1>1, <1>3, <1>6 DEF LedgerInv, LedgerShape, ChargeType
  <2>3. LedgerShape' /\ OnlyTurn(t)
    BY <1>4, <1>6, <2>1, <2>2 DEF LedgerInv, LedgerShape, OnlyTurn, Totalled
  <2>4. ledger'.totals["prompt"] = ledger.totals["prompt"] + tokens
    BY <1>3, <2>1, EntryArithmetic, Parts DEF LedgerInv, Fields
  <2>5. Charged' = Charged + tokens
    <3>1. t \notin Standing /\ t \in Standing'
      BY <1>4, <2>2 DEF Standing
    <3>2. QED
      BY <1>1, <1>3, <2>2, <2>3, <3>1, OneCharge DEF LedgerInv
  <2>6. ledger.totals["prompt"] + tokens <= TokenCap
    <3>1. /\ ledger.totals["prompt"] \in Nat /\ ledger.totals["completion"] \in Nat
      BY Parts DEF LedgerInv, Entry, Fields
    <3>2. ~(ledger.totals["prompt"] + ledger.totals["completion"] + entry["prompt"] > TokenCap)
      BY <1>6 DEF OverCap, TotalTokens
    <3>3. QED
      BY <1>1, <1>3, <3>1, <3>2, CostAssumption
  <2>7. BudgetKept'
    BY <1>4, <2>3, <2>4, <2>5, <2>6, Parts DEF LedgerInv, BudgetKept
  <2>8. Running'
    BY <1>4, <2>2, <2>3, Parts DEF LedgerInv, Running, OnlyTurn
  <2>9. QED
    BY <2>1, <2>3, <2>7, <2>8 DEF LedgerInv, Totalled
<1>7. QED
  BY <1>5, <1>6 DEF OnRequest

\* A turn that ends keeps its charge.
LEMMA TurnEnds ==
    ASSUME LedgerInv, NEW t \in CostTurns, charge[t].pc = "running", UNCHANGED period,
           charge' = [charge EXCEPT ![t].pc = "over", ![t].model = "none", ![t].images = 0]
    PROVE  /\ charge'[t].pc = "over" /\ charge'[t].entry = charge[t].entry
           /\ charge'[t].since = charge[t].since /\ charge' \in [CostTurns -> ChargeType]
           /\ OnlyTurn(t)
<1>1. charge[t] \in ChargeType /\ charge \in [CostTurns -> ChargeType]
  BY DEF LedgerInv, LedgerShape
<1> DEFINE c == charge[t]
           d == [c EXCEPT !.pc = "over"]
           e == [d EXCEPT !.model = "none"]
           g == [e EXCEPT !.images = 0]
<1>2. d \in ChargeType /\ d.pc = "over" /\ d.entry = c.entry /\ d.since = c.since
  BY <1>1 DEF ChargeType
<1>3. charge' = [charge EXCEPT ![t] = g]
  BY <1>1
<1> HIDE DEF d
<1>4. e \in ChargeType /\ e.pc = "over" /\ e.entry = c.entry /\ e.since = c.since
  BY <1>2 DEF ChargeType
<1> HIDE DEF e
<1>5. g \in ChargeType /\ g.pc = "over" /\ g.entry = c.entry /\ g.since = c.since
  BY <1>4 DEF ChargeType
<1> HIDE DEF g
<1>6. charge'[t] = g /\ \A u \in CostTurns \ {t} : charge'[u] = charge[u]
  BY <1>1, <1>3
<1>7. QED
  BY <1>1, <1>3, <1>5, <1>6 DEF OnlyTurn


\* Observers that are content.
LEMMA ObserversPassStep ==
    ASSUME LedgerInv, NEW t \in CostTurns, ObserversPass(t)
    PROVE  LedgerInv'
<1>1. /\ charge[t].pc = "observed" /\ UNCHANGED <<ledger, period>>
      /\ charge' = [charge EXCEPT ![t].pc = "running"]
  BY DEF ObserversPass
<1>2. charge[t] \in ChargeType /\ charge \in [CostTurns -> ChargeType]
  BY DEF LedgerInv, LedgerShape
<1>3. /\ charge'[t].pc = "running" /\ charge'[t].model = charge[t].model
      /\ charge'[t].entry = charge[t].entry /\ charge'[t].since = charge[t].since
      /\ charge'[t] \in ChargeType /\ charge' \in [CostTurns -> ChargeType]
  BY <1>1, <1>2 DEF ChargeType
<1>4. LedgerShape' /\ OnlyTurn(t)
  BY <1>1, <1>2, <1>3 DEF LedgerInv, LedgerShape, OnlyTurn
<1>5. charge'[t].model \in Models /\ charge'[t].since <= period.resets
  BY <1>1, <1>3 DEF LedgerInv, Running
<1>6. t \in Standing <=> t \in Standing'
  BY <1>1, <1>3 DEF Standing
<1>7. QED
  BY <1>1, <1>3, <1>4, <1>5, <1>6, LedgerRests

\* A turn that breaks off keeps its charge.
LEMMA BreakOffStep ==
    ASSUME LedgerInv, NEW t \in CostTurns, BreakOff(t)
    PROVE  LedgerInv'
<1>1. /\ charge[t].pc = "running" /\ UNCHANGED <<ledger, period>>
  BY DEF BreakOff
<1>2. /\ charge'[t].pc = "over" /\ charge'[t].entry = charge[t].entry
      /\ charge'[t].since = charge[t].since /\ charge' \in [CostTurns -> ChargeType]
      /\ OnlyTurn(t)
  BY <1>1, TurnEnds DEF BreakOff
<1>3. LedgerShape' /\ charge'[t].since <= period.resets
  BY <1>1, <1>2 DEF LedgerInv, LedgerShape, Running
<1>4. t \in Standing <=> t \in Standing'
  BY <1>1, <1>2 DEF Standing
<1>5. QED
  BY <1>1, <1>2, <1>3, <1>4, LedgerRests

\* A response changes no prompt charge.
LEMMA OnResponseCompleteStep ==
    ASSUME LedgerInv, NEW t \in CostTurns, NEW content \in Completions, NEW read \in Reads,
           OnResponseComplete(t, content, read)
    PROVE  LedgerInv'
<1> DEFINE model == charge[t].model
           completion == EstimateCompletion(content)
           cached == Min({read, Bucket(ledger, KeyFor(ledger, model)).prompt})
           delta == [NoEntry EXCEPT !.completion = completion, !.turns = 1, !.read = cached,
                       !.spent = Priced(model, completion, "out") + Priced(model, cached, "read")]
           refund == Priced(model, cached, "in")
<1>1. /\ charge[t].pc = "running" /\ UNCHANGED period
      /\ ledger' = CommitResponse(ledger, model, delta, refund)
      /\ charge' = [charge EXCEPT ![t].pc = "over", ![t].model = "none", ![t].images = 0]
  BY DEF OnResponseComplete
<1>2. model \in Models
  BY <1>1 DEF LedgerInv, Running
<1>3. completion \in Nat
  BY CostAssumption, EstimatesAreNats
<1>4. cached \in Nat
  <2> DEFINE key == KeyFor(ledger, model)
             charged == Bucket(ledger, key)["prompt"]
  <2>1. Bucket(ledger, key) \in Entry
    BY NoEntryIsZero DEF LedgerInv, Breakdown, Bucket
  <2>2. charged \in Nat /\ read \in Nat
    BY <2>1, CostAssumption DEF Entry, Fields
  <2>3. cached = Min({read, charged})
    OBVIOUS
  <2> HIDE DEF charged, cached
  <2>4. QED
    BY <2>2, <2>3, MinOfNats
<1> HIDE DEF model, completion, cached
<1>5. /\ Priced(model, completion, "out") \in Nat /\ Priced(model, cached, "read") \in Nat
      /\ refund \in Nat
  BY <1>2, <1>3, <1>4, PricedIsNat
<1>6. delta \in Entry /\ delta["prompt"] = 0
  <2>1. Priced(model, completion, "out") + Priced(model, cached, "read") \in Nat
    BY <1>5
  <2>2. QED
    BY <1>3, <1>4, <2>1, NoEntryIsZero DEF Entry, Fields
<1> HIDE DEF delta, refund
<1>7. Totalled(ledger') /\ ledger'.totals = Commit(ledger.totals, delta, refund)
  BY <1>1, <1>2, <1>5, <1>6, CommitKeepsCover DEF LedgerInv, LedgerShape, Totalled
<1>8. /\ charge'[t].pc = "over" /\ charge'[t].entry = charge[t].entry
      /\ charge'[t].since = charge[t].since /\ charge' \in [CostTurns -> ChargeType]
      /\ OnlyTurn(t)
  BY <1>1, TurnEnds
<1>9. LedgerShape'
  BY <1>1, <1>7, <1>8 DEF LedgerInv, LedgerShape, Totalled
<1>10. Charged' = Charged
  <2>1. t \in Standing <=> t \in Standing'
    BY <1>1, <1>8 DEF Standing
  <2>2. LedgerShape
    BY DEF LedgerInv
  <2>3. charge[t].entry["prompt"] \in Nat
    BY <2>2, Parts
  <2>4. /\ Charged \in Nat /\ Charged' \in Nat
        /\ Charged' + (IF t \in Standing THEN charge[t].entry["prompt"] ELSE 0)
             = Charged + (IF t \in Standing' THEN charge'[t].entry["prompt"] ELSE 0)
    BY <1>8, <1>9, <2>2, OneCharge
  <2>5. QED
    BY <1>8, <2>1, <2>3, <2>4
<1>11. ledger'.totals["prompt"] = ledger.totals["prompt"]
  <2>1. ledger.totals \in Entry /\ ledger.totals["prompt"] \in Nat
    BY Parts DEF LedgerInv
  <2>2. Commit(ledger.totals, delta, refund)["prompt"] = ledger.totals["prompt"] + delta["prompt"]
    <3>1. \A f \in Fields : Commit(ledger.totals, delta, refund)[f]
                             = (IF f = "spent" THEN Minus(ledger.totals[f], refund)
                                ELSE ledger.totals[f]) + delta[f]
      BY <1>5, <1>6, <2>1, EntryArithmetic
    <3>2. "prompt" \in Fields /\ "prompt" # "spent"
      BY DEF Fields
    <3>3. QED
      BY <3>1, <3>2
  <2>3. QED
    BY <1>6, <1>7, <2>1, <2>2
<1>12. BudgetKept'
  BY <1>1, <1>9, <1>10, <1>11, Parts DEF LedgerInv, BudgetKept
<1>13. Running'
  BY <1>1, <1>8 DEF LedgerInv, Running, OnlyTurn
<1>14. QED
  BY <1>7, <1>9, <1>12, <1>13 DEF LedgerInv, Totalled

\* A refund takes back the charge of its period, or tears the period.
LEMMA ObserverRefusesStep ==
    ASSUME LedgerInv, NEW t \in CostTurns, ObserverRefuses(t)
    PROVE  LedgerInv'
<1> DEFINE entry == charge[t].entry
<1>1. /\ charge[t].pc = "observed"
      /\ ledger' = RefundRequest(ledger, charge[t].model, entry, charge[t].images)
      /\ charge' = [charge EXCEPT ![t] = Over("refused")]
      /\ period' = [period EXCEPT !.torn = @ \/ charge[t].since # period.resets]
  BY DEF ObserverRefuses
<1>2. entry \in Entry /\ charge[t].images \in Nat /\ charge[t].model \in Models
  BY <1>1 DEF LedgerInv, LedgerShape, Running, ChargeType
<1>3. Totalled(ledger') /\ ledger'.totals = Sub(ledger.totals, entry)
  BY <1>1, <1>2, RefundKeepsCover DEF LedgerInv, LedgerShape, Totalled
<1>4. /\ Over("refused") \in ChargeType /\ Over("refused").pc = "refused"
      /\ Over("refused").since = 0
  BY NoEntryIsZero DEF Over, NoCharge, ChargeType
<1>5. /\ period' \in [resets : Nat, torn : BOOLEAN] /\ period'.resets = period.resets
      /\ ~period'.torn => ~period.torn /\ charge[t].since = period.resets
  BY <1>1 DEF LedgerInv, LedgerShape
<1>6. LedgerShape' /\ OnlyTurn(t) /\ charge'[t] = Over("refused")
  BY <1>1, <1>3, <1>4, <1>5 DEF LedgerInv, LedgerShape, OnlyTurn, Totalled
<1>7. t \notin Standing' /\ (charge[t].since = period.resets => t \in Standing)
  BY <1>1, <1>4, <1>6 DEF Standing
<1>8. ledger'.totals["prompt"] = Minus(ledger.totals["prompt"], entry["prompt"])
  BY <1>2, <1>3, EntryArithmetic, Parts DEF LedgerInv, Fields
<1>9. ledger'.totals["prompt"] <= ledger.totals["prompt"]
  BY <1>8, Parts DEF LedgerInv, Minus
<1>10. ~period'.torn => ledger'.totals["prompt"] = Charged'
  <2>1. SUFFICES ASSUME ~period'.torn
                 PROVE  ledger'.totals["prompt"] = Charged'
    OBVIOUS
  <2>2. ledger.totals["prompt"] = Charged
    BY <1>5, <2>1, Parts DEF LedgerInv, BudgetKept
  <2>3. Charged' + entry["prompt"] = Charged /\ Charged' \in Nat /\ Charged \in Nat
    BY <1>5, <1>6, <1>7, <2>1, OneCharge, Parts DEF LedgerInv
  <2>4. QED
    BY <1>8, <2>2, <2>3, Parts DEF LedgerInv, Minus
<1>11. BudgetKept'
  <2>1. ledger'.totals.prompt = ledger'.totals["prompt"] /\ ledger'.totals["prompt"] \in Nat
    BY <1>3, LedgerFields DEF Totalled, Entry, Fields
  <2>2. ledger.totals["prompt"] <= TokenCap /\ ledger.totals["prompt"] \in Nat
    BY Parts DEF LedgerInv, BudgetKept
  <2>3. ledger'.totals["prompt"] <= TokenCap
    BY <1>9, <2>1, <2>2, CostAssumption
  <2>4. QED
    BY <1>10, <2>1, <2>3 DEF BudgetKept
<1>12. Running'
  BY <1>4, <1>5, <1>6, Parts DEF LedgerInv, Running, OnlyTurn
<1>13. QED
  BY <1>3, <1>6, <1>11, <1>12 DEF LedgerInv, Totalled

\* After a reset no charge is of the period that begins.
LEMMA ResetStep ==
    ASSUME LedgerInv, Reset
    PROVE  LedgerInv'
<1>1. /\ ledger' = NewLedger /\ UNCHANGED charge
      /\ period' = [resets |-> period.resets + 1, torn |-> FALSE]
  BY DEF Reset
<1>2. period.resets \in Nat /\ period'.resets = period.resets + 1
  BY <1>1, Parts DEF LedgerInv
<1>3. Totalled(ledger') /\ ledger'.totals = NoEntry
  BY <1>1, NewIsTotalled
<1>4. LedgerShape'
  BY <1>1, <1>2, <1>3 DEF LedgerInv, LedgerShape, Totalled
<1>5. Running' /\ Standing' = {}
  <2>1. \A t \in CostTurns : charge[t].since \in Nat /\ charge[t].since <= period.resets
    BY DEF LedgerInv, LedgerShape, Running, ChargeType
  <2>2. \A t \in CostTurns : charge'[t].since <= period'.resets /\ charge'[t].since # period'.resets
    BY <1>1, <1>2, <2>1
  <2>3. Running'
    BY <1>1, <2>2 DEF LedgerInv, Running
  <2>4. QED
    BY <2>2, <2>3 DEF Standing
<1>6. BudgetKept'
  <2>1. Charged' = 0
    <3>1. Charged' = SumFunctionOnSet([t \in CostTurns |-> charge'[t].entry.prompt], {})
      BY <1>5 DEF Charged
    <3>2. QED
      BY <3>1, FS_EmptySet, SumOfNats
  <2>2. ledger'.totals.prompt = 0
    BY <1>3, NoEntryIsZero DEF Fields
  <2>3. QED
    BY <2>1, <2>2, CostAssumption DEF BudgetKept
<1>7. QED
  BY <1>3, <1>4, <1>5, <1>6 DEF LedgerInv, Totalled

\* It stays.
LEMMA NextHolds == LedgerInv /\ [CostNext]_costVars => LedgerInv'
<1> SUFFICES ASSUME LedgerInv, [CostNext]_costVars
             PROVE  LedgerInv'
  OBVIOUS
<1>1. ASSUME NEW t \in CostTurns, NEW model \in Models, NEW content \in Prompts,
             OnRequest(t, model, content)
      PROVE  LedgerInv'
  BY <1>1, OnRequestStep
<1>2. ASSUME NEW t \in CostTurns, ObserversPass(t)
      PROVE  LedgerInv'
  BY <1>2, ObserversPassStep
<1>3. ASSUME NEW t \in CostTurns, ObserverRefuses(t)
      PROVE  LedgerInv'
  BY <1>3, ObserverRefusesStep
<1>4. ASSUME NEW t \in CostTurns, NEW content \in Completions, NEW read \in Reads,
             OnResponseComplete(t, content, read)
      PROVE  LedgerInv'
  BY <1>4, OnResponseCompleteStep
<1>5. ASSUME NEW t \in CostTurns, BreakOff(t)
      PROVE  LedgerInv'
  BY <1>5, BreakOffStep
<1>6. CASE Reset
  BY <1>6, ResetStep
<1>7. CASE UNCHANGED costVars
  <2>1. UNCHANGED ledger /\ UNCHANGED charge /\ UNCHANGED period
    BY <1>7 DEF costVars
  <2>2. LedgerShape' /\ Running'
    BY <2>1 DEF LedgerInv, LedgerShape, Running
  <2>3. Breakdown(ledger.perModel)' /\ Covers(ledger)'
    BY <2>1 DEF LedgerInv, Breakdown, Covers, SumOf
  <2>4. Charged' = Charged
    BY <2>1 DEF Charged, Standing
  <2>5. BudgetKept'
    BY <2>1, <2>4 DEF LedgerInv, BudgetKept
  <2>6. QED
    BY <2>2, <2>3, <2>5 DEF LedgerInv
<1>8. QED
  BY <1>1, <1>2, <1>3, <1>4, <1>5, <1>6, <1>7 DEF CostNext

\* What is claimed of the ledger follows.
LEMMA InvBalances == LedgerInv => LedgerBalances
<1> SUFFICES ASSUME LedgerInv
             PROVE  LedgerBalances
  OBVIOUS
<1>1. Cardinality(DOMAIN ledger.perModel) <= MaxTracked + 1
  <2> DEFINE D == DOMAIN ledger.perModel
             K == D \ {Overflow}
  <2>1. IsFiniteSet(D) /\ IsFiniteSet(K) /\ Cardinality(K) <= MaxTracked
    BY FS_Subset DEF LedgerInv, Breakdown
  <2>2. Cardinality(K) \in Nat /\ Cardinality(D) \in Nat
    BY <2>1, FS_CardinalityType
  <2>3. D = K \/ D = K \cup {Overflow}
    OBVIOUS
  <2>4. Cardinality(K \cup {Overflow}) = Cardinality(K) + 1
    BY <2>1, FS_AddElement
  <2> HIDE DEF D, K
  <2>5. Cardinality(D) <= MaxTracked + 1
    BY <2>1, <2>2, <2>3, <2>4, CostAssumption
  <2>6. QED
    BY <2>5 DEF D
<1>2. QED
  BY <1>1 DEF LedgerInv, Covers, LedgerBalances, BreakdownCoversTotals

\* However turns, refunds, completions and resets interleave, the prompt total
\* is what the standing charges add up to and within the cap, and the buckets
\* cover the totals in every field and are as few as the code tracks
\* (cost.rs charge_request, refund_request, commit_response, key_for).
THEOREM LedgerIsBalanced == CostSpec => []LedgerBalances
<1>1. CostSpec => []LedgerInv
  BY InitHolds, NextHolds, PTL DEF CostSpec
<1>2. QED
  BY <1>1, InvBalances, PTL

-----------------------------------------------------------------------------
(* The blocks, and the places they stand at.                               *)

Marks == ChainTurns \X Nat
CallIds == {call.id : call \in Calls}
Reasons == {"retry", "exhausted", "denied", "failed", "unknown"}
Reports == ({"ran"} \X Marks) \cup ({"child"} \X Nat) \cup (Reasons \X {0})
CallBlocks == [kind : {"call"}, call : Calls, by : Marks]
ResultBlocks == [kind : {"result"}, call : Calls, by : Marks, of : Reports]
Blocks == {NoBlock, Failure} \cup CallBlocks \cup ResultBlocks
Walks == [at : Nat, block : Blocks, wait : {"no", "ruling", "mcp", "child"},
          made : Nat, out : Seq(Blocks)]

ChainTypeOK ==
    /\ walk \in [ChainTurns -> Walks]
    /\ guard = [counts |-> guard.counts, order |-> guard.order]
    /\ guard.counts \in [DOMAIN guard.counts -> Nat]
    /\ guard.order \in Seq(CallIds)
    /\ audit \in Seq([by : Marks, approved : BOOLEAN])
    /\ mcp \in [up : BOOLEAN, queue : Seq(CallBlocks), reply : [ChainTurns -> Blocks]]
    /\ sub \in [spawned : Nat, pending : SUBSET Nat, child : Seq({"ready", "done", "died"}),
                taken : SUBSET Nat]
    /\ ran \in SUBSET CallBlocks

\* The block at a place of a turn's output: the last one may be on its way.
BlockAt(w, i) == IF i <= Len(w.out) THEN w.out[i] ELSE w.block

\* Where a turn's block stands: at a hook of its own, and a result past them.
Stands(w, t) ==
    /\ w.at = 0 => w.wait = "no" /\ w.made = Len(w.out)
    /\ w.at > 0 => /\ w.made = Len(w.out) + 1
                   /\ w.at <= Len(Chain) + 1
                   /\ w.block \in CallBlocks \cup ResultBlocks
                   /\ w.block.by = <<t, w.made>>
                   /\ w.at <= Len(Chain) => /\ w.block \in CallBlocks
                                            /\ Mine(w.block, Chain[w.at])
    /\ w.wait # "no" => /\ w.at \in 1..Len(Chain)
                        /\ w.wait = "ruling" => Chain[w.at] = "hitl"
                        /\ w.wait = "mcp" => Chain[w.at] = "mcp"
                        /\ w.wait = "child" => Chain[w.at] = "subagent"

AllStand(w) == \A t \in ChainTurns : Stands(w[t], t)

\* The gates that a call has behind it let it through.
LetThrough(block, approvals, i) ==
    /\ Chain[i] = "hitl" /\ Tools[block.call.tool].risky =>
          [by |-> block.by, approved |-> TRUE] \in approvals
    /\ Chain[i] = "guard" => block.call.valid

Cleared(w, approvals) ==
    w.at > 0 /\ w.block \in CallBlocks =>
        \A i \in 1..(w.at - 1) : LetThrough(w.block, approvals, i)

AllCleared(w, approvals) == \A t \in ChainTurns : Cleared(w[t], approvals)

Gated(block, approvals) ==
    /\ Before("hitl", block) /\ Tools[block.call.tool].risky =>
          [by |-> block.by, approved |-> TRUE] \in approvals
    /\ Before("guard", block) => block.call.valid

\* The worker's requests are those of the hooks that wait for it, and what it
\* has answered stands in for the call of the hook that asked.
Theirs(m, w) ==
    /\ \A k \in 1..Len(m.queue) : LET t == m.queue[k].by[1] IN
          w[t].wait = "mcp" /\ w[t].block = m.queue[k] /\ m.reply[t] = NoBlock
    /\ \A k, l \in 1..Len(m.queue) : m.queue[k].by[1] = m.queue[l].by[1] => k = l
    /\ \A t \in ChainTurns : m.reply[t] # NoBlock =>
          /\ w[t].wait = "mcp"
          /\ m.reply[t] \in ResultBlocks
          /\ m.reply[t].call = w[t].block.call /\ m.reply[t].by = w[t].block.by
          /\ m.reply[t].of = RunOf(m.reply[t].by) \/ m.reply[t].of = Note("failed")

\* What the i-th block of a turn may report.
OwnBlock(t, i, b, taken) ==
    /\ b \in {Failure} \cup CallBlocks \cup ResultBlocks
    /\ b # Failure => b.by = <<t, i>>
    /\ b \in ResultBlocks =>
          /\ b.of[1] = "ran" => b.of = RunOf(b.by)
          /\ b.call.tool = "collect" /\ b.of[1] = "child" =>
                b.of = ChildOf(b.call.child) /\ b.call.child \in taken

AllOwn(w, taken) ==
    \A t \in ChainTurns : \A i \in 1..w[t].made : OwnBlock(t, i, BlockAt(w[t], i), taken)

\* A block that hands out the child's result.
HandsOut(b, id) == b \in ResultBlocks /\ b.call.tool = "collect" /\ b.of = ChildOf(id)

HandedOutOnce(w) ==
    \A t, u \in ChainTurns : \A i \in 1..w[t].made, j \in 1..w[u].made : \A id \in Nat :
        HandsOut(BlockAt(w[t], i), id) /\ HandsOut(BlockAt(w[u], j), id) => t = u /\ i = j

\* Each child is in one place: the registry, a hook that waits, or handed out.
ChildrenIn(s, w) ==
    /\ IsFiniteSet(s.pending) /\ Cardinality(s.pending) <= MaxPending
    /\ Len(s.child) = s.spawned
    /\ s.pending \subseteq 0..(s.spawned - 1) /\ s.taken \subseteq 0..(s.spawned - 1)
    /\ s.pending \cap s.taken = {}
    /\ \A t \in ChainTurns : w[t].wait = "child" =>
          /\ w[t].block.call.child \in 0..(s.spawned - 1)
          /\ w[t].block.call.child \notin s.pending \cup s.taken
    /\ \A t, u \in ChainTurns :
          w[t].wait = "child" /\ w[u].wait = "child" /\ w[t].block.call.child = w[u].block.call.child
          => t = u
    /\ \A id \in 0..(s.spawned - 1) : id \in s.pending \/ id \in s.taken \/
          \E t \in ChainTurns : w[t].wait = "child" /\ w[t].block.call.child = id

CountersIn(g) ==
    /\ ToSet(g.order) = DOMAIN g.counts
    /\ \A i, j \in 1..Len(g.order) : g.order[i] = g.order[j] => i = j
    /\ Len(g.order) <= MaxTrackedCalls

ChainInv ==
    /\ ChainTypeOK
    /\ AllStand(walk)
    /\ AllCleared(walk, ToSet(audit))
    /\ \A block \in ran : Gated(block, ToSet(audit))
    /\ Theirs(mcp, walk)
    /\ AllOwn(walk, sub.taken)
    /\ HandedOutOnce(walk)
    /\ ChildrenIn(sub, walk)
    /\ CountersIn(guard)

-----------------------------------------------------------------------------
(* Steps of one turn.                                                      *)

\* NextHook is a place after the one the block stands at, and a result has
\* none left but the consumer.
LEMMA NextHookIs ==
    ASSUME NEW block, NEW i \in Nat, i <= Len(Chain)
    PROVE  /\ NextHook(block, i) \in (i + 1)..(Len(Chain) + 1)
           /\ NextHook(block, i) <= Len(Chain) => Mine(block, Chain[NextHook(block, i)])
           /\ \A j \in (i + 1)..(NextHook(block, i) - 1) : ~Mine(block, Chain[j])
<1> DEFINE S == {j \in (i + 1)..Len(Chain) : Mine(block, Chain[j])} \cup {Len(Chain) + 1}
<1>1. Len(Chain) \in Nat
  BY ChainAssumption
<1>2. S \in SUBSET Nat /\ S # {}
  BY <1>1
<1>3. Min(S) \in S /\ \A y \in S : Min(S) <= y
  <2> HIDE DEF S
  <2> QED BY <1>2, MinOfNats
<1>4. NextHook(block, i) = Min(S)
  BY DEF NextHook
<1>5. Min(S) \in (i + 1)..(Len(Chain) + 1)
  BY <1>1, <1>3
<1>6. Min(S) <= Len(Chain) => Mine(block, Chain[Min(S)])
  BY <1>1, <1>3
<1>7. ASSUME NEW j \in (i + 1)..(Min(S) - 1), Mine(block, Chain[j])
      PROVE  FALSE
  <2>1. j \in (i + 1)..Len(Chain)
    BY <1>1, <1>5
  <2>2. j \in S
    BY <2>1, <1>7
  <2> QED BY <2>2, <1>3, <1>1, <1>5
<1> QED BY <1>4, <1>5, <1>6, <1>7

\* A block that is let pass: where it is and what stays.
LEMMA PassedIs ==
    ASSUME walk \in [ChainTurns -> Walks], NEW t \in ChainTurns, NEW block \in Blocks,
           walk[t].at <= Len(Chain)
    PROVE  /\ Passed(t, block) \in [ChainTurns -> Walks]
           /\ \A u \in ChainTurns \ {t} : Passed(t, block)[u] = walk[u]
           /\ Passed(t, block)[t].at = NextHook(block, walk[t].at)
           /\ Passed(t, block)[t].block = block
           /\ Passed(t, block)[t].wait = "no"
           /\ Passed(t, block)[t].made = walk[t].made
           /\ Passed(t, block)[t].out = walk[t].out
<1>1. walk[t] \in Walks /\ walk[t].at \in Nat
  BY DEF Walks
<1>2. NextHook(block, walk[t].at) \in Nat
  BY <1>1, NextHookIs, ChainAssumption
<1>3. PICK n \in Nat : n = NextHook(block, walk[t].at)
  BY <1>2
<1> DEFINE w == [walk[t] EXCEPT !.at = n, !.block = block, !.wait = "no"]
<1>4. w \in Walks /\ w.at = n /\ w.block = block /\ w.wait = "no" /\ w.made = walk[t].made
      /\ w.out = walk[t].out
  BY <1>1 DEF Walks
<1>5. Passed(t, block) = [walk EXCEPT ![t] = w]
  BY <1>1, <1>3 DEF Passed, Walks
<1> HIDE DEF w
<1> QED BY <1>3, <1>4, <1>5

\* A block that is lost to a hook's error.
LEMMA FailedIs ==
    ASSUME walk \in [ChainTurns -> Walks], NEW t \in ChainTurns
    PROVE  /\ Failed(t) \in [ChainTurns -> Walks]
           /\ \A u \in ChainTurns \ {t} : Failed(t)[u] = walk[u]
           /\ Failed(t)[t].at = 0
           /\ Failed(t)[t].block = NoBlock
           /\ Failed(t)[t].wait = "no"
           /\ Failed(t)[t].made = walk[t].made
           /\ Failed(t)[t].out = Append(walk[t].out, Failure)
<1>1. walk[t] \in Walks /\ walk[t].out \in Seq(Blocks) /\ Failure \in Blocks /\ NoBlock \in Blocks
  BY DEF Walks, Blocks
<1>2. Append(walk[t].out, Failure) \in Seq(Blocks)
  BY <1>1
<1>3. PICK out \in Seq(Blocks) : out = Append(walk[t].out, Failure)
  BY <1>2
<1> DEFINE w == [walk[t] EXCEPT !.at = 0, !.block = NoBlock, !.wait = "no", !.out = out]
<1>4. w \in Walks /\ w.at = 0 /\ w.block = NoBlock /\ w.wait = "no" /\ w.made = walk[t].made
      /\ w.out = out
  BY <1>1 DEF Walks
<1>5. Failed(t) = [walk EXCEPT ![t] = w]
  BY <1>1, <1>3 DEF Failed, Walks
<1> HIDE DEF w
<1> QED BY <1>3, <1>4, <1>5

\* A hook that begins to wait.
LEMMA WaitingIs ==
    ASSUME walk \in [ChainTurns -> Walks], NEW t \in ChainTurns,
           NEW wait \in {"ruling", "mcp", "child"}, walk' = [walk EXCEPT ![t].wait = wait]
    PROVE  /\ walk' \in [ChainTurns -> Walks]
           /\ \A u \in ChainTurns \ {t} : walk'[u] = walk[u]
           /\ walk'[t].at = walk[t].at
           /\ walk'[t].block = walk[t].block
           /\ walk'[t].wait = wait
           /\ walk'[t].made = walk[t].made
           /\ walk'[t].out = walk[t].out
BY DEF Walks

-----------------------------------------------------------------------------
(* What a step of one turn keeps, whichever hook takes it.                 *)

Family == [ChainTurns -> Walks]

\* Only the turn t moves.
OneMoves(w, v, t) == \A u \in ChainTurns \ {t} : v[u] = w[u]

\* Its hook returns with the block b.
Goes(w, v, t, b) ==
    /\ OneMoves(w, v, t)
    /\ v[t].at = NextHook(b, w[t].at) /\ v[t].block = b /\ v[t].wait = "no"
    /\ v[t].made = w[t].made /\ v[t].out = w[t].out

\* The consumer gets its block, or an error in its place.
Yields(w, v, t, b) ==
    /\ OneMoves(w, v, t)
    /\ v[t].at = 0 /\ v[t].wait = "no"
    /\ v[t].made = w[t].made /\ v[t].out = Append(w[t].out, b)

\* Its hook begins to wait.
Waits(w, v, t, wait) ==
    /\ OneMoves(w, v, t)
    /\ v[t].at = w[t].at /\ v[t].block = w[t].block /\ v[t].wait = wait
    /\ v[t].made = w[t].made /\ v[t].out = w[t].out

\* A hook is at work on the turn's call.
AtWork(w, t) == w[t].at \in 1..Len(Chain)

\* A block that a hook may put in the place of the turn's.
Fits(b, w, t) == b \in CallBlocks \cup ResultBlocks /\ b.by = w[t].block.by

\* The four kinds of block are told apart by their kind.
LEMMA KindsDiffer ==
    /\ \A b \in CallBlocks : b.kind = "call" /\ b # Failure /\ b # NoBlock /\ b \notin ResultBlocks
    /\ \A b \in ResultBlocks : b.kind = "result" /\ b # Failure /\ b # NoBlock /\ b \notin CallBlocks
    /\ Failure # NoBlock /\ Failure.kind = "error" /\ NoBlock.kind = "none"
    /\ Failure \notin CallBlocks \cup ResultBlocks /\ NoBlock \notin CallBlocks \cup ResultBlocks
    /\ CallBlocks \cup ResultBlocks \subseteq Blocks /\ Failure \in Blocks /\ NoBlock \in Blocks
<1>1. \A b \in CallBlocks : b.kind = "call"
  BY DEF CallBlocks
<1>2. \A b \in ResultBlocks : b.kind = "result"
  BY DEF ResultBlocks
<1>3. Failure.kind = "error" /\ NoBlock.kind = "none"
  BY DEF Failure, NoBlock
<1>4. CallBlocks \cup ResultBlocks \subseteq Blocks /\ Failure \in Blocks /\ NoBlock \in Blocks
  BY DEF Blocks
<1> HIDE DEF CallBlocks, ResultBlocks
<1> QED BY <1>1, <1>2, <1>3, <1>4

\* No hook is a result's.
LEMMA ResultsGoOut ==
    ASSUME NEW b \in ResultBlocks, NEW i \in Nat, i <= Len(Chain)
    PROVE  NextHook(b, i) = Len(Chain) + 1
<1>1. Len(Chain) \in Nat
  BY ChainAssumption
<1>2. \A j : ~Mine(b, Chain[j])
  BY KindsDiffer DEF Mine
<1> QED BY <1>1, <1>2, NextHookIs

\* The turn stands right after each of these steps.
LEMMA GoesStands ==
    ASSUME NEW w \in Family, NEW v \in Family, NEW t \in ChainTurns, NEW b,
           AllStand(w), AtWork(w, t), Fits(b, w, t), Goes(w, v, t, b)
    PROVE  AllStand(v)
<1>1. Len(Chain) \in Nat
  BY ChainAssumption
<1>2. w[t].at \in 1..Len(Chain) /\ w[t].at \in Nat /\ w[t].at > 0
  BY <1>1 DEF AtWork
<1>3. Stands(w[t], t)
  BY DEF AllStand
<1>4. /\ NextHook(b, w[t].at) \in (w[t].at + 1)..(Len(Chain) + 1)
      /\ NextHook(b, w[t].at) <= Len(Chain) => Mine(b, Chain[NextHook(b, w[t].at)])
  BY <1>2, NextHookIs
<1>5. NextHook(b, w[t].at) <= Len(Chain) => b \in CallBlocks
  BY <1>1, <1>2, ResultsGoOut DEF Fits
<1>6. Stands(v[t], t)
  BY <1>1, <1>2, <1>3, <1>4, <1>5 DEF Stands, Goes, Fits
<1> QED BY <1>6 DEF AllStand, Goes, OneMoves

\* A turn whose block came out is at rest.
LEMMA YieldsStands ==
    ASSUME NEW w \in Family, NEW v \in Family, NEW t \in ChainTurns, NEW b,
           AllStand(w), w[t].at > 0, Yields(w, v, t, b)
    PROVE  AllStand(v)
<1>1. Stands(w[t], t) /\ w[t].out \in Seq(Blocks)
  BY DEF AllStand, Family, Walks
<1>2. Len(Append(w[t].out, b)) = Len(w[t].out) + 1
  BY <1>1
<1>3. Stands(v[t], t)
  BY <1>1, <1>2 DEF Stands, Yields
<1> QED BY <1>3 DEF AllStand, Yields, OneMoves

\* A hook waits at its own place.
LEMMA WaitsStands ==
    ASSUME NEW w \in Family, NEW v \in Family, NEW t \in ChainTurns, NEW wait,
           AllStand(w), AtWork(w, t), Waits(w, v, t, wait),
           \/ wait = "ruling" /\ Chain[w[t].at] = "hitl"
           \/ wait = "mcp" /\ Chain[w[t].at] = "mcp"
           \/ wait = "child" /\ Chain[w[t].at] = "subagent"
    PROVE  AllStand(v)
<1>1. Len(Chain) \in Nat
  BY ChainAssumption
<1>2. w[t].at \in 1..Len(Chain) /\ Stands(w[t], t)
  BY DEF AllStand, AtWork
<1>3. Stands(v[t], t)
  BY <1>1, <1>2 DEF Stands, Waits
<1> QED BY <1>3 DEF AllStand, Waits, OneMoves

\* A call that a gate lets pass has the places behind it that are no gates, and
\* that gate.
LEMMA GoesCleared ==
    ASSUME NEW w \in Family, NEW v \in Family, NEW t \in ChainTurns, NEW b,
           NEW A, NEW B, A \subseteq B,
           AllCleared(w, A), AtWork(w, t), Goes(w, v, t, b),
           \/ b \in ResultBlocks
           \/ b = w[t].block /\ b \in CallBlocks /\ LetThrough(b, B, w[t].at)
    PROVE  AllCleared(v, B)
<1>1. Len(Chain) \in Nat
  BY ChainAssumption
<1>2. w[t].at \in 1..Len(Chain) /\ w[t].at \in Nat /\ w[t].at > 0
  BY <1>1 DEF AtWork
<1>3. \A u \in ChainTurns : Cleared(w[u], B)
  BY DEF AllCleared, Cleared, LetThrough
<1>4. Cleared(v[t], B)
  <2>1. CASE b \in ResultBlocks
    BY <2>1, KindsDiffer DEF Cleared, Goes
  <2>2. CASE b = w[t].block /\ b \in CallBlocks /\ LetThrough(b, B, w[t].at)
    <3>1. /\ NextHook(b, w[t].at) \in (w[t].at + 1)..(Len(Chain) + 1)
          /\ \A j \in (w[t].at + 1)..(NextHook(b, w[t].at) - 1) : ~Mine(b, Chain[j])
      BY <1>2, NextHookIs
    <3>2. ASSUME NEW i \in 1..(v[t].at - 1)
          PROVE  LetThrough(b, B, i)
      <4>1. CASE i < w[t].at
        BY <4>1, <1>2, <1>3, <2>2 DEF Cleared
      <4>2. CASE i = w[t].at
        BY <4>2, <2>2
      <4>3. CASE i > w[t].at
        <5>1. ~Mine(b, Chain[i])
          BY <4>3, <3>1, <3>2, <1>2, <1>1 DEF Goes
        <5>2. b.kind = "call"
          BY <2>2, KindsDiffer
        <5> QED BY <5>1, <5>2 DEF Mine, LetThrough
      <4> QED BY <4>1, <4>2, <4>3, <1>2
    <3> QED BY <3>2 DEF Cleared, Goes
  <2> QED BY <2>1, <2>2
<1> QED BY <1>3, <1>4 DEF AllCleared, Goes, OneMoves

\* Nothing is on its way after a yield, and waiting moves nothing.
LEMMA RestsCleared ==
    ASSUME NEW w \in Family, NEW v \in Family, NEW t \in ChainTurns, NEW A, NEW B, A \subseteq B,
           AllCleared(w, A), OneMoves(w, v, t),
           v[t].at = 0 \/ (v[t].at = w[t].at /\ v[t].block = w[t].block)
    PROVE  AllCleared(v, B)
BY DEF AllCleared, Cleared, LetThrough, OneMoves

-----------------------------------------------------------------------------
(* What a turn reports.                                                    *)

\* The places of a turn's output: one moves, the others stay.
LEMMA BlocksStay ==
    ASSUME NEW w \in Family, NEW v \in Family, NEW t \in ChainTurns, NEW b,
           AllStand(w), w[t].at > 0,
           Goes(w, v, t, b) \/ Yields(w, v, t, b)
    PROVE  /\ v[t].made = w[t].made /\ w[t].made \in Nat \ {0}
           /\ BlockAt(v[t], w[t].made) = b
           /\ \A i \in 1..w[t].made : i # w[t].made => BlockAt(v[t], i) = BlockAt(w[t], i)
           /\ BlockAt(w[t], w[t].made) = w[t].block
<1>1. Stands(w[t], t) /\ w[t].out \in Seq(Blocks) /\ w[t].made \in Nat /\ w[t].at \in Nat
  BY DEF AllStand, Family, Walks
<1>2. w[t].made = Len(w[t].out) + 1 /\ Len(w[t].out) \in Nat
  BY <1>1 DEF Stands
<1>3. CASE Goes(w, v, t, b)
  BY <1>2, <1>3 DEF Goes, BlockAt
<1>4. CASE Yields(w, v, t, b)
  <2>1. /\ Len(Append(w[t].out, b)) = w[t].made
        /\ Append(w[t].out, b)[w[t].made] = b
        /\ \A i \in 1..Len(w[t].out) : Append(w[t].out, b)[i] = w[t].out[i]
    BY <1>1, <1>2
  <2> QED BY <1>2, <1>4, <2>1 DEF Yields, BlockAt
<1> QED BY <1>3, <1>4

\* A block that is the turn's own keeps all of them so.
LEMMA OwnStays ==
    ASSUME NEW w \in Family, NEW v \in Family, NEW t \in ChainTurns, NEW b,
           AllStand(w), w[t].at > 0,
           Goes(w, v, t, b) \/ Yields(w, v, t, b),
           NEW T, NEW U, T \subseteq U, AllOwn(w, T), OwnBlock(t, w[t].made, b, U)
    PROVE  AllOwn(v, U)
<1>1. \A u \in ChainTurns : \A i \in 1..w[u].made : OwnBlock(u, i, BlockAt(w[u], i), U)
  BY DEF AllOwn, OwnBlock
<1>2. \A i \in 1..v[t].made : OwnBlock(t, i, BlockAt(v[t], i), U)
  BY <1>1, BlocksStay
<1>3. \A u \in ChainTurns \ {t} : v[u] = w[u]
  BY DEF Goes, Yields, OneMoves
<1> QED BY <1>1, <1>2, <1>3 DEF AllOwn

\* A child that nobody was handed may be handed out, and the same block again.
LEMMA HandedStays ==
    ASSUME NEW w \in Family, NEW v \in Family, NEW t \in ChainTurns, NEW b,
           AllStand(w), w[t].at > 0,
           Goes(w, v, t, b) \/ Yields(w, v, t, b),
           NEW T, AllOwn(w, T), HandedOutOnce(w),
           b = w[t].block \/ \A id \in Nat : HandsOut(b, id) => id \notin T
    PROVE  HandedOutOnce(v)
<1>1. \A u \in ChainTurns \ {t} : v[u] = w[u]
  BY DEF Goes, Yields, OneMoves
<1> DEFINE Same(u, i) == u = t => i # w[t].made
<1>2. \A u \in ChainTurns : v[u].made = w[u].made
  BY <1>1, BlocksStay
<1>3. \A u \in ChainTurns : \A i \in 1..w[u].made :
         (u = t => i # w[t].made) => BlockAt(v[u], i) = BlockAt(w[u], i)
  BY <1>1, BlocksStay
<1>4. BlockAt(v[t], w[t].made) = b /\ BlockAt(w[t], w[t].made) = w[t].block
  BY BlocksStay
<1>5. CASE b = w[t].block
  <2>1. \A u \in ChainTurns : \A i \in 1..w[u].made : BlockAt(v[u], i) = BlockAt(w[u], i)
    BY <1>3, <1>4, <1>5
  <2> QED BY <1>2, <2>1 DEF HandedOutOnce
<1>6. CASE \A id \in Nat : HandsOut(b, id) => id \notin T
  <2>1. ASSUME NEW u \in ChainTurns, NEW i \in 1..w[u].made, NEW id \in Nat,
               HandsOut(BlockAt(w[u], i), id)
        PROVE  id \in T
    <3>1. OwnBlock(u, i, BlockAt(w[u], i), T)
      BY DEF AllOwn
    <3>2. /\ BlockAt(w[u], i).of[1] = "child"
          /\ BlockAt(w[u], i).of = <<"child", id>>
      BY <2>1 DEF HandsOut, ChildOf
    <3>3. ChildOf(BlockAt(w[u], i).call.child) = <<"child", id>> /\ BlockAt(w[u], i).call.child \in T
      BY <2>1, <3>1, <3>2 DEF OwnBlock, HandsOut
    <3> QED BY <3>3 DEF ChildOf
  <2>2. ASSUME NEW u \in ChainTurns, NEW x \in ChainTurns,
               NEW i \in 1..w[u].made, NEW j \in 1..w[x].made, NEW id \in Nat,
               HandsOut(BlockAt(v[u], i), id), HandsOut(BlockAt(v[x], j), id)
        PROVE  u = x /\ i = j
    <3>1. CASE u = t /\ i = w[t].made /\ x = t /\ j = w[t].made
      BY <3>1
    <3>2. CASE u = t /\ i = w[t].made /\ ~(x = t /\ j = w[t].made)
      BY <3>2, <2>1, <2>2, <1>3, <1>4, <1>6
    <3>3. CASE ~(u = t /\ i = w[t].made) /\ x = t /\ j = w[t].made
      BY <3>3, <2>1, <2>2, <1>3, <1>4, <1>6
    <3>4. CASE ~(u = t /\ i = w[t].made) /\ ~(x = t /\ j = w[t].made)
      <4>1. HandsOut(BlockAt(w[u], i), id) /\ HandsOut(BlockAt(w[x], j), id)
        BY <3>4, <2>2, <1>3
      <4> QED BY <4>1 DEF HandedOutOnce
    <3> QED BY <3>1, <3>2, <3>3, <3>4
  <2> QED BY <1>2, <2>2 DEF HandedOutOnce
<1> QED BY <1>5, <1>6

\* A hook that waits reports nothing yet.
LEMMA WaitsReportsNothing ==
    ASSUME NEW w \in Family, NEW v \in Family, NEW t \in ChainTurns, NEW wait,
           Waits(w, v, t, wait)
    PROVE  /\ \A T : AllOwn(w, T) => AllOwn(v, T)
           /\ HandedOutOnce(w) => HandedOutOnce(v)
<1>1. \A u \in ChainTurns : v[u].made = w[u].made /\ \A i : BlockAt(v[u], i) = BlockAt(w[u], i)
  BY DEF Waits, OneMoves, BlockAt
<1> QED BY <1>1 DEF AllOwn, HandedOutOnce

-----------------------------------------------------------------------------
(* The worker's queue and its replies.                                     *)

\* Nothing of the worker's changes while a turn that does not wait for it moves.
LEMMA TheirsStays ==
    ASSUME NEW w, NEW v, NEW t \in ChainTurns, NEW m, Theirs(m, w), OneMoves(w, v, t),
           w[t].wait # "mcp", m.queue \in Seq(CallBlocks)
    PROVE  Theirs(m, v)
<1>1. \A k \in 1..Len(m.queue) : m.queue[k].by[1] \in ChainTurns \ {t}
  <2> TAKE k \in 1..Len(m.queue)
  <2>1. m.queue[k] \in CallBlocks
    OBVIOUS
  <2>2. m.queue[k].by[1] \in ChainTurns
    BY <2>1 DEF CallBlocks, Marks
  <2> QED BY <2>2 DEF Theirs
<1>2. \A k \in 1..Len(m.queue) : v[m.queue[k].by[1]] = w[m.queue[k].by[1]]
  BY <1>1 DEF OneMoves
<1>3. \A u \in ChainTurns : m.reply[u] # NoBlock => v[u] = w[u]
  BY DEF Theirs, OneMoves
<1> QED BY <1>2, <1>3 DEF Theirs

\* A hook's request joins the queue.
LEMMA SendTheirs ==
    ASSUME NEW w \in Family, NEW v \in Family, NEW t \in ChainTurns, NEW m, NEW n,
           Theirs(m, w), AllStand(w), AtWork(w, t), w[t].wait = "no", Waits(w, v, t, "mcp"),
           m.queue \in Seq(CallBlocks), m.reply \in [ChainTurns -> Blocks],
           n.queue = Append(m.queue, w[t].block), n.reply = [m.reply EXCEPT ![t] = NoBlock]
    PROVE  Theirs(n, v) /\ n.queue \in Seq(CallBlocks)
<1>1. Len(Chain) \in Nat
  BY ChainAssumption
<1>2. w[t].block \in CallBlocks /\ w[t].block.by = <<t, w[t].made>> /\ w[t].block.by[1] = t
  BY <1>1 DEF AllStand, Stands, AtWork
<1>3. /\ n.queue \in Seq(CallBlocks) /\ Len(n.queue) = Len(m.queue) + 1 /\ Len(m.queue) \in Nat
      /\ n.queue[Len(m.queue) + 1] = w[t].block
      /\ \A k \in 1..Len(m.queue) : n.queue[k] = m.queue[k]
  BY <1>2
<1>4. \A k \in 1..Len(m.queue) : m.queue[k].by[1] \in ChainTurns \ {t}
  <2> TAKE k \in 1..Len(m.queue)
  <2>1. m.queue[k] \in CallBlocks
    OBVIOUS
  <2>2. m.queue[k].by[1] \in ChainTurns
    BY <2>1 DEF CallBlocks, Marks
  <2> QED BY <2>2 DEF Theirs
<1>5. \A k \in 1..Len(n.queue) : k = Len(m.queue) + 1 \/ k \in 1..Len(m.queue)
  BY <1>3
<1>6. ASSUME NEW k \in 1..Len(n.queue)
      PROVE  LET u == n.queue[k].by[1] IN
               v[u].wait = "mcp" /\ v[u].block = n.queue[k] /\ n.reply[u] = NoBlock
  <2>1. CASE k = Len(m.queue) + 1
    BY <2>1, <1>2, <1>3 DEF Waits
  <2>2. CASE k \in 1..Len(m.queue)
    <3>1. n.queue[k] = m.queue[k] /\ m.queue[k].by[1] \in ChainTurns \ {t}
      BY <2>2, <1>3, <1>4
    <3>2. v[m.queue[k].by[1]] = w[m.queue[k].by[1]] /\ n.reply[m.queue[k].by[1]] = m.reply[m.queue[k].by[1]]
      BY <3>1 DEF Waits, OneMoves
    <3>3. LET u == m.queue[k].by[1] IN
            w[u].wait = "mcp" /\ w[u].block = m.queue[k] /\ m.reply[u] = NoBlock
      BY <2>2 DEF Theirs
    <3> QED BY <3>1, <3>2, <3>3
  <2> QED BY <2>1, <2>2, <1>5
<1>7. \A k, l \in 1..Len(n.queue) : n.queue[k].by[1] = n.queue[l].by[1] => k = l
  <2> TAKE k, l \in 1..Len(n.queue)
  <2>1. k # Len(m.queue) + 1 => k \in 1..Len(m.queue) /\ n.queue[k] = m.queue[k]
                                /\ n.queue[k].by[1] # t
    BY <1>3, <1>4, <1>5
  <2>2. l # Len(m.queue) + 1 => l \in 1..Len(m.queue) /\ n.queue[l] = m.queue[l]
                                /\ n.queue[l].by[1] # t
    BY <1>3, <1>4, <1>5
  <2>3. n.queue[Len(m.queue) + 1].by[1] = t
    BY <1>2, <1>3
  <2>4. CASE k # Len(m.queue) + 1 /\ l # Len(m.queue) + 1
    <3>1. m.queue[k].by[1] = m.queue[l].by[1] => k = l
      BY <2>1, <2>2, <2>4 DEF Theirs
    <3> QED BY <2>1, <2>2, <2>4, <3>1
  <2>5. CASE k = Len(m.queue) + 1 \/ l = Len(m.queue) + 1
    BY <2>1, <2>2, <2>3, <2>5
  <2> QED BY <2>4, <2>5
<1>8. \A u \in ChainTurns : n.reply[u] # NoBlock => u # t /\ n.reply[u] = m.reply[u] /\ v[u] = w[u]
  BY DEF Waits, OneMoves
<1>9. \A u \in ChainTurns : n.reply[u] # NoBlock =>
          /\ v[u].wait = "mcp"
          /\ n.reply[u] \in ResultBlocks
          /\ n.reply[u].call = v[u].block.call /\ n.reply[u].by = v[u].block.by
          /\ n.reply[u].of = RunOf(n.reply[u].by) \/ n.reply[u].of = Note("failed")
  BY <1>8 DEF Theirs
<1> QED BY <1>3, <1>6, <1>7, <1>9 DEF Theirs

\* The worker answers the first in its queue.
LEMMA RunsTheirs ==
    ASSUME NEW w, NEW m, NEW n, Theirs(m, w), m.queue \in Seq(CallBlocks), m.queue # <<>>,
           m.reply \in [ChainTurns -> Blocks],
           n.queue = Tail(m.queue),
           n.reply = [m.reply EXCEPT ![m.queue[1].by[1]] = Result(m.queue[1], RunOf(m.queue[1].by))]
    PROVE  Theirs(n, w) /\ n.queue \in Seq(CallBlocks) /\ n.reply \in [ChainTurns -> Blocks]
<1> DEFINE q == m.queue
           t == q[1].by[1]
           r == Result(q[1], RunOf(q[1].by))
<1>1. /\ n.queue \in Seq(CallBlocks) /\ Len(n.queue) = Len(q) - 1 /\ Len(q) \in Nat \ {0}
      /\ \A k \in 1..Len(n.queue) : n.queue[k] = q[k + 1] /\ k + 1 \in 2..Len(q)
  OBVIOUS
<1>2. q[1] \in CallBlocks
  BY <1>1
<1>3. t \in ChainTurns
  BY <1>2 DEF CallBlocks, Marks
<1>4. /\ r \in ResultBlocks /\ r.call = q[1].call /\ r.by = q[1].by /\ r.of = RunOf(r.by)
  BY <1>2 DEF Result, ResultBlocks, CallBlocks, RunOf, Reports
<1>5. w[t].wait = "mcp" /\ w[t].block = q[1] /\ m.reply[t] = NoBlock
  BY <1>1 DEF Theirs
<1>6. /\ n.reply \in [ChainTurns -> Blocks]
      /\ n.reply[t] = r
      /\ \A u \in ChainTurns \ {t} : n.reply[u] = m.reply[u]
  BY <1>3, <1>4, KindsDiffer
<1> HIDE DEF r
<1>7. \A k \in 1..Len(n.queue) : n.queue[k].by[1] # t
  <2> TAKE k \in 1..Len(n.queue)
  <2>1. n.queue[k] = q[k + 1] /\ k + 1 \in 1..Len(q) /\ 1 \in 1..Len(q) /\ k + 1 # 1
    BY <1>1
  <2> QED BY <2>1 DEF Theirs
<1>8. \A k \in 1..Len(n.queue) : n.queue[k].by[1] \in ChainTurns
  <2> TAKE k \in 1..Len(n.queue)
  <2>1. n.queue[k] \in CallBlocks
    BY <1>1
  <2> QED BY <2>1 DEF CallBlocks, Marks
<1>9. ASSUME NEW k \in 1..Len(n.queue)
      PROVE  LET u == n.queue[k].by[1] IN
               w[u].wait = "mcp" /\ w[u].block = n.queue[k] /\ n.reply[u] = NoBlock
  <2>1. n.queue[k] = q[k + 1] /\ k + 1 \in 1..Len(q)
    BY <1>1
  <2>2. n.reply[n.queue[k].by[1]] = m.reply[n.queue[k].by[1]]
    BY <1>6, <1>7, <1>8
  <2>3. LET u == q[k + 1].by[1] IN
          w[u].wait = "mcp" /\ w[u].block = q[k + 1] /\ m.reply[u] = NoBlock
    BY <2>1 DEF Theirs
  <2> QED BY <2>1, <2>2, <2>3
<1>10. \A k, l \in 1..Len(n.queue) : n.queue[k].by[1] = n.queue[l].by[1] => k = l
  <2> TAKE k, l \in 1..Len(n.queue)
  <2>1. n.queue[k] = q[k + 1] /\ k + 1 \in 1..Len(q) /\ n.queue[l] = q[l + 1] /\ l + 1 \in 1..Len(q)
    BY <1>1
  <2>2. q[k + 1].by[1] = q[l + 1].by[1] => k + 1 = l + 1
    BY <2>1 DEF Theirs
  <2> QED BY <1>1, <2>1, <2>2
<1>11. ASSUME NEW u \in ChainTurns, n.reply[u] # NoBlock
       PROVE  /\ w[u].wait = "mcp"
              /\ n.reply[u] \in ResultBlocks
              /\ n.reply[u].call = w[u].block.call /\ n.reply[u].by = w[u].block.by
              /\ n.reply[u].of = RunOf(n.reply[u].by) \/ n.reply[u].of = Note("failed")
  <2>1. CASE u = t
    BY <2>1, <1>4, <1>5, <1>6
  <2>2. CASE u # t
    BY <2>2, <1>6, <1>11 DEF Theirs
  <2> QED BY <2>1, <2>2
<1> QED BY <1>1, <1>6, <1>9, <1>10, <1>11 DEF Theirs

\* The worker's end: nobody is queued, and who waited has an answer.
LEMMA DiesTheirs ==
    ASSUME NEW w \in Family, NEW m, NEW n, Theirs(m, w), AllStand(w),
           m.reply \in [ChainTurns -> Blocks],
           n.queue = <<>>,
           n.reply = [t \in ChainTurns |->
                         IF w[t].wait = "mcp" /\ m.reply[t] = NoBlock
                         THEN Result(w[t].block, Note("failed")) ELSE m.reply[t]]
    PROVE  Theirs(n, w) /\ n.reply \in [ChainTurns -> Blocks]
<1>1. Len(Chain) \in Nat
  BY ChainAssumption
<1>2. ASSUME NEW t \in ChainTurns, w[t].wait = "mcp"
      PROVE  LET r == Result(w[t].block, Note("failed")) IN
               /\ r \in ResultBlocks /\ r.call = w[t].block.call /\ r.by = w[t].block.by
               /\ r.of = Note("failed")
  <2>1. w[t].block \in CallBlocks
    BY <1>1, <1>2 DEF AllStand, Stands
  <2>2. Note("failed") \in Reports
    BY DEF Note, Reports, Reasons
  <2> QED BY <2>1, <2>2 DEF Result, ResultBlocks, CallBlocks
<1>3. ASSUME NEW t \in ChainTurns
      PROVE  /\ n.reply[t] \in Blocks
             /\ n.reply[t] # NoBlock =>
                  /\ w[t].wait = "mcp"
                  /\ n.reply[t] \in ResultBlocks
                  /\ n.reply[t].call = w[t].block.call /\ n.reply[t].by = w[t].block.by
                  /\ n.reply[t].of = RunOf(n.reply[t].by) \/ n.reply[t].of = Note("failed")
  <2>1. CASE w[t].wait = "mcp" /\ m.reply[t] = NoBlock
    <3>1. n.reply[t] = Result(w[t].block, Note("failed"))
      BY <2>1
    <3> QED BY <2>1, <3>1, <1>2, KindsDiffer
  <2>2. CASE ~(w[t].wait = "mcp" /\ m.reply[t] = NoBlock)
    <3>1. n.reply[t] = m.reply[t]
      BY <2>2
    <3> QED BY <3>1 DEF Theirs
  <2> QED BY <2>1, <2>2
<1>4. n.reply \in [ChainTurns -> Blocks]
  BY <1>3
<1> QED BY <1>3, <1>4 DEF Theirs

\* A hook takes its reply and goes on.
LEMMA ReceivedTheirs ==
    ASSUME NEW w, NEW v, NEW t \in ChainTurns, NEW m, NEW n, Theirs(m, w), OneMoves(w, v, t),
           m.queue \in Seq(CallBlocks), m.reply \in [ChainTurns -> Blocks], m.reply[t] # NoBlock,
           n.queue = m.queue, n.reply = [m.reply EXCEPT ![t] = NoBlock]
    PROVE  Theirs(n, v) /\ n.reply \in [ChainTurns -> Blocks]
<1>1. \A k \in 1..Len(m.queue) : m.queue[k].by[1] \in ChainTurns \ {t}
  <2> TAKE k \in 1..Len(m.queue)
  <2>1. m.queue[k] \in CallBlocks
    OBVIOUS
  <2>2. m.queue[k].by[1] \in ChainTurns
    BY <2>1 DEF CallBlocks, Marks
  <2> QED BY <2>2 DEF Theirs
<1>2. \A u \in ChainTurns \ {t} : v[u] = w[u] /\ n.reply[u] = m.reply[u]
  BY DEF OneMoves
<1>3. n.reply[t] = NoBlock /\ n.reply \in [ChainTurns -> Blocks]
  BY KindsDiffer
<1>4. \A k \in 1..Len(m.queue) :
         v[m.queue[k].by[1]] = w[m.queue[k].by[1]] /\ n.reply[m.queue[k].by[1]] = NoBlock
  BY <1>1, <1>2 DEF Theirs
<1>5. \A u \in ChainTurns : n.reply[u] # NoBlock => v[u] = w[u] /\ n.reply[u] = m.reply[u]
  BY <1>2, <1>3
<1> QED BY <1>3, <1>4, <1>5 DEF Theirs

-----------------------------------------------------------------------------
(* The children.                                                           *)

\* A turn that waited for no child, and waits for none, moves.
LEMMA ChildrenStay ==
    ASSUME NEW w, NEW v, NEW t \in ChainTurns, NEW s, ChildrenIn(s, w), OneMoves(w, v, t),
           w[t].wait # "child", v[t].wait # "child"
    PROVE  ChildrenIn(s, v)
<1>1. \A u \in ChainTurns : (v[u].wait = "child" \/ w[u].wait = "child") => v[u] = w[u]
  BY DEF OneMoves
<1>2. \A id \in 0..(s.spawned - 1) : id \in s.pending \/ id \in s.taken \/
          \E u \in ChainTurns : v[u].wait = "child" /\ v[u].block.call.child = id
  BY <1>1 DEF ChildrenIn
<1> QED BY <1>1, <1>2 DEF ChildrenIn

\* A new child is registered.
LEMMA SpawnKeepsChildren ==
    ASSUME NEW w, NEW s, NEW n, ChildrenIn(s, w), s.spawned \in Nat, s.child \in Seq({"ready", "done", "died"}),
           Cardinality(s.pending) < MaxPending,
           n.spawned = s.spawned + 1, n.child = Append(s.child, "ready"),
           n.pending = s.pending \cup {s.spawned}, n.taken = s.taken
    PROVE  ChildrenIn(n, w)
<1>1. IsFiniteSet(n.pending) /\ Cardinality(n.pending) <= MaxPending
  <2>1. IsFiniteSet(s.pending) /\ s.spawned \notin s.pending
    BY DEF ChildrenIn
  <2>2. IsFiniteSet(n.pending) /\ Cardinality(n.pending) = Cardinality(s.pending) + 1
        /\ Cardinality(s.pending) \in Nat
    BY <2>1, FS_AddElement, FS_CardinalityType
  <2> QED BY <2>2, ChainAssumption
<1>2. Len(n.child) = n.spawned
  BY DEF ChildrenIn
<1>3. \A id : id \in 0..(n.spawned - 1) <=> id \in 0..(s.spawned - 1) \/ id = s.spawned
  OBVIOUS
<1>4. s.spawned \notin 0..(s.spawned - 1)
  OBVIOUS
<1>5. /\ n.pending \subseteq 0..(n.spawned - 1) /\ n.taken \subseteq 0..(n.spawned - 1)
      /\ n.pending \cap n.taken = {}
  BY <1>3, <1>4 DEF ChildrenIn
<1>6. \A t \in ChainTurns : w[t].wait = "child" =>
          /\ w[t].block.call.child \in 0..(n.spawned - 1)
          /\ w[t].block.call.child \notin n.pending \cup n.taken
  BY <1>3, <1>4 DEF ChildrenIn
<1>7. \A id \in 0..(n.spawned - 1) : id \in n.pending \/ id \in n.taken \/
          \E t \in ChainTurns : w[t].wait = "child" /\ w[t].block.call.child = id
  <2> TAKE id \in 0..(n.spawned - 1)
  <2>1. CASE id = s.spawned
    BY <2>1
  <2>2. CASE id \in 0..(s.spawned - 1)
    BY <2>2 DEF ChildrenIn
  <2> QED BY <2>1, <2>2, <1>3
<1>8. \A t, u \in ChainTurns :
          w[t].wait = "child" /\ w[u].wait = "child" /\ w[t].block.call.child = w[u].block.call.child
          => t = u
  BY DEF ChildrenIn
<1> QED BY <1>1, <1>2, <1>5, <1>6, <1>7, <1>8 DEF ChildrenIn

\* A hook takes a child from the registry and waits for it.
LEMMA CollectKeepsChildren ==
    ASSUME NEW w, NEW v, NEW t \in ChainTurns, NEW s, NEW n, ChildrenIn(s, w),
           Waits(w, v, t, "child"), w[t].wait # "child", w[t].block.call.child \in s.pending,
           n.spawned = s.spawned, n.child = s.child,
           n.pending = s.pending \ {w[t].block.call.child}, n.taken = s.taken
    PROVE  ChildrenIn(n, v)
<1> DEFINE id == w[t].block.call.child
<1>1. IsFiniteSet(n.pending) /\ Cardinality(n.pending) <= MaxPending
  <2>1. IsFiniteSet(s.pending) /\ Cardinality(s.pending) <= MaxPending
    BY DEF ChildrenIn
  <2>2. IsFiniteSet(n.pending) /\ Cardinality(n.pending) = Cardinality(s.pending) - 1
        /\ Cardinality(s.pending) \in Nat
    <3>1. w[t].block.call.child \in s.pending
      OBVIOUS
    <3>2. IsFiniteSet(n.pending) /\ Cardinality(n.pending) = Cardinality(s.pending) - 1
      <4> HIDE DEF id
      <4>1. /\ IsFiniteSet(s.pending \ {id})
            /\ Cardinality(s.pending \ {id}) = IF id \in s.pending THEN Cardinality(s.pending) - 1
                                              ELSE Cardinality(s.pending)
        BY <2>1, FS_RemoveElement
      <4>2. id \in s.pending /\ n.pending = s.pending \ {id}
        BY DEF id
      <4> QED BY <4>1, <4>2
    <3> QED BY <2>1, <3>2, FS_CardinalityType
  <2> QED BY <2>1, <2>2, ChainAssumption
<1>2. v[t].wait = "child" /\ v[t].block = w[t].block /\ \A u \in ChainTurns \ {t} : v[u] = w[u]
  BY DEF Waits, OneMoves
<1>3. \A u \in ChainTurns \ {t} : w[u].wait = "child" => w[u].block.call.child # id
  BY DEF ChildrenIn
<1>4. ASSUME NEW x \in 0..(n.spawned - 1)
      PROVE  x \in n.pending \/ x \in n.taken \/
               \E u \in ChainTurns : v[u].wait = "child" /\ v[u].block.call.child = x
  <2>1. CASE x = id
    BY <2>1, <1>2
  <2>2. CASE x # id
    <3>1. x \in s.pending \/ x \in s.taken \/
            \E u \in ChainTurns : w[u].wait = "child" /\ w[u].block.call.child = x
      BY <1>4 DEF ChildrenIn
    <3> QED BY <3>1, <2>2, <1>2
  <2> QED BY <2>1, <2>2
<1>5. id \in 0..(s.spawned - 1) /\ id \notin s.taken /\ id \notin n.pending
  BY DEF ChildrenIn
<1>6. ASSUME NEW u \in ChainTurns, v[u].wait = "child"
      PROVE  /\ v[u].block.call.child \in 0..(n.spawned - 1)
             /\ v[u].block.call.child \notin n.pending \cup n.taken
  BY <1>2, <1>5, <1>6 DEF ChildrenIn
<1>7. ASSUME NEW u \in ChainTurns, NEW x \in ChainTurns, v[u].wait = "child", v[x].wait = "child",
             v[u].block.call.child = v[x].block.call.child
      PROVE  u = x
  <2>1. CASE u # t /\ x # t
    BY <2>1, <1>2, <1>7 DEF ChildrenIn
  <2>2. CASE u = t /\ x # t
    BY <2>2, <1>2, <1>3, <1>7
  <2>3. CASE u # t /\ x = t
    BY <2>3, <1>2, <1>3, <1>7
  <2> QED BY <2>1, <2>2, <2>3
<1>8. /\ n.pending \subseteq 0..(n.spawned - 1) /\ n.taken \subseteq 0..(n.spawned - 1)
      /\ n.pending \cap n.taken = {} /\ Len(n.child) = n.spawned
  BY DEF ChildrenIn
<1> QED BY <1>1, <1>4, <1>6, <1>7, <1>8 DEF ChildrenIn

\* What a hook waited for is handed out.
LEMMA CollectedKeepsChildren ==
    ASSUME NEW w, NEW v, NEW t \in ChainTurns, NEW s, NEW n, ChildrenIn(s, w),
           OneMoves(w, v, t), w[t].wait = "child", v[t].wait = "no",
           n.spawned = s.spawned, n.child = s.child,
           n.pending = s.pending, n.taken = s.taken \cup {w[t].block.call.child}
    PROVE  ChildrenIn(n, v)
<1> DEFINE id == w[t].block.call.child
<1>1. \A u \in ChainTurns \ {t} : v[u] = w[u] /\ (w[u].wait = "child" => w[u].block.call.child # id)
  BY DEF OneMoves, ChildrenIn
<1>2. id \in 0..(s.spawned - 1) /\ id \notin s.pending
  BY DEF ChildrenIn
<1>3. ASSUME NEW x \in 0..(n.spawned - 1)
      PROVE  x \in n.pending \/ x \in n.taken \/
               \E u \in ChainTurns : v[u].wait = "child" /\ v[u].block.call.child = x
  <2>1. x \in s.pending \/ x \in s.taken \/
            \E u \in ChainTurns : w[u].wait = "child" /\ w[u].block.call.child = x
    BY <1>3 DEF ChildrenIn
  <2> QED BY <2>1, <1>1
<1>4. \A u \in ChainTurns : v[u].wait = "child" => u # t /\ v[u] = w[u]
  BY <1>1
<1>5. ASSUME NEW u \in ChainTurns, v[u].wait = "child"
      PROVE  /\ v[u].block.call.child \in 0..(n.spawned - 1)
             /\ v[u].block.call.child \notin n.pending \cup n.taken
  BY <1>1, <1>4, <1>5 DEF ChildrenIn
<1>6. ASSUME NEW u \in ChainTurns, NEW x \in ChainTurns, v[u].wait = "child", v[x].wait = "child",
             v[u].block.call.child = v[x].block.call.child
      PROVE  u = x
  <2>1. u # t /\ x # t /\ v[u] = w[u] /\ v[x] = w[x]
    BY <1>4, <1>6
  <2> QED BY <1>6, <2>1 DEF ChildrenIn
<1>7. /\ n.pending \subseteq 0..(n.spawned - 1) /\ n.taken \subseteq 0..(n.spawned - 1)
      /\ n.pending \cap n.taken = {} /\ Len(n.child) = n.spawned
      /\ IsFiniteSet(n.pending) /\ Cardinality(n.pending) <= MaxPending
  BY <1>2 DEF ChildrenIn
<1>8. /\ \A u \in ChainTurns : v[u].wait = "child" =>
            /\ v[u].block.call.child \in 0..(n.spawned - 1)
            /\ v[u].block.call.child \notin n.pending \cup n.taken
      /\ \A u, x \in ChainTurns :
            v[u].wait = "child" /\ v[x].wait = "child" /\ v[u].block.call.child = v[x].block.call.child
            => u = x
  BY <1>5, <1>6
<1>9. \A x \in 0..(n.spawned - 1) : x \in n.pending \/ x \in n.taken \/
          \E u \in ChainTurns : v[u].wait = "child" /\ v[u].block.call.child = x
  BY <1>3
<1> HIDE DEF id
<1> QED BY <1>7, <1>8, <1>9 DEF ChildrenIn

-----------------------------------------------------------------------------
(* The attempt counters.                                                   *)

\* Taking an id that stands once out of a list.
LEMMA RemovedOnce ==
    ASSUME NEW S, NEW s \in Seq(S), NEW x,
           \A i, j \in 1..Len(s) : s[i] = s[j] => i = j
    PROVE  /\ RemoveFirst(s, x) \in Seq(S)
           /\ ToSet(RemoveFirst(s, x)) = ToSet(s) \ {x}
           /\ Len(RemoveFirst(s, x)) <= Len(s)
           /\ \A i, j \in 1..Len(RemoveFirst(s, x)) :
                 RemoveFirst(s, x)[i] = RemoveFirst(s, x)[j] => i = j
<1>1. Len(s) \in Nat /\ DOMAIN s = 1..Len(s)
  OBVIOUS
<1>2. CASE \A i \in 1..Len(s) : s[i] # x
  <2>1. RemoveFirst(s, x) = s
    BY <1>2 DEF RemoveFirst
  <2> QED BY <2>1, <1>1, <1>2 DEF ToSet
<1>3. ASSUME NEW k \in 1..Len(s), s[k] = x
      PROVE  /\ RemoveFirst(s, x) \in Seq(S)
             /\ ToSet(RemoveFirst(s, x)) = ToSet(s) \ {x}
             /\ Len(RemoveFirst(s, x)) <= Len(s)
             /\ \A i, j \in 1..Len(RemoveFirst(s, x)) :
                   RemoveFirst(s, x)[i] = RemoveFirst(s, x)[j] => i = j
  <2>1. {i \in 1..Len(s) : s[i] = x} = {k}
    BY <1>3
  <2>2. Min({k}) = k
    <3>1. {k} \in SUBSET Nat /\ {k} # {}
      BY <1>1
    <3> QED BY <3>1, MinOfNats
  <2>3. RemoveFirst(s, x) = SubSeq(s, 1, k - 1) \o SubSeq(s, k + 1, Len(s))
    BY <1>3, <2>1, <2>2 DEF RemoveFirst, RemoveAt, SelectInSeq
  <2> DEFINE r == SubSeq(s, 1, k - 1) \o SubSeq(s, k + 1, Len(s))
             before == SubSeq(s, 1, k - 1)
             after == SubSeq(s, k + 1, Len(s))
  <2>a. /\ before \in Seq(S) /\ Len(before) = k - 1
        /\ \A i \in 1..(k - 1) : before[i] = s[i]
    BY <1>1
  <2>b. /\ after \in Seq(S) /\ Len(after) = Len(s) - k
        /\ \A i \in 1..(Len(s) - k) : after[i] = s[i + k]
    <3>1. PICK m \in Nat : m = k + 1
      BY <1>1
    <3>2. m >= 1 /\ m <= Len(s) + 1
      BY <1>1, <3>1
    <3>3. /\ SubSeq(s, m, Len(s)) \in Seq(S) /\ Len(SubSeq(s, m, Len(s))) = Len(s) - m + 1
          /\ \A i \in 1..(Len(s) - m + 1) : SubSeq(s, m, Len(s))[i] = s[m + i - 1]
      BY <1>1, <3>2
    <3>4. after = SubSeq(s, m, Len(s)) /\ Len(s) - m + 1 = Len(s) - k
      BY <1>1, <3>1
    <3> HIDE DEF after
    <3>5. ASSUME NEW i \in 1..(Len(s) - k)
          PROVE  after[i] = s[i + k]
      <4>1. i \in 1..(Len(s) - m + 1)
        BY <3>4
      <4>2. m + i - 1 = i + k
        BY <1>1, <3>1
      <4>3. after[i] = s[m + i - 1]
        BY <3>3, <3>4, <4>1
      <4> QED BY <4>2, <4>3
    <3> QED BY <3>3, <3>4, <3>5
  <2> HIDE DEF before, after
  <2>c. r = before \o after
    BY DEF before, after
  <2> HIDE DEF r
  <2>4. r \in Seq(S) /\ Len(r) = Len(s) - 1
    <3>0. before \in Seq(S) /\ after \in Seq(S)
      BY <2>a, <2>b
    <3>1. Len(r) = Len(before) + Len(after) /\ r \in Seq(S)
      BY <3>0, <2>c
    <3> QED BY <1>1, <2>a, <2>b, <3>1
  <2>5. \A i \in 1..Len(r) : r[i] = IF i < k THEN s[i] ELSE s[i + 1]
    <3> TAKE i \in 1..Len(r)
    <3>1. CASE i < k
      <4>1. i \in 1..Len(before) /\ r[i] = before[i]
        BY <3>1, <1>1, <2>4, <2>a, <2>b, <2>c
      <4> QED BY <4>1, <3>1, <2>a
    <3>2. CASE i >= k
      <4>0. /\ before \in Seq(S) /\ after \in Seq(S) /\ Len(before) = k - 1
            /\ i > Len(before) /\ i \in 1..(Len(before) + Len(after))
        BY <3>2, <1>1, <2>4, <2>a, <2>b
      <4>1. r[i] = after[i - (k - 1)]
        BY <4>0, <2>c
      <4>2. PICK j \in 1..(Len(s) - k) : j = i - (k - 1)
        BY <3>2, <1>1, <2>4
      <4>3. j + k = i + 1
        BY <4>2, <2>4, <1>1
      <4>4. r[i] = s[i + 1]
        BY <4>1, <4>2, <4>3, <2>b
      <4> QED BY <4>4, <3>2, <2>4, <1>1
    <3> QED BY <3>1, <3>2, <1>1
  <2>6. \A i \in 1..Len(r) : \E j \in 1..Len(s) : j # k /\ r[i] = s[j] /\ j = IF i < k THEN i ELSE i + 1
    BY <2>4, <2>5, <1>1
  <2>7. \A i, j \in 1..Len(r) : r[i] = r[j] => i = j
    <3> TAKE i, j \in 1..Len(r)
    <3>1. PICK a \in 1..Len(s) : a # k /\ r[i] = s[a] /\ a = IF i < k THEN i ELSE i + 1
      BY <2>6
    <3>2. PICK b \in 1..Len(s) : b # k /\ r[j] = s[b] /\ b = IF j < k THEN j ELSE j + 1
      BY <2>6
    <3>3. r[i] = r[j] => a = b
      BY <3>1, <3>2
    <3>4. a = b => i = j
      BY <3>1, <3>2, <2>4, <1>1
    <3> QED BY <3>3, <3>4
  <2>8. \A y \in ToSet(r) : y \in ToSet(s) \ {x}
    <3> TAKE y \in ToSet(r)
    <3>1. PICK i \in 1..Len(r) : y = r[i]
      BY <2>4 DEF ToSet
    <3>2. PICK j \in 1..Len(s) : j # k /\ r[i] = s[j]
      BY <2>6
    <3> QED BY <3>1, <3>2, <1>1, <1>3 DEF ToSet
  <2>9. \A y \in ToSet(s) \ {x} : y \in ToSet(r)
    <3> TAKE y \in ToSet(s) \ {x}
    <3>1. PICK j \in 1..Len(s) : y = s[j]
      BY <1>1 DEF ToSet
    <3>2. j # k
      BY <3>1, <1>3
    <3>3. CASE j < k
      <4>1. j \in 1..Len(r) /\ r[j] = s[j]
        BY <3>3, <2>4, <2>5, <1>1
      <4> QED BY <4>1, <3>1, <2>4 DEF ToSet
    <3>4. CASE j > k
      <4>1. j - 1 \in 1..Len(r) /\ r[j - 1] = s[j]
        BY <3>4, <2>4, <2>5, <1>1
      <4> QED BY <4>1, <3>1, <2>4 DEF ToSet
    <3> QED BY <3>2, <3>3, <3>4, <1>1
  <2>10. ToSet(r) = ToSet(s) \ {x}
    BY <2>8, <2>9
  <2>11. RemoveFirst(s, x) = r
    BY <2>3 DEF r
  <2> QED BY <2>4, <2>7, <2>10, <2>11, <1>1
<1> QED BY <1>2, <1>3

\* A shape of the counters.
IsCounters(g) ==
    /\ g = [counts |-> g.counts, order |-> g.order]
    /\ g.counts \in [DOMAIN g.counts -> Nat]
    /\ g.order \in Seq(CallIds)

\* A valid call's id leaves both.
LEMMA ClearKeeps ==
    ASSUME NEW g, NEW id, IsCounters(g), CountersIn(g)
    PROVE  IsCounters(ClearAttempts(g, id)) /\ CountersIn(ClearAttempts(g, id))
<1> DEFINE n == ClearAttempts(g, id)
<1>1. n.order = RemoveFirst(g.order, id) /\ n = [counts |-> n.counts, order |-> n.order]
      /\ n.counts = [i \in DOMAIN g.counts \ {id} |-> g.counts[i]]
  BY DEF ClearAttempts
<1> HIDE DEF n
<1>2. /\ n.order \in Seq(CallIds)
      /\ ToSet(n.order) = ToSet(g.order) \ {id}
      /\ Len(n.order) <= Len(g.order)
      /\ \A i, j \in 1..Len(n.order) : n.order[i] = n.order[j] => i = j
  BY <1>1, RemovedOnce DEF IsCounters, CountersIn
<1>3. DOMAIN n.counts = DOMAIN g.counts \ {id} /\ n.counts \in [DOMAIN n.counts -> Nat]
  BY <1>1 DEF IsCounters
<1>4. Len(n.order) <= MaxTrackedCalls
  BY <1>2, ChainAssumption DEF CountersIn, IsCounters
<1> QED BY <1>1, <1>2, <1>3, <1>4 DEF IsCounters, CountersIn, n

\* An invalid call's id is in both afterwards, and the oldest make room.
LEMMA CountKeeps ==
    ASSUME NEW g, NEW id \in CallIds, IsCounters(g), CountersIn(g)
    PROVE  IsCounters(CountFailure(g, id)) /\ CountersIn(CountFailure(g, id))
<1> DEFINE n == CountFailure(g, id)
<1>1. Len(g.order) \in Nat /\ DOMAIN g.order = 1..Len(g.order) /\ g.order \in Seq(CallIds)
  BY DEF IsCounters
<1>2. CASE id \in DOMAIN g.counts
  <2>1. n.order = g.order /\ n.counts = [g.counts EXCEPT ![id] = @ + 1]
        /\ n = [counts |-> n.counts, order |-> n.order]
    BY <1>2 DEF CountFailure, IsCounters
  <2> HIDE DEF n
  <2>2. DOMAIN n.counts = DOMAIN g.counts /\ n.counts \in [DOMAIN n.counts -> Nat]
    <3> DEFINE D == DOMAIN g.counts
    <3>1. g.counts \in [D -> Nat] /\ id \in D
      BY <1>2 DEF IsCounters
    <3> HIDE DEF D
    <3>2. [g.counts EXCEPT ![id] = @ + 1] \in [D -> Nat]
      BY <3>1
    <3>3. n.counts \in [D -> Nat]
      BY <2>1, <3>2
    <3> QED BY <3>3 DEF D
  <2> QED BY <2>1, <2>2 DEF IsCounters, CountersIn, n
<1>3. CASE id \notin DOMAIN g.counts
  <2> DEFINE from == IF Len(g.order) < MaxTrackedCalls THEN 1
                     ELSE Len(g.order) - MaxTrackedCalls + 2
             kept == SubSeq(g.order, from, Len(g.order))
  <2>1. from \in Nat \ {0} /\ from <= Len(g.order) + 1
        /\ Len(g.order) - from + 1 < MaxTrackedCalls
    <3>1. PICK k \in Nat, m \in Nat \ {0} : k = Len(g.order) /\ m = MaxTrackedCalls
      BY <1>1, ChainAssumption
    <3>2. k <= m
      BY <3>1 DEF CountersIn
    <3>3. from = IF k < m THEN 1 ELSE k - m + 2
      BY <3>1
    <3> HIDE DEF from
    <3>4. from \in Nat \ {0} /\ from <= k + 1 /\ k - from + 1 < m
      BY <3>2, <3>3
    <3> QED BY <3>1, <3>4
  <2> HIDE DEF from
  <2>2. /\ kept \in Seq(CallIds) /\ Len(kept) = Len(g.order) - from + 1 /\ Len(kept) \in Nat
        /\ \A i \in 1..Len(kept) : kept[i] = g.order[i + from - 1] /\ i + from - 1 \in 1..Len(g.order)
    <3>1. kept \in Seq(CallIds) /\ Len(kept) \in Nat
      BY <1>1, <2>1
    <3>2. /\ Len(kept) = Len(g.order) - from + 1
          /\ \A i \in 1..(Len(g.order) - from + 1) : kept[i] = g.order[from + i - 1]
      BY <1>1, <2>1
    <3>3. ASSUME NEW i \in 1..Len(kept)
          PROVE  i \in Nat /\ from + i - 1 = i + from - 1 /\ i + from - 1 \in 1..Len(g.order)
      BY <1>1, <2>1, <3>1, <3>2
    <3> HIDE DEF kept
    <3> QED BY <3>1, <3>2, <3>3
  <2>3. /\ n.order = Append(kept, id)
        /\ n.counts = [i \in ToSet(kept) \cup {id} |-> IF i = id THEN 1 ELSE g.counts[i]]
        /\ n = [counts |-> n.counts, order |-> n.order]
    BY <1>3 DEF CountFailure, from
  <2> HIDE DEF n, kept
  <2>4. DOMAIN kept = 1..Len(kept)
    BY <2>2
  <2>5. ToSet(kept) \subseteq DOMAIN g.counts
    BY <2>2, <2>4, <1>1 DEF ToSet, CountersIn
  <2>6. DOMAIN n.counts = ToSet(kept) \cup {id} /\ n.counts \in [DOMAIN n.counts -> Nat]
    BY <2>3, <2>5 DEF IsCounters
  <2>7. /\ n.order \in Seq(CallIds) /\ Len(n.order) = Len(kept) + 1 /\ n.order[Len(kept) + 1] = id
        /\ \A i \in 1..Len(kept) : n.order[i] = kept[i]
        /\ DOMAIN n.order = 1..(Len(kept) + 1)
    BY <2>2, <2>3
  <2>8. \A i \in DOMAIN n.order : i \in 1..Len(kept) \/ i = Len(kept) + 1
    BY <2>2, <2>7
  <2>9. ToSet(n.order) = ToSet(kept) \cup {id}
    <3>1. \A y \in ToSet(n.order) : y \in ToSet(kept) \cup {id}
      BY <2>4, <2>7, <2>8 DEF ToSet
    <3>2. \A y \in ToSet(kept) : y \in ToSet(n.order)
      BY <2>2, <2>4, <2>7 DEF ToSet
    <3>3. id \in ToSet(n.order)
      BY <2>2, <2>7 DEF ToSet
    <3> QED BY <3>1, <3>2, <3>3
  <2>10. \A i \in 1..Len(kept) : kept[i] # id
    BY <2>4, <2>5, <1>3 DEF ToSet
  <2>11. \A i, j \in 1..Len(kept) : kept[i] = kept[j] => i = j
    <3> TAKE i, j \in 1..Len(kept)
    <3>1. kept[i] = g.order[i + from - 1] /\ i + from - 1 \in 1..Len(g.order)
          /\ kept[j] = g.order[j + from - 1] /\ j + from - 1 \in 1..Len(g.order)
      BY <2>2
    <3>2. g.order[i + from - 1] = g.order[j + from - 1] => i + from - 1 = j + from - 1
      BY <3>1 DEF CountersIn
    <3> QED BY <2>1, <2>2, <3>1, <3>2
  <2>12. \A i, j \in 1..Len(n.order) : n.order[i] = n.order[j] => i = j
    BY <2>7, <2>8, <2>10, <2>11
  <2>13. Len(n.order) <= MaxTrackedCalls
    BY <2>1, <2>2, <2>7, ChainAssumption
  <2> QED BY <2>3, <2>6, <2>7, <2>9, <2>12, <2>13 DEF IsCounters, CountersIn, n
<1> QED BY <1>2, <1>3

-----------------------------------------------------------------------------
(* The invariant's parts that a turn's own step can disturb.               *)

TurnsOk(w, A, T) == AllStand(w) /\ AllCleared(w, A) /\ AllOwn(w, T) /\ HandedOutOnce(w)

\* What stands in for a call.
LEMMA ResultIs ==
    ASSUME NEW b \in CallBlocks, NEW of \in Reports
    PROVE  /\ Result(b, of) \in ResultBlocks
           /\ Result(b, of).call = b.call /\ Result(b, of).by = b.by /\ Result(b, of).of = of
BY DEF Result, ResultBlocks, CallBlocks

\* A note is no run and no child.
LEMMA NoteIs ==
    ASSUME NEW what \in Reasons
    PROVE  Note(what) \in Reports /\ Note(what)[1] # "ran" /\ Note(what)[1] # "child"
BY DEF Note, Reports, Reasons

\* The turn whose hook is at work.
LEMMA AtWorkIs ==
    ASSUME ChainInv, NEW t \in ChainTurns,
           walk[t].at \in 1..Len(Chain)
    PROVE  /\ walk \in Family /\ walk[t] \in Walks /\ walk[t].at \in Nat /\ walk[t].at > 0
           /\ walk[t].at <= Len(Chain)
           /\ AtWork(walk, t) /\ Mine(walk[t].block, Chain[walk[t].at])
           /\ walk[t].block \in CallBlocks /\ walk[t].block.by = <<t, walk[t].made>>
           /\ walk[t].block.call \in Calls /\ walk[t].block.by \in Marks
           /\ walk[t].made \in Nat
<1>1. Len(Chain) \in Nat
  BY ChainAssumption
<1>2. walk \in Family /\ walk[t] \in Walks /\ walk[t].made \in Nat
  BY DEF ChainInv, ChainTypeOK, Family, Walks
<1>3. walk[t].at \in Nat /\ walk[t].at > 0 /\ walk[t].at <= Len(Chain)
  BY <1>1
<1>4. walk[t].block \in CallBlocks /\ walk[t].block.by = <<t, walk[t].made>>
      /\ Mine(walk[t].block, Chain[walk[t].at])
  BY <1>3 DEF ChainInv, AllStand, Stands
<1>5. walk[t].block.call \in Calls /\ walk[t].block.by \in Marks
  BY <1>4 DEF CallBlocks
<1> QED BY <1>2, <1>3, <1>4, <1>5 DEF AtWork

\* An executor's call came through the gates before it.
LEMMA RunsGated ==
    ASSUME ChainInv, NEW t \in ChainTurns, walk[t].at \in 1..Len(Chain),
           Chain[walk[t].at] \notin {"guard", "hitl"}
    PROVE  Gated(walk[t].block, ToSet(audit))
<1>1. Len(Chain) \in Nat
  BY ChainAssumption
<1>2. /\ walk[t].at \in 1..Len(Chain) /\ walk[t].at \in Nat /\ walk[t].at > 0
      /\ walk[t].block \in CallBlocks /\ Mine(walk[t].block, Chain[walk[t].at])
  BY AtWorkIs
<1>3. Tools[walk[t].block.call.tool].executor = Chain[walk[t].at]
  BY <1>2 DEF Mine
<1>4. \A i \in 1..(walk[t].at - 1) : LetThrough(walk[t].block, ToSet(audit), i)
  BY <1>2 DEF ChainInv, AllCleared, Cleared
<1>5. \A gate : Before(gate, walk[t].block) => \E i \in 1..(walk[t].at - 1) : Chain[i] = gate
  BY <1>2, <1>3 DEF Before
<1> QED BY <1>4, <1>5 DEF Gated, LetThrough

\* More approvals open no gate.
LEMMA GatedGrows ==
    ASSUME NEW A, NEW B, A \subseteq B, NEW block, Gated(block, A)
    PROVE  Gated(block, B)
BY DEF Gated

\* A hook returns.
LEMMA GoesKeeps ==
    ASSUME ChainInv, NEW t \in ChainTurns, walk[t].at \in 1..Len(Chain),
           NEW v \in Family, NEW b, Fits(b, walk, t), Goes(walk, v, t, b),
           NEW A, ToSet(audit) \subseteq A, NEW T, sub.taken \subseteq T,
           \/ b \in ResultBlocks
           \/ b = walk[t].block /\ b \in CallBlocks /\ LetThrough(b, A, walk[t].at),
           OwnBlock(t, walk[t].made, b, T),
           b = walk[t].block \/ \A id \in Nat : HandsOut(b, id) => id \notin sub.taken
    PROVE  TurnsOk(v, A, T)
<1>1. walk \in Family /\ AtWork(walk, t) /\ walk[t].at > 0
  BY AtWorkIs
<1>2. /\ AllStand(walk) /\ AllCleared(walk, ToSet(audit)) /\ AllOwn(walk, sub.taken)
      /\ HandedOutOnce(walk)
  BY DEF ChainInv
<1>3. AllStand(v)
  BY <1>1, <1>2, GoesStands
<1>4. AllCleared(v, A)
  BY <1>1, <1>2, GoesCleared
<1>5. AllOwn(v, T)
  BY <1>1, <1>2, OwnStays
<1>6. HandedOutOnce(v)
  BY <1>1, <1>2, HandedStays
<1> QED BY <1>3, <1>4, <1>5, <1>6 DEF TurnsOk

\* The consumer gets a block or an error.
LEMMA YieldsKeeps ==
    ASSUME ChainInv, NEW t \in ChainTurns, walk[t].at > 0,
           NEW v \in Family, NEW b, Yields(walk, v, t, b), b = walk[t].block \/ b = Failure
    PROVE  TurnsOk(v, ToSet(audit), sub.taken)
<1>1. /\ AllStand(walk) /\ AllCleared(walk, ToSet(audit)) /\ AllOwn(walk, sub.taken)
      /\ HandedOutOnce(walk) /\ walk \in Family
  BY DEF ChainInv, ChainTypeOK, Family
<1>2. AllStand(v)
  BY <1>1, YieldsStands
<1>3. AllCleared(v, ToSet(audit))
  BY <1>1, RestsCleared DEF Yields
<1>4. OwnBlock(t, walk[t].made, b, sub.taken)
  <2>1. CASE b = Failure
    BY <2>1, KindsDiffer DEF OwnBlock
  <2>2. CASE b = walk[t].block
    <3>1. BlockAt(walk[t], walk[t].made) = b /\ walk[t].made \in Nat \ {0}
      BY <1>1, <2>2, BlocksStay
    <3>2. walk[t].made \in 1..walk[t].made
      BY <3>1
    <3> QED BY <3>1, <3>2, <1>1 DEF AllOwn
  <2> QED BY <2>1, <2>2
<1>5. AllOwn(v, sub.taken)
  BY <1>1, <1>4, OwnStays
<1>6. b = walk[t].block \/ \A id \in Nat : HandsOut(b, id) => id \notin sub.taken
  BY KindsDiffer DEF HandsOut
<1>7. HandedOutOnce(v)
  BY <1>1, <1>6, HandedStays
<1> QED BY <1>2, <1>3, <1>5, <1>7 DEF TurnsOk

\* A hook waits.
LEMMA WaitsKeeps ==
    ASSUME ChainInv, NEW t \in ChainTurns, walk[t].at \in 1..Len(Chain),
           NEW v \in Family, NEW wait, Waits(walk, v, t, wait),
           \/ wait = "ruling" /\ Chain[walk[t].at] = "hitl"
           \/ wait = "mcp" /\ Chain[walk[t].at] = "mcp"
           \/ wait = "child" /\ Chain[walk[t].at] = "subagent"
    PROVE  TurnsOk(v, ToSet(audit), sub.taken)
<1>1. /\ AllStand(walk) /\ AllCleared(walk, ToSet(audit)) /\ AllOwn(walk, sub.taken)
      /\ HandedOutOnce(walk)
  BY DEF ChainInv
<1>2. walk \in Family /\ AtWork(walk, t)
  BY AtWorkIs
<1>3. AllStand(v)
  BY <1>1, <1>2, WaitsStands
<1>4. AllCleared(v, ToSet(audit))
  BY <1>1, <1>2, RestsCleared DEF Waits
<1>5. AllOwn(v, sub.taken) /\ HandedOutOnce(v)
  BY <1>1, <1>2, WaitsReportsNothing
<1> QED BY <1>3, <1>4, <1>5 DEF TurnsOk

\* A new call enters the chain.
LEMMA PollsKeeps ==
    ASSUME ChainInv, NEW t \in ChainTurns, walk[t].at = 0, NEW v \in Family,
           NEW b \in CallBlocks, b.by = <<t, walk[t].made + 1>>, OneMoves(walk, v, t),
           v[t].at = NextHook(b, 0), v[t].made = walk[t].made + 1, v[t].block = b,
           v[t].wait = "no", v[t].out = walk[t].out
    PROVE  TurnsOk(v, ToSet(audit), sub.taken)
<1>1. Len(Chain) \in Nat
  BY ChainAssumption
<1>2. /\ AllStand(walk) /\ AllCleared(walk, ToSet(audit)) /\ AllOwn(walk, sub.taken)
      /\ HandedOutOnce(walk) /\ walk \in Family
  BY DEF ChainInv, ChainTypeOK, Family
<1>3. walk[t].made = Len(walk[t].out) /\ walk[t].made \in Nat
  BY <1>2 DEF AllStand, Stands, Family, Walks
<1>4. /\ v[t].at \in 1..(Len(Chain) + 1)
      /\ v[t].at <= Len(Chain) => Mine(b, Chain[v[t].at])
      /\ \A j \in 1..(v[t].at - 1) : ~Mine(b, Chain[j])
  <2>1. 0 \in Nat /\ 0 <= Len(Chain) /\ 0 + 1 = 1
    BY <1>1
  <2> QED BY <2>1, NextHookIs
<1>5. \A u \in ChainTurns \ {t} : v[u] = walk[u]
  BY DEF OneMoves
<1>6. Stands(v[t], t)
  BY <1>1, <1>3, <1>4 DEF Stands
<1>7. AllStand(v)
  BY <1>2, <1>5, <1>6 DEF AllStand
<1>8. Cleared(v[t], ToSet(audit))
  <2>1. b.kind = "call"
    BY KindsDiffer
  <2> QED BY <1>1, <1>4, <2>1 DEF Cleared, LetThrough, Mine
<1>9. AllCleared(v, ToSet(audit))
  BY <1>2, <1>5, <1>8 DEF AllCleared
<1>10. \A i \in 1..walk[t].made : BlockAt(v[t], i) = BlockAt(walk[t], i)
  BY <1>3 DEF BlockAt
<1>11. BlockAt(v[t], walk[t].made + 1) = b
  BY <1>3 DEF BlockAt
<1>12. \A i \in 1..v[t].made : i \in 1..walk[t].made \/ i = walk[t].made + 1
  BY <1>3
<1>13. OwnBlock(t, walk[t].made + 1, b, sub.taken)
  BY KindsDiffer DEF OwnBlock
<1>14. \A i \in 1..v[t].made : OwnBlock(t, i, BlockAt(v[t], i), sub.taken)
  BY <1>2, <1>10, <1>11, <1>12, <1>13 DEF AllOwn
<1>15. AllOwn(v, sub.taken)
  BY <1>2, <1>5, <1>14 DEF AllOwn
<1>16. \A id : ~HandsOut(b, id)
  BY KindsDiffer DEF HandsOut
<1>17. ASSUME NEW u \in ChainTurns, NEW i \in 1..v[u].made, NEW id \in Nat,
              HandsOut(BlockAt(v[u], i), id)
       PROVE  i \in 1..walk[u].made /\ BlockAt(v[u], i) = BlockAt(walk[u], i)
  BY <1>5, <1>10, <1>11, <1>12, <1>16, <1>17
<1>18. HandedOutOnce(v)
  BY <1>2, <1>17 DEF HandedOutOnce
<1> QED BY <1>7, <1>9, <1>15, <1>18 DEF TurnsOk

-----------------------------------------------------------------------------
(* Each step keeps the invariant.                                          *)

\* The invariant, from what the steps show of its parts.
LEMMA FromChainParts ==
    ASSUME walk' \in Family,
           IsCounters(guard'), audit' \in Seq([by : Marks, approved : BOOLEAN]),
           mcp' \in [up : BOOLEAN, queue : Seq(CallBlocks), reply : [ChainTurns -> Blocks]],
           sub' \in [spawned : Nat, pending : SUBSET Nat,
                     child : Seq({"ready", "done", "died"}), taken : SUBSET Nat],
           ran' \in SUBSET CallBlocks,
           TurnsOk(walk', ToSet(audit'), sub'.taken),
           \A block \in ran' : Gated(block, ToSet(audit')),
           Theirs(mcp', walk'), ChildrenIn(sub', walk'), CountersIn(guard')
    PROVE  ChainInv'
BY DEF ChainInv, ChainTypeOK, TurnsOk, IsCounters, Family

\* The parts, to cite.
LEMMA ChainParts ==
    ASSUME ChainInv
    PROVE  /\ walk \in Family /\ IsCounters(guard)
           /\ audit \in Seq([by : Marks, approved : BOOLEAN])
           /\ mcp \in [up : BOOLEAN, queue : Seq(CallBlocks), reply : [ChainTurns -> Blocks]]
           /\ mcp.up \in BOOLEAN /\ mcp.queue \in Seq(CallBlocks)
           /\ mcp.reply \in [ChainTurns -> Blocks]
           /\ sub \in [spawned : Nat, pending : SUBSET Nat,
                       child : Seq({"ready", "done", "died"}), taken : SUBSET Nat]
           /\ sub.spawned \in Nat /\ sub.child \in Seq({"ready", "done", "died"})
           /\ sub.pending \in SUBSET Nat /\ sub.taken \in SUBSET Nat
           /\ ran \in SUBSET CallBlocks
           /\ TurnsOk(walk, ToSet(audit), sub.taken)
           /\ \A block \in ran : Gated(block, ToSet(audit))
           /\ Theirs(mcp, walk) /\ ChildrenIn(sub, walk) /\ CountersIn(guard)
BY DEF ChainInv, ChainTypeOK, TurnsOk, IsCounters, Family

\* The provider's stream yields a call.
LEMMA PollKeeps ==
    ASSUME ChainInv, NEW t \in ChainTurns, NEW call \in Calls, Poll(t, call)
    PROVE  ChainInv'
<1> DEFINE b == Asked(call, <<t, walk[t].made + 1>>)
<1>1. walk[t] \in Walks /\ walk[t].made \in Nat /\ walk[t].at = 0 /\ walk \in Family
  BY ChainParts DEF Family, Walks, Poll
<1>2. b \in CallBlocks /\ b.by = <<t, walk[t].made + 1>>
  BY <1>1 DEF Asked, CallBlocks, Marks
<1>3. walk[t].wait = "no"
  BY <1>1, ChainParts DEF TurnsOk, AllStand, Stands
<1>4. NextHook(b, 0) \in Nat
  <2>1. 0 \in Nat /\ 0 <= Len(Chain) /\ Len(Chain) \in Nat
    BY ChainAssumption
  <2> QED BY <2>1, NextHookIs
<1>5. PICK n \in Nat : n = NextHook(b, 0)
  BY <1>4
<1>6. PICK m \in Nat : m = walk[t].made + 1
  BY <1>1
<1> DEFINE w == [walk[t] EXCEPT !.at = n, !.made = m, !.block = b]
<1>7. w \in Walks /\ w.at = n /\ w.made = m /\ w.block = b /\ w.wait = walk[t].wait
      /\ w.out = walk[t].out
  BY <1>1, <1>2, KindsDiffer DEF Walks
<1>8. walk' = [walk EXCEPT ![t] = w]
  BY <1>1, <1>5, <1>6 DEF Poll, Family, Walks
<1> HIDE DEF b, w
<1>9. /\ walk' \in Family /\ OneMoves(walk, walk', t)
      /\ walk'[t].at = NextHook(b, 0) /\ walk'[t].made = walk[t].made + 1 /\ walk'[t].block = b
      /\ walk'[t].wait = "no" /\ walk'[t].out = walk[t].out
  BY <1>1, <1>3, <1>5, <1>6, <1>7, <1>8 DEF Family, OneMoves
<1>10. UNCHANGED <<guard, audit, mcp, sub, ran>>
  BY DEF Poll
<1>11. TurnsOk(walk', ToSet(audit), sub.taken)
  BY <1>1, <1>2, <1>9, PollsKeeps
<1>12. Theirs(mcp, walk')
  BY <1>3, <1>9, ChainParts, TheirsStays
<1>13. ChildrenIn(sub, walk')
  BY <1>3, <1>9, ChainParts, ChildrenStay
<1> QED BY <1>9, <1>10, <1>11, <1>12, <1>13, ChainParts, FromChainParts

\* The consumer gets a block.
LEMMA DeliverKeeps ==
    ASSUME ChainInv, NEW t \in ChainTurns, Deliver(t)
    PROVE  ChainInv'
<1>1. walk[t] \in Walks /\ walk \in Family /\ walk[t].out \in Seq(Blocks) /\ walk[t].block \in Blocks
      /\ NoBlock \in Blocks
  BY ChainParts, KindsDiffer DEF Family, Walks
<1>2. walk[t].at > 0 /\ walk[t].wait = "no"
  <2>1. Len(Chain) \in Nat
    BY ChainAssumption
  <2> QED BY <2>1, ChainParts DEF Deliver, TurnsOk, AllStand, Stands
<1>a. Append(walk[t].out, walk[t].block) \in Seq(Blocks)
  BY <1>1
<1>3. PICK out \in Seq(Blocks) : out = Append(walk[t].out, walk[t].block)
  BY <1>a
<1> DEFINE w == [walk[t] EXCEPT !.at = 0, !.block = NoBlock, !.out = out]
<1>4. w \in Walks /\ w.at = 0 /\ w.made = walk[t].made /\ w.wait = walk[t].wait /\ w.out = out
  BY <1>1 DEF Walks
<1>5. walk' = [walk EXCEPT ![t] = w]
  BY <1>1, <1>3 DEF Deliver, Family, Walks
<1> HIDE DEF w
<1>6. walk' \in Family /\ Yields(walk, walk', t, walk[t].block) /\ walk'[t].wait = "no"
      /\ OneMoves(walk, walk', t)
  BY <1>1, <1>2, <1>3, <1>4, <1>5 DEF Family, Yields, OneMoves
<1>7. UNCHANGED <<guard, audit, mcp, sub, ran>>
  BY DEF Deliver
<1>8. TurnsOk(walk', ToSet(audit), sub.taken)
  BY <1>2, <1>6, YieldsKeeps
<1>9. Theirs(mcp, walk')
  BY <1>2, <1>6, ChainParts, TheirsStays
<1>10. ChildrenIn(sub, walk')
  BY <1>2, <1>6, ChainParts, ChildrenStay
<1> QED BY <1>6, <1>7, <1>8, <1>9, <1>10, ChainParts, FromChainParts

\* A hook's return as a step of the turn.
LEMMA PassedGoes ==
    ASSUME ChainInv, NEW t \in ChainTurns, NEW b, Fits(b, walk, t), walk[t].at \in 1..Len(Chain),
           walk' = Passed(t, b)
    PROVE  walk' \in Family /\ Goes(walk, walk', t, b) /\ OneMoves(walk, walk', t) /\ walk'[t].wait = "no"
<1>1. b \in Blocks
  BY KindsDiffer DEF Fits
<1>2. walk \in [ChainTurns -> Walks] /\ walk[t].at <= Len(Chain)
  BY AtWorkIs DEF Family
<1> QED BY <1>1, <1>2, PassedIs DEF Family, Goes, OneMoves

\* A hook's error as a step of the turn.
LEMMA FailedYields ==
    ASSUME ChainInv, NEW t \in ChainTurns, walk' = Failed(t)
    PROVE  walk' \in Family /\ Yields(walk, walk', t, Failure) /\ OneMoves(walk, walk', t)
           /\ walk'[t].wait = "no"
BY ChainParts, FailedIs DEF Family, Yields, OneMoves

\* The guardrails let a valid call pass and answer an invalid one.
LEMMA GuardKeeps ==
    ASSUME ChainInv, NEW t \in ChainTurns, Guard(t)
    PROVE  ChainInv'
<1> DEFINE b == walk[t].block
           id == b.call.id
<1>1. walk[t].at \in 1..Len(Chain) /\ Chain[walk[t].at] = "guard" /\ walk[t].wait = "no"
  BY DEF Guard, Reached
<1>2. /\ walk[t].at \in Nat /\ walk[t].at > 0 /\ walk[t].made \in Nat
      /\ b \in CallBlocks /\ b.by = <<t, walk[t].made>> /\ b.call \in Calls
  BY <1>1, AtWorkIs
<1>3. id \in CallIds
  BY <1>2 DEF CallIds
<1>4. UNCHANGED <<audit, mcp, sub, ran>>
  BY DEF Guard
<1> HIDE DEF b, id
<1>5. CASE b.call.valid /\ guard' = ClearAttempts(guard, id) /\ walk' = Passed(t, b)
  <2>1. Fits(b, walk, t)
    BY <1>2 DEF Fits, b
  <2>2. walk' \in Family /\ Goes(walk, walk', t, b) /\ OneMoves(walk, walk', t) /\ walk'[t].wait = "no"
    BY <1>1, <1>5, <2>1, PassedGoes
  <2>3. LetThrough(b, ToSet(audit), walk[t].at)
    BY <1>1, <1>5 DEF LetThrough
  <2>4. OwnBlock(t, walk[t].made, b, sub.taken)
    BY <1>2, KindsDiffer DEF OwnBlock
  <2>5. TurnsOk(walk', ToSet(audit), sub.taken)
    BY <1>1, <1>2, <2>1, <2>2, <2>3, <2>4, GoesKeeps DEF b
  <2>6. IsCounters(guard') /\ CountersIn(guard')
    BY <1>5, ChainParts, ClearKeeps
  <2>7. Theirs(mcp, walk') /\ ChildrenIn(sub, walk')
    BY <1>1, <2>2, ChainParts, TheirsStays, ChildrenStay
  <2> QED BY <1>4, <2>2, <2>5, <2>6, <2>7, ChainParts, FromChainParts
<1>6. ASSUME NEW what \in Reasons, guard' = CountFailure(guard, id),
             walk' = Passed(t, Result(b, Note(what)))
      PROVE  ChainInv'
  <2> DEFINE r == Result(b, Note(what))
  <2>1. r \in ResultBlocks /\ r.call = b.call /\ r.by = b.by /\ r.of = Note(what)
        /\ Note(what)[1] # "ran" /\ Note(what)[1] # "child"
    BY <1>2, <1>6, NoteIs, ResultIs
  <2> HIDE DEF r
  <2>2. Fits(r, walk, t)
    BY <2>1 DEF Fits, b
  <2>3. walk' \in Family /\ Goes(walk, walk', t, r) /\ OneMoves(walk, walk', t) /\ walk'[t].wait = "no"
    BY <1>1, <1>6, <2>2, PassedGoes DEF r
  <2>4. OwnBlock(t, walk[t].made, r, sub.taken)
    BY <1>2, <2>1 DEF OwnBlock
  <2>5. \A x \in Nat : ~HandsOut(r, x)
    BY <2>1 DEF HandsOut, ChildOf
  <2>6. TurnsOk(walk', ToSet(audit), sub.taken)
    BY <1>1, <2>1, <2>2, <2>3, <2>4, <2>5, GoesKeeps
  <2>7. IsCounters(guard') /\ CountersIn(guard')
    BY <1>3, <1>6, ChainParts, CountKeeps
  <2>8. Theirs(mcp, walk') /\ ChildrenIn(sub, walk')
    BY <1>1, <2>3, ChainParts, TheirsStays, ChildrenStay
  <2> QED BY <1>4, <2>3, <2>6, <2>7, <2>8, ChainParts, FromChainParts
<1>7. CASE ~b.call.valid /\ guard' = CountFailure(guard, id)
           /\ walk' = Passed(t, Result(b, Note(IF guard'.counts[id] <= MaxAttempts
                                               THEN "retry" ELSE "exhausted")))
  BY <1>6, <1>7 DEF Reasons
<1> QED BY <1>5, <1>7 DEF Guard, b, id

\* The gate asks about a risky call only.
LEMMA AskKeeps ==
    ASSUME ChainInv, NEW t \in ChainTurns, Ask(t)
    PROVE  ChainInv'
<1> DEFINE b == walk[t].block
<1>1. walk[t].at \in 1..Len(Chain) /\ Chain[walk[t].at] = "hitl" /\ walk[t].wait = "no"
  BY DEF Ask, Reached
<1>2. b \in CallBlocks /\ b.by = <<t, walk[t].made>> /\ walk[t].made \in Nat
  BY <1>1, AtWorkIs
<1>3. UNCHANGED <<guard, audit, mcp, sub, ran>>
  BY DEF Ask
<1> HIDE DEF b
<1>4. CASE Tools[b.call.tool].risky /\ walk' = [walk EXCEPT ![t].wait = "ruling"]
  <2>1. walk' \in Family /\ Waits(walk, walk', t, "ruling") /\ OneMoves(walk, walk', t)
        /\ walk'[t].wait = "ruling"
    BY <1>4, ChainParts, WaitingIs DEF Family, Waits, OneMoves
  <2>2. TurnsOk(walk', ToSet(audit), sub.taken)
    BY <1>1, <2>1, WaitsKeeps
  <2>3. Theirs(mcp, walk') /\ ChildrenIn(sub, walk')
    BY <1>1, <2>1, ChainParts, TheirsStays, ChildrenStay
  <2> QED BY <1>3, <2>1, <2>2, <2>3, ChainParts, FromChainParts
<1>5. CASE ~Tools[b.call.tool].risky /\ walk' = Passed(t, b)
  <2>1. Fits(b, walk, t)
    BY <1>2 DEF Fits, b
  <2>2. walk' \in Family /\ Goes(walk, walk', t, b) /\ OneMoves(walk, walk', t) /\ walk'[t].wait = "no"
    BY <1>1, <1>5, <2>1, PassedGoes
  <2>3. LetThrough(b, ToSet(audit), walk[t].at)
    BY <1>1, <1>5 DEF LetThrough
  <2>4. OwnBlock(t, walk[t].made, b, sub.taken)
    BY <1>2, KindsDiffer DEF OwnBlock
  <2>5. TurnsOk(walk', ToSet(audit), sub.taken)
    BY <1>1, <1>2, <2>1, <2>2, <2>3, <2>4, GoesKeeps DEF b
  <2>6. Theirs(mcp, walk') /\ ChildrenIn(sub, walk')
    BY <1>1, <2>2, ChainParts, TheirsStays, ChildrenStay
  <2> QED BY <1>3, <2>2, <2>5, <2>6, ChainParts, FromChainParts
<1> QED BY <1>4, <1>5 DEF Ask, b

\* What is put in the place of a call reports that call.
LEMMA AnswerKeeps ==
    ASSUME ChainInv, NEW t \in ChainTurns, walk[t].at \in 1..Len(Chain),
           NEW r \in ResultBlocks, r.call = walk[t].block.call, r.by = walk[t].block.by,
           walk' = Passed(t, r),
           NEW A, ToSet(audit) \subseteq A, NEW T, sub.taken \subseteq T,
           r.of[1] = "ran" => r.of = RunOf(r.by),
           r.call.tool = "collect" /\ r.of[1] = "child" =>
              r.of = ChildOf(r.call.child) /\ r.call.child \in T \ sub.taken
    PROVE  /\ walk' \in Family /\ OneMoves(walk, walk', t) /\ walk'[t].wait = "no"
           /\ TurnsOk(walk', A, T)
<1>1. Fits(r, walk, t)
  BY DEF Fits
<1>2. walk' \in Family /\ Goes(walk, walk', t, r) /\ OneMoves(walk, walk', t) /\ walk'[t].wait = "no"
  BY <1>1, PassedGoes
<1>3. OwnBlock(t, walk[t].made, r, T)
  BY AtWorkIs DEF OwnBlock
<1>4. ASSUME NEW id \in Nat, HandsOut(r, id)
      PROVE  id \notin sub.taken
  <2>1. r.of[1] = "child" /\ r.of = <<"child", id>> /\ r.call.tool = "collect"
    BY <1>4 DEF HandsOut, ChildOf
  <2>2. r.of = <<"child", r.call.child>> /\ r.call.child \notin sub.taken
    BY <2>1 DEF ChildOf
  <2>3. r.call.child = id
    BY <2>1, <2>2
  <2> QED BY <2>2, <2>3
<1>5. TurnsOk(walk', A, T)
  BY <1>1, <1>2, <1>3, <1>4, GoesKeeps
<1> QED BY <1>2, <1>5

\* A note in the place of a call.
LEMMA NoteKeeps ==
    ASSUME ChainInv, NEW t \in ChainTurns, walk[t].at \in 1..Len(Chain), NEW what \in Reasons,
           walk' = Passed(t, Result(walk[t].block, Note(what))),
           NEW A, ToSet(audit) \subseteq A
    PROVE  /\ walk' \in Family /\ OneMoves(walk, walk', t) /\ walk'[t].wait = "no"
           /\ TurnsOk(walk', A, sub.taken)
<1> DEFINE r == Result(walk[t].block, Note(what))
<1>1. /\ r \in ResultBlocks /\ r.call = walk[t].block.call /\ r.by = walk[t].block.by
      /\ r.of = Note(what) /\ r.of[1] # "ran" /\ r.of[1] # "child"
  BY AtWorkIs, NoteIs, ResultIs
<1>2. walk' = Passed(t, r)
  OBVIOUS
<1> HIDE DEF r
<1> QED BY <1>1, <1>2, AnswerKeeps

\* An error in the place of a call.
LEMMA ErrorKeeps ==
    ASSUME ChainInv, NEW t \in ChainTurns, walk[t].at > 0, walk' = Failed(t)
    PROVE  /\ walk' \in Family /\ OneMoves(walk, walk', t) /\ walk'[t].wait = "no"
           /\ TurnsOk(walk', ToSet(audit), sub.taken)
<1>1. walk' \in Family /\ Yields(walk, walk', t, Failure) /\ OneMoves(walk, walk', t)
      /\ walk'[t].wait = "no"
  BY FailedYields
<1>2. TurnsOk(walk', ToSet(audit), sub.taken)
  BY <1>1, YieldsKeeps
<1> QED BY <1>1, <1>2

\* Where a hook that waits stands.
LEMMA WaitersStand ==
    ASSUME ChainInv, NEW t \in ChainTurns, walk[t].wait # "no"
    PROVE  /\ walk[t].at \in 1..Len(Chain) /\ walk[t].at > 0
           /\ walk[t].wait = "ruling" => Chain[walk[t].at] = "hitl"
           /\ walk[t].wait = "mcp" => Chain[walk[t].at] = "mcp"
           /\ walk[t].wait = "child" => Chain[walk[t].at] = "subagent"
<1>1. Len(Chain) \in Nat
  BY ChainAssumption
<1>2. Stands(walk[t], t)
  BY DEF ChainInv, AllStand
<1> QED BY <1>1, <1>2 DEF Stands

\* A ruling is recorded before it counts.
LEMMA RuledKeeps ==
    ASSUME ChainInv, NEW t \in ChainTurns, NEW approved \in BOOLEAN, Ruled(t, approved)
    PROVE  ChainInv'
<1> DEFINE b == walk[t].block
           entry == [by |-> b.by, approved |-> approved]
<1>1. /\ walk[t].wait = "ruling" /\ walk[t].at \in 1..Len(Chain) /\ walk[t].at > 0
      /\ Chain[walk[t].at] = "hitl"
  BY WaitersStand DEF Ruled
<1>2. /\ b \in CallBlocks /\ b.by = <<t, walk[t].made>> /\ walk[t].made \in Nat
      /\ b.by \in Marks
  BY <1>1, AtWorkIs
<1>3. UNCHANGED <<guard, mcp, sub, ran>>
  BY DEF Ruled
<1>4. CASE audit' = Append(audit, entry)
           /\ walk' = Passed(t, IF approved THEN b ELSE Result(b, Note("denied")))
  <2>1. entry \in [by : Marks, approved : BOOLEAN] /\ entry.by = b.by /\ entry.approved = approved
    BY <1>2
  <2>2. /\ audit \in Seq([by : Marks, approved : BOOLEAN])
        /\ audit' \in Seq([by : Marks, approved : BOOLEAN])
    BY <1>4, <2>1, ChainParts
  <2>3. ToSet(audit) \subseteq ToSet(audit') /\ entry \in ToSet(audit')
    <3> DEFINE S == [by : Marks, approved : BOOLEAN]
               e == entry
    <3>1. audit \in Seq(S) /\ e \in S /\ audit' = Append(audit, e)
      BY <1>4, <2>1, <2>2
    <3> HIDE DEF S, e
    <3>2. /\ Len(audit') = Len(audit) + 1 /\ Len(audit) \in Nat
          /\ DOMAIN audit = 1..Len(audit) /\ DOMAIN audit' = 1..Len(audit')
          /\ audit'[Len(audit) + 1] = e
          /\ \A i \in 1..Len(audit) : audit'[i] = audit[i]
      BY <3>1
    <3>3. Len(audit) + 1 \in DOMAIN audit' /\ \A i \in DOMAIN audit : i \in DOMAIN audit'
      BY <3>2
    <3>4. e \in ToSet(audit') /\ ToSet(audit) \subseteq ToSet(audit')
      BY <3>2, <3>3 DEF ToSet
    <3> QED BY <3>4 DEF e
  <2>4. /\ walk' \in Family /\ OneMoves(walk, walk', t) /\ walk'[t].wait = "no"
        /\ TurnsOk(walk', ToSet(audit'), sub.taken)
    <3>1. CASE approved
      <4>1. walk' = Passed(t, b) /\ Fits(b, walk, t)
        BY <1>2, <1>4, <3>1 DEF Fits
      <4>2. walk' \in Family /\ Goes(walk, walk', t, b) /\ OneMoves(walk, walk', t)
            /\ walk'[t].wait = "no"
        BY <1>1, <4>1, PassedGoes
      <4>3. LetThrough(b, ToSet(audit'), walk[t].at)
        BY <1>1, <2>3, <3>1 DEF LetThrough
      <4>4. OwnBlock(t, walk[t].made, b, sub.taken)
        BY <1>2, KindsDiffer DEF OwnBlock
      <4>5. TurnsOk(walk', ToSet(audit'), sub.taken)
        <5> DEFINE A == ToSet(audit')
        <5>1. ToSet(audit) \subseteq A /\ LetThrough(b, A, walk[t].at)
          BY <2>3, <4>3
        <5> HIDE DEF A
        <5>2. TurnsOk(walk', A, sub.taken)
          BY <1>1, <1>2, <4>1, <4>2, <4>4, <5>1, GoesKeeps
        <5> QED BY <5>2 DEF A
      <4> QED BY <4>2, <4>5
    <3>2. CASE ~approved
      <4>1. walk' = Passed(t, Result(walk[t].block, Note("denied"))) /\ "denied" \in Reasons
        BY <1>4, <3>2 DEF Reasons
      <4> DEFINE A == ToSet(audit')
      <4>2. ToSet(audit) \subseteq A
        BY <2>3
      <4> HIDE DEF A
      <4>3. /\ walk' \in Family /\ OneMoves(walk, walk', t) /\ walk'[t].wait = "no"
            /\ TurnsOk(walk', A, sub.taken)
        BY <1>1, <4>1, <4>2, NoteKeeps
      <4> QED BY <4>3 DEF A
    <3> QED BY <3>1, <3>2
  <2>5. Theirs(mcp, walk') /\ ChildrenIn(sub, walk')
    BY <1>1, <2>4, ChainParts, TheirsStays, ChildrenStay
  <2>6. \A block \in ran : Gated(block, ToSet(audit'))
    <3> DEFINE A == ToSet(audit)
               B == ToSet(audit')
    <3>1. A \subseteq B /\ \A block \in ran : Gated(block, A)
      BY <2>3, ChainParts
    <3> HIDE DEF A, B
    <3>2. \A block \in ran : Gated(block, B)
      BY <3>1, GatedGrows
    <3> QED BY <3>2 DEF B
  <2> QED BY <1>3, <2>2, <2>4, <2>5, <2>6, ChainParts, FromChainParts
<1>5. CASE walk' = Failed(t) /\ UNCHANGED audit
  <2>1. /\ walk' \in Family /\ OneMoves(walk, walk', t) /\ walk'[t].wait = "no"
        /\ TurnsOk(walk', ToSet(audit), sub.taken)
    BY <1>1, <1>5, ErrorKeeps
  <2>2. Theirs(mcp, walk') /\ ChildrenIn(sub, walk')
    BY <1>1, <2>1, ChainParts, TheirsStays, ChildrenStay
  <2> QED BY <1>3, <1>5, <2>1, <2>2, ChainParts, FromChainParts
<1> QED BY <1>4, <1>5 DEF Ruled

\* A hook sends its call to the worker, or finds it gone.
LEMMA SendKeeps ==
    ASSUME ChainInv, NEW t \in ChainTurns, Send(t)
    PROVE  ChainInv'
<1>1. walk[t].at \in 1..Len(Chain) /\ Chain[walk[t].at] = "mcp" /\ walk[t].wait = "no"
  BY DEF Send, Reached
<1>2. walk \in Family /\ AtWork(walk, t) /\ walk[t].block \in CallBlocks
  BY <1>1, AtWorkIs
<1>3. UNCHANGED <<guard, audit, sub, ran>>
  BY DEF Send
<1>4. CASE /\ mcp' = [mcp EXCEPT !.queue = Append(@, walk[t].block), !.reply[t] = NoBlock]
           /\ walk' = [walk EXCEPT ![t].wait = "mcp"]
  <2>1. walk' \in Family /\ Waits(walk, walk', t, "mcp") /\ OneMoves(walk, walk', t)
        /\ walk'[t].wait = "mcp"
    BY <1>4, ChainParts, WaitingIs DEF Family, Waits, OneMoves
  <2>2. TurnsOk(walk', ToSet(audit), sub.taken)
    BY <1>1, <2>1, WaitsKeeps
  <2>3. /\ mcp'.queue = Append(mcp.queue, walk[t].block) /\ mcp'.reply = [mcp.reply EXCEPT ![t] = NoBlock]
        /\ mcp'.up = mcp.up /\ mcp' = [up |-> mcp'.up, queue |-> mcp'.queue, reply |-> mcp'.reply]
    BY <1>4, ChainParts
  <2>4. mcp'.reply \in [ChainTurns -> Blocks]
    BY <2>3, ChainParts, KindsDiffer
  <2>5. Theirs(mcp', walk') /\ mcp'.queue \in Seq(CallBlocks)
    <3>1. Theirs(mcp, walk) /\ AllStand(walk)
      BY ChainParts DEF TurnsOk
    <3> QED BY <1>1, <1>2, <2>1, <2>3, <3>1, ChainParts, SendTheirs
  <2>6. mcp' \in [up : BOOLEAN, queue : Seq(CallBlocks), reply : [ChainTurns -> Blocks]]
    BY <2>3, <2>4, <2>5, ChainParts
  <2>7. ChildrenIn(sub, walk')
    BY <1>1, <2>1, ChainParts, ChildrenStay
  <2> QED BY <1>3, <2>1, <2>2, <2>5, <2>6, <2>7, ChainParts, FromChainParts
<1>5. CASE walk' = Passed(t, Result(walk[t].block, Note("failed"))) /\ UNCHANGED mcp
  <2>1. /\ walk' \in Family /\ OneMoves(walk, walk', t) /\ walk'[t].wait = "no"
        /\ TurnsOk(walk', ToSet(audit), sub.taken)
    <3>1. "failed" \in Reasons
      BY DEF Reasons
    <3> QED BY <1>1, <1>5, <3>1, NoteKeeps
  <2>2. Theirs(mcp, walk') /\ ChildrenIn(sub, walk')
    BY <1>1, <2>1, ChainParts, TheirsStays, ChildrenStay
  <2> QED BY <1>3, <1>5, <2>1, <2>2, ChainParts, FromChainParts
<1> QED BY <1>4, <1>5 DEF Send

\* The worker runs a call that the gates let through.
LEMMA WorkerRunsKeeps ==
    ASSUME ChainInv, WorkerRuns
    PROVE  ChainInv'
<1> DEFINE b == mcp.queue[1]
           t == b.by[1]
<1>1. mcp.queue # <<>> /\ UNCHANGED <<walk, guard, audit, sub>> /\ ran' = ran \cup {b}
  BY DEF WorkerRuns
<1>2. Len(mcp.queue) \in Nat /\ 1 \in 1..Len(mcp.queue) /\ b \in CallBlocks
  BY <1>1, ChainParts
<1>3. t \in ChainTurns
  BY <1>2 DEF CallBlocks, Marks
<1>4. walk[t].wait = "mcp" /\ walk[t].block = b
  BY <1>2, ChainParts DEF Theirs
<1>5. Gated(b, ToSet(audit))
  <2> HIDE DEF t, b
  <2>1. walk[t].at \in 1..Len(Chain) /\ Chain[walk[t].at] = "mcp"
    BY <1>3, <1>4, WaitersStand
  <2>2. Gated(walk[t].block, ToSet(audit))
    BY <1>3, <2>1, RunsGated
  <2> QED BY <1>4, <2>2
<1>6. /\ mcp'.queue = Tail(mcp.queue) /\ mcp'.up = mcp.up
      /\ mcp'.reply = [mcp.reply EXCEPT ![mcp.queue[1].by[1]] = Result(mcp.queue[1], RunOf(mcp.queue[1].by))]
      /\ mcp' = [up |-> mcp'.up, queue |-> mcp'.queue, reply |-> mcp'.reply]
  BY ChainParts DEF WorkerRuns
<1>7. Theirs(mcp', walk) /\ mcp'.queue \in Seq(CallBlocks) /\ mcp'.reply \in [ChainTurns -> Blocks]
  BY <1>1, <1>6, ChainParts, RunsTheirs
<1>8. mcp' \in [up : BOOLEAN, queue : Seq(CallBlocks), reply : [ChainTurns -> Blocks]]
  BY <1>6, <1>7, ChainParts
<1>9. ran' \in SUBSET CallBlocks /\ \A block \in ran' : Gated(block, ToSet(audit))
  BY <1>1, <1>2, <1>5, ChainParts
<1> QED BY <1>1, <1>7, <1>8, <1>9, ChainParts, FromChainParts

\* The worker's end leaves nobody without an answer.
LEMMA WorkerDiesKeeps ==
    ASSUME ChainInv, WorkerDies
    PROVE  ChainInv'
<1>1. UNCHANGED <<walk, guard, audit, sub, ran>>
  BY DEF WorkerDies
<1>2. /\ mcp'.queue = <<>> /\ mcp'.up = FALSE
      /\ mcp'.reply = [t \in ChainTurns |-> IF walk[t].wait = "mcp" /\ mcp.reply[t] = NoBlock
                       THEN Result(walk[t].block, Note("failed")) ELSE mcp.reply[t]]
      /\ mcp' = [up |-> mcp'.up, queue |-> mcp'.queue, reply |-> mcp'.reply]
  BY ChainParts DEF WorkerDies
<1>3. Theirs(mcp', walk) /\ mcp'.reply \in [ChainTurns -> Blocks]
  <2>1. Theirs(mcp, walk) /\ AllStand(walk)
    BY ChainParts DEF TurnsOk
  <2> QED BY <1>2, <2>1, ChainParts, DiesTheirs
<1>4. mcp' \in [up : BOOLEAN, queue : Seq(CallBlocks), reply : [ChainTurns -> Blocks]]
  <2>1. <<>> \in Seq(CallBlocks)
    OBVIOUS
  <2>2. mcp'.queue = <<>> /\ mcp'.up = FALSE
    BY <1>2
  <2> QED BY <1>2, <1>3, <2>1, <2>2
<1> QED BY <1>1, <1>3, <1>4, ChainParts, FromChainParts

\* A hook goes on with the reply to its own call.
LEMMA ReceivedKeeps ==
    ASSUME ChainInv, NEW t \in ChainTurns, Received(t)
    PROVE  ChainInv'
<1> DEFINE r == mcp.reply[t]
<1>1. /\ walk[t].wait = "mcp" /\ r # NoBlock /\ walk' = Passed(t, r)
      /\ mcp' = [mcp EXCEPT !.reply[t] = NoBlock] /\ UNCHANGED <<guard, audit, sub, ran>>
  BY DEF Received
<1>2. /\ r \in ResultBlocks /\ r.call = walk[t].block.call /\ r.by = walk[t].block.by
      /\ r.of = RunOf(r.by) \/ r.of = Note("failed")
  BY <1>1, ChainParts DEF Theirs
<1>3. r.of[1] = "ran" => r.of = RunOf(r.by)
  <2>1. "failed" \in Reasons
    BY DEF Reasons
  <2> QED BY <1>2, <2>1, NoteIs
<1>4. r.of[1] # "child"
  <2>1. "failed" \in Reasons
    BY DEF Reasons
  <2> QED BY <1>2, <2>1, NoteIs DEF RunOf
<1>5. /\ walk' \in Family /\ OneMoves(walk, walk', t) /\ walk'[t].wait = "no"
      /\ TurnsOk(walk', ToSet(audit), sub.taken)
  <2>1. walk[t].at \in 1..Len(Chain)
    BY <1>1, WaitersStand
  <2> HIDE DEF r
  <2> QED BY <1>1, <1>2, <1>3, <1>4, <2>1, AnswerKeeps
<1>6. /\ mcp'.queue = mcp.queue /\ mcp'.up = mcp.up /\ mcp'.reply = [mcp.reply EXCEPT ![t] = NoBlock]
      /\ mcp' = [up |-> mcp'.up, queue |-> mcp'.queue, reply |-> mcp'.reply]
  BY <1>1, ChainParts
<1>7. Theirs(mcp', walk') /\ mcp'.reply \in [ChainTurns -> Blocks]
  <2>1. /\ Theirs(mcp, walk) /\ OneMoves(walk, walk', t) /\ mcp.queue \in Seq(CallBlocks)
        /\ mcp.reply \in [ChainTurns -> Blocks] /\ mcp.reply[t] # NoBlock
    BY <1>1, <1>5, ChainParts
  <2> HIDE DEF r
  <2> QED BY <1>6, <2>1, ReceivedTheirs
<1>8. mcp' \in [up : BOOLEAN, queue : Seq(CallBlocks), reply : [ChainTurns -> Blocks]]
  BY <1>6, <1>7, ChainParts
<1>9. ChildrenIn(sub, walk')
  BY <1>1, <1>5, ChainParts, ChildrenStay
<1> QED BY <1>1, <1>5, <1>7, <1>8, <1>9, ChainParts, FromChainParts

\* A child is registered under a number of its own, or the hook fails.
LEMMA SpawnKeeps ==
    ASSUME ChainInv, NEW t \in ChainTurns, Spawn(t)
    PROVE  ChainInv'
<1> DEFINE id == sub.spawned
           b == walk[t].block
<1>1. /\ walk[t].at \in 1..Len(Chain) /\ Chain[walk[t].at] = "subagent" /\ walk[t].wait = "no"
      /\ b.call.tool = "spawn" /\ UNCHANGED <<guard, audit, mcp, ran>>
  BY DEF Spawn, Reached
<1>2. b \in CallBlocks /\ id \in Nat /\ walk[t].at > 0
  BY <1>1, AtWorkIs, ChainParts
<1>3. CASE /\ Cardinality(sub.pending) < MaxPending
           /\ sub' = [sub EXCEPT !.spawned = @ + 1, !.child = Append(@, "ready"), !.pending = @ \cup {id}]
           /\ walk' = Passed(t, Result(b, ChildOf(id)))
  <2> DEFINE r == Result(b, ChildOf(id))
  <2>1. ChildOf(id) \in Reports /\ ChildOf(id)[1] = "child"
    BY <1>2 DEF ChildOf, Reports
  <2>2. /\ r \in ResultBlocks /\ r.call = b.call /\ r.by = b.by /\ r.of[1] = "child"
        /\ r.call.tool # "collect"
    BY <1>1, <1>2, <2>1, ResultIs
  <2>3. /\ walk' \in Family /\ OneMoves(walk, walk', t) /\ walk'[t].wait = "no"
        /\ TurnsOk(walk', ToSet(audit), sub.taken)
    <3>1. walk' = Passed(t, r)
      BY <1>3
    <3> HIDE DEF r
    <3> QED BY <1>1, <2>2, <3>1, AnswerKeeps
  <2>4. /\ sub'.spawned = sub.spawned + 1 /\ sub'.child = Append(sub.child, "ready")
        /\ sub'.pending = sub.pending \cup {sub.spawned} /\ sub'.taken = sub.taken
        /\ sub' = [spawned |-> sub'.spawned, pending |-> sub'.pending, child |-> sub'.child,
                   taken |-> sub'.taken]
    BY <1>3, ChainParts
  <2>5. ChildrenIn(sub', walk)
    <3>1. /\ ChildrenIn(sub, walk) /\ sub.spawned \in Nat
          /\ sub.child \in Seq({"ready", "done", "died"}) /\ Cardinality(sub.pending) < MaxPending
      BY <1>3, ChainParts
    <3> QED BY <2>4, <3>1, SpawnKeepsChildren
  <2>6. ChildrenIn(sub', walk')
    BY <1>1, <2>3, <2>5, ChildrenStay
  <2>7. sub' \in [spawned : Nat, pending : SUBSET Nat, child : Seq({"ready", "done", "died"}),
                  taken : SUBSET Nat]
    <3>1. sub'.spawned \in Nat /\ sub'.pending \in SUBSET Nat /\ sub'.taken \in SUBSET Nat
      BY <2>4, ChainParts
    <3>2. sub'.child \in Seq({"ready", "done", "died"})
      BY <2>4, ChainParts
    <3> QED BY <2>4, <3>1, <3>2
  <2>8. Theirs(mcp, walk')
    BY <1>1, <2>3, ChainParts, TheirsStays
  <2> QED BY <1>1, <2>3, <2>4, <2>6, <2>7, <2>8, ChainParts, FromChainParts
<1>4. CASE walk' = Failed(t) /\ UNCHANGED sub
  <2>1. /\ walk' \in Family /\ OneMoves(walk, walk', t) /\ walk'[t].wait = "no"
        /\ TurnsOk(walk', ToSet(audit), sub.taken)
    BY <1>2, <1>4, ErrorKeeps
  <2>2. Theirs(mcp, walk') /\ ChildrenIn(sub, walk')
    BY <1>1, <2>1, ChainParts, TheirsStays, ChildrenStay
  <2> QED BY <1>1, <1>4, <2>1, <2>2, ChainParts, FromChainParts
<1> QED BY <1>3, <1>4 DEF Spawn

\* A hook takes a child that is there, and says so of one that is not.
LEMMA CollectKeeps ==
    ASSUME ChainInv, NEW t \in ChainTurns, Collect(t)
    PROVE  ChainInv'
<1> DEFINE id == walk[t].block.call.child
<1>1. /\ walk[t].at \in 1..Len(Chain) /\ Chain[walk[t].at] = "subagent" /\ walk[t].wait = "no"
      /\ UNCHANGED <<guard, audit, mcp, ran>>
  BY DEF Collect, Reached
<1>2. CASE /\ id \in sub.pending
           /\ sub' = [sub EXCEPT !.pending = @ \ {id}]
           /\ walk' = [walk EXCEPT ![t].wait = "child"]
  <2>1. walk' \in Family /\ Waits(walk, walk', t, "child") /\ OneMoves(walk, walk', t)
        /\ walk'[t].wait = "child"
    BY <1>2, ChainParts, WaitingIs DEF Family, Waits, OneMoves
  <2>2. TurnsOk(walk', ToSet(audit), sub.taken)
    BY <1>1, <2>1, WaitsKeeps
  <2>3. /\ sub'.spawned = sub.spawned /\ sub'.child = sub.child
        /\ sub'.pending = sub.pending \ {id} /\ sub'.taken = sub.taken
        /\ sub' = [spawned |-> sub'.spawned, pending |-> sub'.pending, child |-> sub'.child,
                   taken |-> sub'.taken]
    BY <1>2, ChainParts
  <2>4. sub' \in [spawned : Nat, pending : SUBSET Nat, child : Seq({"ready", "done", "died"}),
                  taken : SUBSET Nat]
    <3>1. sub'.pending \in SUBSET Nat
      BY <2>3, ChainParts
    <3> QED BY <2>3, <3>1, ChainParts
  <2>5. ChildrenIn(sub', walk')
    BY <1>1, <1>2, <2>1, <2>3, ChainParts, CollectKeepsChildren
  <2>6. Theirs(mcp, walk')
    BY <1>1, <2>1, ChainParts, TheirsStays
  <2> QED BY <1>1, <2>1, <2>2, <2>3, <2>4, <2>5, <2>6, ChainParts, FromChainParts
<1>3. CASE walk' = Passed(t, Result(walk[t].block, Note("unknown"))) /\ UNCHANGED sub
  <2>1. /\ walk' \in Family /\ OneMoves(walk, walk', t) /\ walk'[t].wait = "no"
        /\ TurnsOk(walk', ToSet(audit), sub.taken)
    <3>1. "unknown" \in Reasons
      BY DEF Reasons
    <3> QED BY <1>1, <1>3, <3>1, NoteKeeps
  <2>2. Theirs(mcp, walk') /\ ChildrenIn(sub, walk')
    BY <1>1, <2>1, ChainParts, TheirsStays, ChildrenStay
  <2> QED BY <1>1, <1>3, <2>1, <2>2, ChainParts, FromChainParts
<1> QED BY <1>2, <1>3 DEF Collect

\* A child ends.
LEMMA ChildRunsKeeps ==
    ASSUME ChainInv, NEW id \in 0..(sub.spawned - 1), ChildRuns(id)
    PROVE  ChainInv'
<1>1. UNCHANGED <<walk, guard, audit, mcp, ran>>
  BY DEF ChildRuns
<1>2. PICK end \in {"done", "died"} : sub' = [sub EXCEPT !.child[id + 1] = end]
  BY DEF ChildRuns
<1>3. /\ sub'.spawned = sub.spawned /\ sub'.child = [sub.child EXCEPT ![id + 1] = end]
      /\ sub'.pending = sub.pending /\ sub'.taken = sub.taken
      /\ sub' = [spawned |-> sub'.spawned, pending |-> sub'.pending, child |-> sub'.child,
                 taken |-> sub'.taken]
  BY <1>2, ChainParts
<1>4. sub'.child \in Seq({"ready", "done", "died"}) /\ Len(sub'.child) = Len(sub.child)
  <2> DEFINE S == {"ready", "done", "died"}
  <2>1. sub.child \in Seq(S) /\ end \in S
    BY ChainParts
  <2> HIDE DEF S
  <2>2. PICK n \in Nat : n = Len(sub.child)
    BY <2>1
  <2>3. sub.child \in [1..n -> S]
    BY <2>1, <2>2
  <2>4. sub'.child \in [1..n -> S]
    BY <1>3, <2>1, <2>3
  <2>5. sub'.child \in Seq(S) /\ Len(sub'.child) = n
    BY <2>4
  <2> QED BY <2>2, <2>5 DEF S
<1>5. sub' \in [spawned : Nat, pending : SUBSET Nat, child : Seq({"ready", "done", "died"}),
                taken : SUBSET Nat]
  BY <1>3, <1>4, ChainParts
<1>6. ChildrenIn(sub', walk)
  BY <1>3, <1>4, ChainParts DEF ChildrenIn
<1> QED BY <1>1, <1>3, <1>5, <1>6, ChainParts, FromChainParts

\* A child's result is handed out by the hook that took it.
LEMMA CollectedKeeps ==
    ASSUME ChainInv, NEW t \in ChainTurns, Collected(t)
    PROVE  ChainInv'
<1> DEFINE id == walk[t].block.call.child
           of == IF sub.child[id + 1] = "done" THEN ChildOf(id) ELSE Note("failed")
           r == Result(walk[t].block, of)
           T == sub.taken \cup {id}
<1>1. /\ walk[t].wait = "child" /\ UNCHANGED <<guard, audit, mcp, ran>>
      /\ sub' = [sub EXCEPT !.taken = @ \cup {id}] /\ walk' = Passed(t, r)
  BY DEF Collected
<1>2. walk[t].at \in 1..Len(Chain) /\ walk[t].block \in CallBlocks
  BY <1>1, WaitersStand, AtWorkIs
<1>3. id \in 0..(sub.spawned - 1) /\ id \notin sub.taken /\ id \in Nat
  <2>1. ChildrenIn(sub, walk) /\ sub.spawned \in Nat
    BY ChainParts
  <2>2. id \in 0..(sub.spawned - 1) /\ id \notin sub.taken
    BY <1>1, <2>1 DEF ChildrenIn
  <2> HIDE DEF id
  <2> QED BY <2>1, <2>2
<1>4. of \in Reports /\ of[1] # "ran" /\ (of[1] = "child" => of = ChildOf(id))
  <2>1. ChildOf(id) \in Reports /\ ChildOf(id)[1] # "ran"
    BY <1>3 DEF ChildOf, Reports
  <2>2. "failed" \in Reasons
    BY DEF Reasons
  <2> HIDE DEF id
  <2> QED BY <2>1, <2>2, NoteIs
<1>5. /\ r \in ResultBlocks /\ r.call = walk[t].block.call /\ r.by = walk[t].block.by /\ r.of = of
  <2> HIDE DEF of
  <2> QED BY <1>2, <1>4, ResultIs
<1>6. id \in T \ sub.taken /\ sub.taken \subseteq T
  BY <1>3
<1>7. r.of[1] = "child" => r.of = ChildOf(r.call.child) /\ r.call.child \in T \ sub.taken
  BY <1>4, <1>5, <1>6
<1>8. /\ walk' \in Family /\ OneMoves(walk, walk', t) /\ walk'[t].wait = "no"
      /\ TurnsOk(walk', ToSet(audit), T)
  <2>1. r.of[1] # "ran" /\ walk' = Passed(t, r) /\ sub.taken \subseteq T
    BY <1>1, <1>4, <1>5
  <2> HIDE DEF r, of, T, id
  <2> QED BY <1>2, <1>5, <1>7, <2>1, AnswerKeeps
<1>9. /\ sub'.spawned = sub.spawned /\ sub'.child = sub.child
      /\ sub'.pending = sub.pending /\ sub'.taken = T
      /\ sub' = [spawned |-> sub'.spawned, pending |-> sub'.pending, child |-> sub'.child,
                 taken |-> sub'.taken]
  BY <1>1, ChainParts
<1>10. sub' \in [spawned : Nat, pending : SUBSET Nat, child : Seq({"ready", "done", "died"}),
                 taken : SUBSET Nat]
  <2>1. sub'.taken \in SUBSET Nat
    BY <1>3, <1>9, ChainParts
  <2> QED BY <1>9, <2>1, ChainParts
<1>11. ChildrenIn(sub', walk')
  BY <1>1, <1>8, <1>9, ChainParts, CollectedKeepsChildren
<1>12. Theirs(mcp, walk')
  BY <1>1, <1>8, ChainParts, TheirsStays
<1>13. TurnsOk(walk', ToSet(audit), sub'.taken)
  BY <1>8, <1>9
<1> QED BY <1>1, <1>8, <1>9, <1>10, <1>11, <1>12, <1>13, ChainParts, FromChainParts

\* A local executor answers within its hook.
LEMMA ExecuteKeeps ==
    ASSUME ChainInv, NEW t \in ChainTurns, Execute(t)
    PROVE  ChainInv'
<1> DEFINE b == walk[t].block
           r == Result(b, RunOf(b.by))
<1>1. /\ walk[t].at \in 1..Len(Chain) /\ Chain[walk[t].at] = "local" /\ walk[t].wait = "no"
      /\ walk' = Passed(t, r) /\ ran' = ran \cup {b} /\ UNCHANGED <<guard, audit, mcp, sub>>
  BY DEF Execute, Reached
<1>2. b \in CallBlocks /\ b.by \in Marks
  BY <1>1, AtWorkIs
<1>3. RunOf(b.by) \in Reports /\ RunOf(b.by)[1] = "ran"
  BY <1>2 DEF RunOf, Reports
<1>4. /\ r \in ResultBlocks /\ r.call = b.call /\ r.by = b.by /\ r.of = RunOf(r.by)
      /\ r.of[1] # "child"
  BY <1>2, <1>3, ResultIs
<1>5. /\ walk' \in Family /\ OneMoves(walk, walk', t) /\ walk'[t].wait = "no"
      /\ TurnsOk(walk', ToSet(audit), sub.taken)
  <2> HIDE DEF r
  <2> QED BY <1>1, <1>4, AnswerKeeps
<1>6. Gated(b, ToSet(audit))
  BY <1>1, RunsGated
<1>7. ran' \in SUBSET CallBlocks /\ \A block \in ran' : Gated(block, ToSet(audit))
  BY <1>1, <1>2, <1>6, ChainParts
<1>8. Theirs(mcp, walk') /\ ChildrenIn(sub, walk')
  BY <1>1, <1>5, ChainParts, TheirsStays, ChildrenStay
<1> QED BY <1>1, <1>5, <1>7, <1>8, ChainParts, FromChainParts

\* Nothing is on its way at first.
LEMMA ChainStarts ==
    ASSUME ChainInit
    PROVE  ChainInv
<1> DEFINE idle == [at |-> 0, block |-> NoBlock, wait |-> "no", made |-> 0, out |-> <<>>]
<1>1. idle \in Walks
  <2>1. <<>> \in Seq(Blocks) /\ NoBlock \in Blocks
    BY KindsDiffer
  <2> QED BY <2>1 DEF Walks
<1>2. walk = [t \in ChainTurns |-> idle]
  BY DEF ChainInit
<1>3. idle.at = 0 /\ idle.wait = "no" /\ idle.made = 0 /\ idle.out = <<>>
  OBVIOUS
<1> HIDE DEF idle
<1>4. walk \in Family /\ \A t \in ChainTurns : walk[t] = idle
  BY <1>1, <1>2 DEF Family
<1>5. AllStand(walk)
  BY <1>3, <1>4 DEF AllStand, Stands
<1>6. AllCleared(walk, ToSet(audit))
  BY <1>3, <1>4 DEF AllCleared, Cleared
<1>7. AllOwn(walk, sub.taken) /\ HandedOutOnce(walk)
  <2>1. 1..0 = {}
    OBVIOUS
  <2> QED BY <1>3, <1>4, <2>1 DEF AllOwn, HandedOutOnce
<1>8. IsCounters(guard) /\ CountersIn(guard)
  <2>1. guard.counts = [id \in {} |-> 0] /\ guard.order = <<>>
        /\ guard = [counts |-> guard.counts, order |-> guard.order]
    BY DEF ChainInit
  <2>2. DOMAIN guard.counts = {} /\ guard.counts \in [DOMAIN guard.counts -> Nat]
    BY <2>1
  <2>3. guard.order \in Seq(CallIds) /\ Len(guard.order) = 0 /\ DOMAIN guard.order = {}
    BY <2>1
  <2>4. ToSet(guard.order) = {}
    BY <2>3 DEF ToSet
  <2> QED BY <2>1, <2>2, <2>3, <2>4, ChainAssumption DEF IsCounters, CountersIn
<1>9. mcp \in [up : BOOLEAN, queue : Seq(CallBlocks), reply : [ChainTurns -> Blocks]]
      /\ Theirs(mcp, walk)
  <2>1. mcp = [up |-> TRUE, queue |-> <<>>, reply |-> [t \in ChainTurns |-> NoBlock]]
    BY DEF ChainInit
  <2>2. <<>> \in Seq(CallBlocks) /\ [t \in ChainTurns |-> NoBlock] \in [ChainTurns -> Blocks]
    BY KindsDiffer
  <2>3. Len(mcp.queue) = 0 /\ \A t \in ChainTurns : mcp.reply[t] = NoBlock
    BY <2>1
  <2> QED BY <2>1, <2>2, <2>3 DEF Theirs
<1>10. sub = [spawned |-> 0, pending |-> {}, child |-> <<>>, taken |-> {}]
  BY DEF ChainInit
<1>11. sub \in [spawned : Nat, pending : SUBSET Nat, child : Seq({"ready", "done", "died"}),
                taken : SUBSET Nat]
  <2>1. <<>> \in Seq({"ready", "done", "died"})
    OBVIOUS
  <2> QED BY <1>10, <2>1
<1>12. ChildrenIn(sub, walk)
  <2>1. IsFiniteSet({}) /\ Cardinality({}) = 0
    BY FS_EmptySet
  <2>2. 0..(0 - 1) = {} /\ Len(<<>>) = 0
    OBVIOUS
  <2>3. /\ sub.spawned = 0 /\ sub.pending = {} /\ sub.child = <<>> /\ sub.taken = {}
    BY <1>10
  <2> QED BY <1>3, <1>4, <2>1, <2>2, <2>3, ChainAssumption DEF ChildrenIn
<1>13. audit \in Seq([by : Marks, approved : BOOLEAN])
  BY DEF ChainInit
<1>14. ran = {}
  BY DEF ChainInit
<1> QED BY <1>4, <1>5, <1>6, <1>7, <1>8, <1>9, <1>11, <1>12, <1>13, <1>14
        DEF ChainInv, ChainTypeOK, IsCounters, Family

\* Every step keeps the invariant.
LEMMA ChainSteps ==
    ASSUME ChainInv, [ChainNext]_chainVars
    PROVE  ChainInv'
<1>1. CASE UNCHANGED chainVars
  <2>1. walk' = walk /\ guard' = guard /\ audit' = audit /\ mcp' = mcp /\ sub' = sub /\ ran' = ran
    BY <1>1 DEF chainVars
  <2> QED BY <2>1, ChainParts, FromChainParts
<1>2. CASE \E t \in ChainTurns : \E call \in Calls : Poll(t, call)
  BY <1>2, PollKeeps
<1>3. ASSUME NEW t \in ChainTurns, Hook(t)
      PROVE  ChainInv'
  BY <1>3, GuardKeeps, AskKeeps, SendKeeps, ReceivedKeeps, SpawnKeeps, CollectKeeps,
     CollectedKeeps, ExecuteKeeps, DeliverKeeps DEF Hook
<1>4. ASSUME NEW t \in ChainTurns, Ruling(t)
      PROVE  ChainInv'
  BY <1>4, RuledKeeps DEF Ruling
<1>5. CASE \E id \in 0..(sub.spawned - 1) : ChildRuns(id)
  BY <1>5, ChildRunsKeeps
<1> QED BY <1>1, <1>2, <1>3, <1>4, <1>5, WorkerRunsKeeps, WorkerDiesKeeps DEF ChainNext

\* The tool chain's invariant, whatever the plugins and the calls.
THEOREM ChainInvariant == ChainSpec => []ChainInv
BY ChainStarts, ChainSteps, PTL DEF ChainSpec

-----------------------------------------------------------------------------
(* What the invariant says.                                                *)

\* The gates hold in every state the invariant holds in.
LEMMA GatesFollow ==
    ASSUME ChainInv
    PROVE  GatesHold
<1>1. NothingRunsUngated
  BY ChainParts DEF NothingRunsUngated, Gated
<1>2. CountersMatchOrder
  <2> DEFINE s == guard.order
  <2>1. /\ ToSet(s) = DOMAIN guard.counts /\ Len(s) <= MaxTrackedCalls
        /\ \A i, j \in 1..Len(s) : s[i] = s[j] => i = j
        /\ Len(s) \in Nat /\ DOMAIN s = 1..Len(s)
    BY ChainParts DEF CountersIn, IsCounters
  <2> HIDE DEF s
  <2>2. IsFiniteSet(1..Len(s)) /\ Cardinality(1..Len(s)) = Len(s)
    <3>1. PICK n \in Nat : n = Len(s)
      BY <2>1
    <3>2. IsFiniteSet(1..n) /\ Cardinality(1..n) = n
      BY FS_Interval
    <3> QED BY <3>1, <3>2
  <2>3. Cardinality({s[i] : i \in 1..Len(s)}) = Cardinality(1..Len(s))
    BY <2>1, <2>2, ImageOfInjection
  <2>4. Cardinality(ToSet(s)) = Len(s)
    BY <2>1, <2>2, <2>3 DEF ToSet
  <2> QED BY <2>1, <2>4 DEF CountersMatchOrder, s
<1> QED BY <1>1, <1>2 DEF GatesHold

\* The answers are kept in every state the invariant holds in.
LEMMA AnswersFollow ==
    ASSUME ChainInv
    PROVE  AnswersAreKept
<1>1. ASSUME NEW t \in ChainTurns, NEW i \in 1..Len(walk[t].out)
      PROVE  /\ i \in 1..walk[t].made /\ BlockAt(walk[t], i) = walk[t].out[i]
             /\ OwnBlock(t, i, walk[t].out[i], sub.taken)
  <2>1. Stands(walk[t], t) /\ walk[t].at \in Nat /\ Len(walk[t].out) \in Nat /\ walk[t].made \in Nat
    BY ChainParts DEF TurnsOk, AllStand, Family, Walks
  <2>2. i \in 1..walk[t].made
    BY <2>1 DEF Stands
  <2>3. BlockAt(walk[t], i) = walk[t].out[i]
    BY <2>1 DEF BlockAt
  <2>4. OwnBlock(t, i, BlockAt(walk[t], i), sub.taken)
    BY <2>2, ChainParts DEF TurnsOk, AllOwn
  <2> QED BY <2>2, <2>3, <2>4
<1>2. ASSUME NEW t \in ChainTurns, NEW i \in 1..Len(walk[t].out)
      PROVE  walk[t].out[i].kind = "result" => walk[t].out[i] \in ResultBlocks
  BY <1>1, <1>2, KindsDiffer DEF OwnBlock
<1>3. ASSUME NEW t \in ChainTurns, NEW i \in 1..Len(walk[t].out),
             walk[t].out[i].kind = "result", walk[t].out[i].call.tool = "collect",
             walk[t].out[i].of[1] = "child",
             NEW u \in ChainTurns, NEW j \in 1..Len(walk[u].out), <<u, j>> # <<t, i>>,
             walk[u].out[j].kind = "result", walk[u].out[j].call.tool = "collect",
             walk[u].out[j].of = walk[t].out[i].of
      PROVE  FALSE
  <2> DEFINE id == walk[t].out[i].call.child
  <2>1. walk[t].out[i] \in ResultBlocks /\ walk[u].out[j] \in ResultBlocks
    BY <1>2, <1>3
  <2>2. walk[t].out[i].of = ChildOf(id) /\ id \in sub.taken
    BY <1>1, <1>3, <2>1 DEF OwnBlock
  <2>3. id \in Nat
    BY <2>2, ChainParts
  <2>4. HandsOut(walk[t].out[i], id) /\ HandsOut(walk[u].out[j], id)
    BY <1>3, <2>1, <2>2 DEF HandsOut
  <2>5. i \in 1..walk[t].made /\ j \in 1..walk[u].made
        /\ BlockAt(walk[t], i) = walk[t].out[i] /\ BlockAt(walk[u], j) = walk[u].out[j]
    BY <1>1
  <2> HIDE DEF id
  <2>6. t = u /\ i = j
    BY <2>3, <2>4, <2>5, ChainParts DEF TurnsOk, HandedOutOnce
  <2> QED BY <1>3, <2>6
<1>4. AnswersAreOwn
  <2>1. ASSUME NEW t \in ChainTurns, NEW i \in 1..Len(walk[t].out)
        PROVE  /\ walk[t].out[i].kind # "error" => walk[t].out[i].by = <<t, i>>
               /\ walk[t].out[i].kind = "result" =>
                    /\ walk[t].out[i].of[1] = "ran" => walk[t].out[i].of = RunOf(walk[t].out[i].by)
                    /\ walk[t].out[i].call.tool = "collect" /\ walk[t].out[i].of[1] = "child" =>
                         walk[t].out[i].of = ChildOf(walk[t].out[i].call.child)
    BY <1>1, <1>2, KindsDiffer DEF OwnBlock
  <2>2. ASSUME NEW t \in ChainTurns, NEW i \in 1..Len(walk[t].out),
               walk[t].out[i].kind = "result", walk[t].out[i].call.tool = "collect",
               walk[t].out[i].of[1] = "child"
        PROVE  \A u \in ChainTurns : \A j \in 1..Len(walk[u].out) :
                  /\ <<u, j>> # <<t, i>>
                  /\ walk[u].out[j].kind = "result"
                  /\ walk[u].out[j].call.tool = "collect"
                  => walk[u].out[j].of # walk[t].out[i].of
    BY <1>3, <2>2
  <2> QED BY <2>1, <2>2 DEF AnswersAreOwn
<1>5. ChildrenKept
  <2> DEFINE waited == {walk[t].block.call.child : t \in {t \in ChainTurns : walk[t].wait = "child"}}
  <2>1. ChildrenIn(sub, walk)
    BY ChainParts
  <2>2. /\ Cardinality(sub.pending) <= MaxPending
        /\ sub.pending \cup waited \cup sub.taken \subseteq 0..(sub.spawned - 1)
        /\ sub.pending \cap (waited \cup sub.taken) = {}
        /\ waited \cap sub.taken = {}
    BY <2>1 DEF ChildrenIn
  <2>3. 0..(sub.spawned - 1) \subseteq sub.pending \cup waited \cup sub.taken
    BY <2>1 DEF ChildrenIn
  <2> QED BY <2>2, <2>3 DEF ChildrenKept
<1> QED BY <1>4, <1>5 DEF AnswersAreKept

\* For any chain of plugins, any calls and any caps: no executor runs a call
\* past a gate before it, and the guardrails' counters match their order.
THEOREM GatesAlwaysHold == ChainSpec => []GatesHold
BY ChainInvariant, GatesFollow, PTL

\* For any chain, calls and caps: every output reports its own call, a child's
\* result is handed out once, and no child is lost to the cap.
THEOREM AnswersAlwaysKept == ChainSpec => []AnswersAreKept
BY ChainInvariant, AnswersFollow, PTL

-----------------------------------------------------------------------------
(* A filter, built up along the sequence.                                  *)

FilterStep(f, s, T) ==
    [n \in 0 .. Len(s) |->
        IF n = 0 THEN <<>>
        ELSE IF s[n] \in T THEN Append(f[n - 1], s[n]) ELSE f[n - 1]]

\* f[n] is what the filter makes of the first n members.
Filters(f, s, T) ==
    \A n \in 0 .. Len(s) :
        f[n] = IF n = 0 THEN <<>>
               ELSE IF s[n] \in T THEN Append(f[n - 1], s[n]) ELSE f[n - 1]

\* Such a function exists.
LEMMA FilterExists ==
    ASSUME NEW s, Len(s) \in Nat, NEW T
    PROVE  \E f : f = FilterStep(f, s, T)
<1> DEFINE Of(g, n) == IF n = 0 THEN <<>>
                       ELSE IF s[n] \in T THEN Append(g[n - 1], s[n]) ELSE g[n - 1]
           Upto(g, m) == \A n \in 0 .. Len(s) : n <= m => g[n] = Of(g, n)
           P == {m \in Nat : \E g : g = [n \in 0 .. Len(s) |-> g[n]] /\ Upto(g, m)}
<1>1. 0 \in P
  <2> DEFINE g == [n \in 0 .. Len(s) |-> <<>>]
  <2>1. Upto(g, 0)
    OBVIOUS
  <2>2. g = [n \in 0 .. Len(s) |-> g[n]]
    OBVIOUS
  <2> HIDE DEF g
  <2> QED BY <2>1, <2>2
<1>2. ASSUME NEW m \in Nat, m \in P
      PROVE  m + 1 \in P
  <2>1. PICK g : g = [n \in 0 .. Len(s) |-> g[n]] /\ Upto(g, m)
    BY <1>2
  <2> DEFINE h == [n \in 0 .. Len(s) |-> Of(g, n)]
  <2>2. ASSUME NEW n \in 0 .. Len(s), n <= m + 1
        PROVE  h[n] = Of(h, n)
    <3>1. h[n] = Of(g, n)
      <4> HIDE DEF Of
      <4> QED OBVIOUS
    <3>2. CASE n = 0
      BY <3>1, <3>2
    <3>3. CASE n # 0
      <4>1. n - 1 \in 0 .. Len(s) /\ n - 1 <= m
        BY <2>2, <3>3
      <4>2. g[n - 1] = Of(g, n - 1)
        <5> HIDE DEF Of
        <5> QED BY <2>1, <4>1
      <4>3. h[n - 1] = Of(g, n - 1)
        <5> HIDE DEF Of
        <5> QED BY <4>1
      <4> HIDE DEF h
      <4>4. h[n - 1] = g[n - 1]
        BY <4>2, <4>3
      <4> QED BY <3>1, <4>4
    <3> QED BY <3>2, <3>3
  <2>3. h = [n \in 0 .. Len(s) |-> h[n]]
    <3> HIDE DEF Of
    <3> QED OBVIOUS
  <2> HIDE DEF h, Of
  <2>4. Upto(h, m + 1)
    BY <2>2
  <2> HIDE DEF Upto
  <2>5. m + 1 \in Nat /\ \E k : k = [n \in 0 .. Len(s) |-> k[n]] /\ Upto(k, m + 1)
    BY <2>3, <2>4
  <2> QED BY <2>5
<1>3. Len(s) \in P
  <2> HIDE DEF P
  <2>1. \A m \in Nat : m \in P
    BY <1>1, <1>2, InductionOverNat
  <2> QED BY <2>1
<1>4. PICK g : g = [n \in 0 .. Len(s) |-> g[n]] /\ Upto(g, Len(s))
  BY <1>3
<1>5. \A n \in 0 .. Len(s) : g[n] = Of(g, n)
  <2> HIDE DEF Of
  <2> QED BY <1>4
<1>6. g = [n \in 0 .. Len(s) |-> Of(g, n)]
  <2> HIDE DEF Of
  <2> QED BY <1>4, <1>5
<1> QED BY <1>6 DEF FilterStep

\* What Only is.
LEMMA OnlyFilters ==
    ASSUME NEW s, Len(s) \in Nat, NEW T
    PROVE  \E f : Filters(f, s, T) /\ Only(s, T) = f[Len(s)]
<1> DEFINE f == CHOOSE f : f = FilterStep(f, s, T)
<1>1. f = FilterStep(f, s, T)
  BY FilterExists
<1>2. Only(s, T) = f[Len(s)]
  BY DEF Only, FilterStep
<1>3. Filters(f, s, T)
  <2> HIDE DEF f
  <2> QED BY <1>1 DEF Filters, FilterStep
<1> QED BY <1>2, <1>3

\* Two filters of one start agree on it.
LEMMA FiltersAgree ==
    ASSUME NEW S, NEW s \in Seq(S), NEW x \in S, NEW T,
           NEW f, Filters(f, s, T), NEW g, Filters(g, Append(s, x), T)
    PROVE  \A n \in 0 .. Len(s) : f[n] = g[n]
<1> DEFINE P == {n \in Nat : n <= Len(s) => f[n] = g[n]}
<1>1. PICK a : a = Append(s, x)
  OBVIOUS
<1>2. /\ Filters(g, a, T) /\ Len(s) \in Nat
      /\ Len(a) = Len(s) + 1 /\ \A n \in 1 .. Len(s) : a[n] = s[n]
  BY <1>1
<1>3. 0 \in P
  <2>1. f[0] = <<>> /\ g[0] = <<>>
    BY <1>2 DEF Filters
  <2> QED BY <2>1
<1>4. ASSUME NEW n \in Nat, n \in P
      PROVE  n + 1 \in P
  <2>1. CASE n + 1 <= Len(s)
    <3>1. f[n] = g[n] /\ n + 1 \in 0 .. Len(s) /\ n + 1 \in 0 .. Len(a) /\ n + 1 # 0
          /\ (n + 1) - 1 = n /\ n + 1 \in 1 .. Len(s)
      BY <1>2, <1>4, <2>1
    <3>2. a[n + 1] = s[n + 1]
      BY <1>2, <3>1
    <3>3. f[n + 1] = IF s[n + 1] \in T THEN Append(f[n], s[n + 1]) ELSE f[n]
      BY <3>1 DEF Filters
    <3>4. g[n + 1] = IF a[n + 1] \in T THEN Append(g[n], a[n + 1]) ELSE g[n]
      BY <1>2, <3>1 DEF Filters
    <3> QED BY <3>1, <3>2, <3>3, <3>4
  <2> QED BY <2>1
<1>5. \A n \in Nat : n \in P
  <2> HIDE DEF P
  <2> QED BY <1>3, <1>4, InductionOverNat
<1> QED BY <1>2, <1>5

\* The filter of a sequence with one more at its end.
LEMMA OnlyAppends ==
    ASSUME NEW S, NEW s \in Seq(S), NEW x \in S, NEW T
    PROVE  Only(Append(s, x), T) =
              IF x \in T THEN Append(Only(s, T), x) ELSE Only(s, T)
<1>0. PICK a : a = Append(s, x)
  OBVIOUS
<1>1. Len(a) = Len(s) + 1 /\ a[Len(s) + 1] = x /\ Len(s) \in Nat
  BY <1>0
<1>2. PICK f : Filters(f, s, T) /\ Only(s, T) = f[Len(s)]
  BY <1>1, OnlyFilters
<1>3. PICK g : Filters(g, a, T) /\ Only(a, T) = g[Len(a)]
  <2>1. Len(a) \in Nat
    BY <1>1
  <2> QED BY <2>1, OnlyFilters
<1>4. f[Len(s)] = g[Len(s)]
  BY <1>0, <1>1, <1>2, <1>3, FiltersAgree
<1>5. PICK n : n = Len(s) /\ n \in Nat /\ Len(a) = n + 1 /\ a[n + 1] = x
  BY <1>1
<1>6. n + 1 \in 0 .. Len(a) /\ n + 1 # 0 /\ (n + 1) - 1 = n
  BY <1>5
<1>7. g[n + 1] = IF x \in T THEN Append(g[n], x) ELSE g[n]
  BY <1>3, <1>5, <1>6 DEF Filters
<1> QED BY <1>0, <1>2, <1>3, <1>4, <1>5, <1>7

\* Nothing is left of nothing.
LEMMA OnlyOfNone ==
    ASSUME NEW T
    PROVE  Only(<<>>, T) = <<>>
<1>1. PICK e : e = <<>> /\ Len(e) = 0
  OBVIOUS
<1>2. PICK f : Filters(f, e, T) /\ Only(e, T) = f[0]
  BY <1>1, OnlyFilters
<1>3. f[0] = <<>>
  BY <1>1, <1>2 DEF Filters
<1> QED BY <1>1, <1>2, <1>3

\* The filter of a sequence is one.
LEMMA OnlyType ==
    ASSUME NEW S, NEW s \in Seq(S), NEW T
    PROVE  Only(s, T) \in Seq(S)
<1>1. PICK f : Filters(f, s, T) /\ Only(s, T) = f[Len(s)]
  BY OnlyFilters
<1> DEFINE P == {n \in Nat : n <= Len(s) => f[n] \in Seq(S)}
<1>2. 0 \in P
  <2>1. f[0] = <<>>
    BY <1>1 DEF Filters
  <2>2. f[0] \in Seq(S)
    BY <2>1
  <2> QED BY <2>2
<1>3. ASSUME NEW n \in Nat, n \in P
      PROVE  n + 1 \in P
  <2>1. CASE n + 1 <= Len(s)
    <3>1. f[n] \in Seq(S) /\ n + 1 \in 0 .. Len(s) /\ n + 1 # 0
          /\ (n + 1) - 1 = n /\ s[n + 1] \in S
      BY <1>3, <2>1
    <3>2. f[n + 1] = IF s[n + 1] \in T THEN Append(f[n], s[n + 1]) ELSE f[n]
      BY <1>1, <3>1 DEF Filters
    <3>3. PICK r, x : r = f[n] /\ x = s[n + 1]
      OBVIOUS
    <3>4. r \in Seq(S) /\ x \in S
      BY <3>1, <3>3
    <3>5. Append(r, x) \in Seq(S)
      BY <3>4
    <3>6. f[n + 1] \in Seq(S)
      BY <3>2, <3>3, <3>4, <3>5
    <3> QED BY <3>6
  <2> QED BY <2>1
<1>4. \A n \in Nat : n \in P
  <2> HIDE DEF P
  <2> QED BY <1>2, <1>3, InductionOverNat
<1> QED BY <1>1, <1>4

-----------------------------------------------------------------------------
(* The orchestrator's turn: who was told what, and what was handed over.   *)

RunType == [tier : {"fast", "slow"}, saw : Seq(Said),
            phase : {"spawned", "open", "failed", "over"}, said : Seq(Said)]
DraftType == [state : {"idle", "drafting", "slow", "routed", "done"}, left : Nat, late : BOOLEAN]
GotType == [run : Nat, block : Said \cup {TierFailed}]

OfRun(r) == {[run |-> r, block |-> b] : b \in Said}
Tagged(r, s) == [i \in DOMAIN s |-> [run |-> r, block |-> s[i]]]

\* Of every run the caller has what the validator let through, and no more.
Handed(rs, gs) ==
    \A r \in Nat \ {0} :
        Only(gs, OfRun(r)) = IF r \in 1 .. Len(rs) THEN Tagged(r, Accepted(rs[r].said)) ELSE <<>>

\* In the order of the runs.
InOrder(n, gs) ==
    /\ \A i \in 1 .. Len(gs) : gs[i].run <= n
    /\ \A i, j \in 1 .. Len(gs) : i < j => gs[i].run <= gs[j].run

\* A run is told of all that was refused before it.
ToldAll(rs) ==
    /\ rs[1].saw = <<>>
    /\ \A r \in 2 .. Len(rs) : rs[r].saw = rs[r - 1].saw \o Refusals(rs[r - 1].said)

\* A run is only left for a reason that was recorded, and reasons run out.
Spent ==
    /\ Len(swaps) + draft.left <= FallbackAttempts + 1
    /\ draft.state = "drafting" => Len(swaps) + draft.left <= FallbackAttempts
    /\ Len(runs) - 1 <= Len(swaps)
    /\ draft.state # "done" => Len(swaps) = Len(runs) - 1

\* What was refused is in the request, or the turn has failed.
Heeded ==
    \/ runs[Len(runs)].saw \o Refusals(runs[Len(runs)].said) = working
    \/ draft.state = "done" /\ got # <<>> /\ got[Len(got)].block = TierFailed

SpeculationShape ==
    /\ draft \in DraftType /\ working \in Seq(Said) /\ runs \in Seq(RunType)
    /\ got \in Seq(GotType) /\ swaps \in Seq({"fallback_validation", "latency_threshold"})
    /\ draft.state = "idle" => /\ runs = <<>> /\ got = <<>> /\ swaps = <<>> /\ working = <<>>
                               /\ draft.left = FallbackAttempts
    /\ draft.state \in {"drafting", "slow", "routed"} => runs # <<>>
    /\ draft.state = "routed" => runs[1].tier = "slow"

DraftKeeps ==
    Drafted => /\ Handed(runs, got) /\ InOrder(Len(runs), got) /\ ToldAll(runs)
               /\ Spent /\ Heeded

SpeculationInv == SpeculationShape /\ DraftKeeps

-----------------------------------------------------------------------------

\* The error of a run is none of its blocks.
LEMMA TaggedApart ==
    /\ \A r, n \in Nat : [run |-> n, block |-> TierFailed] \notin OfRun(r)
    /\ \A r, n \in Nat, b \in Said : [run |-> n, block |-> b] \in OfRun(r) <=> r = n
<1>1. ASSUME NEW r \in Nat, NEW n \in Nat, NEW b, NEW c, [run |-> n, block |-> b] = [run |-> r, block |-> c]
      PROVE  n = r /\ b = c
  <2>1. [run |-> n, block |-> b].run = n /\ [run |-> r, block |-> c].run = r
        /\ [run |-> n, block |-> b].block = b /\ [run |-> r, block |-> c].block = c
    OBVIOUS
  <2> QED BY <1>1, <2>1
<1>2. TierFailed \notin Said
  BY SpeculationAssumption
<1>3. ASSUME NEW r \in Nat, NEW n \in Nat
      PROVE  [run |-> n, block |-> TierFailed] \notin OfRun(r)
  <2>1. ASSUME NEW c \in Said, [run |-> n, block |-> TierFailed] = [run |-> r, block |-> c]
        PROVE  FALSE
    <3>1. TierFailed = c
      BY <1>1, <2>1
    <3> QED BY <1>2, <3>1
  <2> QED BY <2>1 DEF OfRun
<1>4. ASSUME NEW r \in Nat, NEW n \in Nat, NEW b \in Said
      PROVE  [run |-> n, block |-> b] \in OfRun(r) <=> r = n
  BY <1>1 DEF OfRun
<1> QED BY <1>3, <1>4

\* One more block of a run.
LEMMA TaggedAppends ==
    ASSUME NEW r, NEW s \in Seq(Said), NEW b \in Said
    PROVE  Tagged(r, Append(s, b)) = Append(Tagged(r, s), [run |-> r, block |-> b])
<1>1. PICK a : a = Append(s, b)
  OBVIOUS
<1>2. PICK n : n = Len(s)
  OBVIOUS
<1>3. n \in Nat /\ DOMAIN a = 1 .. n + 1 /\ DOMAIN s = 1 .. n /\ a[n + 1] = b
      /\ \A i \in 1 .. n : a[i] = s[i]
  BY <1>1, <1>2
<1>4. PICK t, x : t = Tagged(r, s) /\ x = [run |-> r, block |-> b]
  OBVIOUS
<1>5. t = [i \in 1 .. n |-> [run |-> r, block |-> s[i]]]
  BY <1>3, <1>4 DEF Tagged
<1>6. Append(t, x) = [i \in 1 .. n + 1 |-> IF i = n + 1 THEN x ELSE t[i]]
  BY <1>3, <1>5
<1>7. Tagged(r, a) = [i \in 1 .. n + 1 |-> [run |-> r, block |-> a[i]]]
  BY <1>3 DEF Tagged
<1>8. ASSUME NEW i \in 1 .. n + 1
      PROVE  [run |-> r, block |-> a[i]] = IF i = n + 1 THEN x ELSE t[i]
  <2>1. CASE i = n + 1
    BY <1>3, <1>4, <2>1
  <2>2. CASE i # n + 1
    <3>1. i \in 1 .. n
      BY <1>3, <2>2
    <3> QED BY <1>3, <1>5, <2>2, <3>1
  <2> QED BY <2>1, <2>2
<1> QED BY <1>1, <1>4, <1>6, <1>7, <1>8

\* What is said last is what a run has said more.
SaysMore(rs, b) == [rs EXCEPT ![Len(rs)].said = Append(@, b)]

\* It is the last run that says more.
LEMMA SaysMoreIs ==
    ASSUME NEW rs \in Seq(RunType), rs # <<>>, NEW b \in Said
    PROVE  /\ SaysMore(rs, b) \in Seq(RunType) /\ Len(SaysMore(rs, b)) = Len(rs)
           /\ Len(rs) \in 1 .. Len(rs)
           /\ \A r \in 1 .. Len(rs) : /\ SaysMore(rs, b)[r].saw = rs[r].saw
                                      /\ SaysMore(rs, b)[r].tier = rs[r].tier
                                      /\ r # Len(rs) => SaysMore(rs, b)[r].said = rs[r].said
           /\ SaysMore(rs, b)[Len(rs)].said = Append(rs[Len(rs)].said, b)
           /\ rs[Len(rs)].said \in Seq(Said)
<1>1. PICK n, g : n = Len(rs) /\ g = rs[n]
  OBVIOUS
<1>2. n \in Nat /\ n # 0 /\ n \in 1 .. Len(rs)
  BY <1>1
<1>3. g \in RunType
  BY <1>1, <1>2
<1>4. PICK f : f = [g EXCEPT !.said = Append(g.said, b)]
  OBVIOUS
<1>5. g.said \in Seq(Said) /\ Append(g.said, b) \in Seq(Said)
  BY <1>3 DEF RunType
<1>6. PICK more : more = Append(g.said, b) /\ more \in Seq(Said)
  BY <1>5
<1>7. f = [tier |-> g.tier, saw |-> g.saw, phase |-> g.phase, said |-> more]
  BY <1>3, <1>4, <1>6 DEF RunType
<1>8. f \in RunType /\ f.saw = g.saw /\ f.tier = g.tier /\ f.said = more
  BY <1>3, <1>6, <1>7 DEF RunType
<1>9. SaysMore(rs, b) = [rs EXCEPT ![n] = f]
  BY <1>1, <1>2, <1>4 DEF SaysMore
<1>10. PICK out : out = [rs EXCEPT ![n] = f]
  OBVIOUS
<1>11. /\ out \in Seq(RunType) /\ Len(out) = Len(rs) /\ out[n] = f
       /\ \A r \in 1 .. Len(rs) : r # n => out[r] = rs[r]
  BY <1>2, <1>8, <1>10
<1>12. \A r \in 1 .. Len(rs) : out[r].saw = rs[r].saw /\ out[r].tier = rs[r].tier
  BY <1>1, <1>8, <1>11
<1> QED BY <1>1, <1>2, <1>5, <1>6, <1>8, <1>9, <1>10, <1>11, <1>12

\* An error is handed over beside the blocks.
LEMMA HandedError ==
    ASSUME NEW rs, NEW gs \in Seq(GotType), NEW n \in Nat, Handed(rs, gs)
    PROVE  Handed(rs, Append(gs, [run |-> n, block |-> TierFailed]))
<1>1. PICK e : e = [run |-> n, block |-> TierFailed]
  OBVIOUS
<1>2. e \in GotType
  BY <1>1 DEF GotType
<1>3. ASSUME NEW r \in Nat \ {0}
      PROVE  Only(Append(gs, e), OfRun(r)) = Only(gs, OfRun(r))
  <2>1. e \notin OfRun(r)
    BY <1>1, TaggedApart
  <2> QED BY <1>2, <2>1, OnlyAppends
<1> QED BY <1>1, <1>3 DEF Handed

\* A valid block is accepted, a refused one is not.
LEMMA Judged ==
    ASSUME NEW s \in Seq(Said), NEW b \in Said
    PROVE  /\ Accepted(Append(s, b)) = IF b.valid THEN Append(Accepted(s), b) ELSE Accepted(s)
           /\ Refusals(Append(s, b)) = IF b.valid THEN Refusals(s) ELSE Append(Refusals(s), b)
           /\ Accepted(s) \in Seq(Said) /\ Refusals(s) \in Seq(Said)
<1>1. PICK good, bad : good = {c \in Said : c.valid} /\ bad = {c \in Said : ~c.valid}
  OBVIOUS
<1>2. (b \in good <=> b.valid) /\ (b \in bad <=> ~b.valid)
  BY <1>1
<1>3. /\ Only(Append(s, b), good) = IF b \in good THEN Append(Only(s, good), b) ELSE Only(s, good)
      /\ Only(Append(s, b), bad) = IF b \in bad THEN Append(Only(s, bad), b) ELSE Only(s, bad)
  BY OnlyAppends
<1>4. Only(s, good) \in Seq(Said) /\ Only(s, bad) \in Seq(Said)
  BY OnlyType
<1>5. \A t : Accepted(t) = Only(t, good) /\ Refusals(t) = Only(t, bad)
  BY <1>1 DEF Accepted, Refusals
<1> QED BY <1>2, <1>3, <1>4, <1>5

\* The last run's block is handed over if it is valid.
LEMMA HandedBlock ==
    ASSUME NEW rs \in Seq(RunType), rs # <<>>, NEW gs \in Seq(GotType), NEW b \in Said,
           Handed(rs, gs), NEW out,
           out = IF b.valid THEN Append(gs, [run |-> Len(rs), block |-> b]) ELSE gs
    PROVE  Handed(SaysMore(rs, b), out)
<1>1. PICK more, n : more = SaysMore(rs, b) /\ n = Len(rs)
  OBVIOUS
<1>2. /\ Len(more) = n /\ n \in 1 .. n /\ n \in Nat
      /\ \A r \in 1 .. n : r # n => more[r].said = rs[r].said
      /\ more[n].said = Append(rs[n].said, b) /\ rs[n].said \in Seq(Said)
  <2>1. /\ Len(more) = n /\ n \in 1 .. n
        /\ \A r \in 1 .. n : r # n => more[r].said = rs[r].said
    BY <1>1, SaysMoreIs
  <2>2. more[n].said = Append(rs[n].said, b) /\ rs[n].said \in Seq(Said)
    BY <1>1, SaysMoreIs
  <2> QED BY <1>1, <2>1, <2>2
<1>3. PICK e : e = [run |-> n, block |-> b]
  OBVIOUS
<1>4. e \in GotType /\ \A r \in Nat : e \in OfRun(r) <=> r = n
  <2>1. e \in GotType
    BY <1>2, <1>3 DEF GotType
  <2> QED BY <1>2, <1>3, <2>1, TaggedApart
<1>5. ASSUME NEW r \in Nat \ {0}
      PROVE  Only(out, OfRun(r)) = IF r \in 1 .. n THEN Tagged(r, Accepted(more[r].said)) ELSE <<>>
  <2>1. Only(gs, OfRun(r)) = IF r \in 1 .. n THEN Tagged(r, Accepted(rs[r].said)) ELSE <<>>
    BY <1>1 DEF Handed
  <2>2. Only(Append(gs, e), OfRun(r))
          = IF r = n THEN Append(Only(gs, OfRun(r)), e) ELSE Only(gs, OfRun(r))
    BY <1>4, OnlyAppends
  <2>3. CASE r # n
    <3>1. Only(out, OfRun(r)) = Only(gs, OfRun(r))
      BY <1>1, <1>3, <2>2, <2>3
    <3> QED BY <1>2, <2>1, <2>3, <3>1
  <2>4. CASE r = n /\ b.valid
    <3>1. PICK acc : acc = Accepted(rs[n].said)
      OBVIOUS
    <3>2. acc \in Seq(Said) /\ Accepted(more[n].said) = Append(acc, b)
      BY <1>2, <2>4, <3>1, Judged
    <3>3. Tagged(n, Append(acc, b)) = Append(Tagged(n, acc), e)
      BY <1>3, <3>2, TaggedAppends
    <3>4. Only(out, OfRun(n)) = Append(Only(gs, OfRun(n)), e)
      BY <1>1, <1>3, <2>2, <2>4
    <3>5. Only(gs, OfRun(n)) = Tagged(n, acc)
      BY <1>2, <2>1, <2>4, <3>1
    <3> QED BY <1>2, <2>4, <3>2, <3>3, <3>4, <3>5
  <2>5. CASE r = n /\ ~b.valid
    <3>1. Accepted(more[n].said) = Accepted(rs[n].said)
      BY <1>2, <2>5, Judged
    <3> QED BY <1>2, <2>1, <2>5, <3>1
  <2> QED BY <2>3, <2>4, <2>5
<1>6. Len(more) = n
  BY <1>2
<1> QED BY <1>1, <1>5, <1>6 DEF Handed

\* A run that has said nothing yet has handed nothing over.
LEMMA HandedRun ==
    ASSUME NEW rs \in Seq(RunType), NEW gs, Handed(rs, gs), NEW saw \in Seq(Said), NEW tier \in {"fast", "slow"}
    PROVE  Handed(Append(rs, Run(tier, saw)), gs)
<1>1. PICK f, out, n : f = Run(tier, saw) /\ out = Append(rs, f) /\ n = Len(rs)
  OBVIOUS
<1>2. f.said = <<>>
  BY <1>1 DEF Run
<1>3. n \in Nat /\ Len(out) = n + 1 /\ out[n + 1] = f /\ \A r \in 1 .. n : out[r] = rs[r]
  BY <1>1
<1>4. Accepted(<<>>) = <<>>
  BY OnlyOfNone DEF Accepted
<1>5. \A r : Tagged(r, <<>>) = <<>>
  BY DEF Tagged
<1>6. ASSUME NEW r \in Nat \ {0}
      PROVE  Only(gs, OfRun(r)) = IF r \in 1 .. Len(out) THEN Tagged(r, Accepted(out[r].said)) ELSE <<>>
  <2>1. Only(gs, OfRun(r)) = IF r \in 1 .. n THEN Tagged(r, Accepted(rs[r].said)) ELSE <<>>
    BY <1>1 DEF Handed
  <2>2. CASE r \in 1 .. n
    BY <1>3, <2>1, <2>2
  <2>3. CASE r = n + 1
    BY <1>2, <1>3, <1>4, <1>5, <2>1, <2>3
  <2>4. CASE r \notin 1 .. n /\ r # n + 1
    BY <1>3, <2>1, <2>4
  <2> QED BY <2>2, <2>3, <2>4
<1> QED BY <1>1, <1>6 DEF Handed

\* What is handed over is of the run at work.
LEMMA InOrderAppends ==
    ASSUME NEW n \in Nat, NEW gs \in Seq(GotType), InOrder(n, gs), NEW b
    PROVE  InOrder(n, Append(gs, [run |-> n, block |-> b]))
<1>1. PICK e, out, m : e = [run |-> n, block |-> b] /\ out = Append(gs, e) /\ m = Len(gs)
  OBVIOUS
<1>2. e.run = n
  BY <1>1
<1>3. m \in Nat /\ Len(out) = m + 1 /\ out[m + 1] = e /\ \A i \in 1 .. m : out[i] = gs[i]
  BY <1>1
<1>4. /\ \A i \in 1 .. m : gs[i].run <= n
      /\ \A i, j \in 1 .. m : i < j => gs[i].run <= gs[j].run
  BY <1>1 DEF InOrder
<1>5. ASSUME NEW i \in 1 .. m + 1
      PROVE  out[i].run <= n
  BY <1>2, <1>3, <1>4
<1>6. ASSUME NEW i \in 1 .. m + 1, NEW j \in 1 .. m + 1, i < j
      PROVE  out[i].run <= out[j].run
  <2>1. CASE j = m + 1
    BY <1>2, <1>3, <1>5, <2>1
  <2>2. CASE j # m + 1
    <3>1. i \in 1 .. m /\ j \in 1 .. m
      BY <1>3, <1>6, <2>2
    <3> QED BY <1>3, <1>4, <1>6, <3>1
  <2> QED BY <2>1, <2>2
<1> QED BY <1>1, <1>3, <1>5, <1>6 DEF InOrder

\* A later run is still to hand over.
LEMMA InOrderLater ==
    ASSUME NEW n \in Nat, NEW gs \in Seq(GotType), InOrder(n, gs)
    PROVE  InOrder(n + 1, gs)
<1>1. ASSUME NEW i \in 1 .. Len(gs)
      PROVE  gs[i].run \in Nat /\ gs[i].run <= n + 1
  <2>1. gs[i] \in GotType
    OBVIOUS
  <2>2. gs[i].run \in Nat /\ gs[i].run <= n
    BY <2>1 DEF GotType, InOrder
  <2> QED BY <2>2
<1> QED BY <1>1 DEF InOrder

\* What the last run says changes nothing that a run was told.
LEMMA ToldMore ==
    ASSUME NEW rs \in Seq(RunType), rs # <<>>, NEW b \in Said, ToldAll(rs)
    PROVE  ToldAll(SaysMore(rs, b))
<1>1. PICK more, n : more = SaysMore(rs, b) /\ n = Len(rs)
  OBVIOUS
<1>2. /\ Len(more) = n /\ n \in 1 .. n /\ n \in Nat
      /\ \A r \in 1 .. n : more[r].saw = rs[r].saw /\ (r # n => more[r].said = rs[r].said)
  BY <1>1, SaysMoreIs
<1>3. /\ rs[1].saw = <<>>
      /\ \A r \in 2 .. n : rs[r].saw = rs[r - 1].saw \o Refusals(rs[r - 1].said)
  BY <1>1 DEF ToldAll
<1>4. more[1].saw = <<>>
  BY <1>2, <1>3
<1>5. ASSUME NEW r \in 2 .. n
      PROVE  more[r].saw = more[r - 1].saw \o Refusals(more[r - 1].said)
  <2>1. r \in 1 .. n /\ r - 1 \in 1 .. n /\ r - 1 # n
    BY <1>2
  <2>2. more[r].saw = rs[r].saw /\ more[r - 1].saw = rs[r - 1].saw /\ more[r - 1].said = rs[r - 1].said
    BY <1>2, <2>1
  <2> QED BY <1>3, <2>2
<1>6. Len(more) = n
  BY <1>2
<1> QED BY <1>1, <1>4, <1>5, <1>6 DEF ToldAll

\* A new run is told what the last was, and what it said.
LEMMA ToldRun ==
    ASSUME NEW rs \in Seq(RunType), rs # <<>>, NEW tier, ToldAll(rs), NEW saw,
           saw = rs[Len(rs)].saw \o Refusals(rs[Len(rs)].said)
    PROVE  ToldAll(Append(rs, Run(tier, saw)))
<1>1. PICK f, out, n : f = Run(tier, saw) /\ out = Append(rs, f) /\ n = Len(rs)
  OBVIOUS
<1>2. f.saw = saw
  BY <1>1 DEF Run
<1>3. n \in Nat /\ n \in 1 .. n /\ Len(out) = n + 1 /\ out[n + 1] = f /\ \A r \in 1 .. n : out[r] = rs[r]
  BY <1>1
<1>4. /\ rs[1].saw = <<>>
      /\ \A r \in 2 .. n : rs[r].saw = rs[r - 1].saw \o Refusals(rs[r - 1].said)
  BY <1>1 DEF ToldAll
<1>5. ASSUME NEW r \in 2 .. n + 1
      PROVE  out[r].saw = out[r - 1].saw \o Refusals(out[r - 1].said)
  <2>1. CASE r = n + 1
    <3>1. r - 1 = n
      BY <1>3, <2>1
    <3>2. out[n].saw = rs[n].saw /\ out[n].said = rs[n].said /\ out[n + 1].saw = saw
      BY <1>2, <1>3
    <3> QED BY <1>1, <2>1, <3>1, <3>2
  <2>2. CASE r # n + 1
    <3>1. r \in 2 .. n /\ r \in 1 .. n /\ r - 1 \in 1 .. n
      BY <1>3, <2>2
    <3>2. out[r] = rs[r] /\ out[r - 1] = rs[r - 1]
      BY <1>3, <3>1
    <3> QED BY <1>4, <3>1, <3>2
  <2> QED BY <2>1, <2>2
<1>6. out[1].saw = <<>>
  <2>1. 1 \in 1 .. n
    BY <1>3
  <2> QED BY <1>3, <1>4, <2>1
<1>7. Len(out) = n + 1
  BY <1>3
<1> QED BY <1>1, <1>5, <1>6, <1>7 DEF ToldAll

\* Nothing that matters is said.
SameSaid(rs, out) ==
    /\ out \in Seq(RunType) /\ Len(out) = Len(rs)
    /\ \A r \in 1 .. Len(rs) :
          out[r].saw = rs[r].saw /\ out[r].said = rs[r].said /\ out[r].tier = rs[r].tier

\* A run in another phase has said what it said.
LEMMA PhaseIs ==
    ASSUME NEW rs \in Seq(RunType), rs # <<>>, NEW p \in {"spawned", "open", "failed", "over"}
    PROVE  SameSaid(rs, [rs EXCEPT ![Len(rs)].phase = p])
<1>1. PICK n, g : n = Len(rs) /\ g = rs[n]
  OBVIOUS
<1>2. n \in Nat /\ n # 0 /\ n \in 1 .. Len(rs)
  BY <1>1
<1>3. g \in RunType
  BY <1>1, <1>2
<1>4. PICK f : f = [g EXCEPT !.phase = p]
  OBVIOUS
<1>5. f = [tier |-> g.tier, saw |-> g.saw, phase |-> p, said |-> g.said]
  BY <1>3, <1>4 DEF RunType
<1>6. f \in RunType /\ f.saw = g.saw /\ f.tier = g.tier /\ f.said = g.said
  BY <1>3, <1>5 DEF RunType
<1>7. PICK out : out = [rs EXCEPT ![n] = f]
  OBVIOUS
<1>8. /\ out \in Seq(RunType) /\ Len(out) = Len(rs) /\ out[n] = f
      /\ \A r \in 1 .. Len(rs) : r # n => out[r] = rs[r]
  BY <1>2, <1>6, <1>7
<1>9. SameSaid(rs, out)
  BY <1>1, <1>6, <1>8 DEF SameSaid
<1>10. out = [rs EXCEPT ![Len(rs)].phase = p]
  BY <1>1, <1>2, <1>4, <1>7
<1> QED BY <1>9, <1>10

\* What is promised of the runs is promised of what they were told and said.
LEMMA SameSaidKeeps ==
    ASSUME NEW rs \in Seq(RunType), rs # <<>>, NEW out, SameSaid(rs, out), NEW gs
    PROVE  /\ Handed(rs, gs) => Handed(out, gs)
           /\ ToldAll(rs) => ToldAll(out)
<1>1. PICK n : n = Len(rs) /\ n \in Nat /\ n \in 1 .. n
  <2>1. Len(rs) \in Nat /\ Len(rs) \in 1 .. Len(rs)
    OBVIOUS
  <2> QED BY <2>1
<1>2. /\ Len(out) = n
      /\ \A r \in 1 .. n : out[r].saw = rs[r].saw /\ out[r].said = rs[r].said
  BY <1>1 DEF SameSaid
<1>3. ASSUME Handed(rs, gs)
      PROVE  Handed(out, gs)
  <2>1. \A r \in Nat \ {0} : Only(gs, OfRun(r)) =
            IF r \in 1 .. n THEN Tagged(r, Accepted(rs[r].said)) ELSE <<>>
    BY <1>1, <1>3 DEF Handed
  <2>2. \A r \in Nat \ {0} : Only(gs, OfRun(r)) =
            IF r \in 1 .. n THEN Tagged(r, Accepted(out[r].said)) ELSE <<>>
    BY <1>2, <2>1
  <2>3. Len(out) = n
    BY <1>2
  <2> QED BY <2>2, <2>3 DEF Handed
<1>4. ASSUME ToldAll(rs)
      PROVE  ToldAll(out)
  <2>1. rs[1].saw = <<>> /\ \A r \in 2 .. n : rs[r].saw = rs[r - 1].saw \o Refusals(rs[r - 1].said)
    BY <1>1, <1>4 DEF ToldAll
  <2>2. out[1].saw = <<>>
    BY <1>1, <1>2, <2>1
  <2>3. ASSUME NEW r \in 2 .. n
        PROVE  out[r].saw = out[r - 1].saw \o Refusals(out[r - 1].said)
    <3>1. r \in 1 .. n /\ r - 1 \in 1 .. n
      BY <1>1
    <3>2. out[r].saw = rs[r].saw /\ out[r - 1].saw = rs[r - 1].saw /\ out[r - 1].said = rs[r - 1].said
      BY <1>2, <3>1
    <3> QED BY <2>1, <3>2
  <2>4. Len(out) = n
    BY <1>2
  <2> QED BY <2>2, <2>3, <2>4 DEF ToldAll
<1> QED BY <1>3, <1>4

\* The stream goes on, or ends, and no block is handed over.
LEMMA GoesOnQuietly ==
    ASSUME SpeculationInv, runs # <<>>, SameSaid(runs, runs'),
           UNCHANGED <<working, swaps>>,
           got' = got \/ got' = Append(got, [run |-> Len(runs), block |-> TierFailed]),
           draft' \in DraftType, draft'.left = draft.left,
           draft'.state = draft.state \/ draft'.state = "done"
    PROVE  SpeculationInv'
<1>1. /\ draft \in DraftType /\ working \in Seq(Said) /\ runs \in Seq(RunType)
      /\ got \in Seq(GotType) /\ swaps \in Seq({"fallback_validation", "latency_threshold"})
      /\ draft.state = "routed" => runs[1].tier = "slow"
      /\ draft.state # "idle"
  BY DEF SpeculationInv, SpeculationShape
<1>2. /\ runs' \in Seq(RunType) /\ Len(runs') = Len(runs) /\ Len(runs) \in Nat /\ Len(runs) \in 1 .. Len(runs)
      /\ 1 \in 1 .. Len(runs) /\ runs' # <<>>
      /\ \A r \in 1 .. Len(runs) : /\ runs'[r].saw = runs[r].saw /\ runs'[r].said = runs[r].said
                                   /\ runs'[r].tier = runs[r].tier
  BY <1>1 DEF SameSaid
<1>3. PICK e : e = [run |-> Len(runs), block |-> TierFailed]
  OBVIOUS
<1>4. e \in GotType /\ e.block = TierFailed
  BY <1>2, <1>3 DEF GotType
<1>5. got' \in Seq(GotType)
  <2>1. PICK gs : gs = got
    OBVIOUS
  <2>2. gs \in Seq(GotType)
    BY <1>1, <2>1
  <2>3. Append(gs, e) \in Seq(GotType)
    BY <1>4, <2>2
  <2> QED BY <1>3, <2>1, <2>2, <2>3
<1>6. SpeculationShape'
  BY <1>1, <1>2, <1>5 DEF SpeculationShape
<1>7. ASSUME Drafted'
      PROVE  /\ Handed(runs', got') /\ InOrder(Len(runs'), got') /\ ToldAll(runs')
             /\ Spent' /\ Heeded'
  <2>1. Drafted
    BY <1>2, <1>7 DEF Drafted
  <2>2. Handed(runs, got) /\ InOrder(Len(runs), got) /\ ToldAll(runs) /\ Spent /\ Heeded
    BY <2>1 DEF SpeculationInv, DraftKeeps
  <2>3. Handed(runs', got) /\ ToldAll(runs')
    BY <1>1, <2>2, SameSaidKeeps
  <2>4. Handed(runs', got')
    BY <1>1, <1>2, <2>3, HandedError
  <2>5. InOrder(Len(runs'), got')
    <3>1. InOrder(Len(runs), got')
      BY <1>1, <1>2, <2>2, InOrderAppends
    <3> QED BY <1>2, <3>1
  <2>6. Spent'
    <3>1. draft.state # "done" \/ draft'.state = "done"
      OBVIOUS
    <3>2. draft'.state = "drafting" => draft.state = "drafting"
      OBVIOUS
    <3> QED BY <1>2, <2>2, <3>1, <3>2 DEF Spent
  <2>7. Heeded'
    <3>1. CASE runs[Len(runs)].saw \o Refusals(runs[Len(runs)].said) = working
      BY <1>2, <3>1 DEF Heeded
    <3>2. CASE draft.state = "done" /\ got # <<>> /\ got[Len(got)].block = TierFailed
      <4>1. draft'.state = "done"
        BY <3>2
      <4>2. CASE got' = got
        BY <3>2, <4>1, <4>2 DEF Heeded
      <4>3. CASE got' = Append(got, e)
        <5>1. got' # <<>> /\ got'[Len(got')] = e
          BY <1>1, <4>3
        <5> QED BY <1>4, <4>1, <5>1 DEF Heeded
      <4> QED BY <1>3, <4>2, <4>3
    <3> QED BY <2>2, <3>1, <3>2 DEF Heeded
  <2> QED BY <2>3, <2>4, <2>5, <2>6, <2>7
<1> QED BY <1>6, <1>7 DEF SpeculationInv, DraftKeeps

\* A tier that answers, or fails to, changes no word of the turn.
LEMMA ResolveKeeps ==
    ASSUME SpeculationInv, NEW p \in {"open", "failed"}, Resolve(p)
    PROVE  SpeculationInv'
<1>1. /\ runs' = [runs EXCEPT ![Len(runs)].phase = p] /\ UNCHANGED <<draft, working, got, swaps>>
      /\ draft.state \in {"drafting", "slow", "routed"}
  BY DEF Resolve, Serving, Current
<1>2. runs \in Seq(RunType) /\ runs # <<>> /\ draft \in DraftType
  BY <1>1 DEF SpeculationInv, SpeculationShape
<1>3. SameSaid(runs, runs')
  BY <1>1, <1>2, PhaseIs
<1> QED BY <1>1, <1>2, <1>3, GoesOnQuietly

\* The clock changes no word of the turn.
LEMMA TimePassesKeeps ==
    ASSUME SpeculationInv, TimePasses
    PROVE  SpeculationInv'
<1>1. /\ draft' = [draft EXCEPT !.late = TRUE] /\ draft.state = "drafting"
      /\ UNCHANGED <<working, runs, got, swaps>>
  BY DEF TimePasses
<1>2. runs \in Seq(RunType) /\ runs # <<>> /\ draft \in DraftType
  BY <1>1 DEF SpeculationInv, SpeculationShape
<1>3. draft' \in DraftType /\ draft'.left = draft.left /\ draft'.state = draft.state
  BY <1>1, <1>2 DEF DraftType
<1>4. SameSaid(runs, runs')
  BY <1>1, <1>2 DEF SameSaid
<1> QED BY <1>1, <1>2, <1>3, <1>4, GoesOnQuietly

\* An error of a tier is handed over beside its blocks.
LEMMA TierErrorKeeps ==
    ASSUME SpeculationInv, TierError
    PROVE  SpeculationInv'
<1>1. /\ runs' = runs \/ runs' = [runs EXCEPT ![Len(runs)].phase = "over"]
      /\ draft.state \in {"drafting", "slow", "routed"}
      /\ got' = Append(got, [run |-> Len(runs), block |-> TierFailed])
      /\ UNCHANGED <<draft, working, swaps>>
  BY DEF TierError, Serving, Current, Hand
<1>2. runs \in Seq(RunType) /\ runs # <<>> /\ draft \in DraftType
  BY <1>1 DEF SpeculationInv, SpeculationShape
<1>3. SameSaid(runs, runs)
  BY <1>2 DEF SameSaid
<1>4. SameSaid(runs, runs')
  BY <1>1, <1>2, <1>3, PhaseIs
<1> QED BY <1>1, <1>2, <1>4, GoesOnQuietly

\* The end of a tier's stream is the end of the turn.
LEMMA TierEndKeeps ==
    ASSUME SpeculationInv, TierEnd
    PROVE  SpeculationInv'
<1>1. /\ runs' = [runs EXCEPT ![Len(runs)].phase = "over"]
      /\ draft.state \in {"drafting", "slow", "routed"}
      /\ draft' = [draft EXCEPT !.state = "done"]
      /\ UNCHANGED <<working, got, swaps>>
  BY DEF TierEnd, Serving, Current
<1>2. runs \in Seq(RunType) /\ runs # <<>> /\ draft \in DraftType
  BY <1>1 DEF SpeculationInv, SpeculationShape
<1>3. SameSaid(runs, runs')
  BY <1>1, <1>2, PhaseIs
<1>4. draft' \in DraftType /\ draft'.left = draft.left /\ draft'.state = "done"
  BY <1>1, <1>2 DEF DraftType
<1> QED BY <1>1, <1>2, <1>3, <1>4, GoesOnQuietly

\* A draft begins with nothing refused.
LEMMA ExecuteTurnKeeps ==
    ASSUME SpeculationInv, ExecuteTurn
    PROVE  SpeculationInv'
<1>1. /\ draft.state = "idle" /\ UNCHANGED <<working, swaps>>
      /\ \E tier \in {"fast", "slow"} :
            Executed(tier, working, IF tier = "fast" THEN "drafting" ELSE "routed", draft.left)
  BY DEF ExecuteTurn
<1>2. /\ runs = <<>> /\ got = <<>> /\ swaps = <<>> /\ working = <<>>
      /\ draft.left = FallbackAttempts /\ draft \in DraftType
  BY <1>1 DEF SpeculationInv, SpeculationShape
<1>3. PICK tier \in {"fast", "slow"} :
            Executed(tier, working, IF tier = "fast" THEN "drafting" ELSE "routed", draft.left)
  BY <1>1
<1>4. draft.left \in Nat /\ draft.late \in BOOLEAN
  BY <1>2 DEF DraftType
<1>5. PICK e : e = <<>> /\ e \in Seq(RunType) /\ e \in Seq(GotType) /\ e \in Seq(Said)
               /\ e \in Seq({"fallback_validation", "latency_threshold"}) /\ Len(e) = 0
  <2>1. <<>> \in Seq(RunType) /\ <<>> \in Seq(GotType) /\ <<>> \in Seq(Said)
        /\ <<>> \in Seq({"fallback_validation", "latency_threshold"}) /\ Len(<<>>) = 0
    OBVIOUS
  <2> QED BY <2>1
<1>6. working' = e /\ swaps' = e
  BY <1>1, <1>2, <1>5
<1>7. CASE /\ runs' = Append(runs, Run(tier, working)) /\ got' = got
           /\ draft' = Turn(IF tier = "fast" THEN "drafting" ELSE "routed", draft.left, draft.late)
  <2>1. PICK f : f = Run(tier, e)
    OBVIOUS
  <2>2. f \in RunType /\ f.said = e /\ f.saw = e /\ f.tier = tier
    BY <1>5, <2>1 DEF Run, RunType
  <2>3. runs' = Append(e, f)
    BY <1>2, <1>5, <1>7, <2>1
  <2>4. runs' \in Seq(RunType) /\ Len(runs') = 1 /\ runs'[1] = f /\ runs' # <<>>
    BY <1>5, <2>2, <2>3
  <2>5. /\ draft' \in DraftType /\ draft'.left = FallbackAttempts
        /\ draft'.state = IF tier = "fast" THEN "drafting" ELSE "routed"
    BY <1>2, <1>4, <1>7 DEF Turn, DraftType
  <2>6. got' = e
    BY <1>2, <1>5, <1>7
  <2>7. SpeculationShape'
    <3>1. draft'.state \in {"drafting", "routed"}
      BY <2>5
    <3>2. draft'.state = "routed" => runs'[1].tier = "slow"
      BY <2>2, <2>4, <2>5
    <3> QED BY <1>5, <1>6, <2>4, <2>5, <2>6, <3>1, <3>2 DEF SpeculationShape
  <2>8. Handed(runs', got')
    <3>1. \A r : Only(e, OfRun(r)) = <<>>
      BY <1>5, OnlyOfNone
    <3>2. Handed(e, e)
      BY <1>5, <3>1 DEF Handed
    <3> QED BY <1>5, <2>1, <2>3, <2>6, <3>2, HandedRun
  <2>9. InOrder(Len(runs'), got')
    BY <1>5, <2>6 DEF InOrder
  <2>10. ToldAll(runs')
    BY <1>5, <2>2, <2>4 DEF ToldAll
  <2>11. Spent'
    BY <1>5, <1>6, <2>4, <2>5, SpeculationAssumption DEF Spent
  <2>12. Heeded'
    <3>1. Refusals(<<>>) = <<>>
      BY OnlyOfNone DEF Refusals
    <3>2. <<>> \o <<>> = <<>>
      OBVIOUS
    <3> QED BY <1>5, <1>6, <2>2, <2>4, <3>1, <3>2 DEF Heeded
  <2> QED BY <2>7, <2>8, <2>9, <2>10, <2>11, <2>12 DEF SpeculationInv, DraftKeeps
<1>8. CASE /\ draft' = Turn("done", draft.left, draft.late) /\ Hand(TierFailed) /\ runs' = runs
  <2>1. draft' \in DraftType /\ draft'.state = "done"
    BY <1>4, <1>8 DEF Turn, DraftType
  <2>2. got' \in Seq(GotType)
    <3>1. PICK g : g = [run |-> 0, block |-> TierFailed]
      OBVIOUS
    <3>2. g \in GotType
      BY <3>1 DEF GotType
    <3>3. Append(e, g) \in Seq(GotType)
      BY <1>5, <3>2
    <3> QED BY <1>2, <1>5, <1>8, <3>1, <3>3 DEF Hand, Current
  <2>3. runs' = e
    BY <1>2, <1>5, <1>8
  <2>4. SpeculationShape'
    BY <1>5, <1>6, <2>1, <2>2, <2>3 DEF SpeculationShape
  <2>5. ~ Drafted'
    BY <1>5, <2>3 DEF Drafted
  <2> QED BY <2>4, <2>5 DEF SpeculationInv, DraftKeeps
<1> QED BY <1>3, <1>7, <1>8 DEF Executed

\* A block that is not validated, or that is let through.
LEMMA TierBlockKeeps ==
    ASSUME SpeculationInv, NEW b \in Said, TierBlock(b)
    PROVE  SpeculationInv'
<1>1. /\ draft.state \in {"drafting", "slow", "routed"} /\ (draft.state = "routed" \/ b.valid)
      /\ runs' = SaysMore(runs, b) /\ got' = Append(got, [run |-> Len(runs), block |-> b])
      /\ UNCHANGED <<draft, working, swaps>>
  BY DEF TierBlock, Serving, With, Hand, Current, SaysMore
<1>2. /\ draft \in DraftType /\ working \in Seq(Said) /\ runs \in Seq(RunType) /\ runs # <<>>
      /\ got \in Seq(GotType) /\ swaps \in Seq({"fallback_validation", "latency_threshold"})
      /\ draft.state = "routed" => runs[1].tier = "slow"
  BY <1>1 DEF SpeculationInv, SpeculationShape
<1>3. /\ runs' \in Seq(RunType) /\ Len(runs') = Len(runs) /\ Len(runs) \in 1 .. Len(runs)
      /\ \A r \in 1 .. Len(runs) : runs'[r].saw = runs[r].saw /\ runs'[r].tier = runs[r].tier
      /\ runs[Len(runs)].said \in Seq(Said)
  BY <1>1, <1>2, SaysMoreIs
<1>4. runs'[Len(runs)].said = Append(runs[Len(runs)].said, b)
  BY <1>1, <1>2, SaysMoreIs
<1>5. runs' # <<>> /\ 1 \in 1 .. Len(runs) /\ Len(runs) \in Nat
  BY <1>2, <1>3
<1>6. got' \in Seq(GotType)
  <2>1. PICK gs, e : gs = got /\ e = [run |-> Len(runs), block |-> b]
    OBVIOUS
  <2>2. gs \in Seq(GotType) /\ e \in GotType
    BY <1>2, <1>5, <2>1 DEF GotType
  <2>3. Append(gs, e) \in Seq(GotType)
    BY <2>2
  <2> QED BY <1>1, <2>1, <2>3
<1>7. SpeculationShape'
  BY <1>1, <1>2, <1>3, <1>5, <1>6 DEF SpeculationShape
<1>8. ASSUME Drafted'
      PROVE  /\ Handed(runs', got') /\ InOrder(Len(runs'), got') /\ ToldAll(runs')
             /\ Spent' /\ Heeded'
  <2>1. Drafted /\ b.valid
    BY <1>1, <1>2, <1>3, <1>5, <1>8 DEF Drafted
  <2>2. Handed(runs, got) /\ InOrder(Len(runs), got) /\ ToldAll(runs) /\ Spent /\ Heeded
    BY <2>1 DEF SpeculationInv, DraftKeeps
  <2>3. Handed(runs', got')
    BY <1>1, <1>2, <2>1, <2>2, HandedBlock
  <2>4. ToldAll(runs')
    BY <1>1, <1>2, <2>2, ToldMore
  <2>5. InOrder(Len(runs'), got')
    <3>1. InOrder(Len(runs), got')
      BY <1>1, <1>2, <1>5, <2>2, InOrderAppends
    <3> QED BY <1>3, <3>1
  <2>6. Spent'
    BY <1>1, <1>3, <2>2 DEF Spent
  <2>7. Heeded'
    <3>1. runs[Len(runs)].saw \o Refusals(runs[Len(runs)].said) = working
      BY <1>1, <2>2 DEF Heeded
    <3>2. Refusals(runs'[Len(runs)].said) = Refusals(runs[Len(runs)].said)
      BY <1>3, <1>4, <2>1, Judged
    <3>3. runs'[Len(runs)].saw = runs[Len(runs)].saw
      BY <1>3
    <3> QED BY <1>1, <1>3, <3>1, <3>2, <3>3 DEF Heeded
  <2> QED BY <2>3, <2>4, <2>5, <2>6, <2>7
<1> QED BY <1>7, <1>8 DEF SpeculationInv, DraftKeeps

\* A new run of the slow tier, told of everything, for a reason.
LEMMA AnotherRun ==
    ASSUME SpeculationInv, runs # <<>>, draft.state # "done",
           NEW mid \in Seq(RunType), Len(mid) = Len(runs), mid[1].tier = runs[1].tier,
           working' \in Seq(Said), NEW reason \in {"fallback_validation", "latency_threshold"},
           swaps' = Append(swaps, reason), got' = got, draft' \in DraftType,
           runs' = Append(mid, Run("slow", working')), draft'.state = "slow",
           draft.state = "drafting" \/ draft'.left + 1 = draft.left, draft'.left <= draft.left,
           Drafted => /\ Handed(mid, got) /\ ToldAll(mid)
                      /\ mid[Len(mid)].saw \o Refusals(mid[Len(mid)].said) = working'
    PROVE  SpeculationInv'
<1>1. /\ draft \in DraftType /\ got \in Seq(GotType)
      /\ swaps \in Seq({"fallback_validation", "latency_threshold"})
      /\ runs \in Seq(RunType)
  BY DEF SpeculationInv, SpeculationShape
<1>2. PICK n, f : n = Len(runs) /\ f = Run("slow", working')
  OBVIOUS
<1>3. n \in Nat /\ n # 0 /\ mid # <<>> /\ Len(mid) = n
  BY <1>1, <1>2
<1>4. f \in RunType /\ f.said = <<>> /\ f.saw = working'
  BY <1>2 DEF Run, RunType
<1>5. /\ runs' \in Seq(RunType) /\ Len(runs') = n + 1 /\ runs' # <<>>
      /\ runs'[1] = mid[1] /\ runs'[n + 1] = f
  BY <1>2, <1>3, <1>4
<1>6. swaps' \in Seq({"fallback_validation", "latency_threshold"}) /\ Len(swaps') = Len(swaps) + 1
  <2>1. PICK sw : sw = swaps
    OBVIOUS
  <2>2. /\ Append(sw, reason) \in Seq({"fallback_validation", "latency_threshold"})
        /\ Len(Append(sw, reason)) = Len(sw) + 1
    BY <1>1, <2>1
  <2> QED BY <2>1, <2>2
<1>7. SpeculationShape'
  BY <1>1, <1>5, <1>6 DEF SpeculationShape
<1>8. ASSUME Drafted'
      PROVE  /\ Handed(runs', got') /\ InOrder(Len(runs'), got') /\ ToldAll(runs')
             /\ Spent' /\ Heeded'
  <2>1. Drafted
    BY <1>5, <1>8 DEF Drafted
  <2>2. /\ InOrder(n, got) /\ Spent
        /\ Handed(mid, got) /\ ToldAll(mid)
        /\ mid[Len(mid)].saw \o Refusals(mid[Len(mid)].said) = working'
    BY <1>2, <2>1 DEF SpeculationInv, DraftKeeps
  <2>3. Handed(runs', got')
    BY <2>2, HandedRun
  <2>4. InOrder(Len(runs'), got')
    BY <1>1, <1>3, <1>5, <2>2, InOrderLater
  <2>5. ToldAll(runs')
    <3>1. PICK w : w = working'
      OBVIOUS
    <3>2. w = mid[Len(mid)].saw \o Refusals(mid[Len(mid)].said) /\ runs' = Append(mid, Run("slow", w))
      BY <2>2, <3>1
    <3> QED BY <1>3, <2>2, <3>2, ToldRun
  <2>6. Spent'
    <3>1. PICK left, now, k : left = draft.left /\ now = draft'.left /\ k = Len(swaps)
      OBVIOUS
    <3>2. left \in Nat /\ now \in Nat /\ k \in Nat
      BY <1>1, <3>1 DEF DraftType
    <3>3. /\ k + left <= FallbackAttempts + 1 /\ k = n - 1
          /\ draft.state = "drafting" => k + left <= FallbackAttempts
      BY <1>2, <2>2, <3>1 DEF Spent
    <3>4. k + 1 + now <= FallbackAttempts + 1
      <4>1. CASE draft.state = "drafting"
        BY <3>1, <3>2, <3>3, <4>1, SpeculationAssumption
      <4>2. CASE draft.state # "drafting"
        <5>1. now + 1 = left
          BY <3>1, <4>2
        <5> QED BY <3>2, <3>3, <5>1, SpeculationAssumption
      <4> QED BY <4>1, <4>2
    <3>5. Len(swaps') = k + 1 /\ Len(runs') = n + 1 /\ draft'.left = now
      BY <1>5, <1>6, <3>1
    <3> QED BY <1>3, <3>2, <3>3, <3>4, <3>5 DEF Spent
  <2>7. Heeded'
    <3>1. Refusals(<<>>) = <<>>
      BY OnlyOfNone DEF Refusals
    <3>2. working' \o <<>> = working'
      OBVIOUS
    <3> QED BY <1>4, <1>5, <3>1, <3>2 DEF Heeded
  <2> QED BY <2>3, <2>4, <2>5, <2>6, <2>7
<1> QED BY <1>7, <1>8 DEF SpeculationInv, DraftKeeps

\* The draft ends in an error.
LEMMA GivesUp ==
    ASSUME SpeculationInv, runs # <<>>, draft.state # "done",
           NEW mid \in Seq(RunType), Len(mid) = Len(runs), mid[1].tier = runs[1].tier,
           working' \in Seq(Said),
           swaps' = swaps \/ \E r \in {"fallback_validation", "latency_threshold"} : swaps' = Append(swaps, r),
           got' = Append(got, [run |-> Len(runs), block |-> TierFailed]), draft' \in DraftType,
           runs' = mid, draft'.state = "done",
           Drafted => /\ Handed(mid, got) /\ ToldAll(mid)
                      /\ Len(swaps') + draft'.left <= FallbackAttempts + 1
    PROVE  SpeculationInv'
<1>1. /\ draft \in DraftType /\ got \in Seq(GotType)
      /\ swaps \in Seq({"fallback_validation", "latency_threshold"})
      /\ runs \in Seq(RunType)
  BY DEF SpeculationInv, SpeculationShape
<1>2. PICK n, e : n = Len(runs) /\ e = [run |-> Len(runs), block |-> TierFailed]
  OBVIOUS
<1>3. n \in Nat /\ n # 0 /\ mid # <<>> /\ Len(mid) = n
  BY <1>1, <1>2
<1>4. e \in GotType /\ e.block = TierFailed
  BY <1>2, <1>3 DEF GotType
<1>5. got' \in Seq(GotType) /\ got' # <<>> /\ got'[Len(got')] = e
  <2>1. PICK gs : gs = got
    OBVIOUS
  <2>2. gs \in Seq(GotType)
    BY <1>1, <2>1
  <2>3. Append(gs, e) \in Seq(GotType) /\ Len(Append(gs, e)) = Len(gs) + 1 /\ Len(gs) \in Nat
    BY <1>4, <2>2
  <2>4. Append(gs, e)[Len(gs) + 1] = e
    BY <1>4, <2>2
  <2>5. PICK out : out = Append(gs, e)
    OBVIOUS
  <2>6. out \in Seq(GotType) /\ Len(out) = Len(gs) + 1 /\ out[Len(out)] = e
    BY <2>3, <2>4, <2>5
  <2>7. out # <<>>
    BY <2>3, <2>6
  <2> QED BY <1>2, <2>1, <2>5, <2>6, <2>7
<1>6. /\ swaps' \in Seq({"fallback_validation", "latency_threshold"})
      /\ Len(swaps') \in Nat /\ Len(swaps) \in Nat /\ Len(swaps') >= Len(swaps)
  <2>1. PICK sw : sw = swaps
    OBVIOUS
  <2>2. sw \in Seq({"fallback_validation", "latency_threshold"}) /\ Len(sw) \in Nat
    BY <1>1, <2>1
  <2>3. \A r \in {"fallback_validation", "latency_threshold"} :
           /\ Append(sw, r) \in Seq({"fallback_validation", "latency_threshold"})
           /\ Len(Append(sw, r)) = Len(sw) + 1
    BY <2>2
  <2>4. CASE swaps' = swaps
    BY <2>1, <2>2, <2>4
  <2>5. ASSUME NEW r \in {"fallback_validation", "latency_threshold"}, swaps' = Append(swaps, r)
        PROVE  /\ swaps' \in Seq({"fallback_validation", "latency_threshold"})
               /\ Len(swaps') = Len(sw) + 1
    <3>1. swaps' = Append(sw, r)
      BY <2>1, <2>5
    <3> QED BY <2>3, <3>1
  <2> QED BY <2>1, <2>2, <2>4, <2>5
<1>7. SpeculationShape'
  BY <1>1, <1>3, <1>5, <1>6 DEF SpeculationShape
<1>8. ASSUME Drafted'
      PROVE  /\ Handed(runs', got') /\ InOrder(Len(runs'), got') /\ ToldAll(runs')
             /\ Spent' /\ Heeded'
  <2>1. Drafted
    BY <1>3, <1>8 DEF Drafted
  <2>2. /\ InOrder(n, got) /\ Spent /\ Handed(mid, got) /\ ToldAll(mid)
        /\ Len(swaps') + draft'.left <= FallbackAttempts + 1
    BY <1>2, <2>1 DEF SpeculationInv, DraftKeeps
  <2>3. Handed(runs', got')
    BY <1>1, <1>2, <1>3, <2>2, HandedError
  <2>4. InOrder(Len(runs'), got')
    BY <1>1, <1>2, <1>3, <2>2, InOrderAppends
  <2>5. Spent'
    BY <1>2, <1>3, <1>6, <2>2 DEF Spent
  <2>6. Heeded'
    BY <1>4, <1>5 DEF Heeded
  <2> QED BY <2>2, <2>3, <2>4, <2>5, <2>6
<1> QED BY <1>7, <1>8 DEF SpeculationInv, DraftKeeps

\* One more at the end of the second is one more at the end of both.
LEMMA ConcatOne ==
    ASSUME NEW S, NEW s \in Seq(S), NEW t \in Seq(S), NEW x \in S
    PROVE  s \o Append(t, x) = Append(s \o t, x)
  OBVIOUS

\* What a refused block makes of its run, and of what it has refused.
LEMMA RefusedBlock ==
    ASSUME SpeculationInv, NEW b \in Said, TierRejected(b)
    PROVE  /\ SaysMore(runs, b) \in Seq(RunType) /\ Len(SaysMore(runs, b)) = Len(runs)
           /\ SaysMore(runs, b)[1].tier = runs[1].tier
           /\ runs # <<>> /\ draft.state # "done" /\ draft \in DraftType /\ working \in Seq(Said)
           /\ Append(working, b) \in Seq(Said)
           /\ Drafted => /\ Handed(SaysMore(runs, b), got) /\ ToldAll(SaysMore(runs, b))
                         /\ SaysMore(runs, b)[Len(runs)].saw
                              \o Refusals(SaysMore(runs, b)[Len(runs)].said) = Append(working, b)
<1>1. draft.state \in {"drafting", "slow"} /\ ~ b.valid
  BY DEF TierRejected
<1>2. /\ draft \in DraftType /\ working \in Seq(Said) /\ runs \in Seq(RunType) /\ runs # <<>>
      /\ got \in Seq(GotType)
  BY <1>1 DEF SpeculationInv, SpeculationShape
<1>3. PICK mid, n : mid = SaysMore(runs, b) /\ n = Len(runs)
  OBVIOUS
<1>4. /\ mid \in Seq(RunType) /\ Len(mid) = n /\ n \in 1 .. n
      /\ \A r \in 1 .. n : mid[r].saw = runs[r].saw /\ mid[r].tier = runs[r].tier
      /\ mid[n].said = Append(runs[n].said, b) /\ runs[n].said \in Seq(Said)
  BY <1>2, <1>3, SaysMoreIs
<1>5. 1 \in 1 .. n /\ n \in Nat
  BY <1>2, <1>3
<1>6. Append(working, b) \in Seq(Said)
  <2>1. PICK w : w = working
    OBVIOUS
  <2>2. w \in Seq(Said)
    BY <1>2, <2>1
  <2>3. Append(w, b) \in Seq(Said)
    BY <2>2
  <2> QED BY <2>1, <2>3
<1>7. ASSUME Drafted
      PROVE  /\ Handed(mid, got) /\ ToldAll(mid)
             /\ mid[n].saw \o Refusals(mid[n].said) = Append(working, b)
  <2>1. Handed(runs, got) /\ ToldAll(runs) /\ Heeded
    BY <1>7 DEF SpeculationInv, DraftKeeps
  <2>2. Handed(mid, got)
    BY <1>1, <1>2, <1>3, <2>1, HandedBlock
  <2>3. ToldAll(mid)
    BY <1>2, <1>3, <2>1, ToldMore
  <2>4. runs[n].saw \o Refusals(runs[n].said) = working
    BY <1>1, <1>3, <2>1 DEF Heeded
  <2>5. Refusals(mid[n].said) = Append(Refusals(runs[n].said), b) /\ Refusals(runs[n].said) \in Seq(Said)
    BY <1>1, <1>4, Judged
  <2>6. mid[n].saw = runs[n].saw
    BY <1>4
  <2>7. runs[n].saw \in Seq(Said)
    <3>1. runs[n] \in RunType
      BY <1>2, <1>3, <1>4
    <3> QED BY <3>1 DEF RunType
  <2>8. PICK s, t : s = runs[n].saw /\ t = Refusals(runs[n].said)
    OBVIOUS
  <2>9. s \in Seq(Said) /\ t \in Seq(Said)
    BY <2>5, <2>7, <2>8
  <2>10. s \o Append(t, b) = Append(s \o t, b)
    BY <2>9, ConcatOne
  <2> QED BY <2>2, <2>3, <2>4, <2>5, <2>6, <2>8, <2>10
<1> QED BY <1>1, <1>2, <1>3, <1>4, <1>5, <1>6, <1>7

\* A refused block leaves its run for another, or ends the turn.
LEMMA TierRejectedKeeps ==
    ASSUME SpeculationInv, NEW b \in Said, TierRejected(b)
    PROVE  SpeculationInv'
<1> DEFINE mid == SaysMore(runs, b)
<1>1. /\ mid \in Seq(RunType) /\ Len(mid) = Len(runs) /\ mid[1].tier = runs[1].tier
      /\ runs # <<>> /\ draft.state # "done" /\ draft \in DraftType
      /\ working \in Seq(Said) /\ Append(working, b) \in Seq(Said)
      /\ Drafted => /\ Handed(mid, got) /\ ToldAll(mid)
                    /\ mid[Len(runs)].saw \o Refusals(mid[Len(runs)].said) = Append(working, b)
  BY RefusedBlock
<1>2. /\ swaps \in Seq({"fallback_validation", "latency_threshold"})
      /\ Drafted => Len(swaps) + draft.left <= FallbackAttempts + 1
  BY DEF SpeculationInv, SpeculationShape, DraftKeeps, Spent
<1>3. draft.left \in Nat /\ draft.late \in BOOLEAN
      /\ draft.state \in {"idle", "drafting", "slow", "routed", "done"}
  BY <1>1 DEF DraftType
<1>4. With(b) = mid
  BY DEF With, SaysMore, Current
<1> HIDE DEF mid
<1>5. CASE /\ draft.left > 0 /\ working' = Append(working, b)
           /\ swaps' = Append(swaps, "fallback_validation")
           /\ runs' = Append(mid, Run("slow", working'))
           /\ draft' = Turn("slow", draft.left - 1, draft.late) /\ got' = got
  <2>1. draft' \in DraftType /\ draft'.state = "slow" /\ draft'.left + 1 = draft.left
        /\ draft'.left <= draft.left
    BY <1>3, <1>5 DEF Turn, DraftType
  <2>2. Drafted => /\ Handed(mid, got) /\ ToldAll(mid)
                   /\ mid[Len(mid)].saw \o Refusals(mid[Len(mid)].said) = working'
    BY <1>1, <1>5
  <2>3. working' \in Seq(Said)
    BY <1>1, <1>5
  <2>4. "fallback_validation" \in {"fallback_validation", "latency_threshold"}
    OBVIOUS
  <2>5. PICK reason \in {"fallback_validation", "latency_threshold"} : swaps' = Append(swaps, reason)
    BY <1>5, <2>4
  <2> QED BY <1>1, <1>5, <2>1, <2>2, <2>3, <2>5, AnotherRun
<1>6. CASE /\ draft.left > 0 /\ working' = Append(working, b)
           /\ swaps' = Append(swaps, "fallback_validation")
           /\ runs' = mid /\ draft' = Turn("done", draft.left - 1, draft.late)
           /\ Hand(TierFailed)
  <2>1. draft' \in DraftType /\ draft'.state = "done" /\ draft'.left + 1 = draft.left
    BY <1>3, <1>6 DEF Turn, DraftType
  <2>2. got' = Append(got, [run |-> Len(runs), block |-> TierFailed])
    BY <1>6 DEF Hand, Current
  <2>3. \E r \in {"fallback_validation", "latency_threshold"} : swaps' = Append(swaps, r)
    BY <1>6
  <2>4. Len(swaps') = Len(swaps) + 1 /\ Len(swaps) \in Nat
    BY <1>2, <1>6
  <2>5. Drafted => Len(swaps') + draft'.left <= FallbackAttempts + 1
    <3>1. PICK k, l, m : k = Len(swaps) /\ l = draft.left /\ m = draft'.left
      OBVIOUS
    <3>2. m \in Nat
      BY <2>1, <3>1 DEF DraftType
    <3> QED BY <1>2, <1>3, <2>1, <2>4, <3>1, <3>2
  <2>6. working' \in Seq(Said)
    BY <1>1, <1>6
  <2>7. runs' = mid
    BY <1>6
  <2> QED BY <1>1, <2>1, <2>2, <2>3, <2>5, <2>6, <2>7, GivesUp
<1>7. CASE /\ runs' = mid /\ draft' = [draft EXCEPT !.state = "done"]
           /\ Hand(TierFailed) /\ working' = working /\ swaps' = swaps
  <2>1. draft' \in DraftType /\ draft'.state = "done" /\ draft'.left = draft.left
    BY <1>1, <1>7 DEF DraftType
  <2>2. got' = Append(got, [run |-> Len(runs), block |-> TierFailed])
    BY <1>7 DEF Hand, Current
  <2>3. Drafted => Len(swaps') + draft'.left <= FallbackAttempts + 1
    BY <1>2, <1>7, <2>1
  <2>4. working' \in Seq(Said) /\ runs' = mid /\ swaps' = swaps
    BY <1>1, <1>7
  <2> QED BY <1>1, <2>1, <2>2, <2>3, <2>4, GivesUp
<1> QED BY <1>4, <1>5, <1>6, <1>7 DEF TierRejected, Rejection

\* A draft that is late is left for the slow tier, or ends the turn.
LEMMA LatencySwapKeeps ==
    ASSUME SpeculationInv, LatencySwap
    PROVE  SpeculationInv'
<1>1. /\ draft.state = "drafting" /\ working' = working
      /\ swaps' = Append(swaps, "latency_threshold")
      /\ Executed("slow", working, "slow", draft.left)
  BY DEF LatencySwap
<1>2. /\ draft \in DraftType /\ working \in Seq(Said) /\ runs \in Seq(RunType) /\ runs # <<>>
      /\ swaps \in Seq({"fallback_validation", "latency_threshold"})
  BY <1>1 DEF SpeculationInv, SpeculationShape
<1>3. Drafted => /\ Handed(runs, got) /\ ToldAll(runs)
                 /\ runs[Len(runs)].saw \o Refusals(runs[Len(runs)].said) = working
                 /\ Len(swaps) + draft.left <= FallbackAttempts
  BY <1>1 DEF SpeculationInv, DraftKeeps, Heeded, Spent
<1>4. draft.left \in Nat /\ draft.late \in BOOLEAN
  BY <1>2 DEF DraftType
<1>5. PICK reason \in {"fallback_validation", "latency_threshold"} : swaps' = Append(swaps, reason)
  BY <1>1
<1>6. working' \in Seq(Said)
  BY <1>1, <1>2
<1>7. CASE /\ runs' = Append(runs, Run("slow", working)) /\ got' = got
           /\ draft' = Turn("slow", draft.left, draft.late)
  <2>1. draft' \in DraftType /\ draft'.state = "slow" /\ draft'.left = draft.left
    BY <1>4, <1>7 DEF Turn, DraftType
  <2>2. draft'.left <= draft.left
    BY <1>4, <2>1
  <2>3. runs' = Append(runs, Run("slow", working'))
    BY <1>1, <1>7
  <2>4. Drafted => /\ Handed(runs, got) /\ ToldAll(runs)
                   /\ runs[Len(runs)].saw \o Refusals(runs[Len(runs)].said) = working'
    BY <1>1, <1>3
  <2>5. draft.state # "done" /\ got' = got
    BY <1>1, <1>7
  <2> QED BY <1>1, <1>2, <1>5, <1>6, <2>1, <2>2, <2>3, <2>4, <2>5, AnotherRun
<1>8. CASE /\ draft' = Turn("done", draft.left, draft.late) /\ Hand(TierFailed) /\ runs' = runs
  <2>1. draft' \in DraftType /\ draft'.state = "done" /\ draft'.left = draft.left
    BY <1>4, <1>8 DEF Turn, DraftType
  <2>2. got' = Append(got, [run |-> Len(runs), block |-> TierFailed])
    BY <1>8 DEF Hand, Current
  <2>3. Len(swaps') = Len(swaps) + 1 /\ Len(swaps) \in Nat
    BY <1>2, <1>5
  <2>4. Drafted => Len(swaps') + draft'.left <= FallbackAttempts + 1
    <3>1. PICK k, l, m : k = Len(swaps) /\ l = draft.left /\ m = Len(swaps')
      OBVIOUS
    <3> QED BY <1>3, <1>4, <2>1, <2>3, <3>1, SpeculationAssumption
  <2>5. Drafted => Handed(runs, got) /\ ToldAll(runs)
    BY <1>3
  <2>6. draft.state # "done" /\ runs' = runs
    BY <1>1, <1>8
  <2> QED BY <1>2, <1>5, <1>6, <2>1, <2>2, <2>4, <2>5, <2>6, GivesUp
<1> QED BY <1>1, <1>7, <1>8 DEF Executed

\* A turn starts with nothing.
LEMMA SpeculationStarts == SpeculationInit => SpeculationInv
<1> SUFFICES ASSUME SpeculationInit PROVE SpeculationInv
  OBVIOUS
<1>1. draft \in DraftType /\ draft.state = "idle" /\ draft.left = FallbackAttempts
  BY SpeculationAssumption DEF SpeculationInit, Turn, DraftType
<1>2. /\ runs = <<>> /\ got = <<>> /\ swaps = <<>> /\ working = <<>>
  BY DEF SpeculationInit
<1>3. runs \in Seq(RunType) /\ got \in Seq(GotType) /\ working \in Seq(Said)
      /\ swaps \in Seq({"fallback_validation", "latency_threshold"})
  BY <1>2
<1>4. ~ Drafted
  BY <1>2 DEF Drafted
<1> QED BY <1>1, <1>2, <1>3, <1>4 DEF SpeculationInv, SpeculationShape, DraftKeeps

\* Every step of a turn keeps the invariant.
LEMMA SpeculationStep == SpeculationInv /\ [SpeculationNext]_speculationVars => SpeculationInv'
<1> SUFFICES ASSUME SpeculationInv, [SpeculationNext]_speculationVars PROVE SpeculationInv'
  OBVIOUS
<1>1. CASE ExecuteTurn
  BY <1>1, ExecuteTurnKeeps
<1>2. CASE TimePasses
  BY <1>2, TimePassesKeeps
<1>3. CASE LatencySwap
  BY <1>3, LatencySwapKeeps
<1>4. CASE TierError
  BY <1>4, TierErrorKeeps
<1>5. CASE TierEnd
  BY <1>5, TierEndKeeps
<1>6. ASSUME NEW p \in {"open", "failed"}, Resolve(p) PROVE SpeculationInv'
  BY <1>6, ResolveKeeps
<1>7. ASSUME NEW b \in Said, TierBlock(b) PROVE SpeculationInv'
  BY <1>7, TierBlockKeeps
<1>8. ASSUME NEW b \in Said, TierRejected(b) PROVE SpeculationInv'
  BY <1>8, TierRejectedKeeps
<1>9. CASE UNCHANGED speculationVars
  BY <1>9 DEF speculationVars, SpeculationInv, SpeculationShape, DraftKeeps, Drafted, Spent, Heeded
<1> QED BY <1>1, <1>2, <1>3, <1>4, <1>5, <1>6, <1>7, <1>8, <1>9 DEF SpeculationNext

\* The invariant says what the orchestrator promises of a drafted turn.
LEMMA SpeculationShows == SpeculationInv => SpeculationKeeps
<1> SUFFICES ASSUME SpeculationInv, Drafted
             PROVE  /\ \A r \in DOMAIN runs :
                          Delivered(r) = [i \in DOMAIN Accepted(runs[r].said) |->
                                             [run |-> r, block |-> Accepted(runs[r].said)[i]]]
                    /\ \A i, j \in DOMAIN got : i < j => got[i].run <= got[j].run
                    /\ runs[1].saw = <<>>
                    /\ \A r \in DOMAIN runs \ {1} : runs[r].saw = RefusedSoFar(r - 1)
                    /\ Len(swaps) <= FallbackAttempts + 1
                    /\ Len(runs) - 1 <= Len(swaps)
                    /\ \/ RefusedSoFar(Current) = working
                       \/ draft.state = "done" /\ got[Len(got)].block = TierFailed
                    /\ draft.state # "done" => Len(swaps) = Len(runs) - 1
  BY DEF SpeculationKeeps
<1>1. /\ Handed(runs, got) /\ InOrder(Len(runs), got) /\ ToldAll(runs) /\ Spent /\ Heeded
      /\ runs \in Seq(RunType) /\ got \in Seq(GotType) /\ draft \in DraftType
      /\ swaps \in Seq({"fallback_validation", "latency_threshold"})
  BY DEF SpeculationInv, SpeculationShape, DraftKeeps
<1>2. DOMAIN runs = 1 .. Len(runs) /\ DOMAIN got = 1 .. Len(got) /\ Len(runs) \in Nat /\ Len(swaps) \in Nat
  BY <1>1
<1>3. ASSUME NEW r \in DOMAIN runs
      PROVE  Delivered(r) = [i \in DOMAIN Accepted(runs[r].said) |->
                                [run |-> r, block |-> Accepted(runs[r].said)[i]]]
  <2>1. r \in Nat \ {0} /\ r \in 1 .. Len(runs)
    BY <1>2
  <2>2. Only(got, OfRun(r)) = Tagged(r, Accepted(runs[r].said))
    BY <1>1, <2>1 DEF Handed
  <2> QED BY <2>2 DEF Delivered, OfRun, Tagged
<1>4. \A i, j \in DOMAIN got : i < j => got[i].run <= got[j].run
  BY <1>1, <1>2 DEF InOrder
<1>5. runs[1].saw = <<>>
  BY <1>1 DEF ToldAll
<1>6. ASSUME NEW r \in DOMAIN runs \ {1}
      PROVE  runs[r].saw = RefusedSoFar(r - 1)
  <2>1. r \in 2 .. Len(runs)
    BY <1>2
  <2> QED BY <1>1, <2>1 DEF ToldAll, RefusedSoFar
<1>7. Len(swaps) <= FallbackAttempts + 1
  <2>1. PICK k, l : k = Len(swaps) /\ l = draft.left
    OBVIOUS
  <2>2. k + l <= FallbackAttempts + 1 /\ k \in Nat /\ l \in Nat
    BY <1>1, <1>2, <2>1 DEF Spent, DraftType
  <2> QED BY <2>1, <2>2, SpeculationAssumption
<1>8. /\ \/ RefusedSoFar(Current) = working
         \/ draft.state = "done" /\ got[Len(got)].block = TierFailed
      /\ Len(runs) - 1 <= Len(swaps)
      /\ draft.state # "done" => Len(swaps) = Len(runs) - 1
  BY <1>1 DEF Heeded, Spent, RefusedSoFar, Current
<1> QED BY <1>3, <1>4, <1>5, <1>6, <1>7, <1>8

\* Whatever the tiers answer and the validator refuses, a drafted turn hands
\* over nothing refused, and no refusal is lost: it is told to every run after
\* it or ends the turn in an error (OrchestratorStream::poll_next).
THEOREM RefusalsAreHeeded == SpeculationSpec => []SpeculationKeeps
<1>1. SpeculationInit => SpeculationInv
  BY SpeculationStarts
<1>2. SpeculationInv /\ [SpeculationNext]_speculationVars => SpeculationInv'
  BY SpeculationStep
<1>3. SpeculationInv => SpeculationKeeps
  BY SpeculationShows
<1> QED BY <1>1, <1>2, <1>3, PTL DEF SpeculationSpec
=============================================================================
