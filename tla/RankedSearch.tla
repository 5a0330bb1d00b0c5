---------------------------- MODULE RankedSearch ----------------------------
(***************************************************************************)
(* One search over a file at rest: the embedding of the query, the four    *)
(* channels with their limits, reciprocal rank fusion, the cut.  What      *)
(* other processes do in between is the matter of KausaMemory.             *)
(*                                                                         *)
(* The file and the query are any: Init and the channels choose them.      *)
(***************************************************************************)
EXTENDS HashEmbedder, FiniteSets, Functions

CONSTANTS
  Episodes,   \* the current episodes of the file: numbers, a newer one is larger
  Wordless,   \* those whose text may have no letter or digit
  Long,       \* the tokens of two characters or more
  Named,      \* the tokens extract_entities finds
  Pool,       \* how many hits a channel may return, 30
  RrfK,       \* rrf_k, 60
  Scale,      \* a common multiple of the denominators rrf_k + rank
  Share,      \* Share[rank] = Scale / (rrf_k + rank)
  Limits,     \* the limits callers ask for
  MaxTokens   \* bound: the longest query

\* Pool is at most half of rrf_k, and in the code exactly that.
ASSUME RankedSearchAssumptions ==
  /\ Episodes \subseteq Nat /\ IsFiniteSet(Episodes)
  /\ Wordless \subseteq Episodes
  /\ {Long, Named} \subseteq SUBSET Tokens
  /\ {Pool, RrfK, Scale} \subseteq Nat \ {0}
  /\ 2 * Pool <= RrfK
  /\ Share \in [0..Pool-1 -> Nat]
  /\ \A r \in 0..Pool-1 : Share[r] * (RrfK + r) = Scale
  /\ Limits \subseteq Int
  /\ MaxTokens \in Nat

VARIABLES
  wordless,   \* the episodes whose text has no letter or digit
  pc,         \* the next step of the search
  query,      \* the tokens of the query
  limit,      \* how many results the caller wants
  own,        \* the episodes of the namespace that is searched
  lists,      \* lists[ch]: the hits of channel ch, best first
  answer      \* the ids returned, best first

vars == <<rest, vec, wordless, pc, query, limit, own, lists, answer>>

Channels == {"vector", "keyword", "graph", "temporal"}

\* DEFAULT_WEIGHTS, in tenths.
Weight == [vector |-> 10, keyword |-> 10, graph |-> 7, temporal |-> 5]

\* The lists without repetition of n members of S.
Lists(S, n) == {s \in [1..n -> S] : IsInjective(s)}

\* What a query ordered by some rank and limited to the pool may return.
Hits(S) == UNION {Lists(S, n) : n \in 0..Pool}

Init ==
  /\ query \in UNION {[1..n -> Tokens] : n \in 0..MaxTokens}
  /\ EmbedInit(query)
  /\ pc = "embed"
  /\ wordless \in SUBSET Wordless
  /\ limit \in Limits
  /\ own \in SUBSET Episodes
  /\ lists = [ch \in Channels |-> << >>]
  /\ answer = << >>

Embed ==
  /\ pc = "embed"
  /\ IF rest = << >> THEN pc' = "vector" /\ UNCHANGED <<rest, vec>> ELSE AddToken /\ UNCHANGED pc
  /\ UNCHANGED <<wordless, query, limit, own, lists, answer>>

\* Channel ch returns found, next is step to.
Return(ch, found, to) ==
  /\ lists' = [lists EXCEPT ![ch] = found]
  /\ pc' = to
  /\ UNCHANGED <<rest, vec, wordless, query, limit, own, answer>>

Smaller(m, n) == IF m < n THEN m ELSE n

\* knn: the nearest vectors of the whole file, however near.
Nearest == {near \in SUBSET Episodes : Cardinality(near) = Smaller(Pool, Cardinality(Episodes))}

\* A cosine distance to or from the zero vector is NULL, and float(None) raises.
KnnRaises(near) == near # {} /\ (vec = ZeroVector \/ near \cap wordless # {})

\* Slip: the hits of other namespaces stay in the list.
VectorUnfiltered ==
  /\ pc = "vector"
  /\ \E near \in Nearest : \E hits \in Lists(near, Cardinality(near)) :
       Return("vector", hits, "keyword")

\* _vector: knn, then _filter_ns_valid, which keeps the order.
VectorChannel ==
  /\ pc = "vector"
  /\ \E near \in Nearest :
       IF KnnRaises(near)
       THEN pc' = "raised" /\ UNCHANGED <<rest, vec, wordless, query, limit, own, lists, answer>>
       ELSE \E hits \in Lists(near \cap own, Cardinality(near \cap own)) :
              Return("vector", hits, "keyword")

\* _keyword: no token of two characters, or an error of FTS5, is no hit.
KeywordChannel ==
  /\ pc = "keyword"
  /\ \E hits \in Hits(own) :
       /\ Range(query) \cap Long = {} => hits = << >>
       /\ Return("keyword", hits, "graph")

GraphChannel ==
  /\ pc = "graph"
  /\ \E hits \in Hits(own) :
       /\ Range(query) \cap Named = {} => hits = << >>
       /\ Return("graph", hits, "temporal")

\* Slip: only what the other channels found is listed by age.
TemporalOfFound ==
  /\ pc = "temporal"
  /\ \E hits \in Lists(UNION {Range(lists[ch]) : ch \in Channels},
                        Cardinality(UNION {Range(lists[ch]) : ch \in Channels})) :
       /\ \A i, j \in DOMAIN hits : i < j => hits[j] < hits[i]
       /\ Return("temporal", SubSeq(hits, 1, Smaller(Pool, Len(hits))), "fuse")

\* _temporal: the newest first.
TemporalChannel ==
  /\ pc = "temporal"
  /\ \E hits \in Lists(own, Smaller(Pool, Cardinality(own))) :
       /\ \A i, j \in DOMAIN hits : i < j => hits[j] < hits[i]
       /\ \A e \in own \ Range(hits), f \in Range(hits) : e < f
       /\ Return("temporal", hits, "fuse")

-----------------------------------------------------------------------------
(* The fusion. *)

\* Slip: every place counts like the first.
PointsUnranked(ch, e) == IF e \in Range(lists[ch]) THEN Weight[ch] * Share[0] ELSE 0

\* What channel ch adds to the score of episode e: weight / (rrf_k + rank).
Points(ch, e) ==
  IF e \in Range(lists[ch])
  THEN Weight[ch] * Share[(CHOOSE i \in DOMAIN lists[ch] : lists[ch][i] = e) - 1]
  ELSE 0

\* Slip: the last channel's points replace the others'.
ScoreLast(e) ==
  IF e \in Range(lists["temporal"]) THEN Points("temporal", e)
  ELSE Points("vector", e) + Points("keyword", e) + Points("graph", e)

Score(e) ==
  Points("vector", e) + Points("keyword", e) + Points("graph", e) + Points("temporal", e)

Found == UNION {Range(lists[ch]) : ch \in Channels}

\* The slice [:n] of a Python list; a negative n counts from the end.
Cut(s, n) ==
  IF n >= 0 THEN SubSeq(s, 1, Smaller(n, Len(s))) ELSE SubSeq(s, 1, Len(s) + n)

\* Episodes of one score come in any order: theirs depends on the rounding of floats.
Rank ==
  /\ pc = "fuse"
  /\ \E order \in Lists(Found, Cardinality(Found)) :
       /\ \A i, j \in DOMAIN order : i < j => Score(order[i]) >= Score(order[j])
       /\ answer' = Cut(order, limit)
  /\ pc' = "done"
  /\ UNCHANGED <<rest, vec, wordless, query, limit, own, lists>>

Next ==
  Embed \/ VectorChannel \/ KeywordChannel \/ GraphChannel \/ TemporalChannel \/ Rank

Spec == Init /\ [][Next]_vars

-----------------------------------------------------------------------------
(* Properties. *)

\* In an answer, f does not come unless e has come before.
Above(e, f) == \A j \in DOMAIN answer : answer[j] = f => \E i \in 1..j-1 : answer[i] = e

ChannelsOf(e) == {ch \in Channels : e \in Range(lists[ch])}

\* "Items that rank well in several channels rise to the top": whatever two channels find,
\* one of them by meaning or by word, comes before whatever a single channel finds, even at
\* the bottom of both lists and the top of the one. rrf_k = 60 and pool = 30 just allow it.
SeveralChannelsRise ==
  pc = "done" =>
    \A e, f \in Found :
      (/\ ChannelsOf(e) \cap {"vector", "keyword"} # {}
       /\ Cardinality(ChannelsOf(e)) >= 2
       /\ Cardinality(ChannelsOf(f)) = 1) => Above(e, f)

\* No weighting puts an episode behind one that it beats in every channel.
BetterComesFirst ==
  pc = "done" =>
    \A e, f \in Found :
      (e # f /\ \A ch \in ChannelsOf(f) :
         \E i, j \in DOMAIN lists[ch] : i < j /\ lists[ch][i] = e /\ lists[ch][j] = f)
        => Above(e, f)

\* Episodes of other namespaces may fill the pool of the vector channel, but hide nothing:
\* short of its limit, an answer leaves out an episode only of a namespace larger than the pool.
NothingHidden ==
  (pc = "done" /\ limit >= 0 /\ Len(answer) < limit) =>
    (own \subseteq Range(answer) \/ Cardinality(own) > Pool)

\* A search raises only if the query, or an episode near it, has no word at all: tokens whose
\* hashes meet in one coordinate never cancel.
RaisesOnlyOnWordless ==
  pc = "raised" => (query = << >> \/ wordless # {})

TypeOK ==
  /\ rest \in Seq(Tokens) /\ query \in Seq(Tokens)
  /\ vec \in [Coordinates -> Int]
  /\ pc \in {"embed", "vector", "keyword", "graph", "temporal", "fuse", "done", "raised"}
  /\ limit \in Limits
  /\ own \subseteq Episodes /\ wordless \subseteq Wordless
  /\ lists \in [Channels -> Hits(own)]
  /\ Range(answer) \subseteq own

=============================================================================
