------------------------- MODULE RankedSearchProofs -------------------------
(***************************************************************************)
(* The ranking, proved for every pool, every rrf_k at least twice as large *)
(* and every file: what several channels find comes first, nothing is      *)
(* hidden, and the hashing embedder never cancels a text out.              *)
(***************************************************************************)
EXTENDS RankedSearch, FiniteSetTheorems, TLAPS

-----------------------------------------------------------------------------
(* The embedder. *)

Odd(i) == (i \div 2) % 2 = 1

\* Bit 1 of a hash is bit 1 of the coordinate it falls into, as Dim is a multiple of four.
LEMMA SignOfIndex ==
  ASSUME NEW h \in Nat
  PROVE  Index(h) \in Coordinates /\ (Odd(h) <=> Odd(Index(h)))
<1> DEFINE k == Dim \div 4
           q == h \div Dim
           i == h % Dim
<1>1. Dim \in Nat \ {0} /\ k \in Nat /\ Dim = 4 * k
  BY HashEmbedderAssumptions
<1>2. q \in Nat /\ i \in 0 .. Dim - 1 /\ h = Dim * q + i
  BY <1>1
<1>3. k * q \in Nat
  BY <1>1, <1>2
<1>4. Dim * q = 4 * (k * q)
  BY <1>1, <1>2
<1>5. ASSUME NEW m \in Nat, h = 4 * m + i
      PROVE  Odd(h) <=> Odd(i)
  BY <1>2, <1>5, <1>1 DEF Odd
<1> QED
  BY <1>2, <1>3, <1>4, <1>5, <1>1 DEF Index, Coordinates

-----------------------------------------------------------------------------
(* The shares of the ranks. *)

LEMMA ShareType ==
  ASSUME NEW r \in 0 .. Pool - 1
  PROVE  Share[r] \in Nat \ {0} /\ Share[r] * (RrfK + r) = Scale
<1>1. Share[r] \in Nat /\ Share[r] * (RrfK + r) = Scale /\ Scale # 0 /\ RrfK + r \in Nat
  BY RankedSearchAssumptions
<1> QED
  BY <1>1

\* A better rank is worth more.
LEMMA ShareFalls ==
  ASSUME NEW r \in 0 .. Pool - 1, NEW s \in 0 .. Pool - 1, r < s
  PROVE  Share[s] < Share[r]
<1> DEFINE a == Share[r]  b == Share[s]  x == RrfK + r  y == RrfK + s
<1>1. a \in Nat \ {0} /\ b \in Nat \ {0} /\ a * x = Scale /\ b * y = Scale
  BY ShareType
<1>2. x \in Nat \ {0} /\ y \in Nat \ {0} /\ x < y
  BY RankedSearchAssumptions
<1> HIDE DEF a, b, x, y
<1>3. SUFFICES ASSUME a <= b PROVE FALSE
  BY <1>1 DEF a, b
<1>4. a * x <= b * x
  BY <1>1, <1>2, <1>3
<1>5. b * x < b * y
  BY <1>1, <1>2
<1>6. a * x \in Int /\ b * x \in Int /\ b * y \in Int
  BY <1>1, <1>2
<1> QED
  BY <1>1, <1>4, <1>5, <1>6

\* The last rank is worth more than two thirds of the first: this is what rrf_k must be large for.
LEMMA LastShare == 2 * Share[0] < 3 * Share[Pool - 1]
<1> DEFINE s == Share[0]  m == Share[Pool - 1]  y == RrfK + (Pool - 1)
<1>1. Pool \in Nat \ {0} /\ RrfK \in Nat \ {0} /\ 2 * Pool <= RrfK /\ y \in Nat
  BY RankedSearchAssumptions
<1>2. 0 \in 0 .. Pool - 1 /\ Pool - 1 \in 0 .. Pool - 1
  BY <1>1
<1>3. s \in Nat \ {0} /\ m \in Nat \ {0} /\ s * (RrfK + 0) = Scale /\ m * y = Scale
  BY <1>2, ShareType
<1>4. 2 * y < 3 * RrfK
  BY <1>1
<1>5. s * RrfK = m * y
  BY <1>1, <1>3
<1> HIDE DEF s, m, y
<1>6. m * (2 * y) < m * (3 * RrfK)
  BY <1>1, <1>3, <1>4
<1>7. (2 * s) * RrfK < (3 * m) * RrfK
  BY <1>1, <1>3, <1>5, <1>6
<1>8. 2 * s < 3 * m
  BY <1>1, <1>3, <1>7
<1> QED
  BY <1>8 DEF s, m

-----------------------------------------------------------------------------
(* The points of an episode. *)

\* What a channel may have returned.
LEMMA HitsType ==
  ASSUME NEW S, NEW hits \in Hits(S)
  PROVE  /\ hits \in Seq(S)
         /\ DOMAIN hits = 1 .. Len(hits)
         /\ Len(hits) \in 0 .. Pool
         /\ IsInjective(hits)
         /\ Range(hits) \subseteq S
<1>1. PICK n \in 0 .. Pool : hits \in [1..n -> S] /\ IsInjective(hits)
  BY DEF Hits, Lists
<1>2. n \in Nat
  BY <1>1, RankedSearchAssumptions
<1>3. hits \in Seq(S) /\ Len(hits) = n
  BY <1>1, <1>2
<1> QED
  BY <1>1, <1>3 DEF Range

ListsOK == own \subseteq Episodes /\ lists \in [Channels -> Hits(own)]

\* The points of the episode at a place of a list.
LEMMA PointsAt ==
  ASSUME ListsOK, NEW ch \in Channels, NEW i \in DOMAIN lists[ch]
  PROVE  /\ i - 1 \in 0 .. Pool - 1
         /\ Points(ch, lists[ch][i]) = Weight[ch] * Share[i - 1]
<1> DEFINE l == lists[ch]
           k == CHOOSE j \in DOMAIN l : l[j] = l[i]
<1>1. l \in Hits(own)
  BY DEF ListsOK
<1>2. IsInjective(l) /\ DOMAIN l = 1 .. Len(l) /\ Len(l) \in 0 .. Pool
  BY <1>1, HitsType
<1>3. k \in DOMAIN l /\ l[k] = l[i]
  OBVIOUS
<1>4. k = i
  BY <1>2, <1>3 DEF IsInjective
<1>5. l[i] \in Range(l)
  BY DEF Range
<1>6. i - 1 \in 0 .. Pool - 1
  BY <1>2, RankedSearchAssumptions
<1> QED
  BY <1>4, <1>5, <1>6 DEF Points

\* An episode has the points of its place from each channel that found it, else none.
LEMMA PointsBounds ==
  ASSUME ListsOK, NEW ch \in Channels, NEW e
  PROVE  /\ e \notin Range(lists[ch]) => Points(ch, e) = 0
         /\ e \in Range(lists[ch]) =>
              /\ Points(ch, e) \in Nat
              /\ Weight[ch] * Share[Pool - 1] <= Points(ch, e)
              /\ Points(ch, e) <= Weight[ch] * Share[0]
<1>1. ASSUME e \notin Range(lists[ch])
      PROVE  Points(ch, e) = 0
  BY <1>1 DEF Points
<1>2. ASSUME e \in Range(lists[ch])
      PROVE  /\ Points(ch, e) \in Nat
             /\ Weight[ch] * Share[Pool - 1] <= Points(ch, e)
             /\ Points(ch, e) <= Weight[ch] * Share[0]
  <2>1. PICK i \in DOMAIN lists[ch] : lists[ch][i] = e
    BY <1>2 DEF Range
  <2> DEFINE r == i - 1
  <2>2. r \in 0 .. Pool - 1 /\ Points(ch, e) = Weight[ch] * Share[r]
    BY <2>1, PointsAt
  <2>3. 0 \in 0 .. Pool - 1 /\ Pool - 1 \in 0 .. Pool - 1
    BY RankedSearchAssumptions
  <2>4. Share[r] \in Nat /\ Share[0] \in Nat /\ Share[Pool - 1] \in Nat
    BY <2>2, <2>3, ShareType
  <2>5. Share[r] <= Share[0]
    BY <2>2, <2>3, <2>4, ShareFalls
  <2>6. Share[Pool - 1] <= Share[r]
    BY <2>2, <2>3, <2>4, ShareFalls, RankedSearchAssumptions
  <2>7. Weight[ch] \in {5, 7, 10}
    BY DEF Channels, Weight
  <2> HIDE DEF r
  <2> QED
    BY <2>2, <2>4, <2>5, <2>6, <2>7
<1> QED
  BY <1>1, <1>2

\* Two channels, one of them by meaning or by word, outweigh one.
LEMMA SeveralScoreMore ==
  ASSUME ListsOK, NEW e, NEW f,
         ChannelsOf(e) \cap {"vector", "keyword"} # {},
         Cardinality(ChannelsOf(e)) >= 2,
         Cardinality(ChannelsOf(f)) = 1
  PROVE  Score(e) > Score(f)
<1> DEFINE s == Share[0]  m == Share[Pool - 1]
<1>1. s \in Nat /\ m \in Nat /\ 2 * s < 3 * m
  <2>1. 0 \in 0 .. Pool - 1 /\ Pool - 1 \in 0 .. Pool - 1
    BY RankedSearchAssumptions
  <2> QED
    BY <2>1, ShareType, LastShare
<1>2. IsFiniteSet(Channels)
  <2>1. IsFiniteSet({"vector"}) /\ IsFiniteSet({"keyword"}) /\ IsFiniteSet({"graph"})
          /\ IsFiniteSet({"temporal"})
    BY FS_Singleton
  <2>2. IsFiniteSet({"vector"} \cup {"keyword"}) /\ IsFiniteSet({"graph"} \cup {"temporal"})
    BY <2>1, FS_Union
  <2>3. IsFiniteSet(({"vector"} \cup {"keyword"}) \cup ({"graph"} \cup {"temporal"}))
    BY <2>2, FS_Union
  <2>4. Channels = ({"vector"} \cup {"keyword"}) \cup ({"graph"} \cup {"temporal"})
    BY DEF Channels
  <2> QED
    BY <2>3, <2>4
<1>3. ChannelsOf(e) \subseteq Channels /\ IsFiniteSet(ChannelsOf(f))
  BY <1>2, FS_Subset DEF ChannelsOf
<1>4. PICK c \in ChannelsOf(e) \cap {"vector", "keyword"} : TRUE
  OBVIOUS
<1>5. PICK d \in ChannelsOf(e) : d # c
  <2>1. IsFiniteSet({c}) /\ Cardinality({c}) = 1
    BY FS_Singleton
  <2>2. ASSUME ChannelsOf(e) \subseteq {c}
        PROVE  FALSE
    <3>1. Cardinality(ChannelsOf(e)) <= 1
      BY <2>1, <2>2, FS_Subset
    <3>2. Cardinality(ChannelsOf(e)) \in Nat
      BY <1>2, <1>3, FS_Subset, FS_CardinalityType
    <3> QED
      BY <3>1, <3>2
  <2> QED
    BY <2>2
<1>6. PICK g : ChannelsOf(f) = {g}
  BY <1>3, FS_Singleton
<1>7. \A ch \in Channels :
        /\ Points(ch, e) \in Nat
        /\ ch \in ChannelsOf(e) => Weight[ch] * m <= Points(ch, e)
        /\ Points(ch, f) \in Nat
        /\ ch # g => Points(ch, f) = 0
        /\ Points(ch, f) <= Weight[ch] * s
  <2> TAKE ch \in Channels
  <2>1. ch # g => ch \notin ChannelsOf(f)
    BY <1>6
  <2>2. Weight[ch] \in {5, 7, 10}
    BY DEF Channels, Weight
  <2> QED
    BY <2>1, <2>2, <1>1, PointsBounds DEF ChannelsOf
<1>8. Score(e) >= 15 * m
  <2>1. Channels = {"vector", "keyword", "graph", "temporal"}
    BY DEF Channels
  <2> QED
    BY <1>1, <1>3, <1>4, <1>5, <1>7, <2>1 DEF Score, Weight
<1>9. Score(f) <= 10 * s
  BY <1>1, <1>7 DEF Score, Weight, Channels
<1>10. Score(e) \in Nat /\ Score(f) \in Nat
  BY <1>7 DEF Score, Channels
<1> HIDE DEF s, m
<1> QED
  BY <1>1, <1>8, <1>9, <1>10

\* An episode that is before another wherever that one was found outscores it.
LEMMA BetterScoresMore ==
  ASSUME ListsOK, NEW e, NEW f \in Found,
         \A ch \in ChannelsOf(f) :
           \E i, j \in DOMAIN lists[ch] : i < j /\ lists[ch][i] = e /\ lists[ch][j] = f
  PROVE  Score(e) > Score(f)
<1>1. \A ch \in Channels :
        /\ Points(ch, e) \in Nat /\ Points(ch, f) \in Nat
        /\ Points(ch, f) <= Points(ch, e)
        /\ ch \in ChannelsOf(f) => Points(ch, f) < Points(ch, e)
  <2> TAKE ch \in Channels
  <2>1. Points(ch, e) \in Nat /\ Points(ch, f) \in Nat
    BY PointsBounds
  <2>2. ASSUME ch \in ChannelsOf(f)
        PROVE  Points(ch, f) < Points(ch, e)
    <3>1. PICK i \in DOMAIN lists[ch], j \in DOMAIN lists[ch] :
            i < j /\ lists[ch][i] = e /\ lists[ch][j] = f
      BY <2>2
    <3>2. /\ i - 1 \in 0 .. Pool - 1 /\ Points(ch, e) = Weight[ch] * Share[i - 1]
          /\ j - 1 \in 0 .. Pool - 1 /\ Points(ch, f) = Weight[ch] * Share[j - 1]
      BY <3>1, PointsAt
    <3>3. i \in Int /\ j \in Int
      BY HitsType DEF ListsOK
    <3>4. i - 1 < j - 1
      BY <3>1, <3>3
    <3>5. Share[j - 1] < Share[i - 1] /\ Share[j - 1] \in Nat /\ Share[i - 1] \in Nat
      BY <3>2, <3>4, ShareFalls, ShareType
    <3>6. Weight[ch] \in {5, 7, 10}
      BY DEF Channels, Weight
    <3> QED
      BY <3>2, <3>5, <3>6
  <2>3. ch \notin ChannelsOf(f) => Points(ch, f) = 0
    BY PointsBounds DEF ChannelsOf
  <2> QED
    BY <2>1, <2>2, <2>3
<1>2. PICK ch \in Channels : ch \in ChannelsOf(f)
  BY DEF Found, ChannelsOf
<1> QED
  BY <1>1, <1>2 DEF Score, Channels

-----------------------------------------------------------------------------
(* Lists and cuts. *)

\* A list without repetition as long as a set is large has every member of the set.
LEMMA ListsAll ==
  ASSUME NEW S, IsFiniteSet(S), NEW l \in Lists(S, Cardinality(S))
  PROVE  l \in Seq(S) /\ DOMAIN l = 1 .. Len(l) /\ Range(l) = S
<1> DEFINE n == Cardinality(S)
<1>1. n \in Nat
  BY FS_CardinalityType
<1>2. l \in [1..n -> S] /\ IsInjective(l)
  BY DEF Lists
<1>3. l \in Injection(1..n, S)
  BY <1>2 DEF Injection, IsInjective
<1>4. Cardinality(1..n) = n
  BY <1>1, FS_Interval
<1>5. l \in Surjection(1..n, S)
  BY <1>3, <1>4, FS_Injection
<1>6. \A t \in S : \E i \in 1..n : l[i] = t
  BY <1>5 DEF Surjection
<1>7. l \in Seq(S) /\ Len(l) = n
  BY <1>1, <1>2
<1> QED
  BY <1>2, <1>6, <1>7 DEF Range

\* A cut is a beginning of the list, and all of it if it is shorter than was asked.
LEMMA CutPrefix ==
  ASSUME NEW S, NEW l \in Seq(S), NEW n \in Int
  PROVE  /\ Cut(l, n) \in Seq(S)
         /\ Len(Cut(l, n)) <= Len(l)
         /\ \A i \in DOMAIN Cut(l, n) : i \in DOMAIN l /\ Cut(l, n)[i] = l[i]
         /\ (n >= 0 /\ Len(Cut(l, n)) < n) => Len(Cut(l, n)) = Len(l)
<1> DEFINE m == IF n >= 0 THEN Smaller(n, Len(l)) ELSE Len(l) + n
<1>1. Len(l) \in Nat /\ m \in Int /\ m <= Len(l)
  BY DEF Smaller
<1>2. Cut(l, n) = SubSeq(l, 1, m)
  BY DEF Cut
<1>3. /\ SubSeq(l, 1, m) \in Seq(S)
      /\ Len(SubSeq(l, 1, m)) = IF m >= 1 THEN m ELSE 0
      /\ \A i \in 1 .. Len(SubSeq(l, 1, m)) : SubSeq(l, 1, m)[i] = l[i]
  BY <1>1
<1> QED
  BY <1>1, <1>2, <1>3 DEF Smaller

-----------------------------------------------------------------------------
(* The inductive invariant. *)

\* Every coordinate has the sign of its index, so one that a token has changed stays changed.
Embedding ==
  /\ \A i \in Coordinates : IF Odd(i) THEN vec[i] >= 0 ELSE vec[i] <= 0
  /\ rest = query \/ \E i \in Coordinates : vec[i] # 0
  /\ pc # "embed" => rest = << >>

\* The newest episodes of the namespace are listed, all of them if they fit.
Newest ==
  (pc \in {"fuse", "done"} /\ Cardinality(own) <= Pool) => own \subseteq Range(lists["temporal"])

\* What scores more comes first, and a short answer has everything.
Ordered ==
  pc = "done" =>
    /\ \A e \in Found : \A j \in DOMAIN answer :
         Score(e) > Score(answer[j]) => \E i \in 1 .. j-1 : answer[i] = e
    /\ (limit >= 0 /\ Len(answer) < limit) => Found \subseteq Range(answer)

IInv == TypeOK /\ Embedding /\ RaisesOnlyOnWordless /\ Newest /\ Ordered

LEMMA IInvInit == Init => IInv
<1> SUFFICES ASSUME Init PROVE IInv
  OBVIOUS
<1>1. query \in Seq(Tokens) /\ rest = query
  <2>1. PICK n \in 0 .. MaxTokens : query \in [1..n -> Tokens]
    BY DEF Init
  <2>2. n \in Nat
    BY <2>1, RankedSearchAssumptions
  <2> QED
    BY <2>1, <2>2 DEF Init, EmbedInit
<1>2. << >> \in Hits(own)
  <2>1. << >> \in [1..0 -> own] /\ IsInjective(<< >>)
    BY DEF IsInjective
  <2> QED
    BY <2>1, RankedSearchAssumptions DEF Hits, Lists
<1>3. vec \in [Coordinates -> Int] /\ \A i \in Coordinates : vec[i] = 0
  BY DEF Init, EmbedInit, ZeroVector
<1>4. Range(answer) \subseteq own
  BY DEF Init, Range
<1>5. TypeOK
  BY <1>1, <1>2, <1>3, <1>4 DEF Init, TypeOK
<1> QED
  BY <1>1, <1>3, <1>5 DEF Init, IInv, Embedding, RaisesOnlyOnWordless, Newest, Ordered

\* A token moves one coordinate away from zero, or is the first to do so.
LEMMA EmbedStep ==
  ASSUME IInv, Embed
  PROVE  IInv'
<1>1. CASE rest = << >>
  BY <1>1 DEF Embed, IInv, TypeOK, Embedding, RaisesOnlyOnWordless, Newest, Ordered, Coordinates,
     Found, ChannelsOf
<1>2. CASE rest # << >>
  <2> DEFINE h == Hash[Head(rest)]
             k == Index(h)
  <2>1. /\ vec' = [vec EXCEPT ![k] = @ + Sign(h)]
        /\ rest' = Tail(rest)
        /\ pc' = pc /\ pc = "embed"
        /\ UNCHANGED <<wordless, query, limit, own, lists, answer>>
    BY <1>2 DEF Embed, AddToken
  <2>2. rest \in Seq(Tokens) /\ vec \in [Coordinates -> Int]
    BY DEF IInv, TypeOK
  <2>3. Head(rest) \in Tokens /\ Tail(rest) \in Seq(Tokens)
    BY <1>2, <2>2
  <2>4. h \in Nat
    BY <2>3, HashEmbedderAssumptions
  <2>5. k \in Coordinates /\ (Odd(h) <=> Odd(k))
    BY <2>4, SignOfIndex
  <2>6. Sign(h) = IF Odd(k) THEN 1 ELSE -1
    BY <2>5 DEF Sign, Odd
  <2> HIDE DEF h, k
  <2>7. vec' \in [Coordinates -> Int]
    BY <2>1, <2>2, <2>5, <2>6
  <2>8. \A i \in Coordinates : IF Odd(i) THEN vec[i] >= 0 ELSE vec[i] <= 0
    BY DEF IInv, Embedding
  <2>9. \A i \in Coordinates : IF Odd(i) THEN vec'[i] >= 0 ELSE vec'[i] <= 0
    BY <2>1, <2>2, <2>5, <2>6, <2>8
  <2>10. vec'[k] # 0
    BY <2>1, <2>2, <2>5, <2>6, <2>8
  <2>11. TypeOK'
    BY <2>1, <2>3, <2>7 DEF IInv, TypeOK, Coordinates, Hits, Lists
  <2>12. Embedding'
    BY <2>1, <2>5, <2>9, <2>10 DEF IInv, Embedding, Coordinates
  <2> QED
    BY <2>1, <2>11, <2>12 DEF IInv, RaisesOnlyOnWordless, Newest, Ordered
<1> QED
  BY <1>1, <1>2

LEMMA ListsAreHits ==
  ASSUME NEW T, NEW S \in SUBSET T, NEW n \in 0 .. Pool, NEW l \in Lists(S, n)
  PROVE  l \in Hits(T)
<1>1. l \in [1..n -> T] /\ IsInjective(l)
  BY DEF Lists
<1> QED
  BY <1>1 DEF Hits, Lists

\* The files and the namespaces in them are finite.
LEMMA Finite ==
  ASSUME TypeOK, NEW S \in SUBSET Episodes
  PROVE  IsFiniteSet(S) /\ Cardinality(S) \in Nat
BY RankedSearchAssumptions, FS_Subset, FS_CardinalityType

LEMMA ReturnStep ==
  ASSUME IInv, pc # "embed", NEW ch \in Channels, NEW hits \in Hits(own),
         NEW to \in {"keyword", "graph", "temporal"}, Return(ch, hits, to)
  PROVE  IInv'
<1>1. /\ lists' = [lists EXCEPT ![ch] = hits]
      /\ pc' = to
      /\ UNCHANGED <<rest, vec, wordless, query, limit, own, answer>>
  BY DEF Return
<1>2. TypeOK'
  BY <1>1 DEF IInv, TypeOK, Hits, Lists, Coordinates
<1>3. Embedding'
  BY <1>1 DEF IInv, Embedding, Coordinates
<1> QED
  BY <1>1, <1>2, <1>3 DEF IInv, RaisesOnlyOnWordless, Newest, Ordered

LEMMA VectorStep ==
  ASSUME IInv, VectorChannel
  PROVE  IInv'
<1>1. PICK near \in Nearest :
        IF KnnRaises(near)
        THEN pc' = "raised" /\ UNCHANGED <<rest, vec, wordless, query, limit, own, lists, answer>>
        ELSE \E hits \in Lists(near \cap own, Cardinality(near \cap own)) :
               Return("vector", hits, "keyword")
  BY DEF VectorChannel
<1>2. pc = "vector" /\ TypeOK /\ Embedding
  BY DEF VectorChannel, IInv
<1>3. CASE KnnRaises(near)
  <2>1. rest = << >>
    BY <1>2 DEF Embedding
  <2>2. (\E i \in Coordinates : vec[i] # 0) => vec # ZeroVector
    BY DEF ZeroVector
  <2>3. query = << >> \/ wordless # {}
    BY <1>2, <1>3, <2>1, <2>2 DEF Embedding, KnnRaises
  <2>4. TypeOK'
    BY <1>1, <1>3 DEF IInv, TypeOK, Hits, Lists, Coordinates
  <2>5. Embedding'
    BY <1>1, <1>3, <1>2 DEF Embedding, Coordinates
  <2> QED
    BY <1>1, <1>3, <2>3, <2>4, <2>5 DEF IInv, RaisesOnlyOnWordless, Newest, Ordered
<1>4. CASE ~KnnRaises(near)
  <2> DEFINE S == near \cap own
  <2>1. near \in SUBSET Episodes /\ Cardinality(near) = Smaller(Pool, Cardinality(Episodes))
    BY DEF Nearest
  <2>2. Cardinality(near) <= Pool /\ IsFiniteSet(near)
    BY <1>2, <2>1, Finite, RankedSearchAssumptions DEF Smaller
  <2>3. Cardinality(S) <= Cardinality(near)
    BY <2>2, FS_Subset
  <2>4. Cardinality(S) \in Nat /\ Cardinality(near) \in Nat
    BY <1>2, <2>1, Finite
  <2>5. Cardinality(S) \in 0 .. Pool
    BY <2>2, <2>3, <2>4, RankedSearchAssumptions
  <2>6. PICK hits \in Lists(S, Cardinality(S)) : Return("vector", hits, "keyword")
    BY <1>1, <1>4
  <2>7. hits \in Hits(own)
    BY <2>5, <2>6, ListsAreHits
  <2>8. "vector" \in Channels
    BY DEF Channels
  <2> QED
    BY <1>2, <2>6, <2>7, <2>8, ReturnStep
<1> QED
  BY <1>3, <1>4

LEMMA WordStep ==
  ASSUME IInv, KeywordChannel \/ GraphChannel
  PROVE  IInv'
<1>1. {"keyword", "graph"} \subseteq Channels
  BY DEF Channels
<1>2. CASE KeywordChannel
  BY <1>1, <1>2, ReturnStep DEF KeywordChannel
<1>3. CASE GraphChannel
  BY <1>1, <1>3, ReturnStep DEF GraphChannel
<1> QED
  BY <1>2, <1>3

LEMMA TemporalStep ==
  ASSUME IInv, TemporalChannel
  PROVE  IInv'
<1>1. TypeOK /\ own \subseteq Episodes /\ pc = "temporal" /\ "temporal" \in Channels
  BY DEF IInv, TypeOK, TemporalChannel, Channels
<1> DEFINE n == Smaller(Pool, Cardinality(own))
<1>2. PICK hits \in Lists(own, n) : Return("temporal", hits, "fuse")
  BY DEF TemporalChannel
<1>3. /\ lists' = [lists EXCEPT !["temporal"] = hits]
      /\ pc' = "fuse"
      /\ UNCHANGED <<rest, vec, wordless, query, limit, own, answer>>
  BY <1>2 DEF Return
<1>4. Cardinality(own) \in Nat /\ IsFiniteSet(own)
  BY <1>1, Finite
<1>5. n \in 0 .. Pool /\ (Cardinality(own) <= Pool => n = Cardinality(own))
  BY <1>4, RankedSearchAssumptions DEF Smaller
<1>6. hits \in Hits(own)
  BY <1>5, <1>2, ListsAreHits
<1>7. Cardinality(own) <= Pool => Range(hits) = own
  BY <1>2, <1>4, <1>5, ListsAll
<1>8. lists'["temporal"] = hits
  BY <1>1, <1>3 DEF TypeOK
<1>9. TypeOK'
  BY <1>3, <1>6 DEF IInv, TypeOK, Hits, Lists, Coordinates
<1>10. Embedding'
  BY <1>1, <1>3 DEF IInv, Embedding, Coordinates
<1>11. Newest'
  BY <1>3, <1>7, <1>8 DEF Newest
<1> QED
  BY <1>3, <1>9, <1>10, <1>11 DEF IInv, RaisesOnlyOnWordless, Ordered

LEMMA ScoreType ==
  ASSUME ListsOK, NEW e
  PROVE  Score(e) \in Nat
<1>1. \A ch \in Channels : Points(ch, e) \in Nat
  BY PointsBounds
<1> QED
  BY <1>1 DEF Score, Channels

LEMMA RankStep ==
  ASSUME IInv, Rank
  PROVE  IInv'
<1>1. PICK order \in Lists(Found, Cardinality(Found)) :
        /\ \A i, j \in DOMAIN order : i < j => Score(order[i]) >= Score(order[j])
        /\ answer' = Cut(order, limit)
  BY DEF Rank
<1>2. /\ pc = "fuse" /\ pc' = "done"
      /\ UNCHANGED <<rest, vec, wordless, query, limit, own, lists>>
  BY DEF Rank
<1>3. TypeOK /\ ListsOK /\ limit \in Int
  BY RankedSearchAssumptions DEF IInv, TypeOK, ListsOK
<1>4. Found \subseteq own
  BY <1>3, HitsType DEF Found, ListsOK
<1>5. IsFiniteSet(Found)
  BY <1>3, <1>4, Finite DEF ListsOK
<1>6. order \in Seq(Found) /\ DOMAIN order = 1 .. Len(order) /\ Range(order) = Found
  BY <1>1, <1>5, ListsAll
<1>7. /\ answer' \in Seq(Found)
      /\ Len(answer') <= Len(order)
      /\ \A i \in DOMAIN answer' : i \in DOMAIN order /\ answer'[i] = order[i]
      /\ (limit >= 0 /\ Len(answer') < limit) => Len(answer') = Len(order)
  BY <1>1, <1>3, <1>6, CutPrefix
<1>8. DOMAIN answer' = 1 .. Len(answer') /\ Len(answer') \in Nat
  BY <1>7
<1>9. Range(answer') \subseteq own
  BY <1>4, <1>6, <1>7 DEF Range
<1>10. Found' = Found /\ \A e : Score(e)' = Score(e)
  BY <1>2 DEF Found, Score, Points
<1>11. ASSUME NEW e \in Found, NEW j \in DOMAIN answer', Score(e) > Score(answer'[j])
       PROVE  \E i \in 1 .. j-1 : answer'[i] = e
  <2>1. PICK i \in DOMAIN order : order[i] = e
    BY <1>6 DEF Range
  <2>2. j \in DOMAIN order /\ answer'[j] = order[j]
    BY <1>7
  <2>3. i \in Nat \ {0} /\ j \in Nat \ {0} /\ j <= Len(answer')
    BY <1>6, <1>8, <2>2
  <2>4. Score(order[i]) \in Nat /\ Score(order[j]) \in Nat
    BY <1>3, ScoreType
  <2>5. i < j
    BY <1>1, <1>11, <2>1, <2>2, <2>3, <2>4
  <2>6. i \in DOMAIN answer'
    BY <1>8, <2>3, <2>5
  <2> QED
    BY <1>7, <2>1, <2>3, <2>5, <2>6
<1>12. ASSUME limit >= 0, Len(answer') < limit
       PROVE  Found \subseteq Range(answer')
  <2>1. DOMAIN answer' = DOMAIN order /\ \A i \in DOMAIN order : answer'[i] = order[i]
    BY <1>6, <1>7, <1>8, <1>12
  <2> QED
    BY <1>6, <2>1 DEF Range
<1>13. Ordered'
  <2>1. \A e, j : (Score(e) > Score(answer[j]))' <=> Score(e) > Score(answer'[j])
    BY <1>2 DEF Score, Points
  <2>2. (\A e \in Found : \A j \in DOMAIN answer :
           Score(e) > Score(answer[j]) => \E i \in 1 .. j-1 : answer[i] = e)'
    BY <1>10, <1>11, <2>1
  <2>3. (limit >= 0 /\ Len(answer) < limit => Found \subseteq Range(answer))'
    BY <1>2, <1>10, <1>12
  <2> QED
    BY <2>2, <2>3 DEF Ordered
<1>14. TypeOK'
  BY <1>2, <1>3, <1>9 DEF TypeOK, Hits, Lists, Coordinates
<1>15. Embedding' /\ RaisesOnlyOnWordless' /\ Newest'
  BY <1>2 DEF IInv, Embedding, RaisesOnlyOnWordless, Newest, Coordinates
<1> QED
  BY <1>13, <1>14, <1>15 DEF IInv

LEMMA IInvNext == IInv /\ [Next]_vars => IInv'
<1> SUFFICES ASSUME IInv, [Next]_vars PROVE IInv'
  OBVIOUS
<1>1. CASE UNCHANGED vars
  <2>1. TypeOK' /\ Embedding' /\ RaisesOnlyOnWordless' /\ Newest'
    BY <1>1 DEF IInv, vars, TypeOK, Embedding, RaisesOnlyOnWordless, Newest, Hits, Lists,
       Coordinates
  <2>2. Ordered'
    <3>1. \A e, j : (Score(e) > Score(answer[j]))' <=> Score(e) > Score(answer[j])
      BY <1>1 DEF vars, Score, Points
    <3>2. Ordered /\ Found' = Found
      BY <1>1 DEF IInv, vars, Found
    <3> QED
      BY <1>1, <3>1, <3>2 DEF vars, Ordered
  <2> QED
    BY <2>1, <2>2 DEF IInv
<1>2. CASE Next
  BY <1>2, EmbedStep, VectorStep, WordStep, TemporalStep, RankStep DEF Next
<1> QED
  BY <1>1, <1>2

LEMMA IInvAlways == Spec => []IInv
BY IInvInit, IInvNext, PTL DEF Spec

-----------------------------------------------------------------------------
(* The theorems. *)

\* The search is type correct; in particular no channel returns what is not the caller's.
THEOREM TypeCorrect == Spec => []TypeOK
BY IInvAlways, PTL DEF IInv

\* A search raises only if its query or a memory of the file has no word at all.
THEOREM OnlyWordlessRaise == Spec => []RaisesOnlyOnWordless
BY IInvAlways, PTL DEF IInv

\* What scores more comes before what scores less, if that is answered at all.
LEMMA ScoreOrders ==
  ASSUME IInv, pc = "done", NEW e \in Found, NEW f, Score(e) > Score(f)
  PROVE  Above(e, f)
BY DEF Above, IInv, Ordered

\* What two channels find, one of them by meaning or by word, comes before what one finds.
THEOREM SeveralRise == Spec => []SeveralChannelsRise
<1>1. IInv => SeveralChannelsRise
  <2> SUFFICES ASSUME IInv, pc = "done", NEW e \in Found, NEW f \in Found,
                      ChannelsOf(e) \cap {"vector", "keyword"} # {},
                      Cardinality(ChannelsOf(e)) >= 2, Cardinality(ChannelsOf(f)) = 1
               PROVE  Above(e, f)
    BY DEF SeveralChannelsRise
  <2>1. ListsOK
    BY DEF IInv, TypeOK, ListsOK
  <2> QED
    BY <2>1, SeveralScoreMore, ScoreOrders
<1> QED
  BY <1>1, IInvAlways, PTL

\* What beats an episode in every channel that found it comes before it.
THEOREM BetterFirst == Spec => []BetterComesFirst
<1>1. IInv => BetterComesFirst
  <2> SUFFICES ASSUME IInv, pc = "done", NEW e \in Found, NEW f \in Found,
                      \A ch \in ChannelsOf(f) :
                        \E i, j \in DOMAIN lists[ch] :
                          i < j /\ lists[ch][i] = e /\ lists[ch][j] = f
               PROVE  Above(e, f)
    BY DEF BetterComesFirst
  <2>1. ListsOK
    BY DEF IInv, TypeOK, ListsOK
  <2> QED
    BY <2>1, BetterScoresMore, ScoreOrders
<1> QED
  BY <1>1, IInvAlways, PTL

\* A namespace that fits into the pool is never hidden by the vectors of another one.
THEOREM NoneHidden == Spec => []NothingHidden
<1>1. IInv => NothingHidden
  <2> SUFFICES ASSUME IInv, pc = "done", limit >= 0, Len(answer) < limit,
                      ~(Cardinality(own) > Pool)
               PROVE  own \subseteq Range(answer)
    BY DEF NothingHidden
  <2>1. Cardinality(own) \in Nat /\ Pool \in Nat
    BY Finite, RankedSearchAssumptions DEF IInv, TypeOK
  <2>2. own \subseteq Range(lists["temporal"])
    BY <2>1 DEF IInv, Newest
  <2>3. Range(lists["temporal"]) \subseteq Found
    BY DEF Found, Channels
  <2>4. Found \subseteq Range(answer)
    BY DEF IInv, Ordered
  <2> QED
    BY <2>2, <2>3, <2>4
<1> QED
  BY <1>1, IInvAlways, PTL

=============================================================================
