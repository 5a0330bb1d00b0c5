---------------------------- MODULE PagingProofs ----------------------------
(***************************************************************************)
(* A client that pages through GET /api/episodes, proved for any number of *)
(* episodes and any page size.                                             *)
(***************************************************************************)
EXTENDS ServiceProofs, WellFoundedInduction

-----------------------------------------------------------------------------
(* The place of a row in the listing. *)

\* The rows listed before row i.
Earlier(d, all, i) == {j \in Rows(d, all) : Before(d, j, i)}

Rank(d, all, i) == Cardinality(Earlier(d, all, i))

\* The offset of a page, as the server reads it.
Offset(raw) == IntParam(raw, 0, 0, 10000000)

\* A set of numbers that is not empty has a least one.
LEMMA LeastNumber ==
  ASSUME NEW T \in SUBSET Nat, T # {}
  PROVE  \E least \in T : \A n \in T : least <= n
<1>1. \E least \in T : \A n \in T : ~ (<<n, least>> \in OpToRel(<, Nat))
  BY NatLessThanWellFounded, WFMin, Zenon
<1>2. \E least \in T : \A n \in T : ~ (n < least)
  BY <1>1, Zenon DEF OpToRel
<1> QED
  BY <1>2

\* The rows of a listing are finitely many, and so are those before any of them.
LEMMA RowsFinite ==
  ASSUME NEW d \in Database, NEW all
  PROVE  /\ Rows(d, all) \subseteq DOMAIN d.episodes
         /\ IsFiniteSet(Rows(d, all))
         /\ \A i : IsFiniteSet(Earlier(d, all, i)) /\ Rank(d, all, i) \in Nat
<1>1. Rows(d, all) \in SUBSET DOMAIN d.episodes
  BY DEF Rows, InNamespace, Active
<1>2. IsFiniteSet(1 .. Len(d.episodes)) /\ DOMAIN d.episodes = 1 .. Len(d.episodes)
  BY EveryRow, FS_Interval
<1>3. IsFiniteSet(Rows(d, all))
  BY <1>1, <1>2, FS_Subset
<1>4. \A i : Earlier(d, all, i) \in SUBSET Rows(d, all)
  BY DEF Earlier
<1> HIDE DEF Earlier
<1>5. \A i : IsFiniteSet(Earlier(d, all, i))
  BY <1>3, <1>4, FS_Subset
<1> QED
  BY <1>1, <1>3, <1>5, FS_CardinalityType DEF Rank

\* The order of the listing is total.
LEMMA BeforeOrder ==
  ASSUME NEW d \in Database,
         NEW i \in DOMAIN d.episodes, NEW j \in DOMAIN d.episodes, NEW k \in DOMAIN d.episodes
  PROVE  /\ ~ Before(d, i, i)
         /\ Before(d, i, j) /\ Before(d, j, k) => Before(d, i, k)
         /\ i # j => Before(d, i, j) \/ Before(d, j, i)
<1>1. /\ {i, j, k} \subseteq Nat
      /\ {d.episodes[i].validFrom, d.episodes[j].validFrom, d.episodes[k].validFrom} \subseteq Nat
  BY EveryRow DEF Ids, Episode
<1> QED
  BY <1>1 DEF Before

\* A row listed before another has the smaller rank.
LEMMA RankLess ==
  ASSUME NEW d \in Database, NEW all,
         NEW i \in Rows(d, all), NEW j \in Rows(d, all), Before(d, i, j)
  PROVE  Rank(d, all, i) < Rank(d, all, j)
<1>1. Rows(d, all) \subseteq DOMAIN d.episodes
  BY RowsFinite
<1>2. i \notin Earlier(d, all, i)
  BY <1>1, BeforeOrder DEF Earlier
<1>3. Earlier(d, all, i) \cup {i} \in SUBSET Earlier(d, all, j)
  <2>1. ASSUME NEW k \in Earlier(d, all, i)
        PROVE  k \in Earlier(d, all, j)
    BY <1>1, <2>1, BeforeOrder DEF Earlier
  <2>2. i \in Earlier(d, all, j)
    BY DEF Earlier
  <2> QED
    BY <2>1, <2>2
<1>4. /\ IsFiniteSet(Earlier(d, all, i)) /\ IsFiniteSet(Earlier(d, all, j))
      /\ Rank(d, all, i) \in Nat /\ Rank(d, all, j) \in Nat
  BY RowsFinite
<1> HIDE DEF Earlier
<1>5. Cardinality(Earlier(d, all, i) \cup {i}) = Cardinality(Earlier(d, all, i)) + 1
  BY <1>2, <1>4, FS_AddElement
<1>6. Cardinality(Earlier(d, all, i) \cup {i}) <= Cardinality(Earlier(d, all, j))
  BY <1>3, <1>4, FS_Subset
<1> QED
  BY <1>4, <1>5, <1>6 DEF Rank

\* Rows whose ranks are between two numbers are no more than the numbers between them.
LEMMA RankRoom ==
  ASSUME NEW d \in Database, NEW all, NEW lo \in Nat, NEW size \in Nat,
         NEW ids \in SUBSET Rows(d, all),
         \A i \in ids : Rank(d, all, i) \in lo .. lo + size - 1
  PROVE  Cardinality(ids) <= size
<1> DEFINE f == [i \in ids |-> Rank(d, all, i)]
<1>1. \A i, j \in ids : i # j => Rank(d, all, i) # Rank(d, all, j)
  <2> SUFFICES ASSUME NEW i \in ids, NEW j \in ids, i # j
               PROVE  Rank(d, all, i) # Rank(d, all, j)
    OBVIOUS
  <2>1. Rank(d, all, i) \in Nat /\ Rank(d, all, j) \in Nat
    BY RowsFinite
  <2>2. Before(d, i, j) \/ Before(d, j, i)
    BY RowsFinite, BeforeOrder
  <2>3. Rank(d, all, i) < Rank(d, all, j) \/ Rank(d, all, j) < Rank(d, all, i)
    BY <2>2, RankLess
  <2> QED
    BY <2>1, <2>3
<1>2. f \in Injection(ids, lo .. lo + size - 1)
  BY <1>1 DEF Injection, IsInjective
<1>3. /\ IsFiniteSet(lo .. lo + size - 1)
      /\ Cardinality(lo .. lo + size - 1) = size
  BY FS_Interval
<1> HIDE DEF f
<1> QED
  BY <1>2, <1>3, FS_Injection

\* No rank is left out: below the rank of a row every number is the rank of some row.
LEMMA RanksContiguous ==
  ASSUME NEW d \in Database, NEW all, NEW i \in Rows(d, all),
         NEW n \in Nat, n <= Rank(d, all, i)
  PROVE  \E j \in Rows(d, all) : Rank(d, all, j) = n
<1> DEFINE T == {Rank(d, all, j) : j \in {k \in Rows(d, all) : n <= Rank(d, all, k)}}
<1>1. T \in SUBSET Nat /\ T # {}
  BY RowsFinite
<1>2. PICK least \in T : \A m \in T : least <= m
  BY <1>1, LeastNumber
<1>3. PICK j \in Rows(d, all) : n <= Rank(d, all, j) /\ least = Rank(d, all, j)
  BY <1>2
<1>4. \A k \in Earlier(d, all, j) : Rank(d, all, k) \in 0 .. 0 + n - 1
  <2> SUFFICES ASSUME NEW k \in Earlier(d, all, j)
               PROVE  Rank(d, all, k) < n
    BY RowsFinite
  <2>1. k \in Rows(d, all) /\ Rank(d, all, k) < Rank(d, all, j)
    BY RankLess DEF Earlier
  <2>2. Rank(d, all, k) \in Nat /\ Rank(d, all, j) \in Nat
    BY RowsFinite
  <2>3. n <= Rank(d, all, k) => least <= Rank(d, all, k)
    BY <1>2, <2>1
  <2> QED
    BY <1>3, <2>1, <2>2, <2>3
<1>5. Earlier(d, all, j) \in SUBSET Rows(d, all)
  BY DEF Earlier
<1> HIDE DEF Earlier, T
<1>6. Cardinality(Earlier(d, all, j)) <= n
  BY <1>4, <1>5, RankRoom
<1>7. Rank(d, all, j) = n
  BY <1>3, <1>6, RowsFinite DEF Rank
<1> QED
  BY <1>7

-----------------------------------------------------------------------------
(* Pages. *)

\* A page holds at most its limit of rows, and is empty only past the last row.
LEMMA PageLemma ==
  ASSUME NEW d \in Database, NEW all, NEW limit \in Nat \ {0}, NEW offset \in Nat
  PROVE  /\ Cardinality(Page(d, all, limit, offset)) <= limit
         /\ Page(d, all, limit, offset) = {} =>
              \A i \in Rows(d, all) : Rank(d, all, i) < offset
<1> DEFINE page == Page(d, all, limit, offset)
<1>1. page = {i \in Rows(d, all) : Rank(d, all, i) \in offset .. offset + limit - 1}
  BY DEF Page, Rank, Earlier
<1> HIDE DEF page
<1>2. Cardinality(page) <= limit
  BY <1>1, RankRoom
<1>3. ASSUME page = {}, NEW i \in Rows(d, all), ~ (Rank(d, all, i) < offset)
      PROVE  FALSE
  <2>1. offset <= Rank(d, all, i)
    BY <1>3, RowsFinite
  <2>2. PICK j \in Rows(d, all) : Rank(d, all, j) = offset
    BY <2>1, RanksContiguous
  <2> QED
    BY <1>1, <1>3, <2>2
<1> QED
  BY <1>2, <1>3 DEF page

\* What the server makes of the limit and of the offset.
LEMMA Params ==
  ASSUME NEW limit \in Int \cup {NULL}, NEW offset \in Nat
  PROVE  /\ IntParam(limit, 50, 1, 500) \in Nat \ {0}
         /\ Offset(offset) \in Nat
         /\ \A n, rank \in Nat :
              Offset(offset) + n <= rank =>
                Offset(offset + n) <= rank
<1>1. NULL \notin Int
  BY MemoryDbAssumptions
<1>2. IntParam(limit, 50, 1, 500) \in Nat \ {0}
  BY <1>1, SMT DEF IntParam
<1>3. \A n \in Nat : Offset(n) = IF n > 10000000 THEN 10000000 ELSE n
  BY <1>1, SMT DEF Offset, IntParam
<1> QED
  BY <1>2, <1>3

\* In a later file, in which nothing more that counts is closed, every row is still listed
\* and no row has moved up.
LEMMA RowsStay ==
  ASSUME NEW d \in Database, NEW e \in Database, Extends(d, e), NEW all \in BOOLEAN,
         all \/ Closed(e) \cap InNamespace(e, Here) \subseteq Closed(d)
  PROVE  /\ Rows(d, all) \subseteq Rows(e, all)
         /\ \A i \in Rows(d, all) : Rank(d, all, i) <= Rank(e, all, i)
<1>1. /\ Rows(d, all) \subseteq DOMAIN d.episodes
      /\ InNamespace(d, Here) \subseteq InNamespace(e, Here)
  BY RowsFinite, ExtendsNamespaces, ServiceAssumptions
<1>2. Rows(d, all) \subseteq Rows(e, all)
  BY <1>1 DEF Rows, Active, Closed, InNamespace
<1>3. ASSUME NEW i \in Rows(d, all)
      PROVE  Rank(d, all, i) <= Rank(e, all, i)
  <2>1. \A j \in DOMAIN d.episodes : d.episodes[j].validFrom = e.episodes[j].validFrom
    BY DEF Extends, Keeps
  <2>2. Earlier(d, all, i) \in SUBSET Earlier(e, all, i)
    BY <1>1, <1>2, <2>1 DEF Earlier, Before
  <2> HIDE DEF Earlier
  <2> QED
    BY <2>2, RowsFinite, FS_Subset DEF Rank
<1> QED
  BY <1>2, <1>3

-----------------------------------------------------------------------------
(* The inductive invariant. *)

\* Nothing was closed that the client asked for.
Undisturbed == reader.all \/ Closed(db) \cap InNamespace(db, Here) \subseteq reader.closed

\* What the client has not seen is listed, at the offset of its next page or after it.
Reading ==
  /\ reader.closed \subseteq Closed(db)
  /\ reader.step # "new" /\ Undisturbed =>
       /\ reader.owed \subseteq Rows(db, reader.all)
       /\ \A i \in reader.owed :
            Offset(reader.offset) <= Rank(db, reader.all, i)
       /\ reader.step = "done" => reader.owed = {}

\* A client that begins has seen nothing and begins at the first row.
LEMMA ReadingStart ==
  ASSUME IInv, NEW all \in BOOLEAN, NEW limit \in Limits, StartListing(all, limit)
  PROVE  Reading'
<1>1. /\ db' = db /\ db \in Database
      /\ reader' = [step |-> "listing", all |-> all, limit |-> limit, offset |-> 0,
                    owed |-> Rows(db, all), closed |-> Closed(db) \cap InNamespace(db, Here)]
  BY DEF StartListing, IInv, TypeOK
<1>2. Offset(0) = 0
  BY MemoryDbAssumptions, SMT DEF Offset, IntParam
<1>3. \A i : Rank(db, all, i) \in Nat
  BY <1>1, RowsFinite
<1> HIDE DEF Rank, Rows
<1> QED
  BY <1>1, <1>2, <1>3 DEF Reading

\* A page takes out of what is owed all that is at its offset and before the next one.
LEMMA ReadingPage ==
  ASSUME IInv, Reading, ListPage
  PROVE  Reading'
<1> DEFINE limit == IntParam(reader.limit, 50, 1, 500)
           offset == Offset(reader.offset)
           page == Page(db, reader.all, limit, offset)
<1>1. /\ db' = db /\ db \in Database
      /\ reader.step = "listing"
      /\ reader.limit \in Int \cup {NULL} /\ reader.offset \in Nat
      /\ reader' = [reader EXCEPT !.owed = @ \ page, !.offset = @ + Cardinality(page),
                                  !.step = IF page = {} THEN "done" ELSE "listing"]
  BY ServiceAssumptions, SMT DEF ListPage, Offset, IInv, TypeOK
<1>2. limit \in Nat \ {0} /\ offset \in Nat
  BY <1>1, Params
<1>3. page = {i \in Rows(db, reader.all) :
                Rank(db, reader.all, i) \in offset .. offset + limit - 1}
  BY DEF Page, Rank, Earlier
<1> HIDE DEF limit
<1>4. /\ Cardinality(page) <= limit
      /\ page = {} => \A i \in Rows(db, reader.all) : Rank(db, reader.all, i) < offset
  BY <1>1, <1>2, PageLemma
<1>5. Cardinality(page) \in Nat
  <2>1. IsFiniteSet(Rows(db, reader.all)) /\ page \in SUBSET Rows(db, reader.all)
    BY <1>1, <1>3, RowsFinite
  <2> QED
    BY <2>1, FS_Subset, FS_CardinalityType
<1> HIDE DEF page
<1>6. /\ reader'.owed = reader.owed \ page
      /\ reader'.offset = reader.offset + Cardinality(page)
      /\ reader'.step = IF page = {} THEN "done" ELSE "listing"
      /\ reader'.all = reader.all /\ reader'.closed = reader.closed
  BY <1>1 DEF IInv, TypeOK
<1>7. ASSUME Undisturbed
      PROVE  /\ reader'.owed \subseteq Rows(db, reader.all)
             /\ \A i \in reader'.owed :
                  Offset(reader'.offset) <= Rank(db, reader.all, i)
             /\ reader'.step = "done" => reader'.owed = {}
  <2>1. /\ reader.owed \subseteq Rows(db, reader.all)
        /\ \A i \in reader.owed : offset <= Rank(db, reader.all, i)
    BY <1>1, <1>7 DEF Reading
  <2>2. \A i : Rank(db, reader.all, i) \in Nat
    BY <1>1, RowsFinite
  <2>3. \A i \in reader.owed \ page : offset + Cardinality(page) <= Rank(db, reader.all, i)
    BY <1>2, <1>3, <1>4, <1>5, <2>1, <2>2
  <2>4. \A i \in reader.owed \ page :
          Offset(reader.offset + Cardinality(page)) <= Rank(db, reader.all, i)
    <3>1. \A n, rank \in Nat : offset + n <= rank => Offset(reader.offset + n) <= rank
      BY <1>1, Params
    <3> HIDE DEF offset
    <3> QED
      BY <1>5, <2>2, <2>3, <3>1
  <2>5. page = {} => reader.owed = {}
    BY <1>2, <1>4, <2>1, <2>2
  <2> HIDE DEF offset
  <2> QED
    BY <1>6, <2>1, <2>4, <2>5
<1>8. Undisturbed' = Undisturbed
  BY <1>1, <1>6 DEF Undisturbed
<1> QED
  BY <1>1, <1>6, <1>7, <1>8 DEF Reading

\* While the file only grows, rows not seen yet may move down, never up.
LEMMA ReadingGrows ==
  ASSUME IInv, Reading, db' \in Database, Extends(db, db'), UNCHANGED reader
  PROVE  Reading'
<1>1. db \in Database /\ reader.all \in BOOLEAN /\ reader.offset \in Nat
  BY DEF IInv, TypeOK
<1>2. Closed(db) \subseteq Closed(db')
  BY <1>1, EveryRow DEF Closed, Extends, Keeps
<1>3. InNamespace(db, Here) \subseteq InNamespace(db', Here)
  BY <1>1, ExtendsNamespaces, ServiceAssumptions
<1>4. ASSUME reader.step # "new", Undisturbed'
      PROVE  /\ reader.owed \subseteq Rows(db', reader.all)
             /\ \A i \in reader.owed :
                  Offset(reader.offset) <= Rank(db', reader.all, i)
             /\ reader.step = "done" => reader.owed = {}
  <2>1. reader.all \/ Closed(db') \cap InNamespace(db', Here) \subseteq reader.closed
    BY <1>4 DEF Undisturbed
  <2>2. Undisturbed
    BY <1>2, <1>3, <2>1 DEF Undisturbed
  <2>3. /\ reader.owed \subseteq Rows(db, reader.all)
        /\ \A i \in reader.owed :
             Offset(reader.offset) <= Rank(db, reader.all, i)
        /\ reader.step = "done" => reader.owed = {}
    BY <1>4, <2>2 DEF Reading
  <2>4. /\ Rows(db, reader.all) \subseteq Rows(db', reader.all)
        /\ \A i \in Rows(db, reader.all) :
             Rank(db, reader.all, i) <= Rank(db', reader.all, i)
    BY <1>1, <2>1, RowsStay DEF Reading
  <2>5. /\ Offset(reader.offset) \in Nat
        /\ \A i : Rank(db, reader.all, i) \in Nat /\ Rank(db', reader.all, i) \in Nat
    BY <1>1, RowsFinite, Params
  <2> HIDE DEF Rank, Rows
  <2> QED
    BY <2>3, <2>4, <2>5
<1> QED
  BY <1>2, <1>4 DEF Reading

\* With the invariant of the service, Reading is inductive.
LEMMA ReadingNext == IInv /\ Reading /\ [Next]_vars => Reading'
<1> SUFFICES ASSUME IInv, Reading, [Next]_vars PROVE Reading'
  OBVIOUS
<1>1. db' \in Database /\ Extends(db, db')
  BY IInvNext, StepExtends DEF IInv, TypeOK
<1>2. CASE UNCHANGED reader
  BY <1>1, <1>2, ReadingGrows
<1>3. CASE ListPage
  BY <1>3, ReadingPage
<1>4. CASE \E all \in BOOLEAN, limit \in Limits : StartListing(all, limit)
  BY <1>4, ReadingStart
<1>5. UNCHANGED reader \/ ListPage
        \/ \E all \in BOOLEAN, limit \in Limits : StartListing(all, limit)
  BY DEF Next, vars, Receive, ServerDies, Authorize, Dispatch, Sweep, Ask, AskRefused,
         ConsoleSearch, AskSearch, OracleAnswers, OracleFails, Tick
<1> QED
  BY <1>2, <1>3, <1>4, <1>5

-----------------------------------------------------------------------------

\* A client that adds to its offset what it received, until a page is empty, has then seen
\* every row that was there when it began, unless one of them was closed meanwhile and it
\* did not ask for closed ones: for any number of rows, any limit and any cap.
THEOREM NothingSkipped == Spec => []PagesSkipNothing
<1>1. Init => Reading
  BY DEF Init, NotReading, Reading
<1>2. Reading => PagesSkipNothing
  BY DEF Reading, Undisturbed, PagesSkipNothing
<1> QED
  BY <1>1, <1>2, IInvAlways, ReadingNext, PTL DEF Spec

=============================================================================
