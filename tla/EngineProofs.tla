---------------------------- MODULE EngineProofs ----------------------------
(***************************************************************************)
(* What the calls of many processes do to one file, proved for any number  *)
(* of processes, namespaces, texts and calls: the derived indexes at every *)
(* commit, the ledger the calls write, the counts of the statistics, the   *)
(* times of the rows, the answers of searches and the reconciliation of    *)
(* what is stored twice, each under the failures its theorem allows.       *)
(***************************************************************************)
EXTENDS KausaMemoryProofs, FiniteSetTheorems

-----------------------------------------------------------------------------
(* The indexes between the statements of a call. *)

Open(d) == DOMAIN d.episodes \ Closed(d)

\* What _index_entities finds in the text of row i.
RowEntities(d, i) == {d.episodes[i].namespace} \X EntitiesOf[d.episodes[i].content]

\* The indexes say what the rows say, but for rows without their vector yet, closed rows
\* with their vector still, and rows without their links yet.
Indexed(d, hidden, left, unlinked) ==
  /\ d.fts = DOMAIN d.episodes
  /\ hidden \subseteq Open(d)
  /\ d.vectors \ left = Open(d) \ hidden
  /\ \A i \in DOMAIN d.episodes \ unlinked : RowEntities(d, i) \subseteq d.entities
  /\ \A i \in Ids, e \in Entities :
       <<i, e>> \in d.mentions <=> i \in DOMAIN d.episodes \ unlinked /\ e \in RowEntities(d, i)

\* With nothing missing and nothing left, that is what the property says.
LEMMA IndexedDerived ==
  ASSUME NEW d \in Database, Indexed(d, {}, {}, {})
  PROVE  Derived(d)
<1>1. \A i \in DOMAIN d.episodes : i \in Ids /\ d.episodes[i] \in Episode
  BY EveryRow
<1>2. d.vectors = DOMAIN d.episodes \ Closed(d) /\ d.fts = DOMAIN d.episodes
  BY DEF Indexed, Open
<1> DEFINE links == {m \in (DOMAIN d.episodes) \X Entities :
                       /\ m[2][1] = d.episodes[m[1]].namespace
                       /\ m[2][2] \in EntitiesOf[d.episodes[m[1]].content]}
<1>3. d.mentions \subseteq Ids \X Entities
  BY DEF Database
<1>4. \A i \in Ids, e \in Entities : <<i, e>> \in links <=> <<i, e>> \in d.mentions
  <2> SUFFICES ASSUME NEW i \in Ids, NEW e \in Entities
               PROVE  <<i, e>> \in links <=> <<i, e>> \in d.mentions
    OBVIOUS
  <2>1. <<i, e>> \in d.mentions <=> i \in DOMAIN d.episodes /\ e \in RowEntities(d, i)
    BY DEF Indexed
  <2>2. e = <<e[1], e[2]>>
    BY DEF Entities
  <2>3. e \in RowEntities(d, i) <=> /\ e[1] = d.episodes[i].namespace
                                    /\ e[2] \in EntitiesOf[d.episodes[i].content]
    BY <2>2 DEF RowEntities
  <2> QED
    BY <2>1, <2>3
<1>5. links \subseteq Ids \X Entities
  BY <1>1
<1> HIDE DEF links
<1>6. d.mentions = links
  BY <1>3, <1>4, <1>5
<1>7. \A m \in d.mentions : m[2] \in d.entities
  <2> SUFFICES ASSUME NEW i \in Ids, NEW e \in Entities, <<i, e>> \in d.mentions
               PROVE  e \in d.entities
    BY <1>3
  <2> QED
    BY DEF Indexed
<1> QED
  BY <1>2, <1>6, <1>7 DEF Derived, links

\* INSERT: the new row is in the FTS index and in neither of the others.
LEMMA InsertIndexed ==
  ASSUME NEW d \in Database, NEW ns \in Namespaces, NEW c \in Contents,
         NEW now \in Nat, NEW ttl \in Int \cup {NULL}, Indexed(d, {}, {}, {})
  PROVE  LET e  == InsertEpisode(d, ns, c, now, ttl)
             id == Len(e.episodes)
         IN  /\ Indexed(e, {id}, {}, {id})
             /\ e.episodes[id].content = c
<1> DEFINE row == NewEpisode(ns, c, now, ttl)
           e == InsertEpisode(d, ns, c, now, ttl)
           id == Len(d.episodes) + 1
<1>1. row \in Episode /\ row.validTo = NULL /\ row.content = c
  BY DEF NewEpisode, Episode
<1>2. /\ e.episodes = Append(d.episodes, row)
      /\ e.fts = d.fts \cup {id}
      /\ e.vectors = d.vectors /\ e.entities = d.entities /\ e.mentions = d.mentions
  BY DEF InsertEpisode, Database
<1> HIDE DEF row, e
<1>3. d.episodes \in Seq(Episode) /\ DOMAIN d.episodes = 1 .. Len(d.episodes)
  BY EveryRow
<1>4. /\ Len(e.episodes) = id /\ e.episodes[id] = row
      /\ DOMAIN e.episodes = DOMAIN d.episodes \cup {id} /\ id \notin DOMAIN d.episodes
      /\ \A i \in DOMAIN d.episodes : e.episodes[i] = d.episodes[i]
  BY <1>1, <1>2, <1>3
<1> HIDE DEF id
<1>5. Open(e) = Open(d) \cup {id} /\ id \notin Open(d)
  BY <1>1, <1>4 DEF Open, Closed
<1>6. \A i \in DOMAIN d.episodes : RowEntities(e, i) = RowEntities(d, i)
  BY <1>4 DEF RowEntities
<1>7. e.fts = DOMAIN e.episodes /\ {id} \subseteq Open(e) /\ e.vectors \ {} = Open(e) \ {id}
  BY <1>2, <1>4, <1>5 DEF Indexed
<1>8. \A i \in DOMAIN e.episodes \ {id} : RowEntities(e, i) \subseteq e.entities
  BY <1>2, <1>4, <1>6 DEF Indexed
<1>9. \A i \in Ids, en \in Entities :
        <<i, en>> \in e.mentions <=> i \in DOMAIN e.episodes \ {id} /\ en \in RowEntities(e, i)
  BY <1>2, <1>4, <1>6 DEF Indexed
<1>10. Indexed(e, {id}, {}, {id})
  BY <1>7, <1>8, <1>9 DEF Indexed
<1> QED
  BY <1>1, <1>4, <1>10 DEF e

\* The new row gets its vector.
LEMMA VectorIndexed ==
  ASSUME NEW d \in Database, NEW id, Indexed(d, {id}, {}, {id})
  PROVE  Indexed(AddVector(d, id), {}, {}, {id})
<1> DEFINE e == AddVector(d, id)
<1>1. /\ e.episodes = d.episodes /\ e.fts = d.fts /\ e.vectors = d.vectors \cup {id}
      /\ e.entities = d.entities /\ e.mentions = d.mentions
  BY DEF AddVector, Database
<1> HIDE DEF e
<1>2. Open(e) = Open(d) /\ \A i : RowEntities(e, i) = RowEntities(d, i)
  BY <1>1 DEF Open, Closed, RowEntities
<1>3. e.vectors \ {} = Open(e) \ {}
  BY <1>1, <1>2 DEF Indexed
<1> QED
  BY <1>1, <1>2, <1>3 DEF Indexed, e

\* The new row gets its links.
LEMMA EntitiesIndexed ==
  ASSUME NEW d \in Database, NEW id \in DOMAIN d.episodes, Indexed(d, {}, {}, {id}),
         NEW c, c = d.episodes[id].content, NEW ns, ns = d.episodes[id].namespace
  PROVE  Indexed(IndexEntities(d, id, c, ns), {}, {}, {})
<1> DEFINE e == IndexEntities(d, id, c, ns)
           found == {ns} \X EntitiesOf[c]
<1>1. found = RowEntities(d, id)
  BY DEF RowEntities
<1> HIDE DEF found
<1>2. /\ e.episodes = d.episodes /\ e.fts = d.fts /\ e.vectors = d.vectors
      /\ e.entities = d.entities \cup found /\ e.mentions = d.mentions \cup ({id} \X found)
  BY DEF IndexEntities, Database, found
<1> HIDE DEF e
<1>3. Open(e) = Open(d) /\ \A i : RowEntities(e, i) = RowEntities(d, i)
  BY <1>2 DEF Open, Closed, RowEntities
<1>4. \A i \in DOMAIN e.episodes \ {} : RowEntities(e, i) \subseteq e.entities
  BY <1>1, <1>2, <1>3 DEF Indexed
<1>5. \A i, en : <<i, en>> \in {id} \X found <=> i = id /\ en \in found
  OBVIOUS
<1>6. \A i \in Ids, en \in Entities :
        <<i, en>> \in e.mentions <=> i \in DOMAIN e.episodes \ {} /\ en \in RowEntities(e, i)
  BY <1>1, <1>2, <1>3, <1>5 DEF Indexed
<1> QED
  BY <1>2, <1>3, <1>4, <1>6 DEF Indexed, e

\* An UPDATE that closes the rows of left at most, and no others, leaves their vectors.
LEMMA UpdateIndexed ==
  ASSUME NEW d \in Database, Indexed(d, {}, {}, {}), NEW changed,
         DOMAIN changed \subseteq DOMAIN d.episodes, NEW left,
         \A i \in DOMAIN changed :
           /\ changed[i].namespace = d.episodes[i].namespace
           /\ changed[i].content = d.episodes[i].content
           /\ IF i \in left THEN changed[i].validTo # NULL
                            ELSE changed[i].validTo = d.episodes[i].validTo,
         left \subseteq DOMAIN changed
  PROVE  Indexed(Update(d, changed), {}, left, {})
<1> DEFINE e == Update(d, changed)
           rows == [i \in DOMAIN d.episodes |->
                      IF i \in DOMAIN changed THEN changed[i] ELSE d.episodes[i]]
<1>1. /\ e.episodes = rows /\ e.fts = Reindex(d.fts, DOMAIN changed)
      /\ e.vectors = d.vectors /\ e.entities = d.entities /\ e.mentions = d.mentions
  BY DEF Update, Database
<1>2. /\ DOMAIN rows = DOMAIN d.episodes
      /\ \A i \in DOMAIN d.episodes :
           /\ rows[i].namespace = d.episodes[i].namespace
           /\ rows[i].content = d.episodes[i].content
           /\ IF i \in left THEN rows[i].validTo # NULL
                            ELSE rows[i].validTo = d.episodes[i].validTo
  OBVIOUS
<1> HIDE DEF e, rows
<1>3. Open(e) = Open(d) \ left
  BY <1>1, <1>2 DEF Open, Closed
<1>4. \A i \in DOMAIN d.episodes : RowEntities(e, i) = RowEntities(d, i)
  BY <1>1, <1>2 DEF RowEntities
<1>5. e.fts = DOMAIN e.episodes /\ e.vectors \ left = Open(e) \ {} /\ {} \subseteq Open(e)
  BY <1>1, <1>2, <1>3 DEF Indexed, Reindex
<1>6. \A i \in DOMAIN e.episodes \ {} : RowEntities(e, i) \subseteq e.entities
  BY <1>1, <1>2, <1>4 DEF Indexed
<1>7. \A i \in Ids, en \in Entities :
        <<i, en>> \in e.mentions <=> i \in DOMAIN e.episodes \ {} /\ en \in RowEntities(e, i)
  <2>1. \A i \in Ids, en \in Entities :
          <<i, en>> \in d.mentions <=> i \in DOMAIN d.episodes /\ en \in RowEntities(d, i)
    BY DEF Indexed
  <2>2. DOMAIN e.episodes = DOMAIN d.episodes /\ e.mentions = d.mentions
    BY <1>1, <1>2
  <2>3. ASSUME NEW i \in Ids, NEW en \in Entities
        PROVE  <<i, en>> \in e.mentions
                 <=> i \in DOMAIN e.episodes \ {} /\ en \in RowEntities(e, i)
    <3>1. <<i, en>> \in e.mentions <=> i \in DOMAIN d.episodes /\ en \in RowEntities(d, i)
      BY <2>1, <2>2
    <3>2. i \in DOMAIN d.episodes => RowEntities(e, i) = RowEntities(d, i)
      BY <1>4
    <3> QED
      BY <2>2, <3>1, <3>2
  <2> QED
    BY <2>3
<1> QED
  BY <1>5, <1>6, <1>7 DEF Indexed, e

\* The vector of the row just closed goes.
LEMMA UnvectorIndexed ==
  ASSUME NEW d \in Database, NEW id, Indexed(d, {}, {id}, {})
  PROVE  Indexed(RemoveVector(d, id), {}, {}, {})
<1> DEFINE e == RemoveVector(d, id)
<1>1. /\ e.episodes = d.episodes /\ e.fts = d.fts /\ e.vectors = d.vectors \ {id}
      /\ e.entities = d.entities /\ e.mentions = d.mentions
  BY DEF RemoveVector, Database
<1> HIDE DEF e
<1>2. Open(e) = Open(d) /\ \A i : RowEntities(e, i) = RowEntities(d, i)
  BY <1>1 DEF Open, Closed, RowEntities
<1>3. e.vectors \ {} = Open(e) \ {}
  BY <1>1, <1>2 DEF Indexed
<1> QED
  BY <1>1, <1>2, <1>3 DEF Indexed, e

-----------------------------------------------------------------------------
(* The inductive invariant. *)

\* The steps that have, or may have, an uncommitted write behind them.
Writing == {"vector", "entities", "supersede", "unvector", "forget", "expire", "commit"}

Hidden(p) == IF pc[p] = "vector" THEN {NewId(p)} ELSE {}

Left(p) == IF pc[p] \in {"unvector", "forget"} THEN {call[p].target} ELSE {}

Unlinked(p) == IF pc[p] \in {"vector", "entities"} THEN {NewId(p)} ELSE {}

\* The ids of a call are ids of rows, once they are filtered.
Gathered == {"keyword", "graph", "temporal", "touch", "expire", "forget"}

\* How far the indexes a writer sees are behind the rows it sees.
Lag(p) ==
  /\ tx[p] = "write" =>
       pc[p] \in Writing /\ Indexed(view[p], Hidden(p), Left(p), Unlinked(p))
  /\ pc[p] = "forget" => tx[p] = "write"
  /\ pc[p] \in {"vector", "entities"} => view[p].episodes[NewId(p)].content = call[p].text
  /\ pc[p] \in Gathered => call[p].ids \subseteq DOMAIN View(p).episodes

DInv == IInv /\ Indexed(db, {}, {}, {}) /\ \A p \in Procs : Lag(p)

\* What a step of p, other than a commit, leaves alone.
Apart(p) ==
  /\ db' = db
  /\ \A q \in Procs \ {p} :
       tx'[q] = tx[q] /\ view'[q] = view[q] /\ pc'[q] = pc[q] /\ call'[q] = call[q]

\* Such a step needs to be looked at from p's side alone.
LEMMA ApartLag ==
  ASSUME DInv, NEW p \in Procs, Apart(p), IInv', Lag(p)'
  PROVE  DInv'
<1>1. ASSUME NEW q \in Procs \ {p}
      PROVE  Lag(q)'
  <2>1. /\ db' = db /\ tx'[q] = tx[q] /\ view'[q] = view[q] /\ pc'[q] = pc[q]
        /\ call'[q] = call[q]
    BY DEF Apart
  <2>2. View(q)' = View(q) /\ NewId(q)' = NewId(q)
    BY <2>1 DEF View, NewId
  <2>3. Hidden(q)' = Hidden(q) /\ Left(q)' = Left(q) /\ Unlinked(q)' = Unlinked(q)
    BY <2>1, <2>2 DEF Hidden, Left, Unlinked
  <2> QED
    BY <2>1, <2>2, <2>3 DEF DInv, Lag
<1>2. Indexed(db, {}, {}, {})'
  BY DEF DInv, Apart
<1> QED
  BY <1>1, <1>2 DEF DInv

\* Every step of a process but its commit is its own.
LEMMA StepApart ==
  ASSUME TypeOK, NEW p \in Procs,
         \/ NewCall(p) \/ StoreStep(p) \/ ForgetStep(p) \/ SearchStep(p)
         \/ StatsActive(p) \/ StatsTotal(p) \/ PushDump(p) \/ WriteRefused(p)
         \/ BindFails(p) \/ Crash(p)
  PROVE  Apart(p)
<1>1. /\ tx \in [Procs -> TxStates] /\ view \in [Procs -> Database]
      /\ pc \in [Procs -> Steps] /\ call \in [Procs -> Calls]
  BY DEF TypeOK
<1>2. ASSUME NewCall(p) PROVE Apart(p)
  BY <1>1, <1>2 DEF NewCall, StoreCall, SearchCall, ForgetCall, StatsCall, PushCall, Begin,
     Goto, Apart
<1>3. ASSUME StoreKnn(p) \/ StoreRow(p) \/ StoreStamp(p) PROVE Apart(p)
  BY <1>1, <1>3 DEF StoreKnn, StoreRow, StoreStamp, Select, Goto, Apart
<1>4. ASSUME \/ StoreInsert(p) \/ StoreVector(p) \/ StoreEntities(p) \/ StoreSupersede(p)
             \/ StoreUnvector(p)
      PROVE  Apart(p)
  BY <1>1, <1>4 DEF StoreInsert, StoreVector, StoreEntities, StoreSupersede, StoreUnvector,
     Write, Goto, Apart
<1>5. ASSUME ForgetStep(p) PROVE Apart(p)
  BY <1>1, <1>5 DEF ForgetStep, ForgetScan, ForgetExpire, ForgetVector, Select, Write, Goto, Apart
<1>6. ASSUME SearchStep(p) PROVE Apart(p)
  BY <1>1, <1>6 DEF SearchStep, SearchKnn, SearchFilter, SearchKeyword, SearchGraph, Gather,
     SearchFuse, SearchTouch, Select, Write, Goto, Finish, Apart
<1>7. ASSUME StatsActive(p) \/ StatsTotal(p) \/ PushDump(p) PROVE Apart(p)
  BY <1>1, <1>7 DEF StatsActive, StatsTotal, PushDump, Select, Goto, Finish, Apart
<1>8. ASSUME WriteRefused(p) \/ BindFails(p) \/ Crash(p) PROVE Apart(p)
  BY <1>1, <1>8 DEF WriteRefused, BindFails, Crash, BeginOnly, Goto, Finish, Apart
<1> QED
  BY <1>2, <1>3, <1>4, <1>5, <1>6, <1>7, <1>8 DEF StoreStep

-----------------------------------------------------------------------------
(* Statements. *)

\* A connection that does not write still does not after a SELECT, and sees the same.
LEMMA SelectLag ==
  ASSUME DInv, NEW p \in Procs, Select(p), UNCHANGED db, tx[p] # "write"
  PROVE  tx'[p] # "write" /\ View(p)' = View(p)
BY SelectConnections DEF DInv, IInv, TypeOK, Select

\* A writing statement.
LEMMA WriteLag ==
  ASSUME DInv, NEW p \in Procs, NEW d, Write(p, d)
  PROVE  tx'[p] = "write" /\ view'[p] = d /\ View(p)' = d
BY DEF DInv, IInv, TypeOK, Write, View

\* A process outside the steps of a write does not hold the lock.
LEMMA NotWriting ==
  ASSUME DInv, NEW p \in Procs, pc[p] \notin Writing
  PROVE  tx[p] # "write"
BY DEF DInv, Lag

\* Where a call begins to write, or has finished with a row, the indexes it sees are whole.
LEMMA SeesIndexed ==
  ASSUME DInv, NEW p \in Procs, CanWrite(p),
         pc[p] \notin {"vector", "entities", "unvector", "forget"}
  PROVE  Indexed(View(p), {}, {}, {}) /\ View(p) \in Database
<1>1. View(p) \in Database
  BY ViewType DEF DInv, IInv
<1>2. CASE tx[p] = "write"
  BY <1>1, <1>2 DEF DInv, Lag, Hidden, Left, Unlinked, View
<1>3. CASE tx[p] # "write"
  <2>1. View(p) = db
    BY <1>3 DEF DInv, IInv, TypeOK, TxStates, CanWrite, ConnectionOK, View
  <2> QED
    BY <1>1, <2>1 DEF DInv
<1> QED
  BY <1>2, <1>3

-----------------------------------------------------------------------------
(* One step per action. *)

\* Reading steps of a store, and the start and the end of a call: nothing is written.
LEMMA ReadingLag ==
  ASSUME DInv, NEW p \in Procs, "abort" \notin Failures,
         \/ NewCall(p) \/ StoreKnn(p) \/ StoreRow(p) \/ StoreStamp(p)
         \/ StatsActive(p) \/ StatsTotal(p) \/ PushDump(p)
         \/ WriteRefused(p) \/ BindFails(p) \/ Crash(p)
  PROVE  Lag(p)'
<1>1. /\ tx \in [Procs -> TxStates] /\ pc \in [Procs -> Steps]
      /\ view \in [Procs -> Database] /\ call \in [Procs -> Calls]
  BY DEF DInv, IInv, TypeOK
<1>2. ASSUME NEW step \in Steps \ (Writing \cup Gathered), Goto(p, step), tx'[p] # "write"
      PROVE  Lag(p)'
  <2>1. pc'[p] = step
    BY <1>1, <1>2 DEF Goto
  <2> QED
    BY <1>2, <2>1 DEF Lag, Writing, Gathered
<1>3. CASE NewCall(p)
  <2>1. PICK step \in {"knn", "vknn", "scan", "active", "dump"} :
          pc[p] = "idle" /\ Goto(p, step) /\ tx' = tx
    BY <1>3 DEF NewCall, StoreCall, SearchCall, ForgetCall, StatsCall, PushCall, Begin
  <2>2. tx'[p] # "write"
    BY <2>1, NotWriting DEF Writing
  <2> QED
    BY <1>2, <2>1, <2>2 DEF Steps, Writing, Gathered
<1>4. CASE StoreKnn(p) \/ StoreRow(p) \/ StoreStamp(p)
  <2>1. PICK step \in {"row", "stamp", "insert"} :
          /\ pc[p] \in {"knn", "row", "stamp"} /\ Goto(p, step)
          /\ (Select(p) \/ tx' = tx) /\ db' = db
    BY <1>4 DEF StoreKnn, StoreRow, StoreStamp
  <2>2. tx'[p] # "write"
    BY <2>1, NotWriting, SelectLag DEF Writing
  <2> QED
    BY <1>2, <2>1, <2>2 DEF Steps, Writing, Gathered
<1>5. CASE StatsActive(p) \/ StatsTotal(p) \/ PushDump(p)
  <2>1. PICK step \in {"total", "idle"} :
          /\ pc[p] \in {"active", "total", "dump"} /\ Goto(p, step)
          /\ (Select(p) \/ tx' = tx) /\ db' = db
    BY <1>5 DEF StatsActive, StatsTotal, PushDump, Finish
  <2>2. tx'[p] # "write"
    BY <2>1, NotWriting, SelectLag DEF Writing
  <2> QED
    BY <1>2, <2>1, <2>2 DEF Steps, Writing, Gathered
<1>6. CASE WriteRefused(p) \/ BindFails(p)
  <2>1. Goto(p, "idle") /\ BeginOnly(p)
    BY <1>6 DEF WriteRefused, BindFails, Finish
  <2>2. tx[p] # "write"
    <3>1. tx[p] = "write" => CanWrite(p)
      BY DEF DInv, IInv, OneWriter, CanWrite
    <3> QED
      BY <1>6, <3>1, NotWriting DEF WriteRefused, BindFails, Writing
  <2>3. tx'[p] # "write"
    BY <1>1, <2>1, <2>2 DEF BeginOnly
  <2> QED
    BY <1>2, <2>1, <2>3 DEF Steps, Writing, Gathered
<1>7. CASE Crash(p)
  <2>1. Goto(p, "idle") /\ tx'[p] # "write"
    BY <1>1, <1>7 DEF Crash, Finish
  <2> QED
    BY <1>2, <2>1 DEF Steps, Writing, Gathered
<1> QED
  BY <1>3, <1>4, <1>5, <1>6, <1>7

\* The statements of a store: each one mends what the one before left behind.
LEMMA StoreLag ==
  ASSUME DInv, NEW p \in Procs,
         StoreInsert(p) \/ StoreVector(p) \/ StoreEntities(p) \/ StoreSupersede(p)
           \/ StoreUnvector(p)
  PROVE  Lag(p)'
<1>1. /\ pc \in [Procs -> Steps] /\ call[p] \in Calls /\ call' = call
      /\ CallOK(p) /\ Lag(p) /\ view[p] \in Database
  BY DEF DInv, IInv, TypeOK, StoreInsert, StoreVector, StoreEntities, StoreSupersede,
         StoreUnvector
<1>2. call[p].ns \in Namespaces /\ call[p].text \in Contents
  BY <1>1 DEF CallOK, StoreSteps, StoreInsert, StoreVector, StoreEntities, StoreSupersede,
              StoreUnvector
<1>3. /\ call[p].now \in Nat /\ call[p].ttl \in Int \cup {NULL}
      /\ call[p].now # NULL
  BY <1>1, MemoryDbAssumptions DEF Calls
<1>4. ASSUME NEW step \in Writing \ Gathered, pc' = [pc EXCEPT ![p] = step],
             NEW d, Write(p, d),
             NEW hidden, NEW left, NEW unlinked, Indexed(d, hidden, left, unlinked),
             hidden = IF step = "vector" THEN {Len(d.episodes)} ELSE {},
             left = IF step = "unvector" THEN {call[p].target} ELSE {},
             unlinked = IF step \in {"vector", "entities"} THEN {Len(d.episodes)} ELSE {},
             step \in {"vector", "entities"} =>
               d.episodes[Len(d.episodes)].content = call[p].text
      PROVE  Lag(p)'
  <2>1. tx'[p] = "write" /\ view'[p] = d /\ pc'[p] = step /\ call'[p] = call[p]
    BY <1>1, <1>4, WriteLag
  <2>2. NewId(p)' = Len(d.episodes)
    BY <2>1 DEF NewId
  <2>3. /\ Hidden(p)' = IF step = "vector" THEN {Len(d.episodes)} ELSE {}
        /\ Left(p)' = IF step = "unvector" THEN {call[p].target} ELSE {}
        /\ Unlinked(p)' = IF step \in {"vector", "entities"} THEN {Len(d.episodes)} ELSE {}
    BY <1>4, <2>1, <2>2 DEF Hidden, Left, Unlinked, Gathered
  <2> QED
    BY <1>4, <2>1, <2>2, <2>3 DEF Lag, Gathered
<1>5. CASE StoreInsert(p)
  <2> DEFINE e == InsertEpisode(View(p), call[p].ns, call[p].text, call[p].now, call[p].ttl)
  <2>1. pc[p] = "insert" /\ Write(p, e) /\ pc' = [pc EXCEPT ![p] = "vector"]
    BY <1>5 DEF StoreInsert, Goto
  <2>2. Indexed(View(p), {}, {}, {}) /\ View(p) \in Database
    BY <2>1, SeesIndexed DEF Write
  <2>3. /\ Indexed(e, {Len(e.episodes)}, {}, {Len(e.episodes)})
        /\ e.episodes[Len(e.episodes)].content = call[p].text
    BY <1>2, <1>3, <2>2, InsertIndexed
  <2> HIDE DEF e
  <2> QED
    BY <1>4, <2>1, <2>3 DEF Writing, Gathered
<1>6. ASSUME pc[p] \in RowInserted
      PROVE  /\ Indexed(view[p], Hidden(p), Left(p), Unlinked(p))
             /\ NewId(p) \in InNamespace(view[p], call[p].ns)
             /\ NewId(p) \in DOMAIN view[p].episodes
             /\ View(p) = view[p] /\ CanWrite(p)
  <2>1. tx[p] = "write"
    BY <1>1, <1>6 DEF CallOK
  <2> QED
    BY <1>1, <1>6, <2>1 DEF CallOK, Lag, InNamespace, View, CanWrite, DInv, IInv, OneWriter
<1>7. CASE StoreVector(p)
  <2> DEFINE e == AddVector(view[p], NewId(p))
  <2>1. pc[p] = "vector" /\ Write(p, e) /\ pc' = [pc EXCEPT ![p] = "entities"]
    BY <1>7 DEF StoreVector, Goto
  <2>2. Indexed(view[p], {NewId(p)}, {}, {NewId(p)})
    BY <1>6, <2>1 DEF RowInserted, Hidden, Left, Unlinked
  <2>3. Indexed(e, {}, {}, {NewId(p)})
    BY <1>1, <2>2, VectorIndexed
  <2>4. e.episodes = view[p].episodes
    BY <1>1 DEF AddVector, Database
  <2>5. NewId(p) = Len(e.episodes) /\ e.episodes[NewId(p)].content = call[p].text
    BY <1>1, <2>1, <2>4 DEF NewId, Lag
  <2> HIDE DEF e
  <2> QED
    BY <1>4, <2>1, <2>3, <2>5 DEF Writing, Gathered
<1>8. CASE StoreEntities(p)
  <2> DEFINE e == IndexEntities(view[p], NewId(p), call[p].text, call[p].ns)
             step == IF call[p].target = NULL THEN "commit" ELSE "supersede"
  <2>1. pc[p] = "entities" /\ Write(p, e) /\ pc' = [pc EXCEPT ![p] = step]
    BY <1>8 DEF StoreEntities, Goto
  <2>2. Indexed(view[p], {}, {}, {NewId(p)})
    BY <1>6, <2>1 DEF RowInserted, Hidden, Left, Unlinked
  <2>3. /\ call[p].text = view[p].episodes[NewId(p)].content
        /\ call[p].ns = view[p].episodes[NewId(p)].namespace
    BY <1>1, <1>6, <2>1 DEF RowInserted, Lag, InNamespace
  <2>4. Indexed(e, {}, {}, {})
    BY <1>1, <1>6, <2>1, <2>2, <2>3, EntitiesIndexed DEF RowInserted
  <2>5. step \in {"commit", "supersede"}
    OBVIOUS
  <2> HIDE DEF e, step
  <2> QED
    BY <1>4, <2>1, <2>4, <2>5 DEF Writing, Gathered
<1>9. CASE StoreSupersede(p)
  <2> DEFINE old == call[p].target
             changed == [i \in {old} |-> [view[p].episodes[i] EXCEPT !.validTo = call[p].now,
                                                                     !.supersededBy = NewId(p)]]
             e == Update(view[p], changed)
  <2>1. pc[p] = "supersede" /\ Write(p, e) /\ pc' = [pc EXCEPT ![p] = "unvector"]
    BY <1>9 DEF StoreSupersede, SupersedeEpisode, Goto
  <2>2. Indexed(view[p], {}, {}, {})
    BY <1>6, <2>1, SeesIndexed DEF RowInserted
  <2>3. old \in DOMAIN view[p].episodes /\ view[p].episodes[old] \in Episode
    BY <1>1, <2>1, EveryRow DEF CallOK, RowInserted, InNamespace
  <2>4. /\ DOMAIN changed = {old}
        /\ changed[old].namespace = view[p].episodes[old].namespace
        /\ changed[old].content = view[p].episodes[old].content
        /\ changed[old].validTo # NULL
    BY <1>3, <2>3 DEF Episode
  <2> HIDE DEF changed
  <2>5. Indexed(e, {}, {old}, {})
    BY <1>1, <2>2, <2>3, <2>4, UpdateIndexed
  <2>6. "unvector" \in Writing \ Gathered /\ "unvector" \notin {"vector", "entities"}
    BY DEF Writing, Gathered
  <2> HIDE DEF e, old
  <2> QED
    BY <1>4, <2>1, <2>5, <2>6 DEF old
<1>10. CASE StoreUnvector(p)
  <2> DEFINE e == RemoveVector(view[p], call[p].target)
  <2>1. pc[p] = "unvector" /\ Write(p, e) /\ pc' = [pc EXCEPT ![p] = "commit"]
    BY <1>10 DEF StoreUnvector, Goto
  <2>2. Indexed(view[p], {}, {call[p].target}, {})
    BY <1>6, <2>1 DEF RowInserted, Hidden, Left, Unlinked
  <2>3. Indexed(e, {}, {}, {})
    BY <1>1, <2>2, UnvectorIndexed
  <2>4. "commit" \in Writing \ Gathered /\ "commit" \notin {"vector", "entities", "unvector"}
    BY DEF Writing, Gathered
  <2> HIDE DEF e
  <2> QED
    BY <1>4, <2>1, <2>3, <2>4
<1> QED
  BY <1>5, <1>7, <1>8, <1>9, <1>10

\* forget_expired: a row is closed and its vector removed before the next one's turn.
LEMMA ForgetLag ==
  ASSUME DInv, NEW p \in Procs, ForgetStep(p)
  PROVE  Lag(p)'
<1>1. /\ pc \in [Procs -> Steps] /\ call \in [Procs -> Calls] /\ Lag(p)
      /\ View(p) \in Database /\ call[p].now \in Nat /\ call[p].now # NULL
  BY ViewType, MemoryDbAssumptions DEF DInv, IInv, TypeOK, Calls
<1>2. CASE ForgetScan(p)
  <2> DEFINE due == Expired(View(p), call[p].ns, call[p].now)
             step == IF due = {} THEN "commit" ELSE "expire"
  <2>1. /\ pc[p] = "scan" /\ Select(p) /\ db' = db
        /\ call' = [call EXCEPT ![p].ids = due] /\ Goto(p, step)
    BY <1>2 DEF ForgetScan
  <2>2. due \subseteq DOMAIN View(p).episodes
    BY DEF Expired, Active, InNamespace
  <2>3. tx'[p] # "write" /\ View(p)' = View(p)
    BY <2>1, NotWriting, SelectLag DEF Writing
  <2>4. pc'[p] = step /\ step \in {"commit", "expire"}
    BY <1>1, <2>1 DEF Goto
  <2>5. call'[p].ids = due
    BY <1>1, <2>1 DEF Calls
  <2> HIDE DEF due, step
  <2> QED
    BY <2>2, <2>3, <2>4, <2>5 DEF Lag
<1>3. CASE ForgetExpire(p)
  <2>1. PICK id \in call[p].ids :
          /\ Write(p, ExpireEpisode(View(p), id, call[p].now))
          /\ call' = [call EXCEPT ![p].target = id, ![p].ids = @ \ {id}]
    BY <1>3 DEF ForgetExpire
  <2> DEFINE changed == [i \in {id} |-> [View(p).episodes[i] EXCEPT !.validTo = call[p].now]]
             e == Update(View(p), changed)
  <2>2. pc[p] = "expire" /\ Write(p, e) /\ Goto(p, "forget")
    BY <1>3, <2>1 DEF ForgetExpire, ExpireEpisode
  <2>3. call[p].ids \subseteq DOMAIN View(p).episodes
    BY <1>1, <2>2 DEF Lag, Gathered
  <2>4. Indexed(View(p), {}, {}, {})
    BY <2>2, SeesIndexed DEF Write
  <2>5. View(p).episodes[id] \in Episode /\ id \in DOMAIN View(p).episodes
    BY <1>1, <2>3, EveryRow
  <2>6. /\ DOMAIN changed = {id}
        /\ changed[id].namespace = View(p).episodes[id].namespace
        /\ changed[id].content = View(p).episodes[id].content
        /\ changed[id].validTo # NULL
    BY <1>1, <2>5 DEF Episode
  <2>7. DOMAIN e.episodes = DOMAIN View(p).episodes
    BY <1>1 DEF Update, Database
  <2> HIDE DEF changed
  <2>8. Indexed(e, {}, {id}, {})
    BY <1>1, <2>4, <2>5, <2>6, UpdateIndexed
  <2> HIDE DEF e
  <2>9. tx'[p] = "write" /\ view'[p] = e /\ View(p)' = e /\ pc'[p] = "forget"
    BY <1>1, <2>2, WriteLag DEF Goto
  <2>10. call'[p].target = id /\ call'[p].ids = call[p].ids \ {id}
    BY <1>1, <2>1 DEF Calls
  <2>11. Hidden(p)' = {} /\ Left(p)' = {id} /\ Unlinked(p)' = {}
    BY <2>9, <2>10 DEF Hidden, Left, Unlinked
  <2>12. "forget" \in Writing
    BY DEF Writing
  <2> QED
    BY <2>3, <2>7, <2>8, <2>9, <2>10, <2>11, <2>12 DEF Lag
<1>4. CASE ForgetVector(p)
  <2> DEFINE e == RemoveVector(View(p), call[p].target)
             step == IF call[p].ids = {} THEN "commit" ELSE "expire"
  <2>1. pc[p] = "forget" /\ Write(p, e) /\ Goto(p, step) /\ call' = call
    BY <1>4 DEF ForgetVector
  <2>2. tx[p] = "write" /\ View(p) = view[p] /\ call[p].ids \subseteq DOMAIN View(p).episodes
    BY <1>1, <2>1 DEF Lag, Gathered, View
  <2>3. Indexed(View(p), {}, {call[p].target}, {})
    BY <1>1, <2>1, <2>2 DEF Lag, Hidden, Left, Unlinked
  <2>4. Indexed(e, {}, {}, {})
    BY <1>1, <2>3, UnvectorIndexed
  <2>5. e.episodes = View(p).episodes
    BY <1>1 DEF RemoveVector, Database
  <2>6. step \in {"commit", "expire"} /\ step \in Writing
    BY DEF Writing
  <2> HIDE DEF e, step
  <2>7. tx'[p] = "write" /\ view'[p] = e /\ View(p)' = e /\ pc'[p] = step
    BY <1>1, <2>1, WriteLag DEF Goto
  <2>8. Hidden(p)' = {} /\ Left(p)' = {} /\ Unlinked(p)' = {}
    BY <2>6, <2>7 DEF Hidden, Left, Unlinked
  <2> QED
    BY <2>1, <2>2, <2>4, <2>5, <2>6, <2>7, <2>8 DEF Lag
<1> QED
  BY <1>2, <1>3, <1>4 DEF ForgetStep

\* search: what is gathered are rows, and counting them changes no index.
LEMMA SearchLag ==
  ASSUME DInv, NEW p \in Procs, SearchStep(p)
  PROVE  Lag(p)'
<1>1. /\ pc \in [Procs -> Steps] /\ call \in [Procs -> Calls] /\ Lag(p)
      /\ View(p) \in Database
  BY ViewType DEF DInv, IInv, TypeOK
<1>2. ASSUME pc[p] \notin Writing, Select(p), db' = db,
             NEW ids, NEW step \in {"vfilter", "keyword", "graph", "temporal", "touch"},
             call' = [call EXCEPT ![p].ids = ids], Goto(p, step),
             step # "vfilter" => ids \subseteq DOMAIN View(p).episodes
      PROVE  Lag(p)'
  <2>1. tx'[p] # "write" /\ View(p)' = View(p)
    BY <1>2, NotWriting, SelectLag
  <2>2. pc'[p] = step /\ call'[p].ids = ids
    BY <1>1, <1>2 DEF Goto, Calls
  <2> QED
    BY <1>2, <2>1, <2>2 DEF Lag, Gathered
<1>3. pc[p] \in Gathered => call[p].ids \subseteq DOMAIN View(p).episodes
  BY <1>1 DEF Lag
<1>4. Active(View(p), call[p].ns) \subseteq DOMAIN View(p).episodes
  BY DEF Active, InNamespace
<1>5. CASE SearchKnn(p)
  BY <1>2, <1>5 DEF SearchKnn, Writing
<1>6. CASE SearchFilter(p)
  <2> DEFINE ids == call[p].ids \cap Active(View(p), call[p].ns)
  <2>1. ids \subseteq DOMAIN View(p).episodes
    BY <1>4
  <2>2. /\ pc[p] = "vfilter" /\ Select(p) /\ db' = db /\ Goto(p, "keyword")
        /\ call' = [call EXCEPT ![p].ids = ids]
    BY <1>6 DEF SearchFilter
  <2> HIDE DEF ids
  <2> QED
    BY <1>2, <2>1, <2>2 DEF Writing
<1>7. ASSUME NEW from \in {"keyword", "graph"}, NEW to \in {"graph", "temporal"},
             NEW hits \in SUBSET DOMAIN View(p).episodes, Gather(p, from, hits, to)
      PROVE  Lag(p)'
  <2> DEFINE ids == call[p].ids \cup hits
  <2>1. /\ pc[p] = from /\ Select(p) /\ db' = db /\ Goto(p, to)
        /\ call' = [call EXCEPT ![p].ids = ids]
    BY <1>7 DEF Gather
  <2>2. ids \subseteq DOMAIN View(p).episodes
    BY <1>3, <2>1 DEF Gathered
  <2> HIDE DEF ids
  <2> QED
    BY <1>2, <2>1, <2>2 DEF Writing
<1>8. CASE SearchKeyword(p)
  <2>1. KeywordHits(View(p), call[p].text, call[p].ns) \in SUBSET DOMAIN View(p).episodes
    BY <1>4 DEF KeywordHits
  <2> QED
    BY <1>7, <1>8, <2>1 DEF SearchKeyword
<1>9. CASE SearchGraph(p)
  <2>1. GraphHits(View(p), call[p].text, call[p].ns) \in SUBSET DOMAIN View(p).episodes
    BY DEF GraphHits
  <2> QED
    BY <1>7, <1>9, <2>1 DEF SearchGraph
<1>10. CASE SearchFuse(p)
  <2> DEFINE hits == call[p].ids \cup Active(View(p), call[p].ns)
  <2>1. pc[p] = "temporal" /\ Select(p) /\ db' = db
    BY <1>10 DEF SearchFuse
  <2>2. hits \subseteq DOMAIN View(p).episodes
    BY <1>3, <1>4, <2>1 DEF Gathered
  <2>3. CASE Finish(p)
    <3>1. tx'[p] # "write" /\ pc'[p] = "idle"
      BY <1>1, <2>1, <2>3, NotWriting, SelectLag DEF Writing, Finish, Goto
    <3> QED
      BY <3>1 DEF Lag, Gathered
  <2>4. ASSUME NEW ranked \in SUBSET hits,
               call' = [call EXCEPT ![p].ids = ranked], Goto(p, "touch")
        PROVE  Lag(p)'
    BY <1>2, <2>1, <2>2, <2>4 DEF Writing
  <2> QED
    BY <1>10, <2>3, <2>4 DEF SearchFuse
<1>11. CASE SearchTouch(p)
  <2> DEFINE ids == call[p].ids
             changed == [i \in ids |-> [View(p).episodes[i] EXCEPT !.accessCount = @ + 1]]
             e == Update(View(p), changed)
  <2>1. pc[p] = "touch" /\ Write(p, e) /\ Goto(p, "commit")
    BY <1>11 DEF SearchTouch, TouchEpisodes
  <2>2. Indexed(View(p), {}, {}, {}) /\ ids \subseteq DOMAIN View(p).episodes
    BY <1>3, <2>1, SeesIndexed DEF Write, Gathered
  <2>3. \A i \in DOMAIN View(p).episodes : View(p).episodes[i] \in Episode
    BY <1>1, EveryRow
  <2>4. /\ DOMAIN changed = ids
        /\ \A i \in ids : /\ changed[i].namespace = View(p).episodes[i].namespace
                          /\ changed[i].content = View(p).episodes[i].content
                          /\ changed[i].validTo = View(p).episodes[i].validTo
    BY <2>2, <2>3 DEF Episode
  <2> HIDE DEF changed
  <2>5. Indexed(e, {}, {}, {})
    BY <1>1, <2>2, <2>4, UpdateIndexed
  <2> HIDE DEF e
  <2>6. tx'[p] = "write" /\ view'[p] = e /\ pc'[p] = "commit"
    BY <1>1, <2>1, WriteLag DEF Goto
  <2>7. Hidden(p)' = {} /\ Left(p)' = {} /\ Unlinked(p)' = {}
    BY <2>6 DEF Hidden, Left, Unlinked
  <2> QED
    BY <2>5, <2>6, <2>7 DEF Lag, Writing, Gathered
<1> QED
  BY <1>5, <1>6, <1>8, <1>9, <1>10, <1>11 DEF SearchStep

\* A commit publishes indexes that are whole; what others see only grows.
LEMMA CommitIndexed ==
  ASSUME DInv, NEW p \in Procs, Commit(p), IInv'
  PROVE  DInv'
<1>1. /\ tx \in [Procs -> TxStates] /\ pc \in [Procs -> Steps]
      /\ view \in [Procs -> Database] /\ call \in [Procs -> Calls]
  BY DEF DInv, IInv, TypeOK
<1>2. /\ pc[p] = "commit"
      /\ db' = IF tx[p] = "write" THEN view[p] ELSE db
      /\ tx' = [q \in Procs |-> IF q = p THEN "none"
                                ELSE IF tx[p] = "write" /\ tx[q] = "read" THEN "stale" ELSE tx[q]]
      /\ view' = [view EXCEPT ![p] = EmptyDatabase]
      /\ pc' = [pc EXCEPT ![p] = "idle"]
      /\ call' = Witness(p, db')
  BY DEF Commit, Goto
<1>3. Indexed(db', {}, {}, {})
  <2>1. Hidden(p) = {} /\ Left(p) = {} /\ Unlinked(p) = {}
    BY <1>2 DEF Hidden, Left, Unlinked
  <2> QED
    BY <1>2, <2>1 DEF DInv, Lag
<1>4. Lag(p)'
  <2>1. tx'[p] = "none" /\ pc'[p] = "idle"
    BY <1>1, <1>2
  <2> QED
    BY <2>1 DEF Lag, Gathered
<1>5. ASSUME NEW q \in Procs \ {p}
      PROVE  Lag(q)'
  <2>1. /\ tx'[q] = "write" <=> tx[q] = "write"
        /\ view'[q] = view[q] /\ pc'[q] = pc[q]
    BY <1>1, <1>2
  <2>2. call[q] \in Calls
    BY <1>1
  <2>3. call'[q] = call[q] \/ \E seen : call'[q] = [call[q] EXCEPT !.seen = seen]
    BY <1>2 DEF Witness
  <2>4. /\ call'[q].text = call[q].text /\ call'[q].target = call[q].target
        /\ call'[q].ids = call[q].ids
    BY <2>2, <2>3 DEF Calls
  <2>5. DOMAIN View(q).episodes \subseteq DOMAIN View(q)'.episodes
    <3>1. View(q) \in Database
      BY ViewType DEF DInv, IInv
    <3>2. \A i \in DOMAIN View(q).episodes : View(q).episodes[i].namespace \in Namespaces
      BY <3>1, EveryRow DEF Episode
    <3>3. \A ns \in Namespaces : InNamespace(View(q), ns) \subseteq InNamespace(View(q)', ns)
      BY CommitConnections DEF DInv, ConnectionStep
    <3> HIDE DEF View
    <3> QED
      BY <3>2, <3>3 DEF InNamespace
  <2>6. NewId(q)' = NewId(q)
    BY <2>1 DEF NewId
  <2>7. Hidden(q)' = Hidden(q) /\ Left(q)' = Left(q) /\ Unlinked(q)' = Unlinked(q)
    BY <2>1, <2>4, <2>6 DEF Hidden, Left, Unlinked
  <2> QED
    BY <2>1, <2>4, <2>5, <2>6, <2>7 DEF DInv, Lag
<1> QED
  BY <1>3, <1>4, <1>5 DEF DInv

-----------------------------------------------------------------------------
(* The theorem. *)

\* An empty file has empty indexes.
LEMMA DInvInit == Init => DInv
<1> SUFFICES ASSUME Init PROVE DInv
  OBVIOUS
<1>1. Indexed(EmptyDatabase, {}, {}, {})
  BY DEF Indexed, EmptyDatabase, Open, Closed
<1>2. \A p \in Procs : Lag(p)
  BY DEF Init, Lag, Gathered
<1> QED
  BY <1>1, <1>2, IInvInit DEF DInv, Init

\* Without an exception in a write transaction, every step keeps them in order.
LEMMA DInvNext ==
  ASSUME "abort" \notin Failures, DInv, [Next]_vars
  PROVE  DInv'
<1>1. IInv' /\ TypeOK
  BY IInvNext DEF DInv, IInv
<1>2. ASSUME NEW p \in Procs, Commit(p)
      PROVE  DInv'
  BY <1>1, <1>2, CommitIndexed
<1>3. ASSUME NEW p \in Procs,
             \/ NewCall(p) \/ StoreStep(p) \/ ForgetStep(p) \/ SearchStep(p)
             \/ StatsActive(p) \/ StatsTotal(p) \/ PushDump(p) \/ WriteRefused(p)
             \/ BindFails(p) \/ Crash(p)
      PROVE  DInv'
  <2>1. Apart(p)
    BY <1>1, <1>3, StepApart
  <2>2. Lag(p)'
    BY <1>3, ReadingLag, StoreLag, ForgetLag, SearchLag DEF StoreStep
  <2> QED
    BY <1>1, <2>1, <2>2, ApartLag
<1>4. \A p \in Procs : ~ Aborts(p)
  BY DEF Aborts
<1>5. CASE Tick \/ UNCHANGED vars
  <2>1. UNCHANGED <<db, tx, view, pc, call>>
    BY <1>5 DEF Tick, vars
  <2> QED
    BY <1>1, <2>1 DEF DInv, Lag, Hidden, Left, Unlinked, View, NewId
<1> QED
  BY <1>2, <1>3, <1>4, <1>5 DEF Next, Step

\* However stores, sweeps and searches of any number of processes interleave, fail or die, a
\* commit publishes FTS rows, vectors and entity links that say what the episodes say, as
\* long as no exception leaves a write transaction open half way.
THEOREM IndexesStayDerived ==
  ASSUME "abort" \notin Failures
  PROVE  Spec => []IndexesDerived
<1>1. DInv => IndexesDerived
  BY IndexedDerived DEF DInv, IInv, TypeOK, IndexesDerived
<1>2. DInv /\ [Next]_vars => DInv'
  BY DInvNext
<1> QED
  BY <1>1, <1>2, DInvInit, PTL DEF Spec

-----------------------------------------------------------------------------
(* The engine implements the ledger: between its first write and its       *)
(* commit, what a call has done so far to the rows is part of one step of  *)
(* the ledger, and at the commit all of it.                                *)

\* The row a store inserts.
Fresh(p) == NewEpisode(call[p].ns, call[p].text, call[p].now, call[p].ttl)

\* The steps of the ledger, from the rows old to the rows new.
Recorded(old, new) ==
  LET row == new[Len(new)] IN
  /\ Len(new) = Len(old) + 1
  /\ row.validTo = NULL /\ row.supersededBy = NULL /\ row.accessCount = 0
  /\ \/ new = Append(old, row)
     \/ \E i \in DOMAIN old :
          /\ old[i].namespace = row.namespace
          /\ new = Append([old EXCEPT ![i].validTo = row.validFrom,
                                      ![i].supersededBy = Len(new)], row)

ClosedAt(old, new, ids, now) ==
  /\ \A i \in ids : old[i].expiresAt # NULL /\ old[i].expiresAt <= now
  /\ new = [i \in DOMAIN old |-> IF i \in ids THEN [old[i] EXCEPT !.validTo = now] ELSE old[i]]

Swept(old, new, now) == \E ids \in (SUBSET DOMAIN old) \ {{}} : ClosedAt(old, new, ids, now)

Touched(old, new) ==
  \E ids \in (SUBSET DOMAIN old) \ {{}} :
    new = [i \in DOMAIN old |->
             IF i \in ids THEN [old[i] EXCEPT !.accessCount = @ + 1] ELSE old[i]]

\* A row that forget_expired may close.
Due(d, i, now) ==
  /\ i \in DOMAIN d.episodes
  /\ d.episodes[i].expiresAt # NULL /\ d.episodes[i].expiresAt <= now

\* What p has done to the rows.
Effect(p) ==
  LET old == db.episodes
      new == view[p].episodes IN
  /\ tx[p] = "write" =>
       /\ pc[p] \in {"vector", "entities", "supersede"} => new = Append(old, Fresh(p))
       /\ pc[p] = "unvector" => Recorded(old, new)
       /\ pc[p] \in {"expire", "forget"} => Swept(old, new, call[p].now)
       /\ pc[p] = "commit" =>
            Recorded(old, new) \/ Swept(old, new, call[p].now) \/ Touched(old, new)
  /\ pc[p] \in {"expire", "forget"} =>
       \A i \in call[p].ids : Due(View(p), i, call[p].now)
  /\ pc[p] = "touch" => call[p].ids # {}

LInv == DInv /\ \A p \in Procs : Effect(p)

\* The steps at which there is something to say.
Telling == {"vector", "entities", "supersede", "unvector", "expire", "forget", "touch", "commit"}

\* A step that is p's own is looked at from p's side alone.
LEMMA ApartEffect ==
  ASSUME LInv, NEW p \in Procs, Apart(p), NEW q \in Procs \ {p}
  PROVE  Effect(q)'
<1>1. /\ db' = db /\ tx'[q] = tx[q] /\ view'[q] = view[q] /\ pc'[q] = pc[q]
      /\ call'[q] = call[q]
  BY DEF Apart
<1>2. View(q)' = View(q) /\ Fresh(q)' = Fresh(q)
  BY <1>1 DEF View, Fresh
<1> QED
  BY <1>1, <1>2 DEF LInv, Effect

\* A process that begins to write has the committed rows before it.
LEMMA WriterFresh ==
  ASSUME DInv, NEW p \in Procs, CanWrite(p), tx[p] # "write"
  PROVE  View(p) = db
BY DEF DInv, IInv, TypeOK, TxStates, CanWrite, ConnectionOK, View

\* Calls begin, read and end without an effect.
LEMMA ReadingEffect ==
  ASSUME LInv, NEW p \in Procs,
         \/ NewCall(p) \/ StoreKnn(p) \/ StoreRow(p) \/ StoreStamp(p)
         \/ StatsActive(p) \/ StatsTotal(p) \/ PushDump(p)
         \/ WriteRefused(p) \/ BindFails(p) \/ Crash(p)
  PROVE  Effect(p)'
<1>1. pc \in [Procs -> Steps]
  BY DEF LInv, DInv, IInv, TypeOK
<1>2. \E step \in {"idle", "knn", "vknn", "scan", "active", "dump", "row", "stamp", "insert",
                   "total"} : Goto(p, step)
  BY DEF NewCall, StoreCall, SearchCall, ForgetCall, StatsCall, PushCall, Begin, StoreKnn,
     StoreRow, StoreStamp, StatsActive, StatsTotal, PushDump, WriteRefused, BindFails, Crash,
     Finish
<1>3. pc'[p] \notin Telling
  BY <1>1, <1>2 DEF Goto, Telling
<1> QED
  BY <1>3 DEF Effect, Telling

\* To close a row of the table after another was added is to add that row after closing it.
LEMMA SupersededRow ==
  ASSUME NEW old \in Seq(Episode), NEW row \in Episode, NEW i \in DOMAIN old, NEW one \in Episode
  PROVE  LET new  == Append(old, row)
             made == Append([old EXCEPT ![i] = one], row)
         IN  [k \in DOMAIN new |-> IF k = i THEN one ELSE new[k]] = made
<1> DEFINE rows == [old EXCEPT ![i] = one]
           new == Append(old, row)
           made == Append(rows, row)
<1>1. i \in 1 .. Len(old) /\ DOMAIN old = 1 .. Len(old) /\ i # Len(old) + 1
  OBVIOUS
<1>2. rows \in Seq(Episode) /\ Len(rows) = Len(old) /\ rows[i] = one
      /\ \A k \in DOMAIN old \ {i} : rows[k] = old[k]
  BY <1>1
<1> HIDE DEF rows
<1>3. /\ DOMAIN new = 1 .. Len(old) + 1 /\ new[Len(old) + 1] = row
      /\ \A k \in DOMAIN old : new[k] = old[k]
  BY <1>1
<1>4. /\ DOMAIN made = 1 .. Len(old) + 1 /\ made[Len(old) + 1] = row
      /\ \A k \in DOMAIN old : made[k] = rows[k]
      /\ made \in Seq(Episode)
  BY <1>1, <1>2
<1> HIDE DEF new, made
<1>5. \A k \in 1 .. Len(old) + 1 : k \in DOMAIN old \/ k = Len(old) + 1
  BY <1>1
<1>6. \A k \in DOMAIN new : made[k] = IF k = i THEN one ELSE new[k]
  BY <1>1, <1>2, <1>3, <1>4, <1>5
<1>7. made = [k \in DOMAIN made |-> made[k]]
  BY <1>4
<1>8. [k \in DOMAIN new |-> IF k = i THEN one ELSE new[k]] = made
  BY <1>3, <1>4, <1>6, <1>7
<1> QED
  BY <1>8 DEF rows, new, made

\* A store has added its row, and then closed its neighbor.
LEMMA StoreEffect ==
  ASSUME LInv, NEW p \in Procs,
         StoreInsert(p) \/ StoreVector(p) \/ StoreEntities(p) \/ StoreSupersede(p)
           \/ StoreUnvector(p)
  PROVE  Effect(p)'
<1>1. /\ pc \in [Procs -> Steps] /\ call[p] \in Calls /\ UNCHANGED <<db, call>>
      /\ CallOK(p) /\ Effect(p) /\ view[p] \in Database /\ db \in Database /\ DInv
  BY DEF LInv, DInv, IInv, TypeOK, StoreInsert, StoreVector, StoreEntities, StoreSupersede,
         StoreUnvector
<1>2. call[p].ns \in Namespaces /\ call[p].text \in Contents
  BY <1>1 DEF CallOK, StoreSteps, StoreInsert, StoreVector, StoreEntities, StoreSupersede,
              StoreUnvector
<1>3. call[p].now \in Nat /\ call[p].ttl \in Int \cup {NULL}
  BY <1>1 DEF Calls
<1> DEFINE row == Fresh(p)
<1>4. /\ row \in Episode /\ row.validTo = NULL /\ row.supersededBy = NULL
      /\ row.accessCount = 0 /\ row.validFrom = call[p].now /\ row.namespace = call[p].ns
      /\ Fresh(p)' = row
  BY <1>1, <1>2, <1>3 DEF Fresh, NewEpisode, Episode
<1> HIDE DEF row
<1>5. db.episodes \in Seq(Episode) /\ Len(db.episodes) \in Nat
  BY <1>1, EveryRow
<1>6. ASSUME NEW step \in {"vector", "entities", "supersede", "commit"},
             pc' = [pc EXCEPT ![p] = step], NEW d, Write(p, d),
             d.episodes = Append(db.episodes, row)
      PROVE  Effect(p)'
  <2>1. tx'[p] = "write" /\ view'[p] = d /\ pc'[p] = step /\ call'[p] = call[p] /\ db' = db
    BY <1>1, <1>6, WriteLag
  <2>2. Recorded(db.episodes, d.episodes)
    <3>1. /\ Len(d.episodes) = Len(db.episodes) + 1
          /\ d.episodes[Len(d.episodes)] = row
      BY <1>4, <1>5, <1>6
    <3> QED
      BY <1>4, <1>6, <3>1 DEF Recorded
  <2> QED
    BY <1>4, <1>6, <2>1, <2>2 DEF Effect
<1>7. CASE StoreInsert(p)
  <2> DEFINE e == InsertEpisode(View(p), call[p].ns, call[p].text, call[p].now, call[p].ttl)
  <2>1. pc[p] = "insert" /\ Write(p, e) /\ pc' = [pc EXCEPT ![p] = "vector"]
    BY <1>7 DEF StoreInsert, Goto
  <2>2. View(p) = db
    BY <1>1, <2>1, NotWriting, WriterFresh DEF Write, Writing
  <2>3. e.episodes = Append(db.episodes, row)
    BY <1>1, <2>2 DEF InsertEpisode, Database, row, Fresh
  <2> HIDE DEF e
  <2> QED
    BY <1>6, <2>1, <2>3
<1>8. pc[p] \in RowInserted => tx[p] = "write"
  BY <1>1 DEF CallOK
<1>9. pc[p] \in {"vector", "entities"} => view[p].episodes = Append(db.episodes, row)
  BY <1>1, <1>8 DEF Effect, RowInserted, row
<1>12. CASE StoreVector(p)
  <2> DEFINE e == AddVector(view[p], NewId(p))
  <2>1. /\ pc[p] = "vector" /\ Write(p, e) /\ pc' = [pc EXCEPT ![p] = "entities"]
    BY <1>12 DEF StoreVector, Goto
  <2>2. e.episodes = view[p].episodes
    BY <1>1 DEF AddVector, Database
  <2> HIDE DEF e
  <2> QED
    BY <1>6, <1>9, <2>1, <2>2
<1>13. CASE StoreEntities(p)
  <2> DEFINE e == IndexEntities(view[p], NewId(p), call[p].text, call[p].ns)
             step == IF call[p].target = NULL THEN "commit" ELSE "supersede"
  <2>1. /\ pc[p] = "entities" /\ Write(p, e) /\ pc' = [pc EXCEPT ![p] = step]
    BY <1>13 DEF StoreEntities, Goto
  <2>2. e.episodes = view[p].episodes /\ step \in {"commit", "supersede"}
    BY <1>1 DEF IndexEntities, Database
  <2> HIDE DEF e, step
  <2> QED
    BY <1>6, <1>9, <2>1, <2>2
<1>10. CASE StoreSupersede(p)
  <2> DEFINE i == call[p].target
             new == view[p].episodes
             changed == [k \in {i} |-> [view[p].episodes[k] EXCEPT !.validTo = call[p].now,
                                                                   !.supersededBy = NewId(p)]]
             e == Update(view[p], changed)
  <2>1. pc[p] = "supersede" /\ Write(p, e) /\ pc' = [pc EXCEPT ![p] = "unvector"]
    BY <1>10 DEF StoreSupersede, SupersedeEpisode, Goto
  <2>2. new = Append(db.episodes, row) /\ NewId(p) = Len(db.episodes) + 1
    BY <1>1, <1>4, <1>5, <1>8, <2>1 DEF Effect, RowInserted, row, NewId
  <2>3. i \in DOMAIN db.episodes /\ db.episodes[i].namespace = call[p].ns
    <3>1. /\ i \in InNamespace(view[p], call[p].ns) /\ i # Len(db.episodes) + 1
      BY <1>1, <2>1, <2>2 DEF CallOK, RowInserted
    <3>2. \A k \in DOMAIN new : k # Len(db.episodes) + 1 =>
            k \in DOMAIN db.episodes /\ new[k] = db.episodes[k]
      BY <1>4, <1>5, <2>2
    <3> QED
      BY <3>1, <3>2 DEF InNamespace
  <2>4. NewId(p) \in Ids
    BY <1>5, <2>2 DEF Ids
  <2> DEFINE one == [new[i] EXCEPT !.validTo = call[p].now, !.supersededBy = NewId(p)]
  <2>5. e.episodes = [k \in DOMAIN new |-> IF k = i THEN one ELSE new[k]]
    BY <1>1 DEF Update, Database
  <2>6. db.episodes[i] \in Episode /\ new[i] = db.episodes[i]
    BY <1>4, <1>5, <2>2, <2>3
  <2>7. one \in Episode
    <3> HIDE DEF i, new
    <3> QED
      BY <1>3, <2>4, <2>6 DEF Episode
  <2> DEFINE rest == [db.episodes EXCEPT ![i].validTo = call[p].now,
                                         ![i].supersededBy = NewId(p)]
  <2>8. rest = [db.episodes EXCEPT ![i] = one]
    <3> HIDE DEF i, new
    <3> QED
      BY <1>5, <2>3, <2>6
  <2>9. /\ e.episodes = Append(rest, row)
         /\ Len(e.episodes) = Len(db.episodes) + 1 /\ e.episodes[Len(e.episodes)] = row
    <3> DEFINE made == e.episodes
    <3> HIDE DEF made, i, one, rest
    <3>1. made = [k \in DOMAIN Append(db.episodes, row) |->
                    IF k = i THEN one ELSE Append(db.episodes, row)[k]]
      BY <2>2, <2>5 DEF made
    <3>2. made = Append([db.episodes EXCEPT ![i] = one], row)
      BY <1>4, <1>5, <2>3, <2>7, <3>1, SupersededRow
    <3>3. rest \in Seq(Episode) /\ Len(rest) = Len(db.episodes)
      BY <1>5, <2>3, <2>7, <2>8
    <3>4. made = Append(rest, row)
      BY <2>8, <3>2
    <3>5. Len(made) = Len(db.episodes) + 1 /\ made[Len(made)] = row
      BY <1>4, <1>5, <3>3, <3>4
    <3> QED
      BY <3>4, <3>5 DEF made
  <2>10. Recorded(db.episodes, e.episodes)
    <3> HIDE DEF e
    <3> QED
      BY <1>4, <2>2, <2>3, <2>9 DEF Recorded
  <2> HIDE DEF e
  <2>11. tx'[p] = "write" /\ view'[p] = e /\ pc'[p] = "unvector" /\ db' = db
    BY <1>1, <2>1, WriteLag
  <2> QED
    BY <2>10, <2>11 DEF Effect
<1>11. CASE StoreUnvector(p)
  <2> DEFINE e == RemoveVector(view[p], call[p].target)
  <2>1. pc[p] = "unvector" /\ Write(p, e) /\ pc' = [pc EXCEPT ![p] = "commit"]
    BY <1>11 DEF StoreUnvector, Goto
  <2>2. e.episodes = view[p].episodes
    BY <1>1 DEF RemoveVector, Database
  <2> HIDE DEF e
  <2>3. Recorded(db.episodes, e.episodes)
    BY <1>1, <1>8, <2>1, <2>2 DEF Effect, RowInserted
  <2>4. tx'[p] = "write" /\ view'[p] = e /\ pc'[p] = "commit" /\ db' = db
    BY <1>1, <2>1, WriteLag
  <2> QED
    BY <2>3, <2>4 DEF Effect
<1> QED
  BY <1>7, <1>10, <1>11, <1>12, <1>13

\* To close one more expired row is still part of one sweep.
LEMMA SweepOneMore ==
  ASSUME NEW old \in Seq(Episode), NEW new, NEW now \in Nat, new = old \/ Swept(old, new, now),
         NEW id \in DOMAIN new, new[id].expiresAt # NULL, new[id].expiresAt <= now
  PROVE  Swept(old, [k \in DOMAIN new |-> IF k = id THEN [new[k] EXCEPT !.validTo = now]
                                                    ELSE new[k]], now)
<1> DEFINE made == [k \in DOMAIN new |-> IF k = id THEN [new[k] EXCEPT !.validTo = now]
                                                   ELSE new[k]]
           shut(k) == [old[k] EXCEPT !.validTo = now]
<1>1. \A k \in DOMAIN old : old[k] \in Episode
  OBVIOUS
<1>2. PICK ids \in SUBSET DOMAIN old : ClosedAt(old, new, ids, now)
  <2>1. CASE new = old
    <3>1. old = [i \in DOMAIN old |-> old[i]]
      OBVIOUS
    <3>2. ClosedAt(old, new, {}, now)
      BY <2>1, <3>1 DEF ClosedAt
    <3> QED
      BY <3>2
  <2>2. CASE Swept(old, new, now)
    BY <2>2 DEF Swept
  <2> QED
    BY <2>1, <2>2
<1>3. /\ DOMAIN new = DOMAIN old
      /\ \A k \in DOMAIN old : new[k] = IF k \in ids THEN shut(k) ELSE old[k]
  BY <1>2 DEF ClosedAt
<1>4. \A k \in DOMAIN old : [shut(k) EXCEPT !.validTo = now] = shut(k)
                            /\ shut(k).expiresAt = old[k].expiresAt
  BY <1>1 DEF Episode
<1> HIDE DEF shut
<1>5. \A k \in DOMAIN new :
        made[k] = IF k \in ids \cup {id} THEN shut(k) ELSE old[k]
  BY <1>3, <1>4 DEF shut
<1>6. made = [k \in DOMAIN old |-> IF k \in ids \cup {id} THEN shut(k) ELSE old[k]]
  BY <1>3, <1>5
<1>7. \A i \in ids \cup {id} : old[i].expiresAt # NULL /\ old[i].expiresAt <= now
  <2>1. old[id].expiresAt = new[id].expiresAt
    BY <1>3, <1>4
  <2> QED
    BY <1>2, <2>1 DEF ClosedAt
<1> HIDE DEF made
<1>8. ClosedAt(old, made, ids \cup {id}, now)
  BY <1>6, <1>7 DEF ClosedAt, shut
<1>9. ids \cup {id} \in (SUBSET DOMAIN old) \ {{}}
  BY <1>3
<1>10. Swept(old, made, now)
  BY <1>8, <1>9 DEF Swept
<1> QED
  BY <1>10 DEF made

\* A sweep has closed some of the rows it selected, and the others are still due.
LEMMA ForgetEffect ==
  ASSUME LInv, NEW p \in Procs, ForgetStep(p)
  PROVE  Effect(p)'
<1>1. /\ pc \in [Procs -> Steps] /\ call \in [Procs -> Calls] /\ call[p].now \in Nat
      /\ Lag(p) /\ Effect(p) /\ View(p) \in Database /\ db \in Database /\ db' = db /\ DInv
  BY ViewType DEF LInv, DInv, IInv, TypeOK, Calls, ForgetStep, ForgetScan, ForgetExpire,
                  ForgetVector
<1>2. CASE ForgetScan(p)
  <2> DEFINE due == Expired(View(p), call[p].ns, call[p].now)
  <2>1. /\ pc[p] = "scan" /\ Select(p) /\ call' = [call EXCEPT ![p].ids = due]
        /\ \E step \in {"commit", "expire"} : Goto(p, step)
    BY <1>2 DEF ForgetScan
  <2>2. tx'[p] # "write" /\ View(p)' = View(p)
    BY <1>1, <2>1, NotWriting, SelectLag DEF Writing
  <2>3. \A i \in due : Due(View(p), i, call[p].now)
    BY DEF Due, Expired, Active, InNamespace
  <2> HIDE DEF due
  <2>4. pc'[p] \in {"commit", "expire"} /\ call'[p].ids = due /\ call'[p].now = call[p].now
    BY <1>1, <2>1 DEF Goto, Calls
  <2>5. \A i \in call'[p].ids : Due(View(p)', i, call'[p].now)
    BY <2>2, <2>3, <2>4
  <2> QED
    BY <2>2, <2>4, <2>5 DEF Effect
<1>3. CASE ForgetExpire(p)
  <2>1. PICK id \in call[p].ids :
          /\ Write(p, ExpireEpisode(View(p), id, call[p].now))
          /\ call' = [call EXCEPT ![p].target = id, ![p].ids = @ \ {id}]
    BY <1>3 DEF ForgetExpire
  <2> DEFINE new == View(p).episodes
             now == call[p].now
             made == [k \in DOMAIN new |-> IF k = id THEN [new[k] EXCEPT !.validTo = now]
                                                     ELSE new[k]]
             e == ExpireEpisode(View(p), id, now)
  <2>2. pc[p] = "expire" /\ Write(p, e) /\ Goto(p, "forget")
    BY <1>3, <2>1 DEF ForgetExpire
  <2>3. e.episodes = made
    BY <1>1 DEF ExpireEpisode, Update, Database
  <2>4. \A i \in call[p].ids : Due(View(p), i, now)
    BY <1>1, <2>2 DEF Effect
  <2>5. new = db.episodes \/ Swept(db.episodes, new, now)
    <3>1. CASE tx[p] = "write"
      BY <1>1, <2>2, <3>1 DEF Effect, View
    <3>2. CASE tx[p] # "write"
      BY <1>1, <2>2, <3>2, WriterFresh DEF Write
    <3> QED
      BY <3>1, <3>2
  <2>6. db.episodes \in Seq(Episode) /\ \A i \in DOMAIN new : new[i] \in Episode
    BY <1>1, EveryRow
  <2>7. Swept(db.episodes, made, now)
    <3>1. id \in DOMAIN new /\ new[id].expiresAt # NULL /\ new[id].expiresAt <= now
      BY <2>4 DEF Due
    <3> HIDE DEF new, now
    <3>2. now \in Nat
      BY <1>1 DEF now
    <3> QED
      BY <2>5, <2>6, <3>1, <3>2, SweepOneMore
  <2>8. \A i \in DOMAIN new : i \in DOMAIN made /\ made[i].expiresAt = new[i].expiresAt
    <3> HIDE DEF new, now
    <3> QED
      BY <2>6 DEF Episode
  <2> HIDE DEF e, made
  <2>9. tx'[p] = "write" /\ view'[p] = e /\ View(p)' = e /\ pc'[p] = "forget"
    BY <1>1, <2>2, WriteLag DEF Goto
  <2>10. call'[p].ids = call[p].ids \ {id} /\ call'[p].now = now
    BY <1>1, <2>1 DEF Calls
  <2>11. \A i \in call'[p].ids : Due(e, i, now)
    BY <2>3, <2>4, <2>8, <2>10 DEF Due
  <2>12. Swept(db'.episodes, view'[p].episodes, call'[p].now)
    BY <1>1, <2>3, <2>7, <2>9, <2>10
  <2>13. \A i \in call'[p].ids : Due(View(p)', i, call'[p].now)
    BY <2>9, <2>10, <2>11
  <2> QED
    BY <2>9, <2>12, <2>13 DEF Effect
<1>4. CASE ForgetVector(p)
  <2> DEFINE e == RemoveVector(View(p), call[p].target)
  <2>1. pc[p] = "forget" /\ Write(p, e) /\ call' = call
        /\ \E step \in {"commit", "expire"} : Goto(p, step)
    BY <1>4 DEF ForgetVector
  <2>2. e.episodes = View(p).episodes
    BY <1>1 DEF RemoveVector, Database
  <2> HIDE DEF e
  <2>3. tx[p] = "write" /\ View(p) = view[p]
    BY <1>1, <2>1 DEF Lag, View
  <2>4. tx'[p] = "write" /\ view'[p] = e /\ View(p)' = e /\ pc'[p] \in {"commit", "expire"}
    BY <1>1, <2>1, WriteLag DEF Goto
  <2>5. Swept(db'.episodes, view'[p].episodes, call'[p].now)
    BY <1>1, <2>1, <2>2, <2>3, <2>4 DEF Effect
  <2>6. \A i \in call[p].ids : Due(e, i, call[p].now)
    BY <1>1, <2>1, <2>2 DEF Effect, Due
  <2>7. \A i \in call'[p].ids : Due(View(p)', i, call'[p].now)
    BY <2>1, <2>4, <2>6
  <2> QED
    BY <2>4, <2>5, <2>7 DEF Effect
<1> QED
  BY <1>2, <1>3, <1>4 DEF ForgetStep

\* A search writes only when it counts the accesses of what it found.
LEMMA SearchEffect ==
  ASSUME LInv, NEW p \in Procs, SearchStep(p)
  PROVE  Effect(p)'
<1>1. /\ pc \in [Procs -> Steps] /\ call \in [Procs -> Calls] /\ Lag(p) /\ Effect(p)
      /\ View(p) \in Database /\ db \in Database /\ DInv
  BY ViewType DEF LInv, DInv, IInv, TypeOK
<1>2. CASE SearchKnn(p) \/ SearchFilter(p) \/ SearchKeyword(p) \/ SearchGraph(p)
  <2>1. \E step \in {"vfilter", "keyword", "graph", "temporal"} : Goto(p, step)
    BY <1>2 DEF SearchKnn, SearchFilter, SearchKeyword, SearchGraph, Gather
  <2>2. pc'[p] \notin Telling
    BY <1>1, <2>1 DEF Goto, Telling
  <2> QED
    BY <2>2 DEF Effect, Telling
<1>3. CASE SearchFuse(p)
  <2>1. pc[p] = "temporal" /\ Select(p) /\ db' = db
    BY <1>3 DEF SearchFuse
  <2>2. tx'[p] # "write"
    BY <1>1, <2>1, NotWriting, SelectLag DEF Writing
  <2>3. CASE Finish(p)
    <3>1. pc'[p] = "idle"
      BY <1>1, <2>3 DEF Finish, Goto
    <3> QED
      BY <3>1 DEF Effect
  <2>4. ASSUME NEW ranked, ranked # {},
               call' = [call EXCEPT ![p].ids = ranked], Goto(p, "touch")
        PROVE  Effect(p)'
    <3>1. pc'[p] = "touch" /\ call'[p].ids = ranked
      BY <1>1, <2>4 DEF Goto, Calls
    <3> QED
      BY <2>2, <2>4, <3>1 DEF Effect
  <2> QED
    BY <1>3, <2>3, <2>4 DEF SearchFuse
<1>4. CASE SearchTouch(p)
  <2> DEFINE ids == call[p].ids
             e == TouchEpisodes(View(p), ids)
  <2>1. pc[p] = "touch" /\ Write(p, e) /\ Goto(p, "commit") /\ db' = db
    BY <1>4 DEF SearchTouch
  <2>2. ids # {} /\ ids \subseteq DOMAIN View(p).episodes
    BY <1>1, <2>1 DEF Effect, Lag, Gathered
  <2>3. View(p) = db
    BY <1>1, <2>1, NotWriting, WriterFresh DEF Write, Writing
  <2>4. e.episodes = [i \in DOMAIN db.episodes |->
                        IF i \in ids THEN [db.episodes[i] EXCEPT !.accessCount = @ + 1]
                                     ELSE db.episodes[i]]
    BY <1>1, <2>3 DEF TouchEpisodes, Update, Database
  <2> HIDE DEF e
  <2>5. Touched(db.episodes, e.episodes)
    BY <2>2, <2>3, <2>4 DEF Touched
  <2>6. tx'[p] = "write" /\ view'[p] = e /\ pc'[p] = "commit"
    BY <1>1, <2>1, WriteLag DEF Goto
  <2> QED
    BY <2>1, <2>5, <2>6 DEF Effect
<1> QED
  BY <1>2, <1>3, <1>4 DEF SearchStep

\* A commit leaves what the others have done alone: the writer has the lock.
LEMMA CommitEffect ==
  ASSUME LInv, NEW p \in Procs, Commit(p), NEW q \in Procs
  PROVE  Effect(q)'
<1>1. /\ tx \in [Procs -> TxStates] /\ pc \in [Procs -> Steps] /\ call \in [Procs -> Calls]
      /\ view \in [Procs -> Database] /\ IInv /\ Lag(q) /\ Effect(q)
  BY DEF LInv, DInv, IInv, TypeOK
<1>2. /\ pc[p] = "commit"
      /\ db' = IF tx[p] = "write" THEN view[p] ELSE db
      /\ tx' = [r \in Procs |-> IF r = p THEN "none"
                                ELSE IF tx[p] = "write" /\ tx[r] = "read" THEN "stale" ELSE tx[r]]
      /\ view' = [view EXCEPT ![p] = EmptyDatabase]
      /\ pc' = [pc EXCEPT ![p] = "idle"]
      /\ call' = Witness(p, db')
  BY DEF Commit, Goto
<1>3. CASE q = p
  BY <1>1, <1>2, <1>3 DEF Effect
<1>4. CASE q # p
  <2>1. /\ tx'[q] = IF tx[p] = "write" /\ tx[q] = "read" THEN "stale" ELSE tx[q]
        /\ view'[q] = view[q] /\ pc'[q] = pc[q]
    BY <1>1, <1>2, <1>4
  <2>2. call'[q] = call[q] \/ \E seen : call'[q] = [call[q] EXCEPT !.seen = seen]
    BY <1>2, <1>4 DEF Witness
  <2>3. /\ call'[q].ns = call[q].ns /\ call'[q].text = call[q].text
        /\ call'[q].now = call[q].now /\ call'[q].ttl = call[q].ttl /\ call'[q].ids = call[q].ids
    <3>1. call[q] \in Calls
      BY <1>1
    <3> QED
      BY <2>2, <3>1 DEF Calls
  <2>4. CASE tx[p] = "write"
    <3>1. tx[q] # "write" /\ tx'[q] # "write" /\ pc[q] # "forget"
      BY <1>1, <1>4, <2>1, <2>4 DEF IInv, OneWriter, Lag
    <3>2. Extends(db, db')
      BY <1>1, CommitConnections
    <3>3. View(q)' = View(q) \/ (View(q) = db /\ View(q)' = db')
      BY <2>1, <3>1 DEF View
    <3>4. db \in Database /\ db' \in Database
      BY <1>1, <1>2, <2>4 DEF IInv, TypeOK
    <3>5. \A i, now : Due(db, i, now) => Due(db', i, now)
      BY <3>2, <3>4, EveryRow DEF Due, Extends, Keeps
    <3>6. \A i, now : Due(View(q), i, now) => Due(View(q)', i, now)
      BY <3>3, <3>5
    <3>7. pc[q] = "expire" => \A i \in call'[q].ids : Due(View(q)', i, call'[q].now)
      BY <1>1, <2>3, <3>6 DEF Effect
    <3>8. pc[q] = "touch" => call'[q].ids # {}
      BY <1>1, <2>3 DEF Effect
    <3> QED
      BY <2>1, <3>1, <3>7, <3>8 DEF Effect
  <2>5. CASE tx[p] # "write"
    <3>1. db' = db /\ tx'[q] = tx[q] /\ view'[q] = view[q] /\ pc'[q] = pc[q]
      BY <1>2, <2>1, <2>5
    <3>2. View(q)' = View(q) /\ Fresh(q)' = Fresh(q)
      BY <2>3, <3>1 DEF View, Fresh
    <3> QED
      BY <1>1, <2>3, <3>1, <3>2 DEF Effect
  <2> QED
    BY <2>4, <2>5
<1> QED
  BY <1>3, <1>4

\* What a commit publishes is one step of the ledger, or none.
LEMMA CommitLedger ==
  ASSUME LInv, NEW p \in Procs, Commit(p)
  PROVE  [Ledger!Next]_(db.episodes)
<1> DEFINE old == db.episodes
           new == db'.episodes
           now == call[p].now
<1>1. /\ pc[p] = "commit" /\ db' = IF tx[p] = "write" THEN view[p] ELSE db
      /\ Effect(p) /\ now \in Nat /\ db \in Database
  BY DEF LInv, DInv, IInv, TypeOK, Calls, Commit
<1>2. CASE tx[p] # "write"
  BY <1>1, <1>2
<1>3. CASE tx[p] = "write"
  <2>1. Recorded(old, new) \/ Swept(old, new, now) \/ Touched(old, new)
    BY <1>1, <1>3 DEF Effect
  <2>2. \A i \in DOMAIN old : old[i] \in Episode
    BY <1>1, EveryRow
  <2>3. CASE Recorded(old, new)
    <3>1. Ledger!Record
      BY <2>3 DEF Recorded, Ledger!Record, Ledger!Last
    <3> QED
      BY <3>1 DEF Ledger!Next
  <2>4. CASE Touched(old, new)
    <3>1. Ledger!Access
      BY <2>4 DEF Touched, Ledger!Access
    <3> QED
      BY <3>1 DEF Ledger!Next
  <2>5. CASE Swept(old, new, now)
    <3>1. PICK ids \in (SUBSET DOMAIN old) \ {{}} : ClosedAt(old, new, ids, now)
      BY <2>5 DEF Swept
    <3>2. (CHOOSE i \in ids : TRUE) \in ids
      BY <3>1
    <3>3. \A i \in ids : new[i].validTo = now
      BY <2>2, <3>1 DEF ClosedAt, Episode
    <3>4. new[CHOOSE i \in ids : TRUE].validTo = now /\ now # NULL
      BY <1>1, <3>2, <3>3, MemoryDbAssumptions
    <3>5. Ledger!Sweep
      BY <3>1, <3>4 DEF ClosedAt, Ledger!Sweep
    <3> QED
      BY <3>5 DEF Ledger!Next
  <2> QED
    BY <2>1, <2>3, <2>4, <2>5
<1> QED
  BY <1>2, <1>3

\* Before the first call nothing has been done.
LEMMA LInvInit == Init => LInv
<1> SUFFICES ASSUME Init PROVE LInv
  OBVIOUS
<1>1. \A p \in Procs : Effect(p)
  BY DEF Init, Effect
<1> QED
  BY <1>1, DInvInit DEF LInv

\* Each step is one of the ledger or leaves the committed rows as they are.
LEMMA LInvNext ==
  ASSUME "abort" \notin Failures, LInv, [Next]_vars
  PROVE  LInv' /\ [Ledger!Next]_(db.episodes)
<1>1. DInv' /\ TypeOK
  BY DInvNext DEF LInv, DInv, IInv
<1>2. ASSUME NEW p \in Procs, Commit(p)
      PROVE  LInv' /\ [Ledger!Next]_(db.episodes)
  BY <1>1, <1>2, CommitEffect, CommitLedger DEF LInv
<1>3. ASSUME NEW p \in Procs,
             \/ NewCall(p) \/ StoreStep(p) \/ ForgetStep(p) \/ SearchStep(p)
             \/ StatsActive(p) \/ StatsTotal(p) \/ PushDump(p) \/ WriteRefused(p)
             \/ BindFails(p) \/ Crash(p)
      PROVE  LInv' /\ [Ledger!Next]_(db.episodes)
  <2>1. Apart(p) /\ db' = db
    BY <1>1, <1>3, StepApart DEF Apart
  <2>2. Effect(p)'
    BY <1>3, ReadingEffect, StoreEffect, ForgetEffect, SearchEffect DEF StoreStep
  <2>3. \A q \in Procs \ {p} : Effect(q)'
    BY <2>1, ApartEffect
  <2> QED
    BY <1>1, <2>1, <2>2, <2>3 DEF LInv
<1>4. \A p \in Procs : ~ Aborts(p)
  BY DEF Aborts
<1>5. CASE Tick \/ UNCHANGED vars
  <2>1. UNCHANGED <<db, tx, view, pc, call>>
    BY <1>5 DEF Tick, vars
  <2> QED
    BY <1>1, <2>1 DEF LInv, Effect, View, Fresh
<1> QED
  BY <1>2, <1>3, <1>4, <1>5 DEF Next, Step

\* As long as no exception leaves a write transaction open half way, each call is one step
\* of an append-only ledger or none: a store appends its episode and closes at most one of
\* its namespace in the same step, a sweep closes only what has expired, a search counts
\* what it returned, and an access, a closing or an episode is never lost or half done,
\* whatever the processes' statements, refusals and crashes do in between.
THEOREM LedgerImplemented ==
  ASSUME "abort" \notin Failures
  PROVE  Spec => ImplementsLedger
<1>1. Init => Ledger!Init
  BY DEF Init, EmptyDatabase, Ledger!Init
<1>2. LInv /\ [Next]_vars => LInv' /\ [Ledger!Next]_(db.episodes)
  BY LInvNext
<1> QED
  BY <1>1, <1>2, LInvInit, PTL DEF Spec, ImplementsLedger, Ledger!Spec

-----------------------------------------------------------------------------
(* The statistics.                                                         *)

\* The active rows a call has counted are still rows of its namespace.
Counted(p) ==
  /\ pc[p] \in {"active", "total"} => call[p].ns \in Namespaces
  /\ pc[p] = "total" => call[p].ids \subseteq InNamespace(View(p), call[p].ns)

NInv == IInv /\ \A p \in Procs : Counted(p)

\* What p counts.
LEMMA OwnCount ==
  ASSUME NInv, NEW p \in Procs, NewCall(p) \/ Step(p) \/ BindFails(p) \/ Aborts(p) \/ Crash(p)
  PROVE  Counted(p)'
<1>1. pc \in [Procs -> Steps] /\ call \in [Procs -> Calls] /\ IInv /\ Counted(p)
  BY DEF NInv, IInv, TypeOK
<1>2. ASSUME NEW step \in Steps \ {"active", "total"}, Goto(p, step)
      PROVE  Counted(p)'
  BY <1>1, <1>2 DEF Goto, Counted
<1> DEFINE others == Steps \ {"active", "total"}
<1>3. CASE NewCall(p)
  <2>1. ASSUME NEW ns \in Namespaces, StatsCall(p, ns)
        PROVE  Counted(p)'
    BY <1>1, <2>1 DEF StatsCall, Begin, Goto, Counted, NoCall
  <2>2. ASSUME \/ \E ns \in Namespaces, c \in Contents, ttl \in Ttls : StoreCall(p, ns, c, ttl)
               \/ \E ns \in Namespaces, q \in Contents : SearchCall(p, ns, q)
               \/ \E ns \in Namespaces : ForgetCall(p, ns)
               \/ PushCall(p)
        PROVE  \E step \in others : Goto(p, step)
    BY <2>2 DEF StoreCall, SearchCall, ForgetCall, PushCall, Begin, Steps
  <2> QED
    BY <1>2, <1>3, <2>1, <2>2 DEF NewCall
<1>4. CASE StatsActive(p)
  <2>1. /\ pc[p] = "active" /\ Select(p) /\ db' = db /\ Goto(p, "total")
        /\ call' = [call EXCEPT ![p].ids = Active(View(p), call[p].ns)]
    BY <1>4 DEF StatsActive
  <2>2. View(p)' = View(p)
    BY <1>1, <2>1, SelectConnections
  <2>3. /\ pc'[p] = "total" /\ call'[p].ns = call[p].ns
        /\ call'[p].ids = Active(View(p), call[p].ns)
    BY <1>1, <2>1 DEF Goto, Calls
  <2>4. call[p].ns \in Namespaces
    BY <1>1, <2>1 DEF Counted
  <2>5. call'[p].ids \subseteq InNamespace(View(p)', call'[p].ns)
    BY <2>2, <2>3 DEF Active
  <2> QED
    BY <2>3, <2>4, <2>5 DEF Counted
<1>5. CASE StoreStep(p)
  <2>1. \E step \in others : Goto(p, step)
    BY <1>5 DEF StoreStep, StoreKnn, StoreRow, StoreStamp, StoreInsert, StoreVector,
       StoreEntities, StoreSupersede, StoreUnvector, Steps
  <2> QED
    BY <1>2, <2>1
<1>6. CASE ForgetStep(p) \/ SearchStep(p)
  <2>1. \E step \in others : Goto(p, step)
    BY <1>6 DEF ForgetStep, ForgetScan, ForgetExpire, ForgetVector, SearchStep, SearchKnn,
       SearchFilter, SearchKeyword, SearchGraph, Gather, SearchFuse, SearchTouch, Finish, Steps
  <2> QED
    BY <1>2, <2>1
<1>7. CASE \/ StatsTotal(p) \/ PushDump(p) \/ Commit(p) \/ WriteRefused(p)
           \/ BindFails(p) \/ Aborts(p) \/ Crash(p)
  <2>1. \E step \in others : Goto(p, step)
    BY <1>7 DEF StatsTotal, PushDump, Commit, WriteRefused, BindFails, Aborts, Crash, Finish,
       Steps
  <2> QED
    BY <1>2, <2>1
<1> QED
  BY <1>3, <1>4, <1>5, <1>6, <1>7 DEF Step

\* What the others have counted stays where it was: rows are never taken away.
LEMMA OthersCount ==
  ASSUME NInv, NEW p \in Procs, NewCall(p) \/ Step(p) \/ BindFails(p) \/ Aborts(p) \/ Crash(p),
         NEW q \in Procs \ {p}
  PROVE  Counted(q)'
<1>1. /\ tx \in [Procs -> TxStates] /\ view \in [Procs -> Database]
      /\ pc \in [Procs -> Steps] /\ call \in [Procs -> Calls] /\ TypeOK /\ IInv /\ Counted(q)
  BY DEF NInv, IInv, TypeOK
<1>2. CASE Commit(p)
  <2>1. pc'[q] = pc[q] /\ call' = Witness(p, db')
    BY <1>1, <1>2 DEF Commit, Goto
  <2>2. call'[q] = call[q] \/ \E seen : call'[q] = [call[q] EXCEPT !.seen = seen]
    BY <2>1 DEF Witness
  <2>3. call'[q].ns = call[q].ns /\ call'[q].ids = call[q].ids
    <3>1. call[q] \in Calls
      BY <1>1
    <3> QED
      BY <2>2, <3>1 DEF Calls
  <2>4. \A ns \in Namespaces : InNamespace(View(q), ns) \subseteq InNamespace(View(q)', ns)
    BY <1>1, <1>2, CommitConnections DEF ConnectionStep
  <2> HIDE DEF View
  <2> QED
    BY <1>1, <2>1, <2>3, <2>4 DEF Counted
<1>3. CASE ~ Commit(p)
  <2>1. ASSUME Aborts(p) PROVE Apart(p)
    BY <1>1, <2>1 DEF Aborts, Goto, Finish, Apart
  <2>2. Apart(p)
    BY <1>1, <1>3, <2>1, StepApart DEF Step
  <2>3. /\ db' = db /\ tx'[q] = tx[q] /\ view'[q] = view[q] /\ pc'[q] = pc[q]
        /\ call'[q] = call[q]
    BY <2>2 DEF Apart
  <2>4. View(q)' = View(q)
    BY <2>3 DEF View
  <2> QED
    BY <1>1, <2>3, <2>4 DEF Counted
<1> QED
  BY <1>2, <1>3

\* The two counts of the statistics are made by two statements, and between them any process
\* may store, close or fail; still the second is never the smaller, so the number of
\* superseded episodes a caller is told is never negative.
THEOREM CountsAgree == Spec => []StatsNotNegative
<1>1. Init => NInv
  BY IInvInit DEF NInv, Init, Counted
<1>2. NInv /\ [Next]_vars => NInv'
  <2> SUFFICES ASSUME NInv, [Next]_vars PROVE NInv'
    OBVIOUS
  <2>1. IInv'
    BY IInvNext DEF NInv
  <2>2. ASSUME NEW p \in Procs,
               NewCall(p) \/ Step(p) \/ BindFails(p) \/ Aborts(p) \/ Crash(p)
        PROVE  NInv'
    BY <2>1, <2>2, OwnCount, OthersCount DEF NInv
  <2>3. CASE Tick \/ UNCHANGED vars
    <3>1. UNCHANGED <<db, tx, view, pc, call>>
      BY <2>3 DEF Tick, vars
    <3> QED
      BY <2>1, <3>1 DEF NInv, Counted, View
  <2> QED
    BY <2>2, <2>3 DEF Next
<1>3. NInv => StatsNotNegative
  <2> SUFFICES ASSUME NInv, NEW p \in Procs, pc[p] = "total"
               PROVE  Cardinality(call[p].ids) <= Cardinality(InNamespace(View(p), call[p].ns))
    BY DEF StatsNotNegative
  <2> DEFINE rows == InNamespace(View(p), call[p].ns)
  <2>1. call[p].ids \subseteq rows
    BY DEF NInv, Counted
  <2>2. rows \subseteq 1 .. Len(View(p).episodes) /\ Len(View(p).episodes) \in Nat
    BY ViewType, EveryRow DEF NInv, IInv, InNamespace
  <2> HIDE DEF rows
  <2>3. IsFiniteSet(rows)
    <3>1. IsFiniteSet(1 .. Len(View(p).episodes))
      BY <2>2, FS_Interval
    <3> QED
      BY <2>2, <3>1, FS_Subset
  <2> QED
    BY <2>1, <2>3, FS_Subset DEF rows
<1> QED
  BY <1>1, <1>2, <1>3, PTL DEF Spec

-----------------------------------------------------------------------------
(* The times of a row.                                                     *)

\* A row is valid from no later than now, nor than it expires, nor than it was closed.
Timed(row, now) ==
  /\ row.validFrom <= now
  /\ row.expiresAt # NULL => row.validFrom <= row.expiresAt
  /\ row.validTo # NULL => row.validFrom <= row.validTo

Timely(d, now) == \A i \in DOMAIN d.episodes : Timed(d.episodes[i], now)

\* A store has read the clock, and has not closed its neighbor yet.
Dated == {"insert", "vector", "entities", "supersede"}

Clocked(p) ==
  /\ Timely(view[p], clock)
  /\ call[p].now <= clock /\ call[p].ttl \in Nat \cup {NULL}
  /\ pc[p] \in Dated /\ call[p].target # NULL =>
       View(p).episodes[call[p].target].validFrom <= call[p].now
  /\ pc[p] \in {"expire", "forget"} => \A i \in call[p].ids : Due(View(p), i, call[p].now)

KInv == IInv /\ Timely(db, clock) /\ \A p \in Procs : Clocked(p)

\* A new row of a caller who asks for no expiry before the start.
LEMMA InsertTimely ==
  ASSUME NEW d \in Database, NEW ns \in Namespaces, NEW c \in Contents, NEW now \in Nat,
         NEW ttl \in Nat \cup {NULL}, NEW t \in Nat, now <= t, Timely(d, t)
  PROVE  LET e == InsertEpisode(d, ns, c, now, ttl) IN
         /\ Timely(e, t)
         /\ \A i \in DOMAIN d.episodes : e.episodes[i] = d.episodes[i]
<1> DEFINE row == NewEpisode(ns, c, now, ttl)
           e == InsertEpisode(d, ns, c, now, ttl)
<1>1. row \in Episode /\ Timed(row, t)
  <2>1. NULL \notin Int
    BY MemoryDbAssumptions
  <2> QED
    BY <2>1 DEF NewEpisode, Episode, Timed
<1>2. e.episodes = Append(d.episodes, row)
  BY DEF InsertEpisode, Database
<1> HIDE DEF row, e
<1>3. d.episodes \in Seq(Episode) /\ DOMAIN d.episodes = 1 .. Len(d.episodes)
      /\ Len(d.episodes) \in Nat
  BY EveryRow
<1>4. /\ DOMAIN e.episodes = DOMAIN d.episodes \cup {Len(d.episodes) + 1}
      /\ e.episodes[Len(d.episodes) + 1] = row
      /\ \A i \in DOMAIN d.episodes : e.episodes[i] = d.episodes[i]
  BY <1>1, <1>2, <1>3
<1> QED
  BY <1>1, <1>4 DEF Timely, e

\* An UPDATE that keeps the times of the rows it changes in order.
LEMMA UpdateTimely ==
  ASSUME NEW d \in Database, NEW t, Timely(d, t), NEW changed,
         \A i \in DOMAIN changed \cap DOMAIN d.episodes : Timed(changed[i], t)
  PROVE  Timely(Update(d, changed), t)
<1>1. Update(d, changed).episodes =
        [i \in DOMAIN d.episodes |-> IF i \in DOMAIN changed THEN changed[i] ELSE d.episodes[i]]
  BY DEF Update, Database
<1> QED
  BY <1>1 DEF Timely

\* What a connection sees is in order if what it holds and what is committed are.
LEMMA ViewTimely ==
  ASSUME KInv, NEW p \in Procs
  PROVE  Timely(View(p), clock)
BY DEF KInv, Clocked, View

\* A call that begins or ends, reads or gives up has its clock and writes no row.
LEMMA ReadingClock ==
  ASSUME Ttls \subseteq Nat \cup {NULL}, KInv, NEW p \in Procs, UNCHANGED clock,
         \/ NewCall(p) \/ StoreKnn(p) \/ StoreRow(p) \/ StoreStamp(p) \/ ForgetScan(p)
         \/ SearchKnn(p) \/ SearchFilter(p) \/ SearchKeyword(p) \/ SearchGraph(p) \/ SearchFuse(p)
         \/ StatsActive(p) \/ StatsTotal(p) \/ PushDump(p)
         \/ WriteRefused(p) \/ BindFails(p) \/ Aborts(p) \/ Crash(p)
  PROVE  Clocked(p)'
<1>1. /\ tx \in [Procs -> TxStates] /\ view \in [Procs -> Database]
      /\ pc \in [Procs -> Steps] /\ call \in [Procs -> Calls] /\ call[p] \in Calls
      /\ IInv /\ Clocked(p) /\ CallOK(p) /\ clock \in Nat
      /\ Timely(db, clock) /\ Timely(view[p], clock) /\ Timely(EmptyDatabase, clock)
  BY DEF KInv, IInv, TypeOK, Clocked, Timely, EmptyDatabase
<1>2. ASSUME NEW step \in Steps \ (Dated \cup {"expire", "forget"}), Goto(p, step),
             NEW v \in {db, view[p], EmptyDatabase}, view'[p] = v,
             call'[p].now \in {0, clock, call[p].now}, call'[p].ttl \in Nat \cup {NULL}
      PROVE  Clocked(p)'
  <2>1. pc'[p] = step /\ call'[p].now <= clock /\ Timely(v, clock)
    BY <1>1, <1>2 DEF Goto, Clocked, Calls
  <2> QED
    BY <1>2, <2>1 DEF Clocked
<1>3. ASSUME Finish(p), NEW v \in {db, view[p], EmptyDatabase}, view'[p] = v
      PROVE  Clocked(p)'
  BY <1>1, <1>2, <1>3 DEF Finish, Goto, NoCall, Steps, Dated
<1>4. Select(p) => view'[p] \in {db, view[p]}
  BY <1>1 DEF Select
<1>5. ASSUME NEW kind \in Kinds, NEW step \in Steps \ (Dated \cup {"expire", "forget"}),
             NEW c, c \in Calls, c.now \in {0, clock}, c.ttl \in Nat \cup {NULL},
             Begin(p, kind, step, c)
      PROVE  Clocked(p)'
  <2>1. Goto(p, step) /\ view'[p] = view[p] /\ call'[p] = [c EXCEPT !.kind = kind]
    BY <1>1, <1>5 DEF Begin
  <2>2. call'[p].now = c.now /\ call'[p].ttl = c.ttl
    BY <1>5, <2>1 DEF Calls
  <2> QED
    BY <1>2, <1>5, <2>1, <2>2
<1>6. CASE NewCall(p)
  <2>1. NoCall.now = 0 /\ NoCall.ttl = NULL
    BY DEF NoCall
  <2>2. {"knn", "vknn", "scan", "active", "dump"}
          \subseteq Steps \ (Dated \cup {"expire", "forget"})
    BY DEF Steps, Dated
  <2>3. ASSUME NEW ns \in Namespaces, NEW c \in Contents, NEW ttl \in Ttls, StoreCall(p, ns, c, ttl)
        PROVE  Clocked(p)'
    <3> DEFINE made == [NoCall EXCEPT !.ns = ns, !.text = c, !.ttl = ttl]
    <3>1. made \in Calls /\ made.now = 0 /\ made.ttl = ttl
      BY KausaMemoryAssumptions DEF NoCall, Calls, Kinds
    <3> HIDE DEF made
    <3>2. Begin(p, "store", "knn", made)
      BY <2>3 DEF StoreCall, made
    <3> QED
      BY <1>5, <2>2, <3>1, <3>2 DEF Kinds
  <2>4. ASSUME NEW ns \in Namespaces, NEW q \in Contents, SearchCall(p, ns, q)
        PROVE  Clocked(p)'
    <3> DEFINE made == [NoCall EXCEPT !.ns = ns, !.text = q, !.seen = Active(db, ns)]
    <3>1. Active(db, ns) \in SUBSET Ids
      BY EveryRow DEF KInv, IInv, TypeOK, Active, InNamespace
    <3>2. made \in Calls /\ made.now = 0 /\ made.ttl = NULL
      BY <3>1 DEF NoCall, Calls, Kinds
    <3> HIDE DEF made
    <3>3. Begin(p, "search", "vknn", made)
      BY <2>4 DEF SearchCall, made
    <3> QED
      BY <1>5, <2>2, <3>2, <3>3 DEF Kinds
  <2>5. ASSUME NEW ns \in Namespaces, ForgetCall(p, ns)
        PROVE  Clocked(p)'
    <3> DEFINE made == [NoCall EXCEPT !.ns = ns, !.now = clock]
    <3>1. made \in Calls /\ made.now = clock /\ made.ttl = NULL
      BY <1>1 DEF NoCall, Calls, Kinds
    <3> HIDE DEF made
    <3>2. Begin(p, "forget", "scan", made)
      BY <2>5 DEF ForgetCall, made
    <3> QED
      BY <1>5, <2>2, <3>1, <3>2 DEF Kinds
  <2>6. ASSUME NEW ns \in Namespaces, StatsCall(p, ns)
        PROVE  Clocked(p)'
    <3> DEFINE made == [NoCall EXCEPT !.ns = ns]
    <3>1. made \in Calls /\ made.now = 0 /\ made.ttl = NULL
      BY DEF NoCall, Calls, Kinds
    <3> HIDE DEF made
    <3>2. Begin(p, "stats", "active", made)
      BY <2>6 DEF StatsCall, made
    <3> QED
      BY <1>5, <2>2, <3>1, <3>2 DEF Kinds
  <2>7. ASSUME PushCall(p)
        PROVE  Clocked(p)'
    <3>1. NoCall \in Calls
      BY DEF NoCall, Calls, Kinds
    <3>2. Begin(p, "push", "dump", NoCall)
      BY <2>7 DEF PushCall
    <3> QED
      BY <1>5, <2>1, <2>2, <3>1, <3>2 DEF Kinds
  <2> QED
    BY <1>6, <2>3, <2>4, <2>5, <2>6, <2>7 DEF NewCall
<1>7. ASSUME NEW step \in {"row", "stamp", "vfilter", "keyword", "graph", "temporal", "touch",
                           "total", "commit"},
             Goto(p, step), view'[p] \in {db, view[p]},
             call'[p].now = call[p].now, call'[p].ttl = call[p].ttl
      PROVE  Clocked(p)'
  <2>1. step \in Steps \ (Dated \cup {"expire", "forget"}) /\ call'[p].ttl \in Nat \cup {NULL}
    BY <1>1, <1>7 DEF Steps, Dated, Clocked
  <2> QED
    BY <1>2, <1>7, <2>1
<1>8. CASE StoreKnn(p) \/ StoreRow(p)
  <2>1. \E step \in {"row", "stamp"} : Goto(p, step)
    BY <1>8 DEF StoreKnn, StoreRow
  <2>2. call' = call \/ \E id : call' = [call EXCEPT ![p].target = id]
    BY <1>8 DEF StoreKnn, StoreRow
  <2>3. call'[p].now = call[p].now /\ call'[p].ttl = call[p].ttl
    BY <1>1, <2>2 DEF Calls
  <2>4. view'[p] \in {db, view[p]}
    BY <1>4, <1>8 DEF StoreKnn, StoreRow
  <2> QED
    BY <1>7, <2>1, <2>3, <2>4
<1>9. CASE StoreStamp(p)
  <2>1. /\ pc[p] = "stamp" /\ pc'[p] = "insert" /\ call' = [call EXCEPT ![p].now = clock]
        /\ UNCHANGED <<db, tx, view>>
    BY <1>1, <1>9 DEF StoreStamp, Goto
  <2>2. /\ call'[p].now = clock /\ call'[p].target = call[p].target
        /\ call'[p].ttl = call[p].ttl /\ View(p)' = View(p)
    BY <1>1, <2>1 DEF Calls, View
  <2>3. call[p].target # NULL => call[p].target \in DOMAIN View(p).episodes
    BY <1>1, <2>1 DEF CallOK, InNamespace
  <2>4. call[p].target # NULL => View(p).episodes[call[p].target].validFrom <= clock
    BY <2>3, ViewTimely DEF Timely, Timed
  <2>5. clock <= clock /\ call[p].ttl \in Nat \cup {NULL}
    BY <1>1 DEF Clocked
  <2> QED
    BY <1>1, <2>1, <2>2, <2>4, <2>5 DEF Clocked
<1>10. CASE ForgetScan(p)
  <2> DEFINE due == Expired(View(p), call[p].ns, call[p].now)
  <2>1. /\ pc[p] = "scan" /\ Select(p) /\ call' = [call EXCEPT ![p].ids = due] /\ db' = db
        /\ \E step \in {"commit", "expire"} : Goto(p, step)
    BY <1>10 DEF ForgetScan
  <2>2. View(p)' = View(p)
    BY <1>1, <2>1, SelectConnections
  <2>3. \A i \in due : Due(View(p), i, call[p].now)
    BY DEF Due, Expired, Active, InNamespace
  <2> HIDE DEF due
  <2>4. /\ pc'[p] \in {"commit", "expire"} /\ call'[p].ids = due
        /\ call'[p].now = call[p].now /\ call'[p].ttl = call[p].ttl
    BY <1>1, <2>1 DEF Goto, Calls
  <2>5. \A i \in call'[p].ids : Due(View(p)', i, call'[p].now)
    BY <2>2, <2>3, <2>4
  <2>6. Timely(view'[p], clock)
    BY <1>1, <1>4, <2>1
  <2>7. pc'[p] \notin Dated
    BY <2>4 DEF Dated
  <2> QED
    BY <1>1, <2>4, <2>5, <2>6, <2>7 DEF Clocked
<1>11. CASE SearchKnn(p) \/ SearchFilter(p) \/ SearchKeyword(p) \/ SearchGraph(p) \/ StatsActive(p)
  <2>1. /\ Select(p) /\ \E ids : call' = [call EXCEPT ![p].ids = ids]
        /\ \E step \in {"vfilter", "keyword", "graph", "temporal", "total"} : Goto(p, step)
    BY <1>11 DEF SearchKnn, SearchFilter, SearchKeyword, SearchGraph, StatsActive, Gather
  <2>2. call'[p].now = call[p].now /\ call'[p].ttl = call[p].ttl
    BY <1>1, <2>1 DEF Calls
  <2> QED
    BY <1>4, <1>7, <2>1, <2>2
<1>12. CASE SearchFuse(p)
  <2>1. /\ Select(p)
        /\ Finish(p) \/ \E ids : call' = [call EXCEPT ![p].ids = ids] /\ Goto(p, "touch")
    BY <1>12 DEF SearchFuse
  <2>2. CASE Finish(p)
    BY <1>3, <1>4, <2>1, <2>2
  <2>3. CASE \E ids : call' = [call EXCEPT ![p].ids = ids] /\ Goto(p, "touch")
    <3>1. call'[p].now = call[p].now /\ call'[p].ttl = call[p].ttl
      BY <1>1, <2>3 DEF Calls
    <3> QED
      BY <1>4, <1>7, <2>1, <2>3, <3>1
  <2> QED
    BY <2>1, <2>2, <2>3
<1>13. CASE StatsTotal(p)
  BY <1>3, <1>4, <1>13 DEF StatsTotal
<1>14. CASE PushDump(p)
  <2>1. Finish(p) /\ view'[p] \in {db, view[p]}
    BY <1>1, <1>4, <1>14 DEF PushDump
  <2> QED
    BY <1>3, <2>1
<1>15. CASE WriteRefused(p) \/ BindFails(p) \/ Aborts(p) \/ Crash(p)
  <2>1. Finish(p) /\ view'[p] \in {view[p], EmptyDatabase}
    BY <1>1, <1>15 DEF WriteRefused, BindFails, Aborts, Crash
  <2> QED
    BY <1>3, <2>1
<1> QED
  BY <1>6, <1>8, <1>9, <1>10, <1>11, <1>12, <1>13, <1>14, <1>15

\* A call that writes keeps the times of every row in order.
LEMMA WritingClock ==
  ASSUME KInv, NEW p \in Procs, UNCHANGED clock,
         \/ StoreInsert(p) \/ StoreVector(p) \/ StoreEntities(p) \/ StoreSupersede(p)
         \/ StoreUnvector(p) \/ ForgetExpire(p) \/ ForgetVector(p) \/ SearchTouch(p)
  PROVE  Clocked(p)'
<1>1. /\ tx \in [Procs -> TxStates] /\ view \in [Procs -> Database]
      /\ pc \in [Procs -> Steps] /\ call \in [Procs -> Calls] /\ call[p] \in Calls
      /\ IInv /\ Clocked(p) /\ CallOK(p) /\ clock \in Nat /\ NULL \notin Int
      /\ View(p) \in Database /\ Timely(View(p), clock)
  BY ViewType, ViewTimely, MemoryDbAssumptions DEF KInv, IInv, TypeOK
<1>2. /\ call[p].now \in Nat /\ call[p].now <= clock /\ call[p].ttl \in Nat \cup {NULL}
  BY <1>1 DEF Clocked, Calls
<1>3. pc[p] \in RowInserted => tx[p] = "write" /\ View(p) = view[p]
  BY <1>1 DEF CallOK, View
<1>4. \A i \in DOMAIN View(p).episodes :
        View(p).episodes[i] \in Episode /\ Timed(View(p).episodes[i], clock)
  BY <1>1, EveryRow DEF Timely
<1>5. ASSUME NEW d, Write(p, d), Timely(d, clock),
             NEW step \in {"vector", "entities", "supersede", "unvector", "commit"},
             pc' = [pc EXCEPT ![p] = step], call' = call,
             step \in Dated /\ call[p].target # NULL =>
               d.episodes[call[p].target].validFrom <= call[p].now
      PROVE  Clocked(p)'
  <2>1. tx'[p] = "write" /\ view'[p] = d /\ pc'[p] = step /\ View(p)' = d
    BY <1>1, <1>5 DEF Write, View
  <2> QED
    BY <1>2, <1>5, <2>1 DEF Clocked
<1>6. CASE StoreInsert(p)
  <2> DEFINE e == InsertEpisode(View(p), call[p].ns, call[p].text, call[p].now, call[p].ttl)
  <2>1. pc[p] = "insert" /\ Write(p, e) /\ pc' = [pc EXCEPT ![p] = "vector"] /\ call' = call
    BY <1>6 DEF StoreInsert, Goto
  <2>2. /\ call[p].ns \in Namespaces /\ call[p].text \in Contents
        /\ call[p].target # NULL => call[p].target \in DOMAIN View(p).episodes
    BY <1>1, <2>1 DEF CallOK, StoreSteps, InNamespace
  <2>3. Timely(e, clock) /\ \A i \in DOMAIN View(p).episodes : e.episodes[i] = View(p).episodes[i]
    BY <1>1, <1>2, <2>2, InsertTimely
  <2> HIDE DEF e
  <2>4. call[p].target # NULL => e.episodes[call[p].target].validFrom <= call[p].now
    BY <1>1, <2>1, <2>2, <2>3 DEF Clocked, Dated
  <2> QED
    BY <1>5, <2>1, <2>3, <2>4
<1>7. ASSUME NEW d, Write(p, d), d.episodes = view[p].episodes, call' = call,
             pc[p] \in RowInserted,
             NEW step \in {"entities", "supersede", "commit"}, pc' = [pc EXCEPT ![p] = step],
             step = "commit" \/ pc[p] \in Dated
      PROVE  Clocked(p)'
  <2>1. Timely(d, clock)
    BY <1>1, <1>3, <1>7 DEF Timely
  <2>2. step \in Dated /\ call[p].target # NULL =>
          d.episodes[call[p].target].validFrom <= call[p].now
    BY <1>1, <1>3, <1>7 DEF Clocked, Dated
  <2> QED
    BY <1>5, <1>7, <2>1, <2>2
<1>8. CASE StoreVector(p)
  <2> DEFINE e == AddVector(view[p], NewId(p))
  <2>1. pc[p] = "vector" /\ Write(p, e) /\ pc' = [pc EXCEPT ![p] = "entities"] /\ call' = call
    BY <1>8 DEF StoreVector, Goto
  <2>2. e.episodes = view[p].episodes
    BY <1>1 DEF AddVector, Database
  <2> HIDE DEF e
  <2> QED
    BY <1>7, <2>1, <2>2 DEF RowInserted, Dated
<1>9. CASE StoreEntities(p)
  <2> DEFINE e == IndexEntities(view[p], NewId(p), call[p].text, call[p].ns)
             step == IF call[p].target = NULL THEN "commit" ELSE "supersede"
  <2>1. pc[p] = "entities" /\ Write(p, e) /\ pc' = [pc EXCEPT ![p] = step] /\ call' = call
    BY <1>9 DEF StoreEntities, Goto
  <2>2. e.episodes = view[p].episodes /\ step \in {"commit", "supersede"}
    BY <1>1 DEF IndexEntities, Database
  <2> HIDE DEF e, step
  <2> QED
    BY <1>7, <2>1, <2>2 DEF RowInserted, Dated
<1>10. CASE StoreSupersede(p)
  <2> DEFINE old == call[p].target
             row == [view[p].episodes[old] EXCEPT !.validTo = call[p].now,
                                                  !.supersededBy = NewId(p)]
             changed == [i \in {old} |-> [view[p].episodes[i] EXCEPT !.validTo = call[p].now,
                                                                     !.supersededBy = NewId(p)]]
             e == Update(view[p], changed)
  <2>1. pc[p] = "supersede" /\ Write(p, e) /\ pc' = [pc EXCEPT ![p] = "unvector"] /\ call' = call
    BY <1>10 DEF StoreSupersede, SupersedeEpisode, Goto
  <2>2. View(p) = view[p] /\ old # NULL /\ old \in DOMAIN view[p].episodes
    BY <1>1, <1>3, <2>1 DEF CallOK, RowInserted, InNamespace
  <2>3. view[p].episodes[old].validFrom <= call[p].now
    BY <1>1, <2>1, <2>2 DEF Clocked, Dated
  <2>4. Timed(row, clock)
    <3>1. view[p].episodes[old] \in Episode /\ Timed(view[p].episodes[old], clock)
      BY <1>4, <2>2
    <3> HIDE DEF old
    <3> QED
      BY <1>2, <2>3, <3>1 DEF Timed, Episode
  <2>5. DOMAIN changed = {old} /\ changed[old] = row
    OBVIOUS
  <2> HIDE DEF changed, row, old
  <2>6. Timely(e, clock)
    BY <1>1, <2>2, <2>4, <2>5, UpdateTimely
  <2> HIDE DEF e
  <2> QED
    BY <1>5, <2>1, <2>6 DEF Dated
<1>11. CASE StoreUnvector(p)
  <2> DEFINE e == RemoveVector(view[p], call[p].target)
  <2>1. pc[p] = "unvector" /\ Write(p, e) /\ pc' = [pc EXCEPT ![p] = "commit"] /\ call' = call
    BY <1>11 DEF StoreUnvector, Goto
  <2>2. e.episodes = view[p].episodes
    BY <1>1 DEF RemoveVector, Database
  <2> HIDE DEF e
  <2> QED
    BY <1>7, <2>1, <2>2 DEF RowInserted
<1>12. CASE ForgetExpire(p)
  <2>1. PICK id \in call[p].ids :
          /\ Write(p, ExpireEpisode(View(p), id, call[p].now))
          /\ call' = [call EXCEPT ![p].target = id, ![p].ids = @ \ {id}]
    BY <1>12 DEF ForgetExpire
  <2> DEFINE now == call[p].now
             rows == View(p).episodes
             row == [rows[id] EXCEPT !.validTo = now]
             changed == [i \in {id} |-> [rows[i] EXCEPT !.validTo = now]]
             e == Update(View(p), changed)
  <2>2. pc[p] = "expire" /\ Write(p, e) /\ Goto(p, "forget")
    BY <1>12, <2>1 DEF ForgetExpire, ExpireEpisode
  <2>3. \A i \in call[p].ids : Due(View(p), i, now)
    BY <1>1, <2>2 DEF Clocked
  <2>4. Timed(row, clock) /\ row.expiresAt = rows[id].expiresAt
    <3>1. rows[id] \in Episode /\ Timed(rows[id], clock)
          /\ rows[id].expiresAt # NULL /\ rows[id].expiresAt <= now
      BY <1>4, <2>3 DEF Due
    <3>2. now \in Nat
      BY <1>2
    <3> HIDE DEF now, rows
    <3>3. row.validTo = now /\ row.validFrom = rows[id].validFrom
          /\ row.expiresAt = rows[id].expiresAt
      BY <3>1 DEF Episode
    <3>4. rows[id].validFrom \in Nat /\ rows[id].expiresAt \in Int
      BY <3>1 DEF Episode
    <3>5. rows[id].validFrom <= now
      BY <3>1, <3>2, <3>4 DEF Timed
    <3> HIDE DEF row
    <3> QED
      BY <3>1, <3>3, <3>5 DEF Timed
  <2>5. DOMAIN changed = {id} /\ changed[id] = row
    OBVIOUS
  <2>6. e.episodes = [i \in DOMAIN rows |-> IF i \in DOMAIN changed THEN changed[i] ELSE rows[i]]
    BY <1>1 DEF Update, Database
  <2> HIDE DEF changed, row
  <2>7. Timely(e, clock)
    BY <1>1, <2>4, <2>5, UpdateTimely
  <2> HIDE DEF e
  <2>8. \A i \in call[p].ids : Due(e, i, now)
    BY <2>3, <2>4, <2>5, <2>6 DEF Due
  <2>9. tx'[p] = "write" /\ view'[p] = e /\ View(p)' = e /\ pc'[p] = "forget"
    BY <1>1, <2>2 DEF Write, View, Goto
  <2>10. /\ call'[p].ids = call[p].ids \ {id} /\ call'[p].now = now /\ call'[p].ttl = call[p].ttl
    BY <1>1, <2>1 DEF Calls
  <2>11. \A i \in call'[p].ids : Due(View(p)', i, call'[p].now)
    BY <2>8, <2>9, <2>10
  <2>12. pc'[p] \notin Dated
    BY <2>9 DEF Dated
  <2> QED
    BY <1>2, <2>7, <2>9, <2>10, <2>11, <2>12 DEF Clocked
<1>13. CASE ForgetVector(p)
  <2> DEFINE e == RemoveVector(View(p), call[p].target)
  <2>1. pc[p] = "forget" /\ Write(p, e) /\ call' = call
        /\ \E step \in {"commit", "expire"} : Goto(p, step)
    BY <1>13 DEF ForgetVector
  <2>2. e.episodes = View(p).episodes
    BY <1>1 DEF RemoveVector, Database
  <2> HIDE DEF e
  <2>3. tx'[p] = "write" /\ view'[p] = e /\ View(p)' = e /\ pc'[p] \in {"commit", "expire"}
    BY <1>1, <2>1 DEF Write, View, Goto
  <2>4. Timely(e, clock)
    BY <1>1, <2>2 DEF Timely
  <2>5. \A i \in call[p].ids : Due(e, i, call[p].now)
    BY <1>1, <2>1, <2>2 DEF Clocked, Due
  <2>6. \A i \in call'[p].ids : Due(View(p)', i, call'[p].now)
    BY <2>1, <2>3, <2>5
  <2>7. pc'[p] \notin Dated
    BY <2>3 DEF Dated
  <2> QED
    BY <1>2, <2>1, <2>3, <2>4, <2>6, <2>7 DEF Clocked
<1>14. CASE SearchTouch(p)
  <2> DEFINE rows == View(p).episodes
             ids == call[p].ids
             changed == [i \in ids |-> [rows[i] EXCEPT !.accessCount = @ + 1]]
             e == Update(View(p), changed)
  <2>1. Write(p, e) /\ pc' = [pc EXCEPT ![p] = "commit"] /\ call' = call
    BY <1>14 DEF SearchTouch, TouchEpisodes, Goto
  <2>2. \A i \in DOMAIN rows : Timed([rows[i] EXCEPT !.accessCount = @ + 1], clock)
    <3> HIDE DEF rows
    <3>1. ASSUME NEW row \in Episode, Timed(row, clock)
          PROVE  Timed([row EXCEPT !.accessCount = @ + 1], clock)
      BY <3>1 DEF Timed, Episode
    <3> QED
      BY <1>4, <3>1 DEF rows
  <2>3. \A i \in DOMAIN changed \cap DOMAIN rows : Timed(changed[i], clock)
    BY <2>2
  <2> HIDE DEF changed
  <2>4. Timely(e, clock)
    BY <1>1, <2>3, UpdateTimely
  <2> HIDE DEF e
  <2> QED
    BY <1>5, <2>1, <2>4 DEF Dated
<1> QED
  BY <1>6, <1>8, <1>9, <1>10, <1>11, <1>12, <1>13, <1>14

\* A commit: rows keep the times they had, and what the others chose is still there.
LEMMA CommitClock ==
  ASSUME KInv, NEW p \in Procs, Commit(p)
  PROVE  Timely(db', clock) /\ \A q \in Procs : Clocked(q)'
<1>1. /\ tx \in [Procs -> TxStates] /\ view \in [Procs -> Database]
      /\ pc \in [Procs -> Steps] /\ call \in [Procs -> Calls] /\ IInv /\ clock' = clock
      /\ Timely(db, clock) /\ db \in Database /\ clock \in Nat
      /\ \A q \in Procs : Clocked(q) /\ CallOK(q)
  BY DEF KInv, IInv, TypeOK, Commit
<1>2. /\ pc[p] = "commit"
      /\ db' = IF tx[p] = "write" THEN view[p] ELSE db
      /\ tx' = [r \in Procs |-> IF r = p THEN "none"
                                ELSE IF tx[p] = "write" /\ tx[r] = "read" THEN "stale" ELSE tx[r]]
      /\ view' = [view EXCEPT ![p] = EmptyDatabase]
      /\ pc' = [pc EXCEPT ![p] = "idle"]
      /\ call' = Witness(p, db')
  BY DEF Commit, Goto
<1>3. Timely(db', clock)
  BY <1>1, <1>2 DEF Clocked
<1>4. Clocked(p)'
  <2>1. pc'[p] = "idle" /\ view'[p] = EmptyDatabase /\ call'[p] = NoCall
    BY <1>1, <1>2 DEF Witness
  <2>2. Timely(EmptyDatabase, clock)
    BY DEF Timely, EmptyDatabase
  <2>3. NoCall.now = 0 /\ NoCall.ttl = NULL
    BY DEF NoCall
  <2>4. pc'[p] \notin Dated \cup {"expire", "forget"}
    BY <2>1 DEF Dated
  <2> QED
    BY <1>1, <2>1, <2>2, <2>3, <2>4 DEF Clocked
<1>5. ASSUME NEW q \in Procs, q # p
      PROVE  Clocked(q)'
  <2>1. /\ tx'[q] = IF tx[p] = "write" /\ tx[q] = "read" THEN "stale" ELSE tx[q]
        /\ view'[q] = view[q] /\ pc'[q] = pc[q]
    BY <1>1, <1>2, <1>5
  <2>2. call'[q] = call[q] \/ \E seen : call'[q] = [call[q] EXCEPT !.seen = seen]
    BY <1>2, <1>5 DEF Witness
  <2>3. /\ call'[q].now = call[q].now /\ call'[q].ttl = call[q].ttl
        /\ call'[q].ids = call[q].ids /\ call'[q].target = call[q].target
    <3>1. call[q] \in Calls
      BY <1>1
    <3> QED
      BY <2>2, <3>1 DEF Calls
  <2>4. View(q)' = View(q) \/ (View(q) = db /\ View(q)' = db')
    BY <2>1 DEF View
  <2>5. Extends(db, db') /\ db' \in Database
    BY <1>1, <1>2, CommitConnections
  <2>6. \A i, now : Due(View(q), i, now) => Due(View(q)', i, now)
    <3>1. \A i, now : Due(db, i, now) => Due(db', i, now)
      BY <1>1, <2>5, EveryRow DEF Due, Extends, Keeps
    <3> QED
      BY <2>4, <3>1
  <2>7. \A i \in DOMAIN View(q).episodes :
          View(q)'.episodes[i].validFrom = View(q).episodes[i].validFrom
    <3>1. \A i \in DOMAIN db.episodes : db'.episodes[i].validFrom = db.episodes[i].validFrom
      BY <2>5 DEF Extends, Keeps
    <3> QED
      BY <2>4, <3>1
  <2>8. pc[q] \in Dated /\ call[q].target # NULL => call[q].target \in DOMAIN View(q).episodes
    <3>1. pc[q] \in RowInserted => View(q) = view[q]
      BY <1>1 DEF CallOK, View
    <3> HIDE DEF View
    <3> QED
      BY <1>1, <3>1 DEF CallOK, Dated, RowInserted, InNamespace
  <2>9. pc[q] \in Dated /\ call[q].target # NULL =>
          View(q)'.episodes[call[q].target].validFrom <= call[q].now
    BY <1>1, <2>7, <2>8 DEF Clocked
  <2>10. pc[q] \in {"expire", "forget"} => \A i \in call[q].ids : Due(View(q)', i, call[q].now)
    BY <1>1, <2>6 DEF Clocked
  <2> HIDE DEF View
  <2> QED
    BY <1>1, <2>1, <2>3, <2>9, <2>10 DEF Clocked
<1> QED
  BY <1>3, <1>4, <1>5

\* A step that is p's own leaves the others' rows and times alone.
LEMMA OthersClock ==
  ASSUME KInv, NEW p \in Procs, Apart(p), UNCHANGED clock, NEW q \in Procs \ {p}
  PROVE  Clocked(q)'
<1>1. /\ db' = db /\ tx'[q] = tx[q] /\ view'[q] = view[q] /\ pc'[q] = pc[q]
      /\ call'[q] = call[q]
  BY DEF Apart
<1>2. View(q)' = View(q)
  BY <1>1 DEF View
<1> QED
  BY <1>1, <1>2 DEF KInv, Clocked

\* No episode is closed before it became valid, whichever calls race: a store takes the time
\* after it has read the neighbor it closes, and a sweep, which takes it before it looks,
\* closes only what had expired by then. That needs callers who never ask for a negative
\* time to live, or a sweep could close an episode stored after the sweep began.
THEOREM IntervalsStayValid ==
  ASSUME Ttls \subseteq Nat \cup {NULL}
  PROVE  Spec => []ValidInterval
<1>1. Init => KInv
  <2>1. Init => Timely(EmptyDatabase, 0) /\ NoCall.now = 0 /\ NoCall.ttl = NULL
    BY DEF Timely, EmptyDatabase, NoCall
  <2>2. Init => \A p \in Procs : Clocked(p)
    BY <2>1 DEF Init, Clocked, Dated
  <2> QED
    BY <2>1, <2>2, IInvInit DEF KInv, Init
<1>2. KInv /\ [Next]_vars => KInv'
  <2> SUFFICES ASSUME KInv, [Next]_vars PROVE KInv'
    OBVIOUS
  <2>1. IInv' /\ IInv /\ TypeOK
    BY IInvNext DEF KInv, IInv
  <2>2. ASSUME NEW p \in Procs, Commit(p)
        PROVE  KInv'
    <3>1. clock' = clock
      BY <2>2 DEF Commit
    <3> QED
      BY <2>1, <2>2, <3>1, CommitClock DEF KInv
  <2>3. ASSUME NEW p \in Procs, ~ Commit(p),
               NewCall(p) \/ Step(p) \/ BindFails(p) \/ Aborts(p) \/ Crash(p)
        PROVE  KInv'
    <3>1. ASSUME Aborts(p) PROVE Apart(p)
      BY <2>1, <3>1 DEF IInv, TypeOK, Aborts, Goto, Finish, Apart
    <3>2. Apart(p) /\ db' = db
      BY <2>1, <2>3, <3>1, StepApart DEF Step, Apart
    <3>3. ASSUME NewCall(p) \/ BindFails(p) \/ Aborts(p) \/ Crash(p)
          PROVE  clock' = clock
      BY <3>3 DEF NewCall, StoreCall, SearchCall, ForgetCall, StatsCall, PushCall, Begin,
         BindFails, Aborts, Crash
    <3>4. ASSUME Step(p) PROVE clock' = clock
      BY <3>4 DEF Step, StoreStep, ForgetStep, SearchStep, StoreKnn, StoreRow, StoreStamp,
         StoreInsert, StoreVector, StoreEntities, StoreSupersede, StoreUnvector, ForgetScan,
         ForgetExpire, ForgetVector, SearchKnn, SearchFilter, SearchKeyword, SearchGraph, Gather,
         SearchFuse, SearchTouch, StatsActive, StatsTotal, PushDump, Commit, WriteRefused
    <3>5. clock' = clock
      BY <2>3, <3>3, <3>4
    <3>6. Clocked(p)'
      BY <2>3, <3>5, ReadingClock, WritingClock DEF Step, StoreStep, ForgetStep, SearchStep
    <3>7. \A q \in Procs \ {p} : Clocked(q)'
      BY <3>2, <3>5, OthersClock
    <3> QED
      BY <2>1, <3>2, <3>5, <3>6, <3>7 DEF KInv
  <2>4. CASE Tick
    <3>1. clock' = clock + 1 /\ UNCHANGED <<db, tx, view, pc, call>> /\ clock \in Nat
      BY <2>1, <2>4 DEF Tick, TypeOK
    <3>2. ASSUME NEW d \in Database, Timely(d, clock)
          PROVE  Timely(d, clock')
      <4>1. \A i \in DOMAIN d.episodes : d.episodes[i].validFrom \in Nat
        BY EveryRow DEF Episode
      <4> QED
        BY <3>1, <3>2, <4>1 DEF Timely, Timed
    <3>3. \A p \in Procs : call[p].now \in Nat /\ view[p] \in Database
      BY <2>1 DEF TypeOK, Calls
    <3>4. \A p \in Procs : View(p)' = View(p)
      BY <3>1 DEF View
    <3>5. ASSUME NEW p \in Procs PROVE Clocked(p)'
      <4>1. Clocked(p)
        BY DEF KInv
      <4>2. Timely(view[p], clock') /\ call[p].now <= clock'
        BY <3>1, <3>2, <3>3, <4>1 DEF Clocked
      <4> QED
        BY <3>1, <3>4, <4>1, <4>2 DEF Clocked
    <3>6. Timely(db, clock')
      BY <2>1, <3>2 DEF KInv, TypeOK
    <3> QED
      BY <2>1, <3>1, <3>5, <3>6 DEF KInv
  <2>5. CASE UNCHANGED vars
    <3>1. UNCHANGED <<db, tx, view, pc, call, clock>>
      BY <2>5 DEF vars
    <3> QED
      BY <2>1, <3>1 DEF KInv, Clocked, View
  <2> QED
    BY <2>2, <2>3, <2>4, <2>5 DEF Next
<1>3. KInv => ValidInterval
  BY DEF KInv, Timely, Timed, ValidInterval
<1> QED
  BY <1>1, <1>2, <1>3, PTL DEF Spec

-----------------------------------------------------------------------------
(* The answers of searches.                                                *)

Searching == {"vknn", "vfilter", "keyword", "graph", "temporal", "touch"}

\* What a search has gathered was current in its namespace since it began.
Regular(p) ==
  /\ pc[p] \in Searching => call[p].kind = "search"
  /\ pc[p] \in Steps \ (Searching \cup {"idle", "commit"}) => call[p].kind # "search"
  /\ call[p].kind = "search" => Active(db, call[p].ns) \subseteq call[p].seen
  /\ call[p].kind = "search" /\ pc[p] \in {"keyword", "graph", "temporal", "touch", "commit"} =>
       call[p].ids \subseteq call[p].seen

AInv == DInv /\ Autocommit /\ \A p \in Procs : Regular(p)

\* A link of an entity of a namespace leads to a row of that namespace.
LEMMA GraphStaysInside ==
  ASSUME NEW d \in Database, Indexed(d, {}, {}, {}), NEW q, NEW ns
  PROVE  GraphHits(d, q, ns) \subseteq Active(d, ns)
<1> SUFFICES ASSUME NEW i \in GraphHits(d, q, ns) PROVE i \in Active(d, ns)
  OBVIOUS
<1>1. PICK name \in EntitiesOf[q] : <<i, <<ns, name>>>> \in d.mentions
  BY DEF GraphHits
<1>2. i \in DOMAIN d.episodes /\ d.episodes[i].validTo = NULL
  BY DEF GraphHits
<1>3. i \in Ids /\ <<ns, name>> \in Entities
  BY <1>1 DEF Database
<1>4. <<ns, name>> \in RowEntities(d, i)
  BY <1>1, <1>3 DEF Indexed
<1>5. d.episodes[i].namespace = ns
  BY <1>4 DEF RowEntities
<1> QED
  BY <1>2, <1>5 DEF Active, InNamespace

\* A searching connection reads what is committed.
LEMMA SearchSees ==
  ASSUME AInv, NEW p \in Procs, pc[p] \in Searching \ {"touch"}
  PROVE  View(p) = db
<1>1. tx[p] # "write"
  BY NotWriting DEF AInv, Searching, Writing
<1> QED
  BY <1>1 DEF AInv, Autocommit, View

\* p's own step of a search, and of any other call.
LEMMA OwnAnswer ==
  ASSUME AInv, NEW p \in Procs, db' = db, ~ Commit(p),
         NewCall(p) \/ Step(p) \/ BindFails(p) \/ Aborts(p) \/ Crash(p)
  PROVE  Regular(p)'
<1>1. /\ pc \in [Procs -> Steps] /\ call \in [Procs -> Calls] /\ call[p] \in Calls /\ Regular(p)
      /\ db \in Database /\ Indexed(db, {}, {}, {})
  BY DEF AInv, DInv, IInv, TypeOK
<1>2. ASSUME Finish(p) PROVE Regular(p)'
  BY <1>1, <1>2 DEF Finish, Goto, NoCall, Regular, Searching
<1>3. ASSUME pc'[p] \in Steps \ Searching, call'[p].kind # "search"
      PROVE  Regular(p)'
  BY <1>3 DEF Regular
<1>4. ASSUME pc[p] \in Steps \ (Searching \cup {"idle", "commit"}),
             pc'[p] \in Steps \ Searching, call'[p].kind = call[p].kind
      PROVE  Regular(p)'
  BY <1>1, <1>3, <1>4 DEF Regular
<1>5. CASE NewCall(p)
  <2>1. ASSUME NEW ns \in Namespaces, NEW q \in Contents, SearchCall(p, ns, q)
        PROVE  Regular(p)'
    <3>1. /\ pc'[p] = "vknn" /\ call'[p].kind = "search" /\ call'[p].ns = ns
          /\ call'[p].seen = Active(db, ns)
      BY <1>1, <2>1 DEF SearchCall, Begin, Goto, NoCall
    <3> QED
      BY <1>1, <3>1 DEF Regular, Searching
  <2>2. ASSUME \/ \E ns \in Namespaces, c \in Contents, ttl \in Ttls : StoreCall(p, ns, c, ttl)
               \/ \E ns \in Namespaces : ForgetCall(p, ns)
               \/ \E ns \in Namespaces : StatsCall(p, ns)
               \/ PushCall(p)
        PROVE  Regular(p)'
    <3>1. pc'[p] \in {"knn", "scan", "active", "dump"}
      BY <1>1, <2>2 DEF StoreCall, ForgetCall, StatsCall, PushCall, Begin, Goto
    <3>2. call'[p].kind # "search"
      BY <1>1, <2>2 DEF StoreCall, ForgetCall, StatsCall, PushCall, Begin, NoCall
    <3> QED
      BY <1>3, <3>1, <3>2 DEF Steps, Searching
  <2> QED
    BY <1>5, <2>1, <2>2 DEF NewCall
<1>6. CASE StoreStep(p)
  <2>1. /\ pc[p] \in StoreSteps
        /\ \E step \in (StoreSteps \cup {"commit"}) : Goto(p, step)
    BY <1>6 DEF StoreStep, StoreKnn, StoreRow, StoreStamp, StoreInsert, StoreVector,
       StoreEntities, StoreSupersede, StoreUnvector, StoreSteps
  <2>2. \/ call' = call \/ (\E t : call' = [call EXCEPT ![p].target = t])
        \/ call' = [call EXCEPT ![p].now = clock]
    BY <1>6 DEF StoreStep, StoreKnn, StoreRow, StoreStamp, StoreInsert, StoreVector,
       StoreEntities, StoreSupersede, StoreUnvector
  <2>3. call'[p].kind = call[p].kind
    BY <1>1, <2>2 DEF Calls
  <2>4. pc'[p] \in StoreSteps \cup {"commit"}
    BY <1>1, <2>1 DEF Goto
  <2> QED
    BY <1>4, <2>1, <2>3, <2>4 DEF StoreSteps, Searching, Steps
<1>7. CASE ForgetStep(p)
  <2>1. /\ pc[p] \in {"scan", "expire", "forget"}
        /\ \E step \in {"expire", "forget", "commit"} : Goto(p, step)
    BY <1>7 DEF ForgetStep, ForgetScan, ForgetExpire, ForgetVector
  <2>2. \/ call' = call
        \/ (\E ids : call' = [call EXCEPT ![p].ids = ids])
        \/ (\E id : call' = [call EXCEPT ![p].target = id, ![p].ids = @ \ {id}])
    BY <1>7 DEF ForgetStep, ForgetScan, ForgetExpire, ForgetVector
  <2>3. call'[p].kind = call[p].kind
    BY <1>1, <2>2 DEF Calls
  <2>4. pc'[p] \in {"expire", "forget", "commit"}
    BY <1>1, <2>1 DEF Goto
  <2> QED
    BY <1>4, <2>1, <2>3, <2>4 DEF Searching, Steps
<1>8. CASE StatsActive(p)
  <2>1. pc[p] = "active" /\ pc'[p] = "total" /\ call'[p].kind = call[p].kind
    BY <1>1, <1>8 DEF StatsActive, Goto, Calls
  <2> QED
    BY <1>4, <2>1 DEF Searching, Steps
<1>9. CASE \/ StatsTotal(p) \/ PushDump(p) \/ WriteRefused(p) \/ BindFails(p) \/ Aborts(p)
           \/ Crash(p)
  BY <1>2, <1>9 DEF StatsTotal, PushDump, WriteRefused, BindFails, Aborts, Crash
<1>10. pc[p] \in Searching =>
         /\ call[p].kind = "search" /\ Active(db, call[p].ns) \subseteq call[p].seen
         /\ pc[p] \notin {"vknn", "vfilter"} => call[p].ids \subseteq call[p].seen
         /\ pc[p] # "touch" => View(p) = db
  BY <1>1, SearchSees DEF Regular, Searching
<1>11. ASSUME pc[p] \in Searching, NEW ids, call' = [call EXCEPT ![p].ids = ids],
              NEW step \in {"vfilter", "keyword", "graph", "temporal", "touch"}, Goto(p, step),
              step = "vfilter" \/ ids \subseteq call[p].seen
       PROVE  Regular(p)'
  <2>1. /\ pc'[p] = step /\ call'[p].ids = ids /\ call'[p].ns = call[p].ns
        /\ call'[p].seen = call[p].seen /\ call'[p].kind = call[p].kind
    BY <1>1, <1>11 DEF Goto, Calls
  <2>2. call'[p].kind = "search" /\ Active(db', call'[p].ns) \subseteq call'[p].seen
    BY <1>10, <1>11, <2>1
  <2>3. step \in Searching
    BY DEF Searching
  <2> QED
    BY <1>11, <2>1, <2>2, <2>3 DEF Regular
<1>12. CASE SearchKnn(p)
  BY <1>11, <1>12 DEF SearchKnn, Searching
<1>13. CASE SearchFilter(p)
  <2> DEFINE ids == call[p].ids \cap Active(View(p), call[p].ns)
  <2>1. pc[p] = "vfilter" /\ call' = [call EXCEPT ![p].ids = ids] /\ Goto(p, "keyword")
    BY <1>13 DEF SearchFilter
  <2>2. ids \subseteq call[p].seen
    BY <1>10, <2>1 DEF Searching
  <2> HIDE DEF ids
  <2> QED
    BY <1>11, <2>1, <2>2 DEF Searching
<1>14. ASSUME NEW from \in {"keyword", "graph"}, NEW to \in {"graph", "temporal"}, NEW hits,
              Gather(p, from, hits, to), View(p) = db => hits \subseteq Active(db, call[p].ns)
       PROVE  Regular(p)'
  <2> DEFINE ids == call[p].ids \cup hits
  <2>1. pc[p] = from /\ call' = [call EXCEPT ![p].ids = ids] /\ Goto(p, to)
    BY <1>14 DEF Gather
  <2>2. ids \subseteq call[p].seen
    BY <1>10, <1>14, <2>1 DEF Searching
  <2> HIDE DEF ids
  <2> QED
    BY <1>11, <2>1, <2>2 DEF Searching
<1>15. CASE SearchKeyword(p)
  <2>1. KeywordHits(db, call[p].text, call[p].ns) \subseteq Active(db, call[p].ns)
    BY DEF KeywordHits
  <2> QED
    BY <1>14, <1>15, <2>1 DEF SearchKeyword
<1>16. CASE SearchGraph(p)
  <2>1. GraphHits(db, call[p].text, call[p].ns) \subseteq Active(db, call[p].ns)
    BY <1>1, GraphStaysInside
  <2> QED
    BY <1>14, <1>16, <2>1 DEF SearchGraph
<1>17. CASE SearchFuse(p)
  <2> DEFINE hits == call[p].ids \cup Active(View(p), call[p].ns)
  <2>1. pc[p] = "temporal"
    BY <1>17 DEF SearchFuse
  <2>2. hits \subseteq call[p].seen
    BY <1>10, <2>1 DEF Searching
  <2>3. ASSUME NEW ranked \in SUBSET hits, call' = [call EXCEPT ![p].ids = ranked],
               Goto(p, "touch")
        PROVE  Regular(p)'
    BY <1>11, <2>1, <2>2, <2>3 DEF Searching
  <2> QED
    BY <1>2, <1>17, <2>3 DEF SearchFuse
<1>18. CASE SearchTouch(p)
  <2>1. pc[p] = "touch" /\ pc'[p] = "commit" /\ call' = call
    BY <1>1, <1>18 DEF SearchTouch, Goto
  <2> QED
    BY <1>10, <2>1 DEF Regular, Searching
<1> QED
  BY <1>5, <1>6, <1>7, <1>8, <1>9, <1>12, <1>13, <1>15, <1>16, <1>17, <1>18 DEF Step, SearchStep

\* A commit ends p's call, and every search under way has seen what it made current.
LEMMA CommitAnswer ==
  ASSUME AInv, NEW p \in Procs, Commit(p), NEW q \in Procs
  PROVE  Regular(q)'
<1>1. pc \in [Procs -> Steps] /\ call \in [Procs -> Calls] /\ call[q] \in Calls /\ Regular(q)
  BY DEF AInv, DInv, IInv, TypeOK
<1>2. pc' = [pc EXCEPT ![p] = "idle"] /\ call' = Witness(p, db')
  BY DEF Commit, Goto
<1>3. CASE q = p
  <2>1. pc'[q] = "idle" /\ call'[q].kind = "none"
    BY <1>1, <1>2, <1>3 DEF Witness, NoCall
  <2> QED
    BY <2>1 DEF Regular, Searching
<1>4. CASE q # p
  <2>1. pc'[q] = pc[q]
    BY <1>1, <1>2, <1>4
  <2>2. CASE call[q].kind = "search"
    <3>1. call'[q] = [call[q] EXCEPT !.seen = @ \cup Active(db', call[q].ns)]
      BY <1>2, <1>4, <2>2 DEF Witness
    <3>2. /\ call'[q].seen = call[q].seen \cup Active(db', call[q].ns)
          /\ call'[q].kind = "search" /\ call'[q].ns = call[q].ns /\ call'[q].ids = call[q].ids
      BY <1>1, <2>2, <3>1 DEF Calls
    <3> QED
      BY <1>1, <2>1, <2>2, <3>2 DEF Regular
  <2>3. CASE call[q].kind # "search"
    <3>1. call'[q] = call[q]
      BY <1>2, <1>4, <2>3 DEF Witness
    <3> QED
      BY <1>1, <2>1, <2>3, <3>1 DEF Regular
  <2> QED
    BY <2>2, <2>3
<1> QED
  BY <1>3, <1>4

\* No call has begun.
LEMMA AInvInit == Init => AInv
<1> SUFFICES ASSUME Init PROVE AInv
  OBVIOUS
<1>1. \A p \in Procs : Regular(p)
  BY DEF Init, NoCall, Regular, Searching
<1>2. Autocommit
  BY DEF Init, Autocommit
<1> QED
  BY <1>1, <1>2, DInvInit DEF AInv

\* Without failures other than deaths, every step keeps the answers regular.
LEMMA AInvNext ==
  ASSUME Failures = {}, AInv, [Next]_vars
  PROVE  AInv'
<1>1. DInv' /\ Autocommit'
  BY DInvNext, AutocommitNext DEF AInv
<1>2. TypeOK
  BY DEF AInv, DInv, IInv
<1>3. ASSUME NEW p \in Procs, Commit(p)
      PROVE  AInv'
  BY <1>1, <1>3, CommitAnswer DEF AInv
<1>4. ASSUME NEW p \in Procs, ~ Commit(p),
             NewCall(p) \/ Step(p) \/ BindFails(p) \/ Aborts(p) \/ Crash(p)
      PROVE  AInv'
  <2>1. ~ Aborts(p)
    BY DEF Aborts
  <2>2. Apart(p) /\ db' = db
    BY <1>2, <1>4, <2>1, StepApart DEF Step, Apart
  <2>3. Regular(p)'
    BY <1>4, <2>2, OwnAnswer
  <2>4. \A q \in Procs \ {p} : Regular(q)'
    BY <2>2 DEF AInv, Apart, Regular
  <2> QED
    BY <1>1, <2>3, <2>4 DEF AInv
<1>5. CASE Tick \/ UNCHANGED vars
  <2>1. UNCHANGED <<db, pc, call>>
    BY <1>5 DEF Tick, vars
  <2> QED
    BY <1>1, <2>1 DEF AInv, Regular
<1> QED
  BY <1>3, <1>4, <1>5 DEF Next

\* Whatever the four channels of a search read at their different moments, while others
\* store, close and sweep, what it returns was current in its namespace at some moment of
\* the call, as long as no call fails otherwise than by the death of its process.
THEOREM SearchesAreRegular ==
  ASSUME Failures = {}
  PROVE  Spec => []SearchIsRegular
<1>1. AInv => SearchIsRegular
  BY DEF AInv, Regular, SearchIsRegular
<1>2. AInv /\ [Next]_vars => AInv'
  BY AInvNext
<1> QED
  BY <1>1, <1>2, AInvInit, PTL DEF Spec

\* Under the same condition a search that comes back with nothing is right: at that moment
\* nothing in its namespace is current.
THEOREM NothingMeansNothing ==
  ASSUME Failures = {}
  PROVE  Spec => EmptyAnswerIsTrue
<1> DEFINE Honest == \A p \in Procs : (pc[p] = "temporal" /\ SearchFuse(p) /\ pc'[p] = "idle")
                                        => Active(db, call[p].ns) = {}
<1>1. AInv => Honest
  <2> SUFFICES ASSUME AInv, NEW p \in Procs, pc[p] = "temporal", SearchFuse(p), pc'[p] = "idle"
               PROVE  Active(db, call[p].ns) = {}
    OBVIOUS
  <2>1. View(p) = db
    BY SearchSees DEF Searching
  <2>2. ~ Goto(p, "touch")
    BY DEF AInv, DInv, IInv, TypeOK, Goto
  <2>3. call[p].ids \cup Active(View(p), call[p].ns) = {}
    BY <2>2 DEF SearchFuse
  <2> QED
    BY <2>1, <2>3
<1>2. AInv /\ [Next]_vars => AInv' /\ [Honest]_vars
  BY <1>1, AInvNext
<1> QED
  BY <1>2, AInvInit, PTL DEF Spec, EmptyAnswerIsTrue

-----------------------------------------------------------------------------
(* One current episode of a text: a store closes the twin it finds, if it  *)
(* is the only process that adds rows, and finds it, if no row of another  *)
(* namespace is in the way.                                                *)

\* One process stores.
OneStorer == \A p, q \in Procs : "store" \in Roles[p] /\ "store" \in Roles[q] => p = q

OneNamespace == \A m, n \in Namespaces : m = n

\* Texts at distance 0 have embeddings of one direction: every text has it with itself, and
\* two texts that have it with a third have it with each other.
SameDirection ==
  /\ \A c \in Contents : Distance[<<c, c>>] = 0
  /\ \A c, e, f \in Contents :
       Distance[<<c, e>>] = 0 /\ Distance[<<c, f>>] = 0 => Distance[<<e, f>>] = 0

\* The current rows that a store of c must not leave beside its own.
Twins(d, c) == {i \in Open(d) : Distance[<<c, d.episodes[i].content>>] = 0}

Distinct(d) ==
  \A i, j \in Open(d) :
    Distance[<<d.episodes[i].content, d.episodes[j].content>>] = 0 => i = j

\* From the choice of the neighbor to the UPDATE that closes it.
Chosen == {"row", "stamp", "insert", "vector", "entities", "supersede"}

Settled == {"unvector", "expire", "forget", "commit"}

\* The only twin of the text that is being stored is its neighbor. Another process may
\* close the neighbor meanwhile; it adds no row.
Reconciled(p) ==
  /\ pc[p] \in Chosen /\ tx[p] # "stale" => Twins(db, call[p].text) \subseteq {call[p].target}
  /\ tx[p] = "write" /\ pc[p] \in Settled => Distinct(view[p])
  /\ tx[p] = "write" /\ "store" \notin Roles[p] => Len(view[p].episodes) = Len(db.episodes)
  /\ pc[p] \in StoreSteps => "store" \in Roles[p]

UInv == LInv /\ Distinct(db) /\ \A p \in Procs : Reconciled(p)

\* A later database with no more rows has no more current rows.
LEMMA NoMoreRows ==
  ASSUME NEW d \in Database, NEW e \in Database, Extends(d, e),
         Len(e.episodes) = Len(d.episodes)
  PROVE  /\ \A c : Twins(e, c) \subseteq Twins(d, c)
         /\ Distinct(d) => Distinct(e)
<1>1. DOMAIN e.episodes = DOMAIN d.episodes
  BY EveryRow
<1>2. \A i \in Open(e) : i \in Open(d) /\ e.episodes[i].content = d.episodes[i].content
  BY <1>1 DEF Open, Closed, Extends, Keeps
<1>3. \A c : Twins(e, c) \subseteq Twins(d, c)
  BY <1>2 DEF Twins
<1>4. Distinct(d) => Distinct(e)
  BY <1>2 DEF Distinct
<1> QED
  BY <1>3, <1>4

\* The same rows have the same twins.
LEMMA SameTwins ==
  ASSUME NEW d, NEW e, e.episodes = d.episodes
  PROVE  Distinct(e) <=> Distinct(d)
BY DEF Distinct, Open, Closed

\* Row n is added where no current row but perhaps one is its twin, and that one is closed.
LEMMA AddedRow ==
  ASSUME SameDirection, NEW d \in Database, NEW e \in Database, NEW c \in Contents, NEW t,
         Distinct(d), Twins(d, c) \subseteq {t},
         NEW n, DOMAIN e.episodes = DOMAIN d.episodes \cup {n}, n \notin DOMAIN d.episodes,
         e.episodes[n].content = c,
         \A i \in Open(e) \ {n} : i \in Open(d) /\ e.episodes[i].content = d.episodes[i].content,
         t \notin Open(e)
  PROVE  Distinct(e)
<1>1. \A i \in DOMAIN d.episodes : d.episodes[i].content \in Contents
  BY EveryRow DEF Episode
<1>4. \A i \in Open(e) :
        /\ i # t
        /\ \/ i = n /\ e.episodes[i].content = c
           \/ i # n /\ i \in Open(d) /\ e.episodes[i].content = d.episodes[i].content
  OBVIOUS
<1>5. \A i \in Open(d) : i # t => Distance[<<c, d.episodes[i].content>>] # 0
  BY DEF Twins
<1>6. \A i \in Open(d) : i # t => Distance[<<d.episodes[i].content, c>>] # 0
  <2>1. \A a, b \in Contents : Distance[<<a, b>>] = 0 => Distance[<<b, a>>] = 0
    BY DEF SameDirection
  <2>2. \A i \in Open(d) : d.episodes[i].content \in Contents
    BY <1>1 DEF Open
  <2> QED
    BY <1>1, <1>5, <2>1, <2>2
<1>7. ASSUME NEW i \in Open(e), NEW j \in Open(e),
             Distance[<<e.episodes[i].content, e.episodes[j].content>>] = 0
      PROVE  i = j
  <2>1. CASE i = n /\ j = n
    BY <2>1
  <2>2. CASE i # n /\ j = n
    BY <1>4, <1>6, <1>7, <2>2
  <2>3. CASE i = n /\ j # n
    BY <1>4, <1>5, <1>7, <2>3
  <2>4. CASE i # n /\ j # n
    BY <1>4, <1>7, <2>4 DEF Distinct
  <2> QED
    BY <2>1, <2>2, <2>3, <2>4
<1> QED
  BY <1>7 DEF Distinct

\* The choice of the neighbor: if the text has a twin, that is the nearest, and stays chosen.
LEMMA ChoosesTwin ==
  ASSUME SameDirection, OneNamespace, UInv, NEW p \in Procs,
         StoreKnn(p) \/ StoreRow(p) \/ StoreStamp(p)
  PROVE  Reconciled(p)'
<1>1. /\ pc \in [Procs -> Steps] /\ call \in [Procs -> Calls] /\ call[p] \in Calls
      /\ DInv /\ IInv /\ TypeOK /\ db \in Database /\ Reconciled(p) /\ CallOK(p)
  BY DEF UInv, LInv, DInv, IInv, TypeOK
<1>2. /\ pc[p] \in {"knn", "row", "stamp"} /\ pc'[p] \in {"row", "stamp", "insert"}
      /\ (Select(p) \/ UNCHANGED <<tx, view>>) /\ db' = db
      /\ call'[p].text = call[p].text
  BY <1>1 DEF StoreKnn, StoreRow, StoreStamp, Goto, Calls
<1>3. tx[p] # "write" /\ tx'[p] # "write" /\ (tx[p] = "stale" => tx'[p] = "stale")
  BY <1>1, <1>2, NotWriting, SelectLag DEF Writing, Select
<1>4. "store" \in Roles[p] /\ call[p].text \in Contents /\ call[p].ns \in Namespaces
  BY <1>1, <1>2 DEF Reconciled, CallOK, StoreSteps
<1>5. tx[p] # "stale" => View(p) = db
  BY <1>1, <1>3 DEF IInv, ConnectionOK, TypeOK, TxStates, View
<1>6. SUFFICES ASSUME tx[p] # "stale"
               PROVE  Twins(db, call[p].text) \subseteq {call'[p].target}
  BY <1>2, <1>3, <1>4 DEF Reconciled, Chosen, Settled
<1>7. /\ \A i \in Open(db) : /\ i \in DOMAIN db.episodes
                             /\ db.episodes[i] \in Episode
                             /\ db.episodes[i].content \in Contents
                             /\ db.episodes[i].namespace = call[p].ns
                             /\ db.episodes[i].validTo = NULL
      /\ \A a, b \in Contents : Distance[<<a, b>>] \in Nat
  BY <1>1, <1>4, EveryRow, MemoryDbAssumptions DEF Open, Closed, Episode, OneNamespace
<1>8. CASE StoreKnn(p)
  <2> DEFINE hits == Nearest(db, call[p].text)
  <2>1. db.vectors = Open(db)
    BY <1>1 DEF DInv, Indexed
  <2>2. Twins(db, call[p].text) \subseteq hits
    BY <1>4, <1>7, <2>1 DEF Twins, Nearest
  <2>3. ASSUME NEW id \in hits, NEW j \in Twins(db, call[p].text)
        PROVE  j = id
    <3>1. /\ id \in Open(db) /\ j \in Open(db)
          /\ Distance[<<call[p].text, db.episodes[j].content>>] = 0
      BY <2>1 DEF Nearest, Twins
    <3>2. Distance[<<call[p].text, db.episodes[id].content>>] <= 0
      BY <2>1, <2>3, <3>1 DEF Nearest
    <3>3. Distance[<<call[p].text, db.episodes[id].content>>] = 0
      BY <1>4, <1>7, <3>1, <3>2
    <3>4. Distance[<<db.episodes[j].content, db.episodes[id].content>>] = 0
      BY <1>4, <1>7, <3>1, <3>3 DEF SameDirection
    <3> QED
      BY <3>1, <3>4 DEF UInv, Distinct
  <2> HIDE DEF hits
  <2>4. hits = {} \/ \E id \in hits : call' = [call EXCEPT ![p].target = id]
    BY <1>5, <1>6, <1>8 DEF StoreKnn, hits
  <2>5. CASE hits = {}
    BY <2>2, <2>5
  <2>6. ASSUME NEW id \in hits, call' = [call EXCEPT ![p].target = id]
        PROVE  Twins(db, call[p].text) \subseteq {call'[p].target}
    <3>1. call'[p].target = id
      BY <1>1, <2>6 DEF Calls
    <3> QED
      BY <2>3, <3>1
  <2> QED
    BY <2>4, <2>5, <2>6
<1>9. pc[p] \in {"row", "stamp"} => Twins(db, call[p].text) \subseteq {call[p].target}
  BY <1>1, <1>6 DEF Reconciled, Chosen
<1>10. CASE StoreRow(p)
  <2> DEFINE hit == call[p].target
  <2>1. call'[p].target = Superseded(db, hit, call[p].ns, call[p].text)
    BY <1>1, <1>5, <1>6, <1>10 DEF StoreRow, Calls
  <2>2. ASSUME NEW j \in Twins(db, call[p].text)
        PROVE  j = call'[p].target
    <3>1. j = hit /\ j \in Open(db) /\ Distance[<<call[p].text, db.episodes[hit].content>>] = 0
      BY <1>9, <1>10 DEF StoreRow, Twins
    <3>2. IsNeighbor(db, hit, call[p].ns)
      BY <1>7, <3>1 DEF IsNeighbor, Active, InNamespace
    <3>3. Classify(call[p].text, db.episodes[hit].content) = "update"
      BY <3>1, MemoryDbAssumptions DEF Classify
    <3> QED
      BY <2>1, <3>1, <3>2, <3>3 DEF Superseded
  <2> QED
    BY <2>2
<1>11. CASE StoreStamp(p)
  <2>1. call'[p].target = call[p].target /\ pc[p] = "stamp"
    BY <1>1, <1>11 DEF StoreStamp, Calls
  <2> QED
    BY <1>9, <2>1
<1> QED
  BY <1>8, <1>10, <1>11

\* The store adds its row and closes the twin.
LEMMA StoresDistinct ==
  ASSUME SameDirection, UInv, NEW p \in Procs,
         StoreInsert(p) \/ StoreVector(p) \/ StoreEntities(p) \/ StoreSupersede(p)
           \/ StoreUnvector(p)
  PROVE  Reconciled(p)'
<1>1. /\ pc \in [Procs -> Steps] /\ call[p] \in Calls /\ UNCHANGED <<db, call>>
      /\ DInv /\ IInv /\ db \in Database /\ view[p] \in Database /\ Distinct(db)
      /\ Reconciled(p) /\ CallOK(p) /\ Effect(p)
  BY DEF UInv, LInv, DInv, IInv, TypeOK, StoreInsert, StoreVector, StoreEntities,
     StoreSupersede, StoreUnvector
<1>2. /\ pc[p] \in {"insert"} \cup RowInserted
      /\ pc'[p] \in {"vector", "entities", "supersede", "unvector", "commit"}
      /\ \E d : Write(p, d)
  BY <1>1 DEF StoreInsert, StoreVector, StoreEntities, StoreSupersede, StoreUnvector,
     RowInserted, Goto
<1>3. "store" \in Roles[p] /\ tx[p] # "stale" /\ tx'[p] = "write"
  BY <1>1, <1>2, WriteLag DEF Reconciled, StoreSteps, RowInserted, Write, CanWrite
<1>4. /\ call[p].ns \in Namespaces /\ call[p].text \in Contents
      /\ call[p].now \in Nat /\ call[p].ttl \in Int \cup {NULL}
  BY <1>1, <1>2 DEF CallOK, StoreSteps, RowInserted, Calls
<1> DEFINE row == Fresh(p)
           old == call[p].target
<1>5. row \in Episode /\ row.content = call[p].text /\ row.validTo = NULL
  BY <1>4 DEF Fresh, NewEpisode, Episode
<1> HIDE DEF row, old
<1>6. pc[p] \in Chosen => Twins(db, call[p].text) \subseteq {old}
  BY <1>1, <1>3 DEF Reconciled, old
<1>7. pc[p] \in {"vector", "entities", "supersede"} => view[p].episodes = Append(db.episodes, row)
  BY <1>1, <1>2 DEF CallOK, Effect, RowInserted, row
<1> DEFINE n == Len(db.episodes) + 1
<1>8. /\ DOMAIN Append(db.episodes, row) = DOMAIN db.episodes \cup {n}
      /\ Append(db.episodes, row)[n] = row /\ n \notin DOMAIN db.episodes
      /\ \A i \in DOMAIN db.episodes : Append(db.episodes, row)[i] = db.episodes[i]
  BY <1>1, <1>5, EveryRow
<1> HIDE DEF n
<1>9. SUFFICES /\ pc'[p] \in Chosen => pc[p] \in Chosen
               /\ pc'[p] \in Settled => Distinct(view[p])'
  <2>1. call'[p].text = call[p].text /\ call'[p].target = call[p].target /\ db' = db
    BY <1>1
  <2> QED
    BY <1>1, <1>3, <2>1 DEF Reconciled
<1>10. CASE StoreInsert(p) \/ StoreVector(p)
  BY <1>1, <1>10 DEF StoreInsert, StoreVector, Goto, Chosen, Settled
<1>11. CASE StoreEntities(p)
  <2> DEFINE e == IndexEntities(view[p], NewId(p), call[p].text, call[p].ns)
  <2>1. /\ pc[p] = "entities" /\ Write(p, e)
        /\ pc'[p] = IF old = NULL THEN "commit" ELSE "supersede"
    BY <1>1, <1>11 DEF StoreEntities, Goto, old
  <2>2. NewId(p) \in Ids
    BY <1>1, <2>1, EveryRow DEF CallOK, RowInserted, InNamespace
  <2>3. e \in Database /\ e.episodes = Append(db.episodes, row)
    BY <1>1, <1>4, <1>7, <2>1, <2>2, IndexLemma
  <2>4. view'[p] = e
    BY <1>1, <2>1, WriteLag
  <2> HIDE DEF e
  <2>5. ASSUME old = NULL PROVE Distinct(e)
    <3>1. /\ DOMAIN e.episodes = DOMAIN db.episodes \cup {n} /\ e.episodes[n].content = call[p].text
          /\ \A i \in Open(e) \ {n} :
               i \in Open(db) /\ e.episodes[i].content = db.episodes[i].content
      BY <1>5, <1>8, <2>3 DEF Open, Closed
    <3>2. old \notin Open(e)
      BY <2>3, <2>5, EveryRow, MemoryDbAssumptions DEF Open, Ids
    <3>3. Twins(db, call[p].text) \subseteq {old}
      BY <1>6, <2>1 DEF Chosen
    <3> QED
      BY <1>1, <1>4, <1>8, <2>3, <3>1, <3>2, <3>3, AddedRow
  <2> QED
    BY <2>1, <2>4, <2>5 DEF Chosen, Settled
<1>12. CASE StoreSupersede(p)
  <2> DEFINE changed == [i \in {old} |-> [view[p].episodes[i] EXCEPT !.validTo = call[p].now,
                                                                     !.supersededBy = NewId(p)]]
             e == SupersedeEpisode(view[p], old, call[p].now, NewId(p))
  <2>1. pc[p] = "supersede" /\ Write(p, e) /\ pc'[p] = "unvector"
    BY <1>1, <1>12 DEF StoreSupersede, Goto, old
  <2>2. view'[p] = e
    BY <1>1, <2>1, WriteLag
  <2>3. view[p].episodes = Append(db.episodes, row)
    BY <1>7, <2>1
  <2>4. /\ old \in InNamespace(view[p], call[p].ns) /\ NewId(p) \in InNamespace(view[p], call[p].ns)
        /\ old < NewId(p)
    <3>1. /\ old \in InNamespace(view[p], call[p].ns) /\ old # NewId(p)
          /\ NewId(p) \in InNamespace(view[p], call[p].ns)
      BY <1>1, <2>1 DEF CallOK, RowInserted, old
    <3>2. old \in 1 .. NewId(p) /\ NewId(p) \in Nat
      BY <1>1, <3>1, EveryRow DEF InNamespace, NewId
    <3> QED
      BY <3>1, <3>2
  <2>5. e \in Database
    BY <1>1, <1>4, <2>4, SupersedeLemma
  <2>6. e.episodes = [i \in DOMAIN view[p].episodes |->
                        IF i \in DOMAIN changed THEN changed[i] ELSE view[p].episodes[i]]
    <3>1. e = Update(view[p], changed)
      BY DEF SupersedeEpisode
    <3> HIDE DEF changed, e
    <3> QED
      BY <1>1, <3>1 DEF Update, Database
  <2>7. /\ DOMAIN changed = {old} /\ changed[old].validTo # NULL
        /\ changed[old].content = view[p].episodes[old].content
    <3>1. view[p].episodes[old] \in Episode
      BY <1>1, <2>4, EveryRow DEF InNamespace
    <3>2. call[p].now # NULL
      BY <1>4, MemoryDbAssumptions
    <3>3. changed[old] = [view[p].episodes[old] EXCEPT !.validTo = call[p].now,
                                                      !.supersededBy = NewId(p)]
      OBVIOUS
    <3> HIDE DEF changed
    <3>4. changed[old].validTo = call[p].now /\ changed[old].content = view[p].episodes[old].content
      BY <3>1, <3>3 DEF Episode
    <3> QED
      BY <3>2, <3>4 DEF changed
  <2> HIDE DEF e, changed
  <2>8. /\ DOMAIN e.episodes = DOMAIN db.episodes \cup {n} /\ e.episodes[n].content = call[p].text
        /\ \A i \in Open(e) \ {n} : i \in Open(db) /\ e.episodes[i].content = db.episodes[i].content
        /\ old \notin Open(e)
    BY <1>5, <1>8, <2>3, <2>6, <2>7 DEF Open, Closed
  <2>9. Distinct(e)
    <3>1. Twins(db, call[p].text) \subseteq {old}
      BY <1>6, <2>1 DEF Chosen
    <3> QED
      BY <1>1, <1>4, <1>8, <2>5, <2>8, <3>1, AddedRow
  <2> QED
    BY <2>1, <2>2, <2>9 DEF Chosen
<1>13. CASE StoreUnvector(p)
  <2> DEFINE e == RemoveVector(view[p], call[p].target)
  <2>1. pc[p] = "unvector" /\ Write(p, e) /\ pc'[p] = "commit"
    BY <1>1, <1>13 DEF StoreUnvector, Goto
  <2>2. Distinct(view[p])
    BY <1>1, <2>1 DEF Reconciled, CallOK, RowInserted, Settled
  <2>3. e.episodes = view[p].episodes
    BY <1>1 DEF RemoveVector, Database
  <2>4. view'[p] = e
    BY <1>1, <2>1, WriteLag
  <2> HIDE DEF e
  <2> QED
    BY <2>1, <2>2, <2>3, <2>4, SameTwins DEF Chosen
<1> QED
  BY <1>10, <1>11, <1>12, <1>13

\* The other calls add no row: they close and count.
LEMMA ClosesDistinct ==
  ASSUME UInv, NEW p \in Procs, ForgetExpire(p) \/ ForgetVector(p) \/ SearchTouch(p)
  PROVE  Reconciled(p)'
<1>1. /\ pc \in [Procs -> Steps] /\ call \in [Procs -> Calls] /\ db' = db
      /\ DInv /\ IInv /\ db \in Database /\ Distinct(db) /\ Reconciled(p) /\ Lag(p)
      /\ View(p) \in Database /\ call[p].now \in Nat /\ call[p].ids \in SUBSET Ids
  BY ViewType DEF UInv, LInv, DInv, IInv, TypeOK, Calls, ForgetExpire, ForgetVector, SearchTouch
<1>2. /\ pc[p] \in {"expire", "forget", "touch"}
      /\ pc'[p] \in {"forget", "expire", "commit"}
      /\ \E d : Write(p, d)
  BY <1>1 DEF ForgetExpire, ForgetVector, SearchTouch, Goto
<1>3. /\ Distinct(View(p)) /\ tx'[p] = "write"
      /\ "store" \notin Roles[p] => Len(View(p).episodes) = Len(db.episodes)
  <2>1. tx'[p] = "write" /\ CanWrite(p)
    BY <1>1, <1>2, WriteLag DEF Write
  <2>2. CASE tx[p] = "write"
    BY <1>1, <1>2, <2>1, <2>2 DEF Reconciled, Settled, View, Lag, Writing
  <2>3. CASE tx[p] # "write"
    BY <1>1, <2>1, <2>3, WriterFresh
  <2> QED
    BY <2>2, <2>3
<1>4. PICK d : /\ Write(p, d) /\ d \in Database /\ Extends(View(p), d)
               /\ Len(d.episodes) = Len(View(p).episodes)
  <2>1. CASE ForgetExpire(p)
    <3>1. PICK id \in call[p].ids : Write(p, ExpireEpisode(View(p), id, call[p].now))
      BY <2>1 DEF ForgetExpire
    <3>2. id \in Ids
      BY <1>1
    <3> QED
      BY <1>1, <3>1, <3>2, ExpireLemma
  <2>2. CASE ForgetVector(p)
    <3> DEFINE e == RemoveVector(View(p), call[p].target)
    <3>1. Write(p, e)
      BY <2>2 DEF ForgetVector
    <3>2. e \in Database /\ e.episodes = View(p).episodes
      BY <1>1 DEF RemoveVector, Database
    <3>3. Extends(View(p), e)
      BY <1>1, <3>2, ExtendsReflexive, SameRows
    <3> QED
      BY <3>1, <3>2, <3>3
  <2>3. CASE SearchTouch(p)
    BY <1>1, <2>3, TouchLemma DEF SearchTouch
  <2> QED
    BY <2>1, <2>2, <2>3
<1>5. view'[p] = d
  BY <1>1, <1>4, WriteLag
<1>6. Distinct(d)
  BY <1>1, <1>3, <1>4, NoMoreRows
<1>7. "store" \notin Roles[p] => Len(d.episodes) = Len(db.episodes)
  BY <1>3, <1>4
<1> QED
  BY <1>1, <1>2, <1>5, <1>6, <1>7 DEF Reconciled, Chosen, StoreSteps

\* Calls begin, read and end, and do not hold the lock.
LEMMA OthersDistinct ==
  ASSUME "abort" \notin Failures, UInv, NEW p \in Procs,
         \/ NewCall(p) \/ ForgetScan(p)
         \/ SearchKnn(p) \/ SearchFilter(p) \/ SearchKeyword(p) \/ SearchGraph(p)
         \/ SearchFuse(p) \/ StatsActive(p) \/ StatsTotal(p) \/ PushDump(p)
         \/ WriteRefused(p) \/ BindFails(p) \/ Crash(p)
  PROVE  Reconciled(p)'
<1>1. /\ pc \in [Procs -> Steps] /\ tx \in [Procs -> TxStates] /\ DInv
  BY DEF UInv, LInv, DInv, IInv, TypeOK
<1>2. ASSUME tx'[p] # "write", pc'[p] \notin StoreSteps
      PROVE  Reconciled(p)'
  BY <1>2 DEF Reconciled, Chosen, StoreSteps
<1>3. CASE NewCall(p)
  <2>1. ASSUME NEW kind, NEW step \in {"knn", "vknn", "scan", "active", "dump"}, NEW c,
               Begin(p, kind, step, c), step = "knn" => kind = "store"
        PROVE  Reconciled(p)'
    <3>1. kind \in Roles[p] /\ pc[p] = "idle" /\ pc'[p] = step /\ tx' = tx
      BY <1>1, <2>1 DEF Begin, Goto
    <3>2. tx'[p] # "write"
      BY <1>1, <3>1, NotWriting DEF Writing
    <3> QED
      BY <2>1, <3>1, <3>2 DEF Reconciled, Chosen, StoreSteps
  <2>2. ASSUME NEW ns \in Namespaces, NEW c \in Contents, NEW ttl \in Ttls,
               StoreCall(p, ns, c, ttl)
        PROVE  Reconciled(p)'
    BY <2>1, <2>2 DEF StoreCall
  <2>3. ASSUME NEW ns \in Namespaces, NEW q \in Contents, SearchCall(p, ns, q)
        PROVE  Reconciled(p)'
    BY <2>1, <2>3 DEF SearchCall
  <2>4. ASSUME NEW ns \in Namespaces, ForgetCall(p, ns)
        PROVE  Reconciled(p)'
    BY <2>1, <2>4 DEF ForgetCall
  <2>5. ASSUME NEW ns \in Namespaces, StatsCall(p, ns)
        PROVE  Reconciled(p)'
    BY <2>1, <2>5 DEF StatsCall
  <2>6. CASE PushCall(p)
    BY <2>1, <2>6 DEF PushCall
  <2> QED
    BY <1>3, <2>2, <2>3, <2>4, <2>5, <2>6 DEF NewCall
<1>4. CASE \/ ForgetScan(p) \/ SearchKnn(p) \/ SearchFilter(p) \/ SearchKeyword(p)
           \/ SearchGraph(p) \/ SearchFuse(p) \/ StatsActive(p) \/ StatsTotal(p) \/ PushDump(p)
  <2>1. /\ pc[p] \in {"scan", "vknn", "vfilter", "keyword", "graph", "temporal", "active",
                      "total", "dump"}
        /\ pc'[p] \in {"commit", "expire", "vfilter", "keyword", "graph", "temporal", "touch",
                       "total", "idle"}
        /\ Select(p) \/ UNCHANGED <<tx, view>>
        /\ db' = db
    BY <1>1, <1>4 DEF ForgetScan, SearchKnn, SearchFilter, SearchKeyword, SearchGraph, Gather,
       SearchFuse, StatsActive, StatsTotal, PushDump, Goto, Finish
  <2>2. tx'[p] # "write"
    BY <1>1, <2>1, NotWriting, SelectLag DEF Writing
  <2> QED
    BY <1>2, <2>1, <2>2 DEF StoreSteps
<1>5. CASE WriteRefused(p) \/ BindFails(p) \/ Crash(p)
  <2>1. pc'[p] = "idle"
    BY <1>1, <1>5 DEF WriteRefused, BindFails, Crash, Finish, Goto
  <2>2. CASE Crash(p)
    <3>1. tx'[p] = "none"
      BY <1>1, <2>2 DEF Crash
    <3> QED
      BY <1>2, <2>1, <3>1 DEF StoreSteps
  <2>3. CASE WriteRefused(p) \/ BindFails(p)
    <3>1. tx[p] = "write" => CanWrite(p)
      BY DEF UInv, LInv, DInv, IInv, OneWriter, CanWrite
    <3>2. tx[p] # "write" /\ BeginOnly(p)
      BY <1>1, <2>3, <3>1, NotWriting DEF WriteRefused, BindFails, Writing
    <3>3. tx'[p] # "write"
      BY <1>1, <3>2 DEF BeginOnly
    <3> QED
      BY <1>2, <2>1, <3>3 DEF StoreSteps
  <2> QED
    BY <1>5, <2>2, <2>3
<1> QED
  BY <1>3, <1>4, <1>5

\* A commit of another process takes twins away and brings none.
LEMMA CommitDistinct ==
  ASSUME OneStorer, UInv, NEW p \in Procs, Commit(p), LInv'
  PROVE  UInv'
<1>1. /\ pc \in [Procs -> Steps] /\ call \in [Procs -> Calls] /\ tx \in [Procs -> TxStates]
      /\ view \in [Procs -> Database] /\ db \in Database /\ IInv /\ Distinct(db)
      /\ \A q \in Procs : Reconciled(q)
  BY DEF UInv, LInv, DInv, IInv, TypeOK
<1>2. /\ pc[p] = "commit"
      /\ db' = IF tx[p] = "write" THEN view[p] ELSE db
      /\ tx' = [q \in Procs |-> IF q = p THEN "none"
                                ELSE IF tx[p] = "write" /\ tx[q] = "read" THEN "stale" ELSE tx[q]]
      /\ view' = [view EXCEPT ![p] = EmptyDatabase]
      /\ pc' = [pc EXCEPT ![p] = "idle"]
      /\ call' = Witness(p, db')
  BY DEF Commit, Goto
<1>3. Distinct(db')
  BY <1>1, <1>2 DEF Reconciled, Settled
<1>4. Reconciled(p)'
  <2>1. pc'[p] = "idle" /\ tx'[p] = "none"
    BY <1>1, <1>2
  <2> QED
    BY <2>1 DEF Reconciled, Chosen, StoreSteps
<1>5. ASSUME NEW q \in Procs \ {p}
      PROVE  Reconciled(q)'
  <2>1. /\ tx'[q] = IF tx[p] = "write" /\ tx[q] = "read" THEN "stale" ELSE tx[q]
        /\ pc'[q] = pc[q] /\ view'[q] = view[q] /\ Reconciled(q)
    BY <1>1, <1>2
  <2>2. call'[q] = call[q] \/ \E seen : call'[q] = [call[q] EXCEPT !.seen = seen]
    BY <1>2 DEF Witness
  <2>3. call'[q].text = call[q].text /\ call'[q].target = call[q].target
    BY <1>1, <2>2 DEF Calls
  <2>4. CASE tx[p] # "write"
    <3>1. db' = db /\ tx'[q] = tx[q]
      BY <1>2, <2>1, <2>4
    <3> QED
      BY <2>1, <2>3, <3>1 DEF Reconciled
  <2>5. CASE tx[p] = "write"
    <3>1. tx[q] # "write" /\ tx'[q] # "write" /\ db' = view[p] /\ view[p] \in Database
      BY <1>1, <1>2, <2>1, <2>5 DEF IInv, OneWriter
    <3>2. ASSUME pc[q] \in Chosen, tx'[q] # "stale"
          PROVE  Twins(db', call[q].text) \subseteq {call[q].target}
      <4>1. tx[q] # "stale" /\ Twins(db, call[q].text) \subseteq {call[q].target}
        BY <2>1, <3>2 DEF Reconciled
      <4>2. "store" \notin Roles[p]
        BY <2>1, <3>2 DEF OneStorer, Reconciled, Chosen, StoreSteps
      <4>3. Len(view[p].episodes) = Len(db.episodes) /\ Extends(db, view[p])
        BY <1>1, <2>5, <4>2 DEF Reconciled, IInv, ConnectionOK
      <4>4. Twins(view[p], call[q].text) \subseteq Twins(db, call[q].text)
        BY <1>1, <3>1, <4>3, NoMoreRows
      <4> QED
        BY <3>1, <4>1, <4>4
    <3> QED
      BY <2>1, <2>3, <3>1, <3>2 DEF Reconciled
  <2> QED
    BY <2>4, <2>5
<1> QED
  BY <1>3, <1>4, <1>5 DEF UInv

\* An empty file has no twins.
LEMMA UInvInit == Init => UInv
<1> SUFFICES ASSUME Init PROVE UInv
  OBVIOUS
<1>1. Distinct(db)
  BY DEF Init, EmptyDatabase, Distinct, Open
<1>2. \A p \in Procs : Reconciled(p)
  BY DEF Init, Reconciled, Chosen, StoreSteps
<1> QED
  BY <1>1, <1>2, LInvInit DEF UInv

\* Where one process stores into one namespace, every step keeps the current rows distinct.
LEMMA UInvNext ==
  ASSUME "abort" \notin Failures, OneStorer, OneNamespace, SameDirection, UInv, [Next]_vars
  PROVE  UInv'
<1>1. LInv' /\ TypeOK
  BY LInvNext DEF UInv, LInv, DInv, IInv
<1>2. ASSUME NEW p \in Procs, Commit(p)
      PROVE  UInv'
  BY <1>1, <1>2, CommitDistinct
<1>3. ASSUME NEW p \in Procs,
             \/ NewCall(p) \/ StoreStep(p) \/ ForgetStep(p) \/ SearchStep(p)
             \/ StatsActive(p) \/ StatsTotal(p) \/ PushDump(p) \/ WriteRefused(p)
             \/ BindFails(p) \/ Crash(p)
      PROVE  UInv'
  <2>1. Apart(p) /\ db' = db
    BY <1>1, <1>3, StepApart DEF Apart
  <2>2. Reconciled(p)'
    BY <1>3, ChoosesTwin, StoresDistinct, ClosesDistinct, OthersDistinct
       DEF StoreStep, ForgetStep, SearchStep
  <2>3. \A q \in Procs \ {p} : Reconciled(q)'
    BY <2>1 DEF UInv, Apart, Reconciled
  <2>4. Distinct(db)'
    BY <2>1 DEF UInv
  <2> QED
    BY <1>1, <2>2, <2>3, <2>4 DEF UInv
<1>4. \A p \in Procs : ~ Aborts(p)
  BY DEF Aborts
<1>5. CASE Tick \/ UNCHANGED vars
  <2>1. UNCHANGED <<db, tx, view, pc, call>>
    BY <1>5 DEF Tick, vars
  <2> QED
    BY <1>1, <2>1 DEF UInv, Reconciled
<1> QED
  BY <1>2, <1>3, <1>4, <1>5 DEF Next, Step

\* A text that is stored again closes its earlier episode, so that one current episode of it
\* is left, when one process stores, whatever others sweep, search and count beside it, and
\* refused writes and deaths fall between the reading of the neighbor and its UPDATE; but
\* only if the file has one namespace, and no exception leaves a write transaction open.
THEOREM StoresReconcile ==
  ASSUME "abort" \notin Failures, OneStorer, OneNamespace, SameDirection
  PROVE  Spec => []NoDuplicates
<1>1. UInv => NoDuplicates
  <2> SUFFICES ASSUME UInv, NEW ns \in Namespaces, NEW i \in Active(db, ns),
                      NEW j \in Active(db, ns), db.episodes[i].content = db.episodes[j].content
               PROVE  i = j
    BY DEF NoDuplicates
  <2>1. i \in Open(db) /\ j \in Open(db)
    BY DEF Active, InNamespace, Open, Closed
  <2>2. db.episodes[i].content \in Contents
    BY <2>1, EveryRow DEF UInv, LInv, DInv, IInv, TypeOK, Open, Episode
  <2> QED
    BY <2>1, <2>2 DEF UInv, Distinct, SameDirection
<1>2. UInv /\ [Next]_vars => UInv'
  BY UInvNext
<1> QED
  BY <1>1, <1>2, UInvInit, PTL DEF Spec

=============================================================================
