--------------------------- MODULE MemoryDbProofs ---------------------------
(***************************************************************************)
(* What each statement does to a database: it returns a database, extends  *)
(* the history and keeps the lineage.                                      *)
(***************************************************************************)
EXTENDS MemoryDb, TLAPS

\* The rows of a database are episodes, their numbers are ids.
LEMMA EveryRow ==
  ASSUME NEW d \in Database
  PROVE  /\ d.episodes \in Seq(Episode)
         /\ DOMAIN d.episodes = 1 .. Len(d.episodes)
         /\ Len(d.episodes) \in Nat
         /\ \A i \in DOMAIN d.episodes : i \in Ids /\ d.episodes[i] \in Episode
<1>1. d.episodes \in Seq(Episode)
  BY DEF Database
<1> QED
  BY <1>1 DEF Ids

\* The preservation of the history is an order on databases.
LEMMA ExtendsReflexive == \A d \in Database : Extends(d, d)
<1> SUFFICES ASSUME NEW d \in Database PROVE Extends(d, d)
  OBVIOUS
<1>1. \A i \in DOMAIN d.episodes : d.episodes[i] \in Episode
  BY EveryRow
<1>2. \A i \in DOMAIN d.episodes : Keeps(d.episodes[i], d.episodes[i])
  BY <1>1 DEF Keeps, Episode
<1> QED
  BY <1>2, EveryRow DEF Extends

\* Extending a history twice extends it.
LEMMA ExtendsTransitive ==
  \A d, e, f \in Database : Extends(d, e) /\ Extends(e, f) => Extends(d, f)
<1> SUFFICES ASSUME NEW d \in Database, NEW e \in Database, NEW f \in Database,
                    Extends(d, e), Extends(e, f)
             PROVE  Extends(d, f)
  OBVIOUS
<1>1. /\ d.episodes \in Seq(Episode)
      /\ e.episodes \in Seq(Episode)
      /\ f.episodes \in Seq(Episode)
  BY DEF Database
<1>2. Len(d.episodes) <= Len(f.episodes)
  BY <1>1 DEF Extends
<1>3. ASSUME NEW i \in DOMAIN d.episodes
      PROVE  Keeps(d.episodes[i], f.episodes[i])
  <2>1. i \in DOMAIN e.episodes /\ i \in DOMAIN f.episodes
    BY <1>1 DEF Extends
  <2>2. /\ d.episodes[i] \in Episode
        /\ e.episodes[i] \in Episode
        /\ f.episodes[i] \in Episode
    BY <1>1, <2>1
  <2>3. Keeps(d.episodes[i], e.episodes[i]) /\ Keeps(e.episodes[i], f.episodes[i])
    BY <2>1 DEF Extends
  <2> QED
    BY <2>2, <2>3 DEF Keeps, Episode
<1> QED
  BY <1>2, <1>3 DEF Extends

\* INSERT adds one current row of the namespace, after all others.
LEMMA InsertLemma ==
  ASSUME NEW d \in Database, NEW ns \in Namespaces, NEW c \in Contents,
         NEW now \in Nat, NEW ttl \in Int \cup {NULL}
  PROVE  LET e == InsertEpisode(d, ns, c, now, ttl) IN
         /\ e \in Database
         /\ Len(e.episodes) = Len(d.episodes) + 1
         /\ Extends(d, e)
         /\ SupersededByNewer(d) => SupersededByNewer(e)
         /\ Len(e.episodes) \in InNamespace(e, ns)
         /\ InNamespace(d, ns) \subseteq InNamespace(e, ns) \ {Len(e.episodes)}
<1> DEFINE row == NewEpisode(ns, c, now, ttl)
           e == InsertEpisode(d, ns, c, now, ttl)
<1>1. row \in Episode
  BY DEF NewEpisode, Episode
<1>2. row.supersededBy = NULL /\ row.namespace = ns
  BY DEF NewEpisode
<1>3. d.episodes \in Seq(Episode) /\ Len(d.episodes) + 1 \in Ids
  BY DEF Database, Ids
<1>4. e.episodes = Append(d.episodes, row)
  BY DEF InsertEpisode, Database
<1> HIDE DEF row
<1>5. e \in Database
  <2>1. Append(d.episodes, row) \in Seq(Episode)
    BY <1>1, <1>3
  <2>2. d.fts \cup {Len(d.episodes) + 1} \in SUBSET Ids
    BY <1>3 DEF Database
  <2>3. e = [d EXCEPT !.episodes = Append(d.episodes, row),
                      !.fts = d.fts \cup {Len(d.episodes) + 1}]
    BY DEF InsertEpisode, row, Database
  <2> QED
    BY <2>1, <2>2, <2>3 DEF Database
<1>6. Len(e.episodes) = Len(d.episodes) + 1 /\ e.episodes[Len(d.episodes) + 1] = row
  BY <1>1, <1>3, <1>4
<1>7. \A i \in DOMAIN d.episodes :
        i \in DOMAIN e.episodes /\ e.episodes[i] = d.episodes[i] /\ i # Len(d.episodes) + 1
  BY <1>1, <1>3, <1>4
<1>8. \A i \in DOMAIN e.episodes : i \in DOMAIN d.episodes \/ e.episodes[i] = row
  BY <1>1, <1>3, <1>4
<1>9. DOMAIN e.episodes = 1 .. (Len(d.episodes) + 1)
  BY <1>1, <1>3, <1>4
<1> HIDE DEF e
<1>10. Extends(d, e)
  <2>1. \A i \in DOMAIN d.episodes : d.episodes[i] \in Episode
    BY <1>3
  <2>2. \A i \in DOMAIN d.episodes : Keeps(d.episodes[i], e.episodes[i])
    BY <1>7, <2>1 DEF Keeps, Episode
  <2> QED
    BY <1>3, <1>6, <2>2 DEF Extends
<1>11. SupersededByNewer(d) => SupersededByNewer(e)
  BY <1>2, <1>7, <1>8 DEF SupersededByNewer
<1>12. Len(e.episodes) \in InNamespace(e, ns)
  BY <1>2, <1>3, <1>6, <1>9 DEF InNamespace
<1>13. InNamespace(d, ns) \subseteq InNamespace(e, ns) \ {Len(e.episodes)}
  BY <1>6, <1>7 DEF InNamespace
<1> QED
  BY <1>5, <1>6, <1>10, <1>11, <1>12, <1>13 DEF e

\* Vectors and entity links leave the rows alone.
LEMMA IndexLemma ==
  ASSUME NEW d \in Database, NEW id \in Ids, NEW ns \in Namespaces, NEW c \in Contents
  PROVE  /\ AddVector(d, id) \in Database
         /\ AddVector(d, id).episodes = d.episodes
         /\ RemoveVector(d, id) \in Database
         /\ RemoveVector(d, id).episodes = d.episodes
         /\ IndexEntities(d, id, c, ns) \in Database
         /\ IndexEntities(d, id, c, ns).episodes = d.episodes
<1>1. {ns} \X EntitiesOf[c] \in SUBSET Entities
  BY MemoryDbAssumptions DEF Entities
<1>2. {id} \X ({ns} \X EntitiesOf[c]) \in SUBSET (Ids \X Entities)
  BY <1>1
<1> DEFINE found == {ns} \X EntitiesOf[c]
           links == {id} \X found
<1>3. IndexEntities(d, id, c, ns) =
        [d EXCEPT !.entities = @ \cup found, !.mentions = @ \cup links]
  BY DEF IndexEntities
<1>4. found \in SUBSET Entities /\ links \in SUBSET (Ids \X Entities)
  BY <1>1, <1>2
<1> HIDE DEF found, links
<1>5. /\ IndexEntities(d, id, c, ns) \in Database
      /\ IndexEntities(d, id, c, ns).episodes = d.episodes
  BY <1>3, <1>4 DEF Database
<1> QED
  BY <1>5 DEF Database, AddVector, RemoveVector

\* A database with the same rows extends what the other one extends.
LEMMA SameRows ==
  ASSUME NEW d, NEW e, NEW f, e.episodes = d.episodes
  PROVE  /\ Extends(f, d) => Extends(f, e)
         /\ SupersededByNewer(d) => SupersededByNewer(e)
         /\ \A ns \in Namespaces : InNamespace(e, ns) = InNamespace(d, ns)
BY DEF Extends, SupersededByNewer, InNamespace

\* What an UPDATE may make of row i: at most close it in favour of a later row of its
\* namespace.
Updates(d, i, new) ==
  LET old == d.episodes[i] IN
  /\ Keeps(old, new)
  /\ \/ new.supersededBy = old.supersededBy
     \/ /\ new.validTo # NULL
        /\ i < new.supersededBy
        /\ new.supersededBy \in InNamespace(d, old.namespace)

\* Such an UPDATE extends the history and keeps the lineage.
LEMMA UpdateLemma ==
  ASSUME NEW d \in Database, NEW ids \in SUBSET Ids, NEW changed,
         DOMAIN changed = ids,
         \A i \in ids \cap DOMAIN d.episodes :
           changed[i] \in Episode /\ Updates(d, i, changed[i])
  PROVE  LET e == Update(d, changed) IN
         /\ e \in Database
         /\ Len(e.episodes) = Len(d.episodes)
         /\ Extends(d, e)
         /\ SupersededByNewer(d) => SupersededByNewer(e)
         /\ \A ns \in Namespaces : InNamespace(e, ns) = InNamespace(d, ns)
<1> DEFINE rows == [i \in DOMAIN d.episodes |->
                      IF i \in DOMAIN changed THEN changed[i] ELSE d.episodes[i]]
           e == Update(d, changed)
<1>1. \A i \in DOMAIN d.episodes : d.episodes[i] \in Episode
  BY EveryRow
<1>2. \A i \in DOMAIN rows : rows[i] \in Episode /\ Updates(d, i, rows[i])
  BY <1>1 DEF Updates, Keeps, Episode
<1>3. rows \in Seq(Episode) /\ DOMAIN rows = DOMAIN d.episodes
  BY <1>2, EveryRow
<1>4. Reindex(d.fts, DOMAIN changed) \in SUBSET Ids
  BY DEF Reindex, Database
<1>5. e = [d EXCEPT !.episodes = rows, !.fts = Reindex(d.fts, DOMAIN changed)]
  BY DEF Update
<1> HIDE DEF rows, e
<1>6. e \in Database /\ e.episodes = rows
  BY <1>3, <1>4, <1>5 DEF Database
<1>7. Len(e.episodes) = Len(d.episodes)
  BY <1>3, <1>6, EveryRow
<1>8. Extends(d, e)
  BY <1>2, <1>3, <1>6, <1>7 DEF Extends, Updates
<1>9. SupersededByNewer(d) => SupersededByNewer(e)
  BY <1>2, <1>3, <1>6 DEF SupersededByNewer, InNamespace, Updates, Keeps
<1>10. \A ns \in Namespaces : InNamespace(e, ns) = InNamespace(d, ns)
  BY <1>2, <1>3, <1>6 DEF InNamespace, Updates, Keeps
<1> QED
  BY <1>6, <1>7, <1>8, <1>9, <1>10 DEF e

\* The UPDATE of store: the old row is closed in favour of a later one of its namespace.
LEMMA SupersedeLemma ==
  ASSUME NEW d \in Database, NEW ns \in Namespaces, NEW now \in Nat,
         NEW old \in InNamespace(d, ns), NEW by \in InNamespace(d, ns), old < by
  PROVE  LET e == SupersedeEpisode(d, old, now, by) IN
         /\ e \in Database
         /\ Len(e.episodes) = Len(d.episodes)
         /\ Extends(d, e)
         /\ SupersededByNewer(d) => SupersededByNewer(e)
         /\ InNamespace(e, ns) = InNamespace(d, ns)
<1> DEFINE row == [d.episodes[old] EXCEPT !.validTo = now, !.supersededBy = by]
           changed == [i \in {old} |-> [d.episodes[i] EXCEPT !.validTo = now,
                                                            !.supersededBy = by]]
<1>1. old \in DOMAIN d.episodes /\ by \in DOMAIN d.episodes
  BY DEF InNamespace
<1>2. d.episodes[old] \in Episode /\ old \in Ids /\ by \in Ids
  BY <1>1, EveryRow
<1>3. now # NULL /\ by # NULL
  BY <1>2, MemoryDbAssumptions DEF Ids
<1>4. row \in Episode
  BY <1>2 DEF Episode
<1>5. Updates(d, old, row)
  BY <1>2, <1>3 DEF Updates, Keeps, Episode, InNamespace
<1>6. DOMAIN changed = {old} /\ changed[old] = row
  OBVIOUS
<1> HIDE DEF row, changed
<1>7. \A i \in {old} \cap DOMAIN d.episodes :
        changed[i] \in Episode /\ Updates(d, i, changed[i])
  BY <1>4, <1>5, <1>6
<1> DEFINE e == Update(d, changed)
<1>8. SupersedeEpisode(d, old, now, by) = e
  BY DEF SupersedeEpisode, changed
<1>9. {old} \in SUBSET Ids
  BY <1>2
<1> HIDE DEF e
<1>10. /\ e \in Database
       /\ Len(e.episodes) = Len(d.episodes)
       /\ Extends(d, e)
       /\ SupersededByNewer(d) => SupersededByNewer(e)
       /\ InNamespace(e, ns) = InNamespace(d, ns)
  BY <1>6, <1>7, <1>9, UpdateLemma DEF e
<1> QED
  BY <1>8, <1>10

\* The UPDATE of forget_expired: the row is closed, without a successor.
LEMMA ExpireLemma ==
  ASSUME NEW d \in Database, NEW now \in Nat, NEW id \in Ids
  PROVE  LET e == ExpireEpisode(d, id, now) IN
         /\ e \in Database
         /\ Len(e.episodes) = Len(d.episodes)
         /\ Extends(d, e)
         /\ SupersededByNewer(d) => SupersededByNewer(e)
<1> DEFINE changed == [i \in {id} |-> [d.episodes[i] EXCEPT !.validTo = now]]
<1>1. now # NULL /\ \A i \in DOMAIN d.episodes : d.episodes[i] \in Episode
  BY EveryRow, MemoryDbAssumptions
<1>2. DOMAIN changed = {id}
  OBVIOUS
<1>3. \A i \in {id} \cap DOMAIN d.episodes :
        changed[i] \in Episode /\ Updates(d, i, changed[i])
  BY <1>1 DEF Updates, Keeps, Episode
<1> HIDE DEF changed
<1>4. ExpireEpisode(d, id, now) = Update(d, changed)
  BY DEF ExpireEpisode, changed
<1> QED
  BY <1>2, <1>3, <1>4, UpdateLemma

\* The UPDATE of _touch: rows are counted, nothing else.
LEMMA TouchLemma ==
  ASSUME NEW d \in Database, NEW ids \in SUBSET Ids
  PROVE  LET e == TouchEpisodes(d, ids) IN
         /\ e \in Database
         /\ Len(e.episodes) = Len(d.episodes)
         /\ Extends(d, e)
         /\ SupersededByNewer(d) => SupersededByNewer(e)
<1> DEFINE changed == [i \in ids |-> [d.episodes[i] EXCEPT !.accessCount = @ + 1]]
<1>1. \A i \in DOMAIN d.episodes : d.episodes[i] \in Episode
  BY EveryRow
<1>2. DOMAIN changed = ids
  OBVIOUS
<1>3. \A i \in ids \cap DOMAIN d.episodes :
        changed[i] \in Episode /\ Updates(d, i, changed[i])
  BY <1>1 DEF Updates, Keeps, Episode
<1> HIDE DEF changed
<1>4. TouchEpisodes(d, ids) = Update(d, changed)
  BY DEF TouchEpisodes, changed
<1> QED
  BY <1>2, <1>3, <1>4, UpdateLemma

\* A longer history keeps the namespace of every episode.
LEMMA ExtendsNamespaces ==
  ASSUME NEW d \in Database, NEW e \in Database, Extends(d, e), NEW ns \in Namespaces
  PROVE  InNamespace(d, ns) \subseteq InNamespace(e, ns)
BY EveryRow DEF Extends, Keeps, InNamespace

\* The empty file is a database.
LEMMA EmptyType == EmptyDatabase \in Database
<1>1. << >> \in Seq(Episode)
  OBVIOUS
<1> QED
  BY <1>1 DEF EmptyDatabase, Database

=============================================================================
