------------------------------ MODULE MemoryDb ------------------------------
(***************************************************************************)
(* The contents of one KausaMemory database file, and what each SQL        *)
(* statement and each query of the engine does to it.                      *)
(*                                                                         *)
(* A database is a value: this module has no variables.  The module        *)
(* KausaMemory says which connection runs which statement, and when.       *)
(***************************************************************************)
EXTENDS Integers, Sequences, FiniteSets

CONSTANTS
  Namespaces,      \* the namespaces agents store into
  Contents,        \* the texts that are stored and asked for
  Names,           \* the entity names that occur in texts
  EntitiesOf,      \* extract_entities: the names found in a text
  SharesWord,      \* SharesWord[q]: the texts that FTS5 matches for query q
  Distance,        \* Distance[<<c, e>>]: cosine distance of two embeddings, in percent
  DedupDistance,   \* at most this far apart: similarity >= dedup_threshold
  OpposeDistance,  \* at most this far apart: similarity >= 0.5
  Opposes,         \* Opposes[<<new, old>>]: the contradiction checker's verdict
  NULL             \* SQL NULL, Python None

ASSUME MemoryDbAssumptions ==
  /\ EntitiesOf \in [Contents -> SUBSET Names]
  /\ SharesWord \in [Contents -> SUBSET Contents]
  /\ Distance \in [Contents \X Contents -> Nat]
  /\ Opposes \in [Contents \X Contents -> BOOLEAN]
  /\ DedupDistance \in Nat
  /\ OpposeDistance \in Nat
  /\ NULL \notin Int

-----------------------------------------------------------------------------
(* The tables. Episode ids are 1, 2, ...: AUTOINCREMENT over a table no     *)
(* statement deletes from, so the table is a sequence. A vector row and an  *)
(* FTS row are known by their rowid, the id of the episode they index.      *)

Ids == Nat \ {0}

Entities == Namespaces \X Names      \* UNIQUE(namespace, name)

Episode ==
  [ namespace    : Namespaces,
    content      : Contents,
    validFrom    : Nat,              \* equal to created_at
    validTo      : Nat \cup {NULL},
    supersededBy : Ids \cup {NULL},
    expiresAt    : Int \cup {NULL},
    accessCount  : Nat ]

Database ==
  [ episodes : Seq(Episode),
    fts      : SUBSET Ids,           \* episodes_fts
    vectors  : SUBSET Ids,           \* vec_episodes
    entities : SUBSET Entities,
    mentions : SUBSET (Ids \X Entities) ]   \* episode_entities

EmptyDatabase ==
  [ episodes |-> << >>, fts |-> {}, vectors |-> {}, entities |-> {}, mentions |-> {} ]

-----------------------------------------------------------------------------
(* Statements. *)

\* The row store() inserts; a ttl of 0 is falsy and means no expiry.
NewEpisode(ns, c, now, ttl) ==
  [ namespace    |-> ns,
    content      |-> c,
    validFrom    |-> now,
    validTo      |-> NULL,
    supersededBy |-> NULL,
    expiresAt    |-> IF ttl \in {NULL, 0} THEN NULL ELSE now + ttl,
    accessCount  |-> 0 ]

\* INSERT INTO episodes, with its trigger ep_ai.
InsertEpisode(d, ns, c, now, ttl) ==
  [ d EXCEPT !.episodes = Append(@, NewEpisode(ns, c, now, ttl)),
             !.fts      = @ \cup {Len(d.episodes) + 1} ]

\* The trigger ep_au: every UPDATE of a row takes it out of the FTS index and puts it back.
Reindex(fts, ids) == (fts \ ids) \cup ids

\* Slip: the vector of a closed episode stays.
RemoveVectorSkipped(d, id) == d

\* VectorStore.add and VectorStore.remove.
AddVector(d, id) == [d EXCEPT !.vectors = @ \cup {id}]

RemoveVector(d, id) == [d EXCEPT !.vectors = @ \ {id}]

\* Slip: store does not call _index_entities.
IndexEntitiesSkipped(d, id, c, ns) == d

\* _index_entities: INSERT OR IGNORE of every entity of the text and of its link.
IndexEntities(d, id, c, ns) ==
  LET found == {ns} \X EntitiesOf[c] IN
  [ d EXCEPT !.entities = @ \cup found, !.mentions = @ \cup ({id} \X found) ]

\* An UPDATE that puts the rows of the function changed in the place of the old ones.
Update(d, changed) ==
  [ d EXCEPT !.episodes = [i \in DOMAIN d.episodes |->
                             IF i \in DOMAIN changed THEN changed[i] ELSE d.episodes[i]],
             !.fts      = Reindex(d.fts, DOMAIN changed) ]

\* Slips: the UPDATE does not set superseded_by, or not valid_to.
SupersedeUnlinked(d, old, now, by) ==
  Update(d, [i \in {old} |-> [d.episodes[i] EXCEPT !.validTo = now]])
SupersedeLeftOpen(d, old, now, by) ==
  Update(d, [i \in {old} |-> [d.episodes[i] EXCEPT !.supersededBy = by]])

\* UPDATE episodes SET valid_to = now, superseded_by = by WHERE id = old.
SupersedeEpisode(d, old, now, by) ==
  Update(d, [i \in {old} |-> [d.episodes[i] EXCEPT !.validTo = now, !.supersededBy = by]])

\* Slip: the sweep puts back the whole row as it was when it was selected.
ExpireRowScanned(d, id, now) ==
  Update(d, [i \in {id} |-> [d.episodes[i] EXCEPT !.validTo = now, !.supersededBy = NULL]])

\* UPDATE episodes SET valid_to = now WHERE id = id.
ExpireEpisode(d, id, now) ==
  Update(d, [i \in {id} |-> [d.episodes[i] EXCEPT !.validTo = now]])

\* Slip: _touch puts back the whole row as it was when it was searched.
TouchRowFound(d, ids) ==
  Update(d, [i \in ids |-> [d.episodes[i] EXCEPT !.accessCount = @ + 1, !.validTo = NULL]])

\* _touch: UPDATE episodes SET access_count = access_count + 1 for every id.
TouchEpisodes(d, ids) ==
  Update(d, [i \in ids |-> [d.episodes[i] EXCEPT !.accessCount = @ + 1]])

-----------------------------------------------------------------------------
(* Queries. *)

InNamespace(d, ns) == {i \in DOMAIN d.episodes : d.episodes[i].namespace = ns}

\* WHERE namespace = ns AND valid_to IS NULL
Active(d, ns) == {i \in InNamespace(d, ns) : d.episodes[i].validTo = NULL}

Closed(d) == {i \in DOMAIN d.episodes : d.episodes[i].validTo # NULL}

\* Slip: the time is not compared.
ExpiredAnyTime(d, ns, now) == {i \in Active(d, ns) : d.episodes[i].expiresAt # NULL}

\* The rows forget_expired selects.
Expired(d, ns, now) ==
  {i \in Active(d, ns) : d.episodes[i].expiresAt # NULL /\ d.episodes[i].expiresAt <= now}

\* knn with k = 1: any of the nearest vectors, sqlite-vec breaks the tie.
Nearest(d, c) ==
  {i \in d.vectors : \A j \in d.vectors :
     Distance[<<c, d.episodes[i].content>>] <= Distance[<<c, d.episodes[j].content>>]}

\* Slip: the namespace of the hit is not compared.
IsNeighborAnywhere(d, id, ns) == d.episodes[id].validTo = NULL

\* The rest of _nearest: the hit counts only if it is a current row of the namespace.
IsNeighbor(d, id, ns) == id \in Active(d, ns)

\* Slip: a distance taken for a similarity.
ClassifyReversed(new, old) == IF Distance[<<new, old>>] >= DedupDistance THEN "update" ELSE "add"

\* Reconciler.classify of a new text against its neighbor's.
Classify(new, old) ==
  LET far == Distance[<<new, old>>] IN
  CASE far <= DedupDistance -> "update"
    [] far > DedupDistance /\ far <= OpposeDistance /\ Opposes[<<new, old>>] -> "contradict"
    [] OTHER -> "add"

\* The episode a store supersedes, given the hit and the database its row is read from.
Superseded(d, hit, ns, c) ==
  IF IsNeighbor(d, hit, ns) /\ Classify(c, d.episodes[hit].content) \in {"update", "contradict"}
  THEN hit
  ELSE NULL

\* _keyword: FTS5 joined with the episode's own row.
KeywordHits(d, q, ns) ==
  {i \in d.fts \cap Active(d, ns) : d.episodes[i].content \in SharesWord[q]}

\* Slip: closed episodes are found through their entities.
GraphHitsClosed(d, q, ns) ==
  {i \in DOMAIN d.episodes :
     \E name \in EntitiesOf[q] : <<i, <<ns, name>>>> \in d.mentions}

\* _graph: only the entity's namespace is compared, never the episode's.
GraphHits(d, q, ns) ==
  {i \in DOMAIN d.episodes :
     /\ d.episodes[i].validTo = NULL
     /\ \E name \in EntitiesOf[q] :
          <<ns, name>> \in d.entities /\ <<i, <<ns, name>>>> \in d.mentions}

-----------------------------------------------------------------------------
(* What holds of a database, and of a database and a later one. *)

\* A superseded episode points at a newer episode of its own namespace and is closed, so
\* following superseded_by from any episode ends at one that was never superseded.
SupersededByNewer(d) ==
  \A i \in DOMAIN d.episodes :
    LET new == d.episodes[i].supersededBy IN
    new # NULL =>
      /\ new \in DOMAIN d.episodes
      /\ i < new
      /\ d.episodes[new].namespace = d.episodes[i].namespace
      /\ d.episodes[i].validTo # NULL

\* The three derived indexes hold what the episodes table says: a vector for exactly the
\* episodes that are not closed, an FTS row for every one, and of every name found in a
\* text an entity of its namespace and the link of the episode to it, and no other link.
Derived(d) ==
  /\ d.vectors = DOMAIN d.episodes \ Closed(d)
  /\ d.fts = DOMAIN d.episodes
  /\ d.mentions = {m \in (DOMAIN d.episodes) \X Entities :
                      /\ m[2][1] = d.episodes[m[1]].namespace
                      /\ m[2][2] \in EntitiesOf[d.episodes[m[1]].content]}
  /\ \A m \in d.mentions : m[2] \in d.entities

\* What a statement may make of a row: it is never rewritten, only closed and counted.
Keeps(old, new) ==
  /\ new.namespace = old.namespace
  /\ new.content = old.content
  /\ new.validFrom = old.validFrom
  /\ new.expiresAt = old.expiresAt
  /\ old.validTo # NULL => new.validTo # NULL
  /\ old.supersededBy # NULL => new.supersededBy # NULL
  /\ old.accessCount <= new.accessCount

\* A later database has every row of an earlier one.
Extends(d, e) ==
  /\ Len(d.episodes) <= Len(e.episodes)
  /\ \A i \in DOMAIN d.episodes : Keeps(d.episodes[i], e.episodes[i])

=============================================================================
