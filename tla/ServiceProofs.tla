---------------------------- MODULE ServiceProofs ---------------------------
(***************************************************************************)
(* Types, citations and permissions of the service, proved for any number *)
(* of servers, questions, requests and texts.                              *)
(***************************************************************************)
EXTENDS Service, MemoryDbProofs, FiniteSetTheorems, TLAPS

-----------------------------------------------------------------------------
(* The inductive invariant. *)

\* The calls of a tool that may still touch the file.
Pending(tool) ==
  {ns \in Namespaces : mcp[ns].step = "dispatch" /\ mcp[ns].request.tool = tool}

\* No episode was accessed more than n times.
Accessed(d, n) == \A i \in DOMAIN d.episodes : d.episodes[i].accessCount <= n

\* What was accepted is in the file, or still pending, or came to nothing.
Allowed ==
  gate # "free" =>
    /\ Len(db.episodes) + Cardinality(Pending("memory_store")) <= accepted["memory_store"]
    /\ Cardinality(Pending("memory_search")) <= accepted["memory_search"]
    /\ Accessed(db, accepted["memory_search"] + visits
                      - Cardinality(Pending("memory_search")))

Finite == \A t \in Tools : IsFiniteSet(Pending(t))

IInv == TypeOK /\ CitationsHold /\ Finite /\ Allowed

-----------------------------------------------------------------------------
(* What the engine's calls do to the file. *)

\* An UPDATE that writes no count above n leaves none above it.
LEMMA UpdateCounts ==
  ASSUME NEW d \in Database, NEW n \in Nat, Accessed(d, n), NEW changed,
         \A i \in DOMAIN changed \cap DOMAIN d.episodes : changed[i].accessCount <= n
  PROVE  Accessed(Update(d, changed), n)
<1> DEFINE rows == [i \in DOMAIN d.episodes |->
                      IF i \in DOMAIN changed THEN changed[i] ELSE d.episodes[i]]
<1>1. Update(d, changed) = [d EXCEPT !.episodes = rows, !.fts = Reindex(d.fts, DOMAIN changed)]
  BY DEF Update
<1>2. \A i \in DOMAIN rows : rows[i].accessCount <= n
  BY DEF Accessed
<1> HIDE DEF rows
<1>3. Update(d, changed).episodes = rows
  BY <1>1 DEF Database
<1> QED
  BY <1>2, <1>3 DEF Accessed

\* A sweep closes rows and counts nothing.
LEMMA SweepLemma ==
  ASSUME NEW d \in Database, NEW due \in SUBSET DOMAIN d.episodes, NEW now \in Nat
  PROVE  LET e == [Update(d, [i \in due |-> [d.episodes[i] EXCEPT !.validTo = now]])
                     EXCEPT !.vectors = @ \ due]
         IN  /\ e \in Database
             /\ Extends(d, e)
             /\ Len(e.episodes) = Len(d.episodes)
             /\ \A n \in Nat : Accessed(d, n) => Accessed(e, n)
<1> DEFINE changed == [i \in due |-> [d.episodes[i] EXCEPT !.validTo = now]]
           u == Update(d, changed)
           e == [u EXCEPT !.vectors = @ \ due]
<1>1. \A i \in DOMAIN d.episodes : i \in Ids /\ d.episodes[i] \in Episode
  BY EveryRow
<1>2. DOMAIN changed = due /\ due \in SUBSET Ids
  BY <1>1
<1>3. now # NULL
  BY MemoryDbAssumptions
<1>4. \A i \in due \cap DOMAIN d.episodes :
        changed[i] \in Episode /\ Updates(d, i, changed[i])
  BY <1>1, <1>3 DEF Updates, Keeps, Episode
<1>5. \A n \in Nat : Accessed(d, n) =>
        \A i \in DOMAIN changed \cap DOMAIN d.episodes : changed[i].accessCount <= n
  BY <1>1 DEF Accessed, Episode
<1> HIDE DEF changed
<1>6. /\ u \in Database
      /\ Len(u.episodes) = Len(d.episodes)
      /\ Extends(d, u)
  BY <1>2, <1>4, UpdateLemma
<1>7. \A n \in Nat : Accessed(d, n) => Accessed(u, n)
  BY <1>5, UpdateCounts
<1> HIDE DEF u
<1>8. e \in Database /\ e.episodes = u.episodes
  BY <1>6 DEF Database
<1> HIDE DEF e
<1>9. Extends(d, e) /\ Len(e.episodes) = Len(d.episodes)
  BY <1>6, <1>8 DEF Extends
<1>10. \A n \in Nat : Accessed(d, n) => Accessed(e, n)
  BY <1>7, <1>8 DEF Accessed
<1> QED
  BY <1>8, <1>9, <1>10 DEF e, u, changed

\* A touch adds at most one to every count.
LEMMA TouchCounts ==
  ASSUME NEW d \in Database, NEW ids \in SUBSET DOMAIN d.episodes, NEW n \in Nat,
         Accessed(d, n)
  PROVE  Accessed(TouchEpisodes(d, ids), n + 1)
<1> DEFINE changed == [i \in ids |-> [d.episodes[i] EXCEPT !.accessCount = @ + 1]]
<1>1. \A i \in DOMAIN d.episodes : d.episodes[i] \in Episode
  BY EveryRow
<1>2. \A i \in DOMAIN changed \cap DOMAIN d.episodes : changed[i].accessCount <= n + 1
  BY <1>1 DEF Accessed, Episode
<1>3. Accessed(d, n + 1) /\ n + 1 \in Nat
  BY <1>1 DEF Accessed, Episode
<1> HIDE DEF changed
<1>4. TouchEpisodes(d, ids) = Update(d, changed)
  BY DEF TouchEpisodes, changed
<1> QED
  BY <1>2, <1>3, <1>4, UpdateCounts

\* A store adds one row, which nobody has accessed, and counts nothing.
LEMMA StoreLemma ==
  ASSUME NEW d \in Database, NEW ns \in Namespaces, NEW c \in Contents,
         NEW ttl \in Int \cup {NULL}, NEW now \in Nat,
         NEW e \in AfterStore(d, ns, c, ttl, now)
  PROVE  /\ e \in Database
         /\ Extends(d, e)
         /\ Len(e.episodes) = Len(d.episodes) + 1
         /\ \A n \in Nat : Accessed(d, n) => Accessed(e, n)
<1> DEFINE id == Len(d.episodes) + 1
           ins == InsertEpisode(d, ns, c, now, ttl)
           vec == AddVector(ins, id)
           added == IndexEntities(vec, id, c, ns)
<1>1. /\ ins \in Database
      /\ Len(ins.episodes) = id
      /\ Extends(d, ins)
      /\ id \in InNamespace(ins, ns)
      /\ InNamespace(d, ns) \subseteq InNamespace(ins, ns) \ {id}
  BY InsertLemma
<1>2. id \in Ids
  BY EveryRow DEF Ids
<1>3. \A n \in Nat : Accessed(d, n) => Accessed(ins, n)
  <2>1. ins.episodes = Append(d.episodes, NewEpisode(ns, c, now, ttl))
    BY DEF InsertEpisode, Database
  <2>2. NewEpisode(ns, c, now, ttl).accessCount = 0
    BY DEF NewEpisode
  <2> QED
    BY <2>1, <2>2, EveryRow DEF Accessed
<1> HIDE DEF ins, id
<1>4. vec \in Database /\ vec.episodes = ins.episodes
  BY <1>1, <1>2, IndexLemma
<1> HIDE DEF vec
<1>5. added \in Database /\ added.episodes = ins.episodes
  BY <1>2, <1>4, IndexLemma
<1> HIDE DEF added
<1>6. /\ Extends(d, added)
      /\ InNamespace(added, ns) = InNamespace(ins, ns)
      /\ \A n \in Nat : Accessed(d, n) => Accessed(added, n)
  BY <1>1, <1>3, <1>5 DEF Extends, InNamespace, Accessed
<1>7. PICK old : /\ old = NULL \/ old \in InNamespace(d, ns)
                 /\ e = IF old = NULL THEN added
                        ELSE RemoveVector(SupersedeEpisode(added, old, now, id), old)
  BY DEF AfterStore, Superseded, IsNeighbor, Active, added, vec, ins, id
<1>8. CASE old = NULL
  BY <1>1, <1>5, <1>6, <1>7, <1>8 DEF id
<1>9. CASE old # NULL
  <2> DEFINE sup == SupersedeEpisode(added, old, now, id)
  <2>1. /\ old \in InNamespace(added, ns) /\ id \in InNamespace(added, ns)
        /\ old < id /\ old \in Ids
    <3>1. old \in DOMAIN d.episodes /\ old \in InNamespace(d, ns)
      BY <1>7, <1>9 DEF InNamespace
    <3> QED
      BY <3>1, <1>1, <1>6, EveryRow DEF id
  <2>2. /\ sup \in Database
        /\ Len(sup.episodes) = Len(added.episodes)
        /\ Extends(added, sup)
    BY <1>5, <2>1, SupersedeLemma
  <2>3. \A n \in Nat : Accessed(added, n) => Accessed(sup, n)
    <3> DEFINE changed == [i \in {old} |-> [added.episodes[i] EXCEPT !.validTo = now,
                                                                    !.supersededBy = id]]
    <3>1. old \in DOMAIN added.episodes /\ added.episodes[old] \in Episode
      BY <1>5, <2>1, EveryRow DEF InNamespace
    <3>2. \A n \in Nat : Accessed(added, n) =>
            \A i \in DOMAIN changed \cap DOMAIN added.episodes : changed[i].accessCount <= n
      BY <3>1 DEF Accessed, Episode
    <3> HIDE DEF changed
    <3>3. sup = Update(added, changed)
      BY DEF SupersedeEpisode, changed
    <3> QED
      BY <1>5, <3>2, <3>3, UpdateCounts
  <2> HIDE DEF sup
  <2>4. e = RemoveVector(sup, old)
    BY <1>7, <1>9 DEF sup
  <2>5. e \in Database /\ e.episodes = sup.episodes
    BY <2>1, <2>2, <2>4 DEF RemoveVector, Database
  <2>6. Extends(d, e)
    <3>1. Extends(d, sup)
      BY <1>5, <1>6, <2>2, ExtendsTransitive
    <3> QED
      BY <2>5, <3>1 DEF Extends
  <2>7. \A n \in Nat : Accessed(d, n) => Accessed(e, n)
    BY <1>6, <2>3, <2>5 DEF Accessed
  <2>8. Len(e.episodes) = Len(d.episodes) + 1
    BY <1>1, <1>5, <2>2, <2>5 DEF id
  <2> QED
    BY <2>5, <2>6, <2>7, <2>8
<1> QED
  BY <1>8, <1>9

-----------------------------------------------------------------------------
(* What a step does to the parts of the invariant. *)

\* A file that only grew, and the sources that were there: the citations hold.
LEMMA CitationsKept ==
  ASSUME TypeOK, CitationsHold, db' \in Database, Extends(db, db'), UNCHANGED asks
  PROVE  CitationsHold'
<1> SUFFICES ASSUME NEW q \in Questions, NEW s \in asks[q].sources
             PROVE  s.id \in InNamespace(db', Here) /\ db'.episodes[s.id].content = s.content
  BY DEF CitationsHold
<1>1. s.id \in InNamespace(db, Here) /\ db.episodes[s.id].content = s.content
  BY DEF CitationsHold
<1>2. db \in Database
  BY DEF TypeOK
<1>3. s.id \in DOMAIN db.episodes
  BY <1>1 DEF InNamespace
<1>4. s.id \in DOMAIN db'.episodes /\ Keeps(db.episodes[s.id], db'.episodes[s.id])
  BY <1>2, <1>3, EveryRow DEF Extends
<1> QED
  BY <1>1, <1>4 DEF InNamespace, Keeps

\* Steps of the clock, of a client that pages, of a question after its search.
LEMMA FileAlone ==
  ASSUME IInv, TypeOK', UNCHANGED <<db, gate, accepted, visits, mcp>>,
         \A q \in Questions : asks'[q].sources = asks[q].sources
  PROVE  IInv'
<1>1. \A t \in Tools : Pending(t)' = Pending(t)
  BY DEF Pending
<1>2. CitationsHold'
  BY DEF IInv, CitationsHold
<1>3. Finite'
  BY <1>1 DEF IInv, Finite
<1>4. Allowed'
  BY <1>1 DEF IInv, Allowed, Tools
<1> QED
  BY <1>2, <1>3, <1>4 DEF IInv

\* The counts are numbers.
LEMMA Counts ==
  ASSUME IInv
  PROVE  /\ db \in Database
         /\ Len(db.episodes) \in Nat
         /\ visits \in Nat
         /\ \A t \in Tools : accepted[t] \in Nat /\ Cardinality(Pending(t)) \in Nat
  BY FS_CardinalityType, EveryRow DEF IInv, TypeOK, Finite

\* A call that ends is pending no more.
LEMMA ReplyPending ==
  ASSUME IInv, NEW ns \in Namespaces, Reply(ns), NEW t \in Tools
  PROVE  /\ Pending(t)' = Pending(t) \ {ns}
         /\ IsFiniteSet(Pending(t)')
         /\ Cardinality(Pending(t)') =
              IF ns \in Pending(t) THEN Cardinality(Pending(t)) - 1 ELSE Cardinality(Pending(t))
<1>1. /\ mcp'[ns].step = "idle"
      /\ \A o \in Namespaces \ {ns} : mcp'[o] = mcp[o]
  BY DEF Reply, IInv, TypeOK, NoCall
<1>2. Pending(t)' = Pending(t) \ {ns}
  BY <1>1 DEF Pending
<1> HIDE DEF Pending
<1>3. IsFiniteSet(Pending(t))
  BY DEF IInv, Finite
<1> QED
  BY <1>2, <1>3, FS_RemoveElement

\* A call that ends has its type.
LEMMA ReplyType ==
  ASSUME TypeOK, NEW ns \in Namespaces, Reply(ns)
  PROVE  mcp' \in [Namespaces -> Calls]
BY DEF Reply, TypeOK, NoCall, Calls, ProofKinds

-----------------------------------------------------------------------------
(* One step per action. *)

\* A request that arrives is not pending yet.
LEMMA IInvReceive ==
  ASSUME IInv, NEW ns \in Namespaces, NEW r \in Request, NEW proof \in Proofs,
         Receive(ns, r, proof)
  PROVE  IInv'
<1>1. /\ mcp[ns].step = "idle"
      /\ mcp' = [mcp EXCEPT ![ns] = [step |-> "authorize", request |-> r, proof |-> proof]]
      /\ UNCHANGED <<db, clock, gate, accepted, visits, asks, reader>>
  BY DEF Receive
<1>2. mcp' \in [Namespaces -> Calls]
  BY <1>1, ServiceAssumptions DEF IInv, TypeOK, Calls
<1>3. requests' \in 0 .. MaxRequests
  BY ServiceAssumptions DEF Receive, IInv, TypeOK
<1>4. TypeOK'
  <2>1. settled' \in [Tools \cup {"unknown"} -> Nat]
    <3>1. settled' = settled \/ settled' = [settled EXCEPT ![r.tool] = @ + 1]
      BY DEF Receive
    <3>2. settled \in [Tools \cup {"unknown"} -> Nat]
      BY DEF IInv, TypeOK
    <3> QED
      BY <3>1, <3>2
  <2> QED
    BY <1>1, <1>2, <1>3, <2>1 DEF IInv, TypeOK
<1>5. \A o \in Namespaces \ {ns} : mcp'[o] = mcp[o]
  BY <1>1 DEF IInv, TypeOK
<1>6. mcp'[ns].step = "authorize"
  BY <1>1 DEF IInv, TypeOK
<1>7. \A t \in Tools : Pending(t)' = Pending(t)
  BY <1>1, <1>5, <1>6 DEF Pending
<1>8. CitationsHold'
  BY <1>1 DEF IInv, CitationsHold
<1>9. Finite' /\ Allowed'
  BY <1>1, <1>7, <1>8 DEF IInv, Finite, Allowed, Tools
<1> QED
  BY <1>4, <1>8, <1>9 DEF IInv

\* An authorized call becomes pending, in a hosted service because it was accepted.
LEMMA IInvAuthorize ==
  ASSUME IInv, NEW ns \in Namespaces, Authorize(ns)
  PROVE  IInv'
<1> DEFINE tool == mcp[ns].request.tool
<1>1. /\ mcp[ns].step = "authorize"
      /\ UNCHANGED <<db, clock, gate, settled, visits, requests, asks, reader>>
  BY DEF Authorize
<1>2. CitationsHold'
  BY <1>1 DEF IInv, CitationsHold
<1>3. \A t \in Tools : ns \notin Pending(t)
  BY <1>1 DEF Pending
<1>4. CASE Reply(ns) /\ UNCHANGED accepted
  <2>1. TypeOK'
    BY <1>1, <1>4, ReplyType DEF IInv, TypeOK
  <2>2. \A t \in Tools : Pending(t)' = Pending(t)
    BY <1>3, <1>4, ReplyPending
  <2>3. Finite' /\ Allowed'
    BY <1>1, <1>2, <1>4, <2>2 DEF IInv, Finite, Allowed, Tools
  <2> QED
    BY <1>2, <2>1, <2>3 DEF IInv
<1>5. CASE Proceed(ns) /\ (\/ gate = "free" /\ UNCHANGED accepted
                           \/ accepted' = [accepted EXCEPT ![tool] = @ + 1])
  <2>1. /\ mcp'[ns].step = "dispatch"
        /\ mcp'[ns].request = mcp[ns].request
        /\ \A o \in Namespaces \ {ns} : mcp'[o] = mcp[o]
        /\ mcp' \in [Namespaces -> Calls]
    BY <1>5 DEF Proceed, IInv, TypeOK, Calls
  <2>2. accepted' \in [Tools \cup {"unknown"} -> Nat]
    BY <1>5 DEF IInv, TypeOK
  <2>3. TypeOK'
    BY <1>1, <2>1, <2>2 DEF IInv, TypeOK
  <2>4. \A t \in Tools : Pending(t)' = IF t = tool THEN Pending(t) \cup {ns} ELSE Pending(t)
    BY <1>1, <2>1 DEF Pending
  <2> HIDE DEF tool
  <2>5. \A t \in Tools :
          /\ IsFiniteSet(Pending(t)')
          /\ Cardinality(Pending(t)') =
               IF t = tool THEN Cardinality(Pending(t)) + 1 ELSE Cardinality(Pending(t))
    BY <1>3, <2>4, FS_AddElement DEF IInv, Finite
  <2>6. Finite'
    BY <1>2, <2>5 DEF IInv, Finite
  <2>7. ASSUME gate # "free"
        PROVE  \A t \in Tools : accepted'[t] = IF t = tool THEN accepted[t] + 1 ELSE accepted[t]
    BY <1>5, <2>7 DEF IInv, TypeOK, tool
  <2>8. Allowed'
    <3> SUFFICES ASSUME gate # "free"
                 PROVE  /\ Len(db.episodes) + Cardinality(Pending("memory_store")')
                             <= accepted'["memory_store"]
                        /\ Cardinality(Pending("memory_search")') <= accepted'["memory_search"]
                        /\ Accessed(db, accepted'["memory_search"] + visits
                                          - Cardinality(Pending("memory_search")'))
      BY <1>1, <1>2 DEF Allowed
    <3>1. {"memory_store", "memory_search"} \subseteq Tools
      BY DEF Tools
    <3>2. accepted'["memory_search"] + visits - Cardinality(Pending("memory_search")')
            = accepted["memory_search"] + visits - Cardinality(Pending("memory_search"))
      BY <2>5, <2>7, <3>1, Counts
    <3> QED
      BY <2>5, <2>7, <3>1, <3>2, Counts DEF IInv, Allowed
  <2> QED
    BY <1>2, <2>3, <2>6, <2>8 DEF IInv
<1> QED
  BY <1>4, <1>5 DEF Authorize

\* The work of a call: at most one row more for a store, one access for a search.
LEMMA DispatchFile ==
  ASSUME IInv, NEW ns \in Namespaces, Dispatch(ns)
  PROVE  /\ db' \in Database
         /\ Extends(db, db')
         /\ Len(db'.episodes) = Len(db.episodes)
              \/ (mcp[ns].request.tool = "memory_store" /\ Len(db'.episodes) = Len(db.episodes) + 1)
         /\ \A n \in Nat : Accessed(db, n) =>
              Accessed(db', IF mcp[ns].request.tool = "memory_search" THEN n + 1 ELSE n)
<1> DEFINE r == mcp[ns].request
<1> SUFFICES /\ db' \in Database
             /\ Extends(db, db')
             /\ Len(db'.episodes) = Len(db.episodes)
                  \/ (r.tool = "memory_store" /\ Len(db'.episodes) = Len(db.episodes) + 1)
             /\ \A n \in Nat : Accessed(db, n) =>
                  Accessed(db', IF r.tool = "memory_search" THEN n + 1 ELSE n)
  OBVIOUS
<1>1. CASE UNCHANGED db
  <2>1. \A i \in DOMAIN db.episodes : db.episodes[i] \in Episode
    BY EveryRow DEF IInv, TypeOK
  <2>2. \A n \in Nat : Accessed(db, n) => Accessed(db, n + 1)
    BY <2>1 DEF Accessed, Episode
  <2> QED
    BY <1>1, <2>2, ExtendsReflexive DEF IInv, TypeOK
<1>2. CASE r.tool = "memory_store"
           /\ \E ttl \in Ttls : db' \in AfterStore(db, ns, r.text, ttl, clock)
  <2>1. r \in Request \cup {NoRequest}
    BY DEF IInv, TypeOK, Calls
  <2>2. r.text \in Contents
    BY <1>2, <2>1 DEF Request, NoRequest
  <2>3. PICK ttl \in Ttls : db' \in AfterStore(db, ns, r.text, ttl, clock)
    BY <1>2
  <2>4. db \in Database /\ clock \in Nat /\ ttl \in Int \cup {NULL}
    BY ServiceAssumptions DEF IInv, TypeOK
  <2> HIDE DEF r
  <2> QED
    BY <1>2, <2>2, <2>3, <2>4, StoreLemma
<1>3. CASE r.tool = "memory_search"
           /\ \E ids \in Results(db, ns) : db' = TouchEpisodes(db, ids)
  <2>1. PICK ids \in SUBSET DOMAIN db.episodes : db' = TouchEpisodes(db, ids)
    BY <1>3 DEF Results, Active, InNamespace
  <2>2. db \in Database /\ ids \in SUBSET Ids
    BY EveryRow DEF IInv, TypeOK
  <2> HIDE DEF r
  <2> QED
    BY <1>3, <2>1, <2>2, TouchLemma, TouchCounts
<1> QED
  BY <1>1, <1>2, <1>3 DEF Dispatch

\* A call that does its work uses up its permission; one that fails leaves it behind.
LEMMA IInvDispatch ==
  ASSUME IInv, NEW ns \in Namespaces, Dispatch(ns)
  PROVE  IInv'
<1> DEFINE r == mcp[ns].request
           searches == accepted["memory_search"] + visits
                             - Cardinality(Pending("memory_search"))
<1>1. /\ mcp[ns].step = "dispatch"
      /\ Reply(ns)
      /\ UNCHANGED <<clock, gate, settled, accepted, visits, requests, asks, reader>>
  BY DEF Dispatch
<1>3. \A t \in Tools :
        /\ IsFiniteSet(Pending(t)')
        /\ Cardinality(Pending(t)') =
             IF r.tool = t THEN Cardinality(Pending(t)) - 1 ELSE Cardinality(Pending(t))
  <2>1. \A t \in Tools : ns \in Pending(t) <=> r.tool = t
    BY <1>1 DEF Pending
  <2> QED
    BY <1>1, <2>1, ReplyPending
<1>4. {"memory_store", "memory_search"} \subseteq Tools
  BY DEF Tools
<1>5. /\ db' \in Database
      /\ Extends(db, db')
      /\ Len(db'.episodes) = Len(db.episodes)
           \/ (r.tool = "memory_store" /\ Len(db'.episodes) = Len(db.episodes) + 1)
      /\ \A n \in Nat : Accessed(db, n) =>
           Accessed(db', IF r.tool = "memory_search" THEN n + 1 ELSE n)
  BY DispatchFile
<1>6. TypeOK'
  BY <1>1, <1>5, ReplyType DEF IInv, TypeOK
<1>7. CitationsHold'
  BY <1>1, <1>5, CitationsKept DEF IInv
<1>8. Finite'
  BY <1>3 DEF IInv, Finite
<1>9. ASSUME gate # "free"
      PROVE  /\ Len(db'.episodes) + Cardinality(Pending("memory_store")')
               <= accepted["memory_store"]
             /\ Cardinality(Pending("memory_search")') <= accepted["memory_search"]
             /\ Accessed(db', accepted["memory_search"] + visits
                                - Cardinality(Pending("memory_search")'))
  <2>1. /\ Len(db.episodes) + Cardinality(Pending("memory_store")) <= accepted["memory_store"]
        /\ Cardinality(Pending("memory_search")) <= accepted["memory_search"]
        /\ Accessed(db, searches)
    BY <1>9 DEF IInv, Allowed
  <2>2. searches \in Nat
    BY <1>4, <2>1, Counts
  <2>3. accepted["memory_search"] + visits - Cardinality(Pending("memory_search")')
          = IF r.tool = "memory_search" THEN searches + 1 ELSE searches
    BY <1>3, <1>4, Counts
  <2> HIDE DEF r, searches
  <2>4. Accessed(db', IF r.tool = "memory_search" THEN searches + 1 ELSE searches)
    BY <1>5, <2>1, <2>2
  <2>5. Cardinality(Pending("memory_search")') <= accepted["memory_search"]
    BY <1>3, <1>4, <2>1, Counts
  <2>6. Len(db'.episodes) + Cardinality(Pending("memory_store")') <= accepted["memory_store"]
    BY <1>3, <1>4, <1>5, <2>1, Counts
  <2> QED
    BY <2>3, <2>4, <2>5, <2>6
<1>10. Allowed'
  BY <1>1, <1>9 DEF Allowed
<1> QED
  BY <1>6, <1>7, <1>8, <1>10 DEF IInv

\* A server that dies leaves its permission behind.
LEMMA IInvServerDies ==
  ASSUME IInv, NEW ns \in Namespaces, ServerDies(ns)
  PROVE  IInv'
<1>1. Reply(ns) /\ UNCHANGED <<db, clock, gate, settled, accepted, visits, requests, asks, reader>>
  BY DEF ServerDies
<1>2. TypeOK'
  BY <1>1, ReplyType DEF IInv, TypeOK
<1>3. CitationsHold'
  BY <1>1 DEF IInv, CitationsHold
<1>4. \A t \in Tools :
        /\ IsFiniteSet(Pending(t)')
        /\ Cardinality(Pending(t)') \in {Cardinality(Pending(t)), Cardinality(Pending(t)) - 1}
  BY <1>1, ReplyPending
<1>5. {"memory_store", "memory_search"} \subseteq Tools
  BY DEF Tools
<1>6. Finite'
  BY <1>3, <1>4 DEF IInv, Finite
<1>7. ASSUME gate # "free"
      PROVE  /\ Len(db.episodes) + Cardinality(Pending("memory_store")') <= accepted["memory_store"]
             /\ Cardinality(Pending("memory_search")') <= accepted["memory_search"]
             /\ Accessed(db, accepted["memory_search"] + visits
                               - Cardinality(Pending("memory_search")'))
  <2>1. /\ Len(db.episodes) + Cardinality(Pending("memory_store")) <= accepted["memory_store"]
        /\ Cardinality(Pending("memory_search")) <= accepted["memory_search"]
        /\ Accessed(db, accepted["memory_search"] + visits
                          - Cardinality(Pending("memory_search")))
    BY <1>7 DEF IInv, Allowed
  <2>2. /\ Len(db.episodes) + Cardinality(Pending("memory_store")') <= accepted["memory_store"]
        /\ Cardinality(Pending("memory_search")') <= accepted["memory_search"]
    BY <1>4, <1>5, <2>1, Counts
  <2>3. accepted["memory_search"] + visits - Cardinality(Pending("memory_search"))
          <= accepted["memory_search"] + visits - Cardinality(Pending("memory_search")')
    BY <1>4, <1>5, Counts
  <2>4. \A i \in DOMAIN db.episodes : db.episodes[i].accessCount \in Nat
    BY Counts, EveryRow DEF Episode
  <2>5. Accessed(db, accepted["memory_search"] + visits
                       - Cardinality(Pending("memory_search")'))
    BY <1>4, <1>5, <2>1, <2>3, <2>4, Counts DEF Accessed
  <2> QED
    BY <2>2, <2>5
<1>8. Allowed'
  BY <1>1, <1>3, <1>7 DEF Allowed
<1> QED
  BY <1>2, <1>3, <1>6, <1>8 DEF IInv

\* A sweep adds no row and counts no access.
LEMMA IInvSweep ==
  ASSUME IInv, NEW ns \in Namespaces, Sweep(ns)
  PROVE  IInv'
<1> DEFINE due == Expired(db, ns, clock)
<1>1. UNCHANGED <<clock, gate, settled, accepted, visits, mcp, requests, asks, reader>>
  BY DEF Sweep
<1>2. db \in Database /\ clock \in Nat /\ due \in SUBSET DOMAIN db.episodes
  BY DEF IInv, TypeOK, Expired, Active, InNamespace
<1>3. db' = [Update(db, [i \in due |-> [db.episodes[i] EXCEPT !.validTo = clock]])
               EXCEPT !.vectors = @ \ due]
  BY DEF Sweep
<1> HIDE DEF due
<1>4. /\ db' \in Database
      /\ Extends(db, db')
      /\ Len(db'.episodes) = Len(db.episodes)
      /\ \A n \in Nat : Accessed(db, n) => Accessed(db', n)
  BY <1>2, <1>3, SweepLemma
<1>5. TypeOK'
  BY <1>1, <1>4 DEF IInv, TypeOK
<1>6. CitationsHold'
  BY <1>1, <1>4, CitationsKept DEF IInv
<1>7. \A t \in Tools : Pending(t)' = Pending(t)
  BY <1>1 DEF Pending
<1>8. {"memory_store", "memory_search"} \subseteq Tools
  BY DEF Tools
<1>9. Finite'
  BY <1>7 DEF IInv, Finite
<1>10. Allowed'
  <2>1. gate # "free" => accepted["memory_search"] + visits
                           - Cardinality(Pending("memory_search")) \in Nat
    BY <1>8, Counts DEF IInv, Allowed
  <2> QED
    BY <1>1, <1>4, <1>7, <1>8, <2>1 DEF IInv, Allowed
<1> QED
  BY <1>5, <1>6, <1>7, <1>9, <1>10 DEF IInv

\* A search of the console counts at most one access of each episode.
LEMMA VisitLemma ==
  ASSUME IInv, UNCHANGED <<gate, accepted, mcp>>, visits' = visits + 1,
         NEW ids \in Results(db, Here), db' = TouchEpisodes(db, ids)
  PROVE  db' \in Database /\ Extends(db, db') /\ Finite' /\ Allowed'
<1>1. db \in Database /\ ids \in SUBSET DOMAIN db.episodes /\ ids \in SUBSET Ids
  <2>1. db \in Database /\ ids \in SUBSET DOMAIN db.episodes
    BY DEF IInv, TypeOK, Results, Active, InNamespace
  <2> QED
    BY <2>1, EveryRow
<1>2. /\ db' \in Database
      /\ Len(db'.episodes) = Len(db.episodes)
      /\ Extends(db, db')
      /\ \A n \in Nat : Accessed(db, n) => Accessed(db', n + 1)
  BY <1>1, TouchLemma, TouchCounts
<1>3. {"memory_store", "memory_search"} \subseteq Tools
  BY DEF Tools
<1>4. \A t \in Tools : Pending(t)' = Pending(t)
  BY DEF Pending
<1>5. Finite'
  BY <1>4 DEF IInv, Finite
<1>6. ASSUME gate # "free"
      PROVE  Accessed(db', accepted["memory_search"] + visits'
                             - Cardinality(Pending("memory_search")))
  <2> DEFINE n == accepted["memory_search"] + visits - Cardinality(Pending("memory_search"))
  <2>1. n \in Nat /\ Accessed(db, n)
    BY <1>3, <1>6, Counts DEF IInv, Allowed
  <2>2. accepted["memory_search"] + visits' - Cardinality(Pending("memory_search")) = n + 1
    BY <1>3, Counts
  <2> HIDE DEF n
  <2> QED
    BY <1>2, <2>1, <2>2
<1>7. Allowed'
  BY <1>2, <1>3, <1>4, <1>6 DEF IInv, Allowed
<1> QED
  BY <1>2, <1>5, <1>7

\* GET /api/search.
LEMMA IInvConsoleSearch ==
  ASSUME IInv, ConsoleSearch
  PROVE  IInv'
<1>1. /\ UNCHANGED <<clock, gate, settled, accepted, mcp, requests, asks, reader>>
      /\ visits' = visits + 1
  BY DEF ConsoleSearch
<1>2. db' \in Database /\ Extends(db, db') /\ Finite' /\ Allowed'
  BY <1>1, VisitLemma DEF ConsoleSearch
<1>3. TypeOK'
  BY <1>1, <1>2 DEF IInv, TypeOK
<1>4. CitationsHold'
  BY <1>1, <1>2, CitationsKept DEF IInv
<1> QED
  BY <1>2, <1>3, <1>4 DEF IInv

\* The search of a question cites what is there.
LEMMA IInvAskSearch ==
  ASSUME IInv, NEW q \in Questions, AskSearch(q)
  PROVE  IInv'
<1>1. /\ UNCHANGED <<clock, gate, settled, accepted, mcp, requests, reader>>
      /\ visits' = visits + 1
  BY DEF AskSearch
<1>2. PICK ids \in Results(db, Here) :
        /\ db' = TouchEpisodes(db, ids)
        /\ asks' = [asks EXCEPT ![q] =
                      [step |-> "waiting",
                       sources |-> {[id |-> i, content |-> db.episodes[i].content] : i \in ids}]]
  BY DEF AskSearch
<1> DEFINE sources == {[id |-> i, content |-> db.episodes[i].content] : i \in ids}
<1>3. db \in Database /\ ids \in SUBSET InNamespace(db, Here) /\ ids \in SUBSET DOMAIN db.episodes
  BY DEF IInv, TypeOK, Results, Active, InNamespace
<1>4. \A i \in DOMAIN db.episodes : i \in Ids /\ db.episodes[i] \in Episode
  BY <1>3, EveryRow
<1>5. db' \in Database /\ Extends(db, db') /\ Finite' /\ Allowed'
  BY <1>1, <1>2, VisitLemma
<1>6. sources \in SUBSET [id : Ids, content : Contents]
  BY <1>3, <1>4 DEF Episode
<1>7. \A s \in sources : /\ s.id \in InNamespace(db, Here)
                        /\ db.episodes[s.id].content = s.content
  BY <1>3
<1> HIDE DEF sources
<1>8. /\ asks'[q] = [step |-> "waiting", sources |-> sources]
      /\ \A o \in Questions \ {q} : asks'[o] = asks[o]
  BY <1>2 DEF IInv, TypeOK, sources
<1>9. TypeOK'
  <2>1. asks' \in [Questions -> [step : {"new", "asked", "waiting", "answered", "failed"},
                                 sources : SUBSET [id : Ids, content : Contents]]]
    BY <1>2, <1>6 DEF IInv, TypeOK, sources
  <2> QED
    BY <1>1, <1>5, <2>1 DEF IInv, TypeOK
<1>10. CitationsHold'
  <2> SUFFICES ASSUME NEW o \in Questions, NEW s \in asks'[o].sources
               PROVE  s.id \in InNamespace(db', Here) /\ db'.episodes[s.id].content = s.content
    BY DEF CitationsHold
  <2>1. s.id \in InNamespace(db, Here) /\ db.episodes[s.id].content = s.content
    BY <1>7, <1>8 DEF IInv, CitationsHold
  <2>2. s.id \in DOMAIN db.episodes
    BY <2>1 DEF InNamespace
  <2>3. s.id \in DOMAIN db'.episodes /\ Keeps(db.episodes[s.id], db'.episodes[s.id])
    BY <1>3, <1>5, <2>2, EveryRow DEF Extends
  <2> QED
    BY <2>1, <2>3 DEF InNamespace, Keeps
<1> QED
  BY <1>5, <1>9, <1>10 DEF IInv

\* The other steps of a question leave its sources alone.
LEMMA IInvAsk ==
  ASSUME IInv, NEW q \in Questions, Ask(q) \/ AskRefused(q) \/ OracleAnswers(q) \/ OracleFails(q)
  PROVE  IInv'
<1>1. PICK step \in {"asked", "answered", "failed"} :
        /\ asks' = [asks EXCEPT ![q].step = step]
        /\ UNCHANGED <<db, clock, gate, settled, accepted, visits, mcp, requests, reader>>
  BY DEF Ask, AskRefused, OracleAnswers, OracleFails
<1>2. /\ asks'[q].step = step /\ asks'[q].sources = asks[q].sources
      /\ \A o \in Questions \ {q} : asks'[o] = asks[o]
      /\ asks' \in [Questions -> [step : {"new", "asked", "waiting", "answered", "failed"},
                                  sources : SUBSET [id : Ids, content : Contents]]]
  BY <1>1 DEF IInv, TypeOK
<1>3. TypeOK'
  BY <1>1, <1>2 DEF IInv, TypeOK
<1>4. \A o \in Questions : asks'[o].sources = asks[o].sources
  BY <1>1, <1>2
<1> QED
  BY <1>1, <1>3, <1>4, FileAlone

\* A client that pages reads, and counts rows, which are finitely many.
LEMMA IInvListing ==
  ASSUME IInv, ListPage \/ \E all \in BOOLEAN, limit \in Limits : StartListing(all, limit)
  PROVE  IInv'
<1>1. UNCHANGED <<db, clock, gate, settled, accepted, visits, mcp, requests, asks>>
  BY DEF ListPage, StartListing
<1>2. DOMAIN db.episodes \in SUBSET Ids /\ IsFiniteSet(DOMAIN db.episodes)
  <2>1. db \in Database
    BY DEF IInv, TypeOK
  <2>2. DOMAIN db.episodes = 1 .. Len(db.episodes) /\ Len(db.episodes) \in Nat
    BY <2>1, EveryRow
  <2>3. IsFiniteSet(1 .. Len(db.episodes))
    BY <2>2, FS_Interval
  <2> QED
    BY <2>2, <2>3 DEF Ids
<1>3. \A all \in BOOLEAN : Rows(db, all) \in SUBSET DOMAIN db.episodes
  BY DEF Rows, InNamespace, Active
<1> DEFINE Readers == [step : {"new", "listing", "done"}, all : BOOLEAN,
                       limit : Limits \cup {NULL}, offset : Nat,
                       owed : SUBSET Ids, closed : SUBSET Ids]
<1>4. CASE ListPage
  <2> DEFINE page == Page(db, reader.all, IntParam(reader.limit, 50, 1, 500),
                          IntParam(reader.offset, 0, 0, 10000000))
  <2>1. reader \in Readers
    BY DEF IInv, TypeOK
  <2>2. page \in SUBSET DOMAIN db.episodes
    BY <1>3, <2>1 DEF Page
  <2> HIDE DEF page
  <2>3. Cardinality(page) \in Nat
    BY <1>2, <2>2, FS_Subset, FS_CardinalityType
  <2>4. reader' = [reader EXCEPT !.owed = @ \ page, !.offset = @ + Cardinality(page),
                                 !.step = IF page = {} THEN "done" ELSE "listing"]
    BY <1>4 DEF ListPage, page
  <2>5. reader' \in Readers
    <3> DEFINE next == IF page = {} THEN "done" ELSE "listing"
               unseen == reader.owed \ page
               shown == reader.offset + Cardinality(page)
    <3>1. next \in {"new", "listing", "done"} /\ unseen \in SUBSET Ids /\ shown \in Nat
      BY <2>1, <2>3
    <3>2. reader' = [reader EXCEPT !.owed = unseen, !.offset = shown, !.step = next]
      BY <2>4
    <3> HIDE DEF next, unseen, shown
    <3> QED
      BY <2>1, <3>1, <3>2
  <2>6. TypeOK'
    BY <1>1, <2>5 DEF IInv, TypeOK
  <2>7. \A q \in Questions : asks'[q].sources = asks[q].sources
    BY <1>1
  <2> HIDE DEF Readers
  <2> QED
    BY <1>1, <2>6, <2>7, FileAlone
<1>5. CASE \E all \in BOOLEAN, limit \in Limits : StartListing(all, limit)
  <2>1. reader' \in Readers
    BY <1>2, <1>3, <1>5 DEF StartListing, Closed, InNamespace
  <2>2. TypeOK'
    BY <1>1, <2>1 DEF IInv, TypeOK
  <2> QED
    BY <1>1, <2>2, FileAlone
<1> QED
  BY <1>4, <1>5

-----------------------------------------------------------------------------
(* The theorems. *)

\* An empty file, nothing accepted and nothing asked.
LEMMA IInvInit == Init => IInv
<1> SUFFICES ASSUME Init PROVE IInv
  OBVIOUS
<1>1. /\ db = EmptyDatabase /\ visits = 0
      /\ accepted = [t \in Tools \cup {"unknown"} |-> 0]
      /\ mcp = [ns \in Namespaces |-> NoCall]
      /\ asks = [q \in Questions |-> NotAsked]
  BY DEF Init
<1>2. TypeOK
  BY EmptyType, ServiceAssumptions
     DEF Init, TypeOK, NotAsked, NotReading, NoCall, Calls, ProofKinds
<1>3. \A t \in Tools : Pending(t) = {}
  BY <1>1 DEF Pending, NoCall
<1>4. CitationsHold
  BY <1>1 DEF CitationsHold, NotAsked
<1>5. Finite
  BY <1>3, FS_EmptySet DEF Finite
<1>6. Allowed
  <2>1. Len(db.episodes) = 0 /\ DOMAIN db.episodes = {}
    BY <1>1 DEF EmptyDatabase
  <2>2. accepted["memory_store"] = 0 /\ accepted["memory_search"] = 0
    BY <1>1 DEF Tools
  <2>3. \A t \in Tools : Cardinality(Pending(t)) = 0
    BY <1>3, FS_EmptySet
  <2> HIDE DEF Pending
  <2> QED
    BY <1>1, <2>1, <2>2, <2>3 DEF Allowed, Accessed, Tools
<1> QED
  BY <1>2, <1>4, <1>5, <1>6 DEF IInv

\* The invariant is inductive.
LEMMA IInvNext == IInv /\ [Next]_vars => IInv'
<1> SUFFICES ASSUME IInv, [Next]_vars PROVE IInv'
  OBVIOUS
<1>1. ASSUME NEW ns \in Namespaces, \E r \in Request, proof \in Proofs : Receive(ns, r, proof)
      PROVE  IInv'
  BY <1>1, IInvReceive
<1>2. ASSUME NEW ns \in Namespaces, Authorize(ns)
      PROVE  IInv'
  BY <1>2, IInvAuthorize
<1>3. ASSUME NEW ns \in Namespaces, Dispatch(ns) \/ ServerDies(ns) \/ Sweep(ns)
      PROVE  IInv'
  BY <1>3, IInvDispatch, IInvServerDies, IInvSweep
<1>4. ASSUME NEW q \in Questions,
             Ask(q) \/ AskRefused(q) \/ AskSearch(q) \/ OracleAnswers(q) \/ OracleFails(q)
      PROVE  IInv'
  BY <1>4, IInvAsk, IInvAskSearch
<1>5. ASSUME ListPage \/ \E all \in BOOLEAN, limit \in Limits : StartListing(all, limit)
      PROVE  IInv'
  BY <1>5, IInvListing
<1>6. ASSUME Tick
      PROVE  IInv'
  <2>1. TypeOK'
    BY <1>6, ServiceAssumptions DEF Tick, IInv, TypeOK
  <2> QED
    BY <1>6, <2>1, FileAlone DEF Tick
<1>7. ASSUME UNCHANGED vars
      PROVE  IInv'
  <2>1. TypeOK'
    BY <1>7 DEF vars, IInv, TypeOK
  <2> QED
    BY <1>7, <2>1, FileAlone DEF vars
<1> QED
  BY <1>1, <1>2, <1>3, <1>4, <1>5, <1>6, <1>7, IInvConsoleSearch DEF Next

\* No step rewrites or loses a row.
LEMMA StepExtends == IInv /\ [Next]_vars => Extends(db, db')
<1> SUFFICES ASSUME IInv, [Next]_vars PROVE Extends(db, db')
  OBVIOUS
<1>1. db \in Database /\ clock \in Nat
  BY DEF IInv, TypeOK
<1>2. ASSUME NEW ns \in Namespaces, Dispatch(ns)
      PROVE  Extends(db, db')
  BY <1>2, DispatchFile
<1>3. ASSUME NEW ns \in Namespaces, Sweep(ns)
      PROVE  Extends(db, db')
  <2> DEFINE due == Expired(db, ns, clock)
  <2>1. due \in SUBSET DOMAIN db.episodes
    BY DEF Expired, Active, InNamespace
  <2>2. db' = [Update(db, [i \in due |-> [db.episodes[i] EXCEPT !.validTo = clock]])
                 EXCEPT !.vectors = @ \ due]
    BY <1>3 DEF Sweep
  <2> HIDE DEF due
  <2> QED
    BY <1>1, <2>1, <2>2, SweepLemma
<1>4. ASSUME ConsoleSearch \/ \E q \in Questions : AskSearch(q)
      PROVE  Extends(db, db')
  <2>1. PICK ids \in SUBSET DOMAIN db.episodes : db' = TouchEpisodes(db, ids)
    BY <1>4 DEF ConsoleSearch, AskSearch, Results, Active, InNamespace
  <2>2. ids \in SUBSET Ids
    BY <1>1, EveryRow
  <2> QED
    BY <1>1, <2>1, <2>2, TouchLemma
<1>5. ASSUME UNCHANGED db
      PROVE  Extends(db, db')
  BY <1>1, <1>5, ExtendsReflexive
<1> QED
  BY <1>2, <1>3, <1>4, <1>5
     DEF Next, vars, Receive, ServerDies, Authorize, Ask, AskRefused, OracleAnswers,
         OracleFails, StartListing, ListPage, Tick

\* The invariant always holds.
LEMMA IInvAlways == Spec => []IInv
BY IInvInit, IInvNext, PTL DEF Spec

\* File, gate, calls, questions and listings keep their types.
THEOREM TypeCorrect == Spec => []TypeOK
<1>1. IInv => TypeOK
  BY DEF IInv
<1> QED
  BY <1>1, IInvAlways, PTL

\* However long the oracle thinks and whatever is stored, superseded or swept meanwhile, an
\* id it was given leads to the text it was given.
THEOREM CitationsStay == Spec => []CitationsHold
<1>1. IInv => CitationsHold
  BY DEF IInv
<1> QED
  BY <1>1, IInvAlways, PTL

\* A hosted file holds no work without a call the verifier accepted, for any verifier and
\* any number of servers, of calls that fail and of deaths between acceptance and work.
THEOREM AllWorkAccepted == Spec => []WorkWasAccepted
<1>1. IInv => WorkWasAccepted
  <2> SUFFICES ASSUME IInv, gate # "free"
               PROVE  /\ Len(db.episodes) <= accepted["memory_store"]
                      /\ \A i \in DOMAIN db.episodes :
                           db.episodes[i].accessCount <= accepted["memory_search"] + visits
    BY DEF WorkWasAccepted
  <2>1. {"memory_store", "memory_search"} \subseteq Tools
    BY DEF Tools
  <2>2. \A i \in DOMAIN db.episodes : db.episodes[i].accessCount \in Nat
    BY Counts, EveryRow DEF Episode
  <2> QED
    BY <2>1, <2>2, Counts DEF IInv, Allowed, Accessed
<1> QED
  BY <1>1, IInvAlways, PTL

=============================================================================
