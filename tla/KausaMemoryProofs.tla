-------------------------- MODULE KausaMemoryProofs -------------------------
(***************************************************************************)
(* Type correctness, the lineage of superseded episodes and the            *)
(* preservation of the history, proved for any number of processes,        *)
(* namespaces, texts, calls and failures.                                  *)
(***************************************************************************)
EXTENDS KausaMemory, MemoryDbProofs, TLAPS

-----------------------------------------------------------------------------
(* The inductive invariant. *)

\* SQLite admits one writer.
OneWriter == \A p, q \in Procs : tx[p] = "write" /\ tx[q] = "write" => p = q

\* What a connection's transaction sees, against what is committed.
ConnectionOK(p) ==
  /\ tx[p] = "read" => view[p] = db
  /\ tx[p] = "write" => Extends(db, view[p]) /\ SupersededByNewer(view[p])

StoreSteps ==
  {"knn", "row", "stamp", "insert", "vector", "entities", "supersede", "unvector"}

RowInserted == {"vector", "entities", "supersede", "unvector"}

\* The neighbor a store remembers is still a row of its namespace when it is superseded,
\* and by then the store's own row is the last of the table.
CallOK(p) ==
  /\ pc[p] \in StoreSteps => call[p].ns \in Namespaces /\ call[p].text \in Contents
  /\ pc[p] = "knn" => call[p].target = NULL
  /\ pc[p] \in {"stamp", "insert"} =>
       call[p].target \in InNamespace(View(p), call[p].ns) \cup {NULL}
  /\ pc[p] \in RowInserted =>
       /\ tx[p] = "write"
       /\ NewId(p) \in InNamespace(view[p], call[p].ns)
       /\ call[p].target \in (InNamespace(view[p], call[p].ns) \ {NewId(p)}) \cup {NULL}
  /\ pc[p] = "supersede" => call[p].target # NULL

IInv ==
  /\ TypeOK
  /\ OneWriter
  /\ Lineage
  /\ \A p \in Procs : ConnectionOK(p) /\ CallOK(p)

-----------------------------------------------------------------------------
(* What happens to the connections. *)

\* A step of p that keeps the connections in order: rows others have seen stay.
ConnectionStep(p) ==
  /\ db' \in Database
  /\ tx' \in [Procs -> TxStates]
  /\ view' \in [Procs -> Database]
  /\ OneWriter'
  /\ Lineage'
  /\ \A q \in Procs : ConnectionOK(q)'
  /\ \A q \in Procs \ {p} :
       /\ tx[q] = "write" => tx'[q] = "write" /\ view'[q] = view[q]
       /\ \A ns \in Namespaces : InNamespace(View(q), ns) \subseteq InNamespace(View(q)', ns)

\* What a statement reads is a database.
LEMMA ViewType ==
  ASSUME TypeOK, NEW p \in Procs
  PROVE  View(p) \in Database
BY DEF TypeOK, View

\* A step that leaves the connections alone.
LEMMA IdleConnections ==
  ASSUME IInv, NEW p \in Procs, UNCHANGED <<db, tx, view>>
  PROVE  ConnectionStep(p) /\ View(p)' = View(p)
BY DEF IInv, TypeOK, ConnectionStep, OneWriter, Lineage, ConnectionOK, View

\* A SELECT changes nothing a connection sees.
LEMMA SelectConnections ==
  ASSUME IInv, NEW p \in Procs, Select(p), UNCHANGED db
  PROVE  ConnectionStep(p) /\ View(p)' = View(p)
<1>1. CASE tx[p] = "begun"
  <2>1. /\ tx' = [tx EXCEPT ![p] = "read"]
        /\ view' = [view EXCEPT ![p] = db]
    BY <1>1 DEF Select
  <2>2. tx' \in [Procs -> TxStates] /\ view' \in [Procs -> Database] /\ db' \in Database
    BY <2>1 DEF IInv, TypeOK, TxStates
  <2>3. tx'[p] = "read" /\ view'[p] = db /\ tx[p] = "begun"
    BY <1>1, <2>1 DEF IInv, TypeOK
  <2>4. \A q \in Procs \ {p} : tx'[q] = tx[q] /\ view'[q] = view[q]
    BY <2>1 DEF IInv, TypeOK
  <2>5. \A q \in Procs : ConnectionOK(q)'
    BY <2>3, <2>4 DEF IInv, ConnectionOK
  <2>6. \A q \in Procs : View(q)' = View(q)
    BY <2>3, <2>4 DEF View
  <2>7. OneWriter' /\ Lineage'
    BY <2>3, <2>4 DEF IInv, OneWriter, Lineage
  <2> QED
    BY <2>2, <2>4, <2>5, <2>6, <2>7 DEF ConnectionStep
<1>2. CASE tx[p] # "begun"
  BY <1>2, IdleConnections DEF Select
<1> QED
  BY <1>1, <1>2

\* A connection that may write sees everything that is committed, and its own changes.
LEMMA WriterSees ==
  ASSUME IInv, NEW p \in Procs, CanWrite(p)
  PROVE  /\ View(p) \in Database
         /\ Extends(db, View(p))
         /\ SupersededByNewer(View(p))
<1>1. tx[p] \in {"none", "begun", "read", "write"}
  BY DEF IInv, TypeOK, TxStates, CanWrite
<1>2. View(p) = db \/ (tx[p] = "write" /\ View(p) = view[p])
  BY <1>1 DEF IInv, ConnectionOK, View
<1>3. View(p) \in Database /\ db \in Database
  BY ViewType DEF IInv, TypeOK
<1> QED
  BY <1>2, <1>3, ExtendsReflexive DEF IInv, ConnectionOK, Lineage

\* A writing statement takes the write lock.
LEMMA WriteConnections ==
  ASSUME IInv, NEW p \in Procs, NEW d \in Database, Write(p, d), UNCHANGED db,
         Extends(View(p), d),
         SupersededByNewer(View(p)) => SupersededByNewer(d)
  PROVE  /\ ConnectionStep(p)
         /\ tx'[p] = "write" /\ view'[p] = d /\ View(p)' = d
<1>1. /\ CanWrite(p)
      /\ tx' = [tx EXCEPT ![p] = "write"]
      /\ view' = [view EXCEPT ![p] = d]
  BY DEF Write
<1>2. tx' \in [Procs -> TxStates] /\ view' \in [Procs -> Database] /\ db' \in Database
  BY <1>1 DEF IInv, TypeOK, TxStates
<1>3. tx'[p] = "write" /\ view'[p] = d
  BY <1>1 DEF IInv, TypeOK
<1>4. \A q \in Procs \ {p} : tx'[q] = tx[q] /\ view'[q] = view[q] /\ tx[q] # "write"
  BY <1>1 DEF IInv, TypeOK, CanWrite
<1>5. Extends(db, d) /\ SupersededByNewer(d)
  BY <1>1, WriterSees, ExtendsTransitive DEF IInv, TypeOK
<1>6. \A q \in Procs : ConnectionOK(q)'
  BY <1>3, <1>4, <1>5 DEF IInv, ConnectionOK
<1>7. \A q \in Procs \ {p} : View(q)' = View(q)
  BY <1>4 DEF View
<1>8. OneWriter' /\ Lineage'
  BY <1>3, <1>4 DEF IInv, OneWriter, Lineage
<1> QED
  BY <1>2, <1>3, <1>4, <1>6, <1>7, <1>8 DEF ConnectionStep, View

\* The failed statement leaves at most BEGIN behind.
LEMMA BeginConnections ==
  ASSUME IInv, NEW p \in Procs, BeginOnly(p), UNCHANGED <<db, view>>
  PROVE  ConnectionStep(p)
<1>1. tx' \in [Procs -> TxStates] /\ view' \in [Procs -> Database] /\ db' \in Database
  BY DEF IInv, TypeOK, TxStates, BeginOnly
<1>2. \A q \in Procs : tx'[q] = tx[q] \/ (tx[q] = "none" /\ tx'[q] = "begun")
  BY DEF IInv, TypeOK, BeginOnly
<1>3. \A q \in Procs : ConnectionOK(q)' /\ View(q)' = View(q)
  BY <1>2 DEF IInv, ConnectionOK, View
<1>4. OneWriter' /\ Lineage'
  BY <1>2 DEF IInv, OneWriter, Lineage
<1> QED
  BY <1>1, <1>2, <1>3, <1>4 DEF ConnectionStep

\* A rollback.
LEMMA RollbackConnections ==
  ASSUME IInv, NEW p \in Procs, UNCHANGED db,
         tx' = [tx EXCEPT ![p] = "none"], view' = [view EXCEPT ![p] = EmptyDatabase]
  PROVE  ConnectionStep(p)
<1>1. tx' \in [Procs -> TxStates] /\ view' \in [Procs -> Database] /\ db' \in Database
  BY EmptyType DEF IInv, TypeOK, TxStates
<1>2. tx'[p] = "none" /\ \A q \in Procs \ {p} : tx'[q] = tx[q] /\ view'[q] = view[q]
  BY DEF IInv, TypeOK
<1>3. \A q \in Procs : ConnectionOK(q)'
  BY <1>2 DEF IInv, ConnectionOK
<1>4. \A q \in Procs \ {p} : View(q)' = View(q)
  BY <1>2 DEF View
<1>5. OneWriter' /\ Lineage'
  BY <1>2 DEF IInv, OneWriter, Lineage
<1> QED
  BY <1>1, <1>2, <1>3, <1>4, <1>5 DEF ConnectionStep

\* A commit publishes what the writer sees, which extends what was committed; the
\* snapshots that others read from become stale.
LEMMA CommitConnections ==
  ASSUME IInv, NEW p \in Procs, Commit(p)
  PROVE  ConnectionStep(p) /\ Extends(db, db')
<1> DEFINE wrote == tx[p] = "write"
<1>1. /\ db' = IF wrote THEN view[p] ELSE db
      /\ tx' = [q \in Procs |-> IF q = p THEN "none"
                                ELSE IF wrote /\ tx[q] = "read" THEN "stale" ELSE tx[q]]
      /\ view' = [view EXCEPT ![p] = EmptyDatabase]
  BY DEF Commit
<1>2. tx' \in [Procs -> TxStates] /\ view' \in [Procs -> Database] /\ db' \in Database
  BY <1>1, EmptyType DEF IInv, TypeOK, TxStates
<1>3. Extends(db, db') /\ SupersededByNewer(db')
  BY <1>1, ExtendsReflexive DEF IInv, TypeOK, ConnectionOK, Lineage
<1>4. tx'[p] = "none" /\ \A q \in Procs \ {p} : view'[q] = view[q]
  BY <1>1 DEF IInv, TypeOK
<1>5. CASE wrote
  <2>1. \A q \in Procs \ {p} : tx[q] # "write"
    BY <1>5 DEF IInv, OneWriter
  <2>2. \A q \in Procs \ {p} :
          tx'[q] = IF tx[q] = "read" THEN "stale" ELSE tx[q]
    BY <1>1, <1>5
  <2>3. \A q \in Procs : ConnectionOK(q)'
    BY <1>4, <2>1, <2>2 DEF ConnectionOK
  <2>4. \A q \in Procs \ {p} : View(q)' = View(q) \/ (View(q) = db /\ View(q)' = db')
    BY <1>4, <2>1, <2>2 DEF View
  <2>5. \A q \in Procs \ {p} : \A ns \in Namespaces :
          InNamespace(View(q), ns) \subseteq InNamespace(View(q)', ns)
    <3>1. \A ns \in Namespaces : InNamespace(db, ns) \subseteq InNamespace(db', ns)
      BY <1>2, <1>3, ExtendsNamespaces DEF IInv, TypeOK
    <3> QED
      BY <2>4, <3>1
  <2>6. OneWriter' /\ Lineage'
    BY <1>3, <1>4, <2>1, <2>2 DEF OneWriter, Lineage
  <2> QED
    BY <1>2, <1>3, <2>1, <2>3, <2>5, <2>6 DEF ConnectionStep
<1>6. CASE ~wrote
  <2>1. \A q \in Procs \ {p} : tx'[q] = tx[q]
    BY <1>1, <1>6
  <2>2. db' = db
    BY <1>1, <1>6
  <2>3. \A q \in Procs : ConnectionOK(q)'
    BY <1>4, <2>1, <2>2 DEF IInv, ConnectionOK
  <2>4. \A q \in Procs \ {p} : View(q)' = View(q)
    BY <1>4, <2>1, <2>2 DEF View
  <2>5. OneWriter' /\ Lineage'
    BY <1>3, <1>4, <2>1 DEF IInv, OneWriter, Lineage
  <2> QED
    BY <1>2, <1>3, <1>4, <2>1, <2>3, <2>4, <2>5 DEF ConnectionStep
<1> QED
  BY <1>5, <1>6

-----------------------------------------------------------------------------
(* What happens to the calls. *)

\* The fields of other processes' calls on which a store depends.
OthersWait(p) ==
  \A q \in Procs \ {p} :
    /\ pc'[q] = pc[q]
    /\ call'[q].ns = call[q].ns
    /\ call'[q].text = call[q].text
    /\ call'[q].target = call[q].target

\* The invariant after a step of p, from what the step does to the connections, to p's call
\* and to nothing else.
LEMMA Compose ==
  ASSUME IInv, NEW p \in Procs, ConnectionStep(p), OthersWait(p), CallOK(p)',
         pc' \in [Procs -> Steps], call' \in [Procs -> Calls],
         clock' \in Nat, calls' \in Nat
  PROVE  IInv'
<1>1. TypeOK'
  BY DEF ConnectionStep, TypeOK
<1>2. ASSUME NEW q \in Procs \ {p}
      PROVE  CallOK(q)'
  <2>1. CallOK(q)
    BY DEF IInv
  <2>2. /\ pc'[q] = pc[q]
        /\ call'[q].ns = call[q].ns
        /\ call'[q].text = call[q].text
        /\ call'[q].target = call[q].target
    BY DEF OthersWait
  <2>3. /\ tx[q] = "write" => tx'[q] = "write" /\ view'[q] = view[q]
        /\ \A ns \in Namespaces : InNamespace(View(q), ns) \subseteq InNamespace(View(q)', ns)
    BY DEF ConnectionStep
  <2>4. pc[q] \in StoreSteps => call[q].ns \in Namespaces
    BY <2>1 DEF CallOK
  <2>5. CASE pc[q] \in {"stamp", "insert"}
    BY <2>1, <2>2, <2>3, <2>4, <2>5 DEF CallOK, StoreSteps, RowInserted
  <2>6. CASE pc[q] \in RowInserted
    BY <2>1, <2>2, <2>3, <2>6 DEF CallOK, StoreSteps, RowInserted, NewId
  <2>7. CASE pc[q] \notin {"stamp", "insert"} \cup RowInserted
    BY <2>1, <2>2, <2>7 DEF CallOK, StoreSteps, RowInserted
  <2> QED
    BY <2>5, <2>6, <2>7
<1> QED
  BY <1>1, <1>2 DEF IInv, ConnectionStep

\* A call that is outside the steps of store asks nothing of the invariant.
LEMMA Unconcerned ==
  ASSUME NEW p \in Procs, pc'[p] \notin StoreSteps
  PROVE  CallOK(p)'
BY DEF CallOK, StoreSteps, RowInserted

\* The idle call is a call.
LEMMA NoCallType == NoCall \in Calls
BY DEF NoCall, Calls, Kinds

\* The end of a call, after whatever happened to its connection.
LEMMA FinishCall ==
  ASSUME IInv, NEW p \in Procs, ConnectionStep(p), Finish(p), UNCHANGED <<clock, calls>>
  PROVE  IInv'
<1>1. pc' = [pc EXCEPT ![p] = "idle"] /\ call' = [call EXCEPT ![p] = NoCall]
  BY DEF Finish, Goto
<1>2. pc' \in [Procs -> Steps] /\ call' \in [Procs -> Calls]
  BY <1>1, NoCallType DEF IInv, TypeOK, Steps
<1>3. pc'[p] \notin StoreSteps
  BY <1>1 DEF IInv, TypeOK, StoreSteps
<1>4. OthersWait(p)
  BY <1>1 DEF IInv, TypeOK, OthersWait
<1> QED
  BY <1>2, <1>3, <1>4, Unconcerned, Compose DEF IInv, TypeOK

\* A step of p that moves on within a call of its own.
LEMMA MoveOn ==
  ASSUME IInv, NEW p \in Procs, ConnectionStep(p),
         NEW step \in Steps, pc' = [pc EXCEPT ![p] = step],
         NEW c \in Calls, call' = [call EXCEPT ![p] = c],
         (pc'[p] = step /\ call'[p] = c) => CallOK(p)',
         UNCHANGED <<clock, calls>>
  PROVE  IInv'
<1>1. pc' \in [Procs -> Steps] /\ call' \in [Procs -> Calls]
  BY DEF IInv, TypeOK
<1>2. pc'[p] = step /\ call'[p] = c
  BY DEF IInv, TypeOK
<1>3. OthersWait(p)
  BY DEF IInv, TypeOK, OthersWait
<1> QED
  BY <1>1, <1>2, <1>3, Compose DEF IInv, TypeOK

-----------------------------------------------------------------------------
(* One step per action. *)

\* The start of a call keeps the invariant.
LEMMA IInvBegin ==
  ASSUME IInv, NEW p \in Procs, NewCall(p)
  PROVE  IInv'
<1>1. ASSUME NEW kind \in Kinds, NEW step \in Steps, NEW c \in Calls,
             Begin(p, kind, step, c),
             step \in StoreSteps =>
               /\ step = "knn" /\ c.target = NULL
               /\ c.ns \in Namespaces /\ c.text \in Contents
      PROVE  IInv'
  <2> DEFINE made == [c EXCEPT !.kind = kind]
  <2>1. /\ pc' = [pc EXCEPT ![p] = step]
        /\ call' = [call EXCEPT ![p] = made]
        /\ calls' = calls + 1
        /\ UNCHANGED <<db, tx, view, clock>>
    BY <1>1 DEF Begin, Goto
  <2>2. made \in Calls /\ made.ns = c.ns /\ made.text = c.text /\ made.target = c.target
    BY DEF Calls
  <2> HIDE DEF made
  <2>3. /\ pc' \in [Procs -> Steps] /\ call' \in [Procs -> Calls]
        /\ clock' \in Nat /\ calls' \in Nat
    BY <2>1, <2>2 DEF IInv, TypeOK
  <2>4. pc'[p] = step /\ call'[p] = made
    BY <2>1 DEF IInv, TypeOK
  <2>5. OthersWait(p)
    BY <2>1 DEF IInv, TypeOK, OthersWait
  <2>6. CallOK(p)'
    BY <1>1, <2>2, <2>4 DEF CallOK, RowInserted, StoreSteps
  <2>7. ConnectionStep(p)
    BY <2>1, IdleConnections
  <2> QED
    BY <2>3, <2>5, <2>6, <2>7, Compose
<1>2. ASSUME NEW ns \in Namespaces, NEW c \in Contents, NEW ttl \in Ttls,
             StoreCall(p, ns, c, ttl)
      PROVE  IInv'
  <2> DEFINE made == [NoCall EXCEPT !.ns = ns, !.text = c, !.ttl = ttl]
  <2>1. made \in Calls /\ made.ns = ns /\ made.text = c /\ made.target = NULL
    BY KausaMemoryAssumptions DEF NoCall, Calls, Kinds
  <2> HIDE DEF made
  <2>2. Begin(p, "store", "knn", made)
    BY <1>2 DEF StoreCall, made
  <2> QED
    BY <1>1, <2>1, <2>2 DEF Kinds, Steps
<1>3. ASSUME NEW ns \in Namespaces, NEW q \in Contents, SearchCall(p, ns, q)
      PROVE  IInv'
  <2> DEFINE made == [NoCall EXCEPT !.ns = ns, !.text = q, !.seen = Active(db, ns)]
  <2>1. Active(db, ns) \in SUBSET Ids
    BY EveryRow DEF IInv, TypeOK, Active, InNamespace
  <2>2. made \in Calls
    BY <2>1 DEF NoCall, Calls, Kinds
  <2> HIDE DEF made
  <2>3. Begin(p, "search", "vknn", made)
    BY <1>3 DEF SearchCall, made
  <2> QED
    BY <1>1, <2>2, <2>3 DEF Kinds, Steps, StoreSteps
<1>4. ASSUME NEW ns \in Namespaces, ForgetCall(p, ns)
      PROVE  IInv'
  <2> DEFINE made == [NoCall EXCEPT !.ns = ns, !.now = clock]
  <2>1. made \in Calls
    BY DEF IInv, TypeOK, NoCall, Calls, Kinds
  <2> HIDE DEF made
  <2>2. Begin(p, "forget", "scan", made)
    BY <1>4 DEF ForgetCall, made
  <2> QED
    BY <1>1, <2>1, <2>2 DEF Kinds, Steps, StoreSteps
<1>5. ASSUME NEW ns \in Namespaces, StatsCall(p, ns)
      PROVE  IInv'
  <2> DEFINE made == [NoCall EXCEPT !.ns = ns]
  <2>1. made \in Calls
    BY DEF NoCall, Calls, Kinds
  <2> HIDE DEF made
  <2>2. Begin(p, "stats", "active", made)
    BY <1>5 DEF StatsCall, made
  <2> QED
    BY <1>1, <2>1, <2>2 DEF Kinds, Steps, StoreSteps
<1>6. ASSUME PushCall(p)
      PROVE  IInv'
  BY <1>1, <1>6, NoCallType DEF PushCall, Kinds, Steps, StoreSteps
<1> QED
  BY <1>2, <1>3, <1>4, <1>5, <1>6 DEF NewCall

\* store, up to its first write: the neighbor is a row p has seen.
LEMMA IInvNeighbor ==
  ASSUME IInv, NEW p \in Procs, StoreKnn(p) \/ StoreRow(p) \/ StoreStamp(p)
  PROVE  IInv'
<1>1. /\ call[p] \in Calls /\ call \in [Procs -> Calls] /\ clock \in Nat
      /\ CallOK(p) /\ View(p) \in Database
  BY ViewType DEF IInv, TypeOK
<1>2. ASSUME StoreKnn(p), Goto(p, "stamp"), UNCHANGED call
      PROVE  IInv'
  <2>1. ConnectionStep(p) /\ View(p)' = View(p) /\ pc[p] = "knn"
    BY <1>2, SelectConnections DEF StoreKnn
  <2>2. call' = [call EXCEPT ![p] = call[p]]
    BY <1>1, <1>2
  <2>3. pc'[p] = "stamp" => CallOK(p)'
    BY <1>1, <1>2, <2>1 DEF CallOK, StoreSteps, RowInserted
  <2> QED
    BY <1>1, <1>2, <2>1, <2>2, <2>3, MoveOn DEF Goto, Steps, StoreKnn
<1>3. ASSUME StoreKnn(p), NEW id \in Nearest(View(p), call[p].text),
             Goto(p, "row"), call' = [call EXCEPT ![p].target = id]
      PROVE  IInv'
  <2> DEFINE c == [call[p] EXCEPT !.target = id]
  <2>1. ConnectionStep(p) /\ pc[p] = "knn"
    BY <1>3, SelectConnections DEF StoreKnn
  <2>2. id \in Ids
    BY <1>1 DEF Nearest, Database
  <2>3. c \in Calls /\ c.ns = call[p].ns /\ c.text = call[p].text
    BY <1>1, <2>2 DEF Calls
  <2>4. call' = [call EXCEPT ![p] = c]
    BY <1>3
  <2> HIDE DEF c
  <2>5. (pc'[p] = "row" /\ call'[p] = c) => CallOK(p)'
    BY <1>1, <2>1, <2>3 DEF CallOK, StoreSteps, RowInserted
  <2> QED
    BY <1>3, <2>1, <2>3, <2>4, <2>5, MoveOn DEF Goto, Steps, StoreKnn
<1>4. ASSUME StoreRow(p)
      PROVE  IInv'
  <2> DEFINE hit == Superseded(View(p), call[p].target, call[p].ns, call[p].text)
             c == [call[p] EXCEPT !.target = hit]
  <2>1. ConnectionStep(p) /\ View(p)' = View(p) /\ pc[p] = "row"
    BY <1>4, SelectConnections DEF StoreRow
  <2>2. hit \in InNamespace(View(p), call[p].ns) \cup {NULL}
    BY DEF Superseded, IsNeighbor, Active
  <2>3. hit \in Ids \cup {NULL}
    BY <1>1, <2>2, EveryRow DEF InNamespace
  <2> HIDE DEF hit
  <2>4. c \in Calls /\ c.ns = call[p].ns /\ c.text = call[p].text /\ c.target = hit
    BY <1>1, <2>3 DEF Calls
  <2>5. call' = [call EXCEPT ![p] = c]
    BY <1>4 DEF StoreRow, hit
  <2> HIDE DEF c
  <2>6. (pc'[p] = "stamp" /\ call'[p] = c) => CallOK(p)'
    BY <1>1, <2>1, <2>2, <2>4 DEF CallOK, StoreSteps, RowInserted
  <2> QED
    BY <1>4, <2>1, <2>4, <2>5, <2>6, MoveOn DEF Goto, Steps, StoreRow
<1>5. ASSUME StoreStamp(p)
      PROVE  IInv'
  <2> DEFINE c == [call[p] EXCEPT !.now = clock]
  <2>1. ConnectionStep(p) /\ View(p)' = View(p) /\ pc[p] = "stamp"
    BY <1>5, IdleConnections DEF StoreStamp
  <2>2. c \in Calls /\ c.ns = call[p].ns /\ c.text = call[p].text
                    /\ c.target = call[p].target
    BY <1>1 DEF Calls
  <2>3. call' = [call EXCEPT ![p] = c]
    BY <1>5 DEF StoreStamp
  <2> HIDE DEF c
  <2>4. (pc'[p] = "insert" /\ call'[p] = c) => CallOK(p)'
    BY <1>1, <2>1, <2>2 DEF CallOK, StoreSteps, RowInserted
  <2> QED
    BY <1>5, <2>1, <2>2, <2>3, <2>4, MoveOn DEF Goto, Steps, StoreStamp
<1>6. CASE StoreKnn(p)
  <2>1. \/ Goto(p, "stamp") /\ UNCHANGED call
        \/ \E id \in Nearest(View(p), call[p].text) :
             Goto(p, "row") /\ call' = [call EXCEPT ![p].target = id]
    BY <1>6 DEF StoreKnn
  <2> QED
    BY <1>2, <1>3, <1>6, <2>1
<1> QED
  BY <1>4, <1>5, <1>6

\* store, from its INSERT on.
LEMMA IInvStore ==
  ASSUME IInv, NEW p \in Procs,
         StoreInsert(p) \/ StoreVector(p) \/ StoreEntities(p) \/ StoreSupersede(p)
           \/ StoreUnvector(p)
  PROVE  IInv'
<1>1. /\ call[p] \in Calls /\ call' = [call EXCEPT ![p] = call[p]]
      /\ CallOK(p) /\ UNCHANGED <<db, call, clock, calls>>
  BY DEF IInv, TypeOK, StoreInsert, StoreVector, StoreEntities, StoreSupersede, StoreUnvector
<1>2. call[p].ns \in Namespaces /\ call[p].text \in Contents
  BY <1>1 DEF CallOK, StoreSteps, StoreInsert, StoreVector, StoreEntities, StoreSupersede,
              StoreUnvector
<1>3. /\ call[p].now \in Nat /\ call[p].ttl \in Int \cup {NULL}
      /\ call[p].target \in Ids \cup {NULL}
  BY <1>1 DEF Calls
<1>4. CASE StoreInsert(p)
  <2> DEFINE e == InsertEpisode(View(p), call[p].ns, call[p].text, call[p].now, call[p].ttl)
  <2>1. pc[p] = "insert" /\ Write(p, e) /\ pc' = [pc EXCEPT ![p] = "vector"]
    BY <1>4 DEF StoreInsert, Goto
  <2>2. View(p) \in Database
    BY ViewType DEF IInv
  <2>3. /\ e \in Database
        /\ Extends(View(p), e)
        /\ SupersededByNewer(View(p)) => SupersededByNewer(e)
        /\ Len(e.episodes) \in InNamespace(e, call[p].ns)
        /\ InNamespace(View(p), call[p].ns)
             \subseteq InNamespace(e, call[p].ns) \ {Len(e.episodes)}
    BY <1>2, <1>3, <2>2, InsertLemma
  <2> HIDE DEF e
  <2>4. ConnectionStep(p) /\ tx'[p] = "write" /\ view'[p] = e
    BY <1>1, <2>1, <2>3, WriteConnections
  <2>5. call[p].target \in InNamespace(View(p), call[p].ns) \cup {NULL}
    BY <1>1, <2>1 DEF CallOK
  <2>6. pc'[p] = "vector" => CallOK(p)'
    BY <1>1, <1>2, <2>3, <2>4, <2>5 DEF CallOK, StoreSteps, RowInserted, NewId
  <2> QED
    BY <1>1, <2>1, <2>4, <2>6, MoveOn DEF Steps
<1>5. ASSUME pc[p] \in RowInserted
      PROVE  /\ tx[p] = "write" /\ view[p] \in Database /\ View(p) = view[p]
             /\ NewId(p) \in InNamespace(view[p], call[p].ns) /\ NewId(p) \in Ids
             /\ call[p].target \in
                  (InNamespace(view[p], call[p].ns) \ {NewId(p)}) \cup {NULL}
  <2>1. view[p] \in Database
    BY DEF IInv, TypeOK
  <2>2. /\ tx[p] = "write"
        /\ NewId(p) \in InNamespace(view[p], call[p].ns)
        /\ call[p].target \in (InNamespace(view[p], call[p].ns) \ {NewId(p)}) \cup {NULL}
    BY <1>1, <1>5 DEF CallOK
  <2>3. NewId(p) \in Ids
    BY <2>1, <2>2, EveryRow DEF InNamespace
  <2> QED
    BY <2>1, <2>2, <2>3 DEF View
\* A statement on the indexes alone, on the way to a later step.
<1>6. ASSUME pc[p] \in RowInserted, NEW e \in Database, e.episodes = view[p].episodes,
             Write(p, e), NEW step \in {"entities", "supersede", "commit"},
             pc' = [pc EXCEPT ![p] = step],
             step = "supersede" => call[p].target # NULL
      PROVE  IInv'
  <2>1. Extends(view[p], view[p])
    BY <1>5, <1>6, ExtendsReflexive
  <2>2. /\ Extends(view[p], e)
        /\ SupersededByNewer(view[p]) => SupersededByNewer(e)
        /\ \A ns \in Namespaces : InNamespace(e, ns) = InNamespace(view[p], ns)
    BY <1>6, <2>1, SameRows
  <2>3. ConnectionStep(p) /\ tx'[p] = "write" /\ view'[p] = e
    BY <1>1, <1>5, <1>6, <2>2, WriteConnections
  <2>4. NewId(p)' = NewId(p)
    BY <1>6, <2>3 DEF NewId
  <2>5. pc'[p] = step => CallOK(p)'
    BY <1>1, <1>2, <1>5, <1>6, <2>2, <2>3, <2>4 DEF CallOK, StoreSteps, RowInserted
  <2> QED
    BY <1>1, <1>6, <2>3, <2>5, MoveOn DEF Steps
<1>7. CASE StoreVector(p)
  <2>1. /\ pc[p] \in RowInserted
        /\ Write(p, AddVector(view[p], NewId(p)))
        /\ pc' = [pc EXCEPT ![p] = "entities"]
    BY <1>7 DEF StoreVector, RowInserted, Goto
  <2> QED
    BY <1>2, <1>5, <1>6, <2>1, IndexLemma
<1>8. CASE StoreEntities(p)
  <2> DEFINE step == IF call[p].target = NULL THEN "commit" ELSE "supersede"
  <2>1. /\ pc[p] \in RowInserted
        /\ Write(p, IndexEntities(view[p], NewId(p), call[p].text, call[p].ns))
        /\ pc' = [pc EXCEPT ![p] = step]
    BY <1>8 DEF StoreEntities, RowInserted, Goto
  <2>2. step \in {"entities", "supersede", "commit"}
        /\ (step = "supersede" => call[p].target # NULL)
    OBVIOUS
  <2> HIDE DEF step
  <2> QED
    BY <1>2, <1>5, <1>6, <2>1, <2>2, IndexLemma
<1>9. CASE StoreUnvector(p)
  <2>1. /\ pc[p] \in RowInserted
        /\ Write(p, RemoveVector(view[p], call[p].target))
        /\ pc' = [pc EXCEPT ![p] = "commit"]
    BY <1>9 DEF StoreUnvector, RowInserted, Goto
  <2>2. /\ RemoveVector(view[p], call[p].target) \in Database
        /\ RemoveVector(view[p], call[p].target).episodes = view[p].episodes
    BY <1>5, <2>1 DEF RemoveVector, Database
  <2> QED
    BY <1>6, <2>1, <2>2
<1>10. CASE StoreSupersede(p)
  <2> DEFINE e == SupersedeEpisode(view[p], call[p].target, call[p].now, NewId(p))
  <2>1. /\ pc[p] = "supersede" /\ pc[p] \in RowInserted
        /\ Write(p, e)
        /\ pc' = [pc EXCEPT ![p] = "unvector"]
    BY <1>10 DEF StoreSupersede, RowInserted, Goto
  <2>2. call[p].target \in InNamespace(view[p], call[p].ns) \ {NewId(p)}
    BY <1>1, <1>5, <2>1 DEF CallOK
  <2>3. call[p].target < NewId(p)
    BY <1>5, <2>1, <2>2, EveryRow DEF InNamespace, NewId
  <2>4. /\ e \in Database
        /\ Len(e.episodes) = Len(view[p].episodes)
        /\ Extends(view[p], e)
        /\ SupersededByNewer(view[p]) => SupersededByNewer(e)
        /\ InNamespace(e, call[p].ns) = InNamespace(view[p], call[p].ns)
    BY <1>2, <1>3, <1>5, <2>1, <2>2, <2>3, SupersedeLemma
  <2> HIDE DEF e
  <2>5. ConnectionStep(p) /\ tx'[p] = "write" /\ view'[p] = e
    BY <1>1, <1>5, <2>1, <2>4, WriteConnections
  <2>6. NewId(p)' = NewId(p)
    BY <2>4, <2>5 DEF NewId
  <2>7. pc'[p] = "unvector" => CallOK(p)'
    BY <1>1, <1>2, <1>5, <2>1, <2>2, <2>4, <2>5, <2>6 DEF CallOK, StoreSteps, RowInserted
  <2> QED
    BY <1>1, <2>1, <2>5, <2>7, MoveOn DEF Steps
<1> QED
  BY <1>4, <1>7, <1>8, <1>9, <1>10

\* The reading steps of forget_expired, search and stats: they only collect ids.
LEMMA IInvRead ==
  ASSUME IInv, NEW p \in Procs, Select(p), UNCHANGED <<db, clock, calls>>,
         NEW ids \in SUBSET Ids, call' = [call EXCEPT ![p].ids = ids],
         NEW step \in Steps \ StoreSteps, Goto(p, step)
  PROVE  IInv'
<1> DEFINE c == [call[p] EXCEPT !.ids = ids]
<1>1. call \in [Procs -> Calls] /\ call[p] \in Calls
  BY DEF IInv, TypeOK
<1>2. c \in Calls /\ call' = [call EXCEPT ![p] = c]
  BY <1>1 DEF Calls
<1>3. pc' = [pc EXCEPT ![p] = step] /\ pc'[p] = step
  BY DEF IInv, TypeOK, Goto
<1>4. CallOK(p)'
  BY <1>3, Unconcerned
<1> HIDE DEF c
<1> QED
  BY <1>2, <1>3, <1>4, SelectConnections, MoveOn

\* Every step of forget_expired keeps the invariant.
LEMMA IInvForget ==
  ASSUME IInv, NEW p \in Procs, ForgetStep(p)
  PROVE  IInv'
<1>1. /\ call \in [Procs -> Calls] /\ call[p] \in Calls /\ View(p) \in Database
  BY ViewType DEF IInv, TypeOK
<1>2. CASE ForgetScan(p)
  <2> DEFINE due == Expired(View(p), call[p].ns, call[p].now)
             step == IF due = {} THEN "commit" ELSE "expire"
  <2>1. due \in SUBSET Ids
    BY <1>1, EveryRow DEF Expired, Active, InNamespace
  <2>2. /\ Select(p) /\ UNCHANGED <<db, clock, calls>>
        /\ call' = [call EXCEPT ![p].ids = due]
        /\ Goto(p, step)
    BY <1>2 DEF ForgetScan
  <2>3. step \in Steps \ StoreSteps
    BY DEF Steps, StoreSteps
  <2> HIDE DEF due, step
  <2> QED
    BY <2>1, <2>2, <2>3, IInvRead
<1>3. CASE ForgetExpire(p)
  <2>1. PICK id \in call[p].ids :
          /\ Write(p, ExpireEpisode(View(p), id, call[p].now))
          /\ call' = [call EXCEPT ![p].target = id, ![p].ids = @ \ {id}]
          /\ pc' = [pc EXCEPT ![p] = "forget"]
          /\ UNCHANGED <<db, clock, calls>>
    BY <1>3 DEF ForgetExpire, Goto
  <2> DEFINE e == ExpireEpisode(View(p), id, call[p].now)
             c == [call[p] EXCEPT !.target = id, !.ids = @ \ {id}]
  <2>2. id \in Ids /\ call[p].now \in Nat
    BY <1>1 DEF Calls
  <2>3. c \in Calls /\ call' = [call EXCEPT ![p] = c]
    BY <1>1, <2>1, <2>2 DEF Calls
  <2>4. /\ e \in Database
        /\ Extends(View(p), e)
        /\ SupersededByNewer(View(p)) => SupersededByNewer(e)
    BY <1>1, <2>2, ExpireLemma
  <2> HIDE DEF e, c
  <2>5. ConnectionStep(p)
    BY <2>1, <2>4, WriteConnections DEF e
  <2>6. pc'[p] = "forget" => CallOK(p)'
    BY Unconcerned DEF StoreSteps
  <2> QED
    BY <2>1, <2>3, <2>5, <2>6, MoveOn DEF Steps
<1>4. CASE ForgetVector(p)
  <2> DEFINE e == RemoveVector(View(p), call[p].target)
             step == IF call[p].ids = {} THEN "commit" ELSE "expire"
  <2>1. /\ Write(p, e) /\ pc' = [pc EXCEPT ![p] = step]
        /\ UNCHANGED <<db, call, clock, calls>>
    BY <1>4 DEF ForgetVector, Goto
  <2>2. e \in Database /\ e.episodes = View(p).episodes
    BY <1>1 DEF RemoveVector, Database
  <2>3. step \in Steps /\ step \notin StoreSteps
    BY DEF Steps, StoreSteps
  <2> HIDE DEF e, step
  <2>4. Extends(View(p), e) /\ (SupersededByNewer(View(p)) => SupersededByNewer(e))
    BY <1>1, <2>2, ExtendsReflexive, SameRows
  <2>5. ConnectionStep(p)
    BY <2>1, <2>2, <2>4, WriteConnections
  <2>6. pc'[p] = step => CallOK(p)'
    BY <2>3, Unconcerned
  <2>7. call' = [call EXCEPT ![p] = call[p]]
    BY <1>1, <2>1
  <2> QED
    BY <1>1, <2>1, <2>3, <2>5, <2>6, <2>7, MoveOn
<1> QED
  BY <1>2, <1>3, <1>4 DEF ForgetStep

\* Every step of search keeps the invariant.
LEMMA IInvSearch ==
  ASSUME IInv, NEW p \in Procs, SearchStep(p)
  PROVE  IInv'
<1>1. /\ call \in [Procs -> Calls] /\ call[p] \in Calls /\ View(p) \in Database
      /\ call[p].ids \in SUBSET Ids
  BY ViewType DEF IInv, TypeOK, Calls
<1>2. Active(View(p), call[p].ns) \in SUBSET Ids
  BY <1>1, EveryRow DEF Active, InNamespace
<1>3. CASE SearchKnn(p)
  <2>1. View(p).vectors \in SUBSET Ids
    BY <1>1 DEF Database
  <2> QED
    BY <1>3, <2>1, IInvRead DEF SearchKnn, Steps, StoreSteps
<1>4. CASE SearchFilter(p)
  <2> DEFINE ids == call[p].ids \cap Active(View(p), call[p].ns)
  <2>1. ids \in SUBSET Ids
    BY <1>2
  <2>2. call' = [call EXCEPT ![p].ids = ids]
    BY <1>4 DEF SearchFilter
  <2> HIDE DEF ids
  <2> QED
    BY <1>4, <2>1, <2>2, IInvRead DEF SearchFilter, Steps, StoreSteps
<1>5. ASSUME NEW from, NEW hits \in SUBSET Ids, NEW to \in Steps \ StoreSteps,
             Gather(p, from, hits, to)
      PROVE  IInv'
  <2> DEFINE ids == call[p].ids \cup hits
  <2>1. ids \in SUBSET Ids
    BY <1>1
  <2>2. call' = [call EXCEPT ![p].ids = ids]
    BY <1>5 DEF Gather
  <2> HIDE DEF ids
  <2> QED
    BY <1>5, <2>1, <2>2, IInvRead DEF Gather
<1>6. CASE SearchKeyword(p)
  <2>1. KeywordHits(View(p), call[p].text, call[p].ns) \in SUBSET Ids
    BY <1>2 DEF KeywordHits
  <2> QED
    BY <1>5, <1>6, <2>1 DEF SearchKeyword, Steps, StoreSteps
<1>7. CASE SearchGraph(p)
  <2>1. GraphHits(View(p), call[p].text, call[p].ns) \in SUBSET Ids
    BY <1>1, EveryRow DEF GraphHits
  <2> QED
    BY <1>5, <1>7, <2>1 DEF SearchGraph, Steps, StoreSteps
<1>8. CASE SearchFuse(p)
  <2> DEFINE hits == call[p].ids \cup Active(View(p), call[p].ns)
  <2>1. Select(p) /\ UNCHANGED <<db, clock, calls>>
    BY <1>8 DEF SearchFuse
  <2>2. CASE Finish(p)
    BY <2>1, <2>2, SelectConnections, FinishCall
  <2>3. ASSUME NEW ranked \in SUBSET hits,
               call' = [call EXCEPT ![p].ids = ranked], Goto(p, "touch")
        PROVE  IInv'
    <3>1. ranked \in SUBSET Ids
      BY <1>1, <1>2
    <3> QED
      BY <2>1, <2>3, <3>1, IInvRead DEF Steps, StoreSteps
  <2> QED
    BY <1>8, <2>2, <2>3 DEF SearchFuse
<1>9. CASE SearchTouch(p)
  <2> DEFINE e == TouchEpisodes(View(p), call[p].ids)
  <2>1. /\ Write(p, e) /\ pc' = [pc EXCEPT ![p] = "commit"]
        /\ UNCHANGED <<db, call, clock, calls>>
    BY <1>9 DEF SearchTouch, Goto
  <2>2. /\ e \in Database
        /\ Extends(View(p), e)
        /\ SupersededByNewer(View(p)) => SupersededByNewer(e)
    BY <1>1, TouchLemma
  <2> HIDE DEF e
  <2>3. ConnectionStep(p)
    BY <2>1, <2>2, WriteConnections
  <2>4. pc'[p] = "commit" => CallOK(p)'
    BY Unconcerned DEF StoreSteps
  <2>5. call' = [call EXCEPT ![p] = call[p]]
    BY <1>1, <2>1
  <2> QED
    BY <1>1, <2>1, <2>3, <2>4, <2>5, MoveOn DEF Steps
<1> QED
  BY <1>3, <1>4, <1>6, <1>7, <1>8, <1>9 DEF SearchStep

\* The ends of calls, good and bad; stats and push.
LEMMA IInvEnd ==
  ASSUME IInv, NEW p \in Procs,
         StatsActive(p) \/ StatsTotal(p) \/ PushDump(p) \/ WriteRefused(p)
           \/ BindFails(p) \/ Aborts(p) \/ Crash(p)
  PROVE  IInv'
<1>1. CASE StatsActive(p)
  <2>1. Active(View(p), call[p].ns) \in SUBSET Ids
    BY ViewType, EveryRow DEF IInv, Active, InNamespace
  <2> QED
    BY <1>1, <2>1, IInvRead DEF StatsActive, Steps, StoreSteps
<1>2. CASE StatsTotal(p)
  BY <1>2, SelectConnections, FinishCall DEF StatsTotal
<1>3. CASE PushDump(p)
  BY <1>3, IdleConnections, FinishCall DEF PushDump
<1>4. CASE WriteRefused(p) \/ BindFails(p)
  BY <1>4, BeginConnections, FinishCall DEF WriteRefused, BindFails
<1>5. CASE Aborts(p)
  <2>1. CASE UNCHANGED <<tx, view>>
    BY <1>5, <2>1, IdleConnections, FinishCall DEF Aborts
  <2>2. CASE tx' = [tx EXCEPT ![p] = "none"] /\ view' = [view EXCEPT ![p] = EmptyDatabase]
    BY <1>5, <2>2, RollbackConnections, FinishCall DEF Aborts
  <2> QED
    BY <1>5, <2>1, <2>2 DEF Aborts
<1>6. CASE Crash(p)
  BY <1>6, RollbackConnections, FinishCall DEF Crash
<1> QED
  BY <1>1, <1>2, <1>3, <1>4, <1>5, <1>6

\* A commit publishes what its connection wrote and keeps the invariant.
LEMMA IInvCommit ==
  ASSUME IInv, NEW p \in Procs, Commit(p)
  PROVE  IInv'
<1>1. ConnectionStep(p)
  BY CommitConnections
<1>2. /\ call \in [Procs -> Calls] /\ pc' = [pc EXCEPT ![p] = "idle"]
      /\ call' = Witness(p, db') /\ UNCHANGED <<clock, calls>> /\ db' \in Database
  BY <1>1 DEF IInv, TypeOK, Commit, Goto, ConnectionStep
<1>3. ASSUME NEW q \in Procs \ {p}
      PROVE  /\ call'[q] \in Calls
             /\ call'[q].ns = call[q].ns
             /\ call'[q].text = call[q].text
             /\ call'[q].target = call[q].target
  <2>1. Active(db', call[q].ns) \in SUBSET Ids
    BY <1>2, EveryRow DEF Active, InNamespace
  <2>2. call'[q] = call[q] \/ call'[q] = [call[q] EXCEPT !.seen = @ \cup Active(db', call[q].ns)]
    BY <1>2 DEF Witness
  <2>3. call[q] \in Calls
    BY <1>2
  <2> QED
    BY <2>1, <2>2, <2>3 DEF Calls
<1>4. call' \in [Procs -> Calls]
  BY <1>2, <1>3, NoCallType DEF Witness
<1>5. pc' \in [Procs -> Steps] /\ pc'[p] \notin StoreSteps
  BY <1>2 DEF IInv, TypeOK, Steps, StoreSteps
<1>6. OthersWait(p)
  BY <1>2, <1>3 DEF IInv, TypeOK, OthersWait
<1> QED
  BY <1>1, <1>2, <1>4, <1>5, <1>6, Unconcerned, Compose DEF IInv, TypeOK

-----------------------------------------------------------------------------
(* The theorems. *)

\* The invariant holds of an empty file.
LEMMA IInvInit == Init => IInv
<1> SUFFICES ASSUME Init PROVE IInv
  OBVIOUS
<1>1. TypeOK
  BY EmptyType, NoCallType DEF Init, TypeOK, TxStates, Steps
<1>2. OneWriter /\ Lineage
  BY DEF Init, OneWriter, Lineage, SupersededByNewer, EmptyDatabase
<1>3. \A p \in Procs : ConnectionOK(p) /\ CallOK(p)
  BY DEF Init, ConnectionOK, CallOK, StoreSteps, RowInserted
<1> QED
  BY <1>1, <1>2, <1>3 DEF IInv

\* Every step of every process keeps the invariant.
LEMMA IInvNext == IInv /\ [Next]_vars => IInv'
<1> SUFFICES ASSUME IInv, [Next]_vars PROVE IInv'
  OBVIOUS
<1>1. ASSUME NEW p \in Procs, Step(p)
      PROVE  IInv'
  BY <1>1, IInvNeighbor, IInvStore, IInvForget, IInvSearch, IInvEnd, IInvCommit
     DEF Step, StoreStep
<1>2. ASSUME NEW p \in Procs, NewCall(p) \/ BindFails(p) \/ Aborts(p) \/ Crash(p)
      PROVE  IInv'
  BY <1>2, IInvBegin, IInvEnd
<1>3. CASE Tick
  BY <1>3 DEF Tick, IInv, TypeOK, OneWriter, Lineage, ConnectionOK, CallOK, View, NewId
<1>4. CASE UNCHANGED vars
  BY <1>4 DEF vars, IInv, TypeOK, OneWriter, Lineage, ConnectionOK, CallOK, View, NewId
<1> QED
  BY <1>1, <1>2, <1>3, <1>4 DEF Next

\* The invariant holds throughout.
LEMMA IInvAlways == Spec => []IInv
BY IInvInit, IInvNext, PTL DEF Spec

\* The tables, the connections and the calls always have their types.
THEOREM TypeCorrect == Spec => []TypeOK
BY IInvAlways, PTL DEF IInv

\* However the statements of concurrent stores, sweeps and searches interleave, and wherever
\* they fail or die, superseded_by leads to a later row of the same namespace.
THEOREM LineageHolds == Spec => []Lineage
BY IInvAlways, PTL DEF IInv

\* A step changes the committed database only by extending it.
LEMMA StepExtends == IInv /\ [Next]_vars => [Extends(db, db')]_db
<1> SUFFICES ASSUME IInv, Next, db' # db PROVE Extends(db, db')
  BY DEF vars
<1>1. ASSUME NEW p \in Procs, Commit(p)
      PROVE  Extends(db, db')
  BY <1>1, CommitConnections
<1>2. ASSUME NEW p \in Procs, Step(p)
      PROVE  Commit(p)
  BY <1>2 DEF Step, StoreStep, ForgetStep, SearchStep, StoreKnn, StoreRow, StoreStamp,
    StoreInsert, StoreVector, StoreEntities, StoreSupersede, StoreUnvector, ForgetScan,
    ForgetExpire, ForgetVector, SearchKnn, SearchFilter, SearchKeyword, SearchGraph, Gather,
    SearchFuse, SearchTouch, StatsActive, StatsTotal, PushDump, WriteRefused
<1>3. ~ \E p \in Procs : NewCall(p) \/ BindFails(p) \/ Aborts(p) \/ Crash(p)
  BY DEF NewCall, StoreCall, SearchCall, ForgetCall, StatsCall, PushCall, Begin, BindFails,
    Aborts, Crash
<1>4. ~ Tick
  BY DEF Tick
<1> QED
  BY <1>1, <1>2, <1>3, <1>4 DEF Next

\* No commit rewrites or loses what an earlier one published: the writer that commits has
\* seen the last commit, since SQLite refuses a write on an older snapshot.
THEOREM HistoryHolds == Spec => HistoryPreserved
BY IInvAlways, StepExtends, PTL DEF Spec, HistoryPreserved

-----------------------------------------------------------------------------
(* Connections between their calls. *)

\* A connection is in autocommit mode or has the write lock: no SELECT opens a transaction,
\* and BEGIN stays alone only before a write that is refused.
Autocommit == tx \in [Procs -> {"none", "write"}]

\* Only the refusal of a write leaves a BEGIN behind.
LEMMA AutocommitNext ==
  ASSUME Failures \subseteq {"abort"}, Autocommit, [Next]_vars
  PROVE  Autocommit'
<1>1. ASSUME NEW p \in Procs, Select(p)
      PROVE  Autocommit'
  BY <1>1 DEF Select, Autocommit
<1>2. ASSUME NEW p \in Procs, NEW d, Write(p, d)
      PROVE  Autocommit'
  BY <1>2 DEF Write, Autocommit
<1>3. ASSUME NEW p \in Procs, NewCall(p)
      PROVE  Autocommit'
  BY <1>3 DEF NewCall, StoreCall, SearchCall, ForgetCall, StatsCall, PushCall, Begin, Autocommit
<1>4. ASSUME NEW p \in Procs, StoreStep(p)
      PROVE  Autocommit'
  BY <1>1, <1>2, <1>4 DEF StoreStep, StoreKnn, StoreRow, StoreStamp, StoreInsert, StoreVector,
     StoreEntities, StoreSupersede, StoreUnvector, Autocommit
<1>5. ASSUME NEW p \in Procs, ForgetStep(p) \/ SearchStep(p)
      PROVE  Autocommit'
  BY <1>1, <1>2, <1>5 DEF ForgetStep, ForgetScan, ForgetExpire, ForgetVector, SearchStep,
     SearchKnn, SearchFilter, SearchKeyword, SearchGraph, Gather, SearchFuse, SearchTouch
<1>6. ASSUME NEW p \in Procs, StatsActive(p) \/ StatsTotal(p) \/ PushDump(p)
      PROVE  Autocommit'
  BY <1>1, <1>6 DEF StatsActive, StatsTotal, PushDump, Autocommit
<1>7. ASSUME NEW p \in Procs, Commit(p)
      PROVE  Autocommit'
  BY <1>7 DEF Commit, Autocommit
<1>8. ASSUME NEW p \in Procs, WriteRefused(p) \/ BindFails(p)
      PROVE  FALSE
  <2>1. tx[p] # "stale" /\ "locked" \notin Failures /\ "bind" \notin Failures
    BY DEF Autocommit
  <2> QED
    BY <1>8, <2>1 DEF WriteRefused, BindFails
<1>9. ASSUME NEW p \in Procs, Aborts(p) \/ Crash(p)
      PROVE  Autocommit'
  BY <1>9 DEF Aborts, Crash, Autocommit
<1>10. ASSUME Tick \/ UNCHANGED vars
       PROVE  Autocommit'
  BY <1>10 DEF Tick, vars, Autocommit
<1> QED
  BY <1>3, <1>4, <1>5, <1>6, <1>7, <1>8, <1>9, <1>10 DEF Next, Step

\* Unless a parameter cannot be bound or a lock is waited for in vain, no connection is ever
\* left behind in an outdated snapshot, whatever other exceptions and deaths there are.
THEOREM SnapshotsStayCurrent ==
  ASSUME Failures \subseteq {"abort"}
  PROVE  Spec => []SnapshotsCurrent
<1>1. Init => Autocommit
  BY DEF Init, Autocommit
<1>2. Autocommit /\ [Next]_vars => Autocommit'
  BY AutocommitNext
<1>3. Autocommit => SnapshotsCurrent
  BY DEF Autocommit, SnapshotsCurrent
<1> QED
  BY <1>1, <1>2, <1>3, PTL DEF Spec

=============================================================================
