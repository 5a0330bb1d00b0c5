----------------------------- MODULE KausaMemory ----------------------------
(***************************************************************************)
(* Processes that work on one database file: MCP servers, consoles and     *)
(* Python programs, each with one KausaMemory object and so one SQLite     *)
(* connection.  A call runs statement by statement; another process may    *)
(* act between any two of them.                                            *)
(*                                                                         *)
(* A connection is in autocommit mode until Python's sqlite3 module issues *)
(* BEGIN before the first writing statement, and leaves the transaction    *)
(* only by commit(): the engine never calls rollback().  A call that       *)
(* raises therefore leaves its transaction open for the next call.         *)
(***************************************************************************)
EXTENDS MemoryDb

CONSTANTS
  Procs,        \* the processes
  Roles,        \* Roles[p]: the kinds of call process p makes
  Ttls,         \* the ttl_seconds a caller may pass
  Failures,     \* which failures a run considers, see FailureKinds
  MaxCalls,     \* bound: the calls made by all processes together
  MaxClock      \* bound: the largest reading of the clock

Kinds == {"store", "search", "forget", "stats", "push"}

\* "bind":   a parameter SQLite cannot bind (a role that is a list, a lone surrogate)
\* "locked": the 5 s busy timeout runs out while another process holds the write lock
\* "abort":  an exception between two statements of a write transaction
FailureKinds == {"bind", "locked", "abort"}

ASSUME KausaMemoryAssumptions ==
  /\ Roles \in [Procs -> SUBSET Kinds]
  /\ Ttls \subseteq Int \cup {NULL}
  /\ Failures \subseteq FailureKinds
  /\ MaxCalls \in Nat
  /\ MaxClock \in Nat

VARIABLES
  db,       \* the committed database
  tx,       \* tx[p]: the transaction of p's connection
  view,     \* view[p]: the database p's connection sees inside its transaction
  pc,       \* pc[p]: the next statement of p's call
  call,     \* call[p]: the arguments and local variables of p's call
  clock,    \* time.time()
  calls     \* the calls made so far

vars == <<db, tx, view, pc, call, clock, calls>>

\* "begun": BEGIN was issued, nothing read or written yet.
\* "read":  a snapshot is pinned and still the committed state.
\* "stale": a snapshot is pinned and another process has committed since.
\* "write": the write lock is held, view[p] has the uncommitted changes.
TxStates == {"none", "begun", "read", "stale", "write"}

Steps == {"idle", "knn", "row", "stamp", "insert", "vector", "entities", "supersede",
          "unvector", "scan", "expire", "forget", "vknn", "vfilter", "keyword", "graph",
          "temporal", "touch", "active", "total", "dump", "commit"}

Calls ==
  [ kind   : Kinds \cup {"none"},
    ns     : Namespaces \cup {NULL},
    text   : Contents \cup {NULL},   \* the content stored or the query asked
    ttl    : Int \cup {NULL},
    target : Ids \cup {NULL},        \* the neighbor, then the episode to supersede
    now    : Nat,
    ids    : SUBSET Ids,             \* hits of a search, rows to expire, rows counted
    seen   : SUBSET Ids ]            \* history: the ids active in ns since a search began

NoCall ==
  [ kind |-> "none", ns |-> NULL, text |-> NULL, ttl |-> NULL, target |-> NULL,
    now |-> 0, ids |-> {}, seen |-> {} ]

Init ==
  /\ db = EmptyDatabase
  /\ tx = [p \in Procs |-> "none"]
  /\ view = [p \in Procs |-> EmptyDatabase]
  /\ pc = [p \in Procs |-> "idle"]
  /\ call = [p \in Procs |-> NoCall]
  /\ clock = 0
  /\ calls = 0

-----------------------------------------------------------------------------
(* The connection. *)

\* What a statement of p reads.
View(p) == IF tx[p] \in {"read", "stale", "write"} THEN view[p] ELSE db

\* A SELECT: in autocommit mode it leaves nothing behind, after BEGIN it pins a snapshot.
Select(p) ==
  IF tx[p] = "begun"
  THEN tx' = [tx EXCEPT ![p] = "read"] /\ view' = [view EXCEPT ![p] = db]
  ELSE UNCHANGED <<tx, view>>

\* SQLite admits one writer, and none whose snapshot is out of date.
CanWrite(p) ==
  /\ tx[p] # "stale"
  /\ \A q \in Procs \ {p} : tx[q] # "write"

\* A writing statement of p that turns View(p) into d.
Write(p, d) ==
  /\ CanWrite(p)
  /\ tx' = [tx EXCEPT ![p] = "write"]
  /\ view' = [view EXCEPT ![p] = d]

Goto(p, step) == pc' = [pc EXCEPT ![p] = step]

\* p's call ends, by a return or by an exception.
Finish(p) == Goto(p, "idle") /\ call' = [call EXCEPT ![p] = NoCall]

\* BEGIN is issued before the statement that then fails.
BeginOnly(p) == tx' = [tx EXCEPT ![p] = IF @ = "none" THEN "begun" ELSE @]

\* Every search under way also remembers what a commit made active.
Witness(p, d) ==
  [q \in Procs |->
     IF q = p THEN NoCall
     ELSE IF call[q].kind = "search"
          THEN [call[q] EXCEPT !.seen = @ \cup Active(d, call[q].ns)]
          ELSE call[q]]

\* db.commit(), the last statement of store, forget_expired and _touch.
Commit(p) ==
  LET wrote == tx[p] = "write"
      next  == IF wrote THEN view[p] ELSE db
  IN
  /\ pc[p] = "commit"
  /\ db' = next
  /\ tx' = [q \in Procs |-> IF q = p THEN "none"
                            ELSE IF wrote /\ tx[q] = "read" THEN "stale" ELSE tx[q]]
  /\ view' = [view EXCEPT ![p] = EmptyDatabase]
  /\ Goto(p, "idle")
  /\ call' = Witness(p, next)
  /\ UNCHANGED <<clock, calls>>

-----------------------------------------------------------------------------
(* Calls. *)

Begin(p, kind, step, c) ==
  /\ kind \in Roles[p]
  /\ pc[p] = "idle"
  /\ calls < MaxCalls
  /\ calls' = calls + 1
  /\ Goto(p, step)
  /\ call' = [call EXCEPT ![p] = [c EXCEPT !.kind = kind]]
  /\ UNCHANGED <<db, tx, view, clock>>

StoreCall(p, ns, c, ttl) ==
  Begin(p, "store", "knn", [NoCall EXCEPT !.ns = ns, !.text = c, !.ttl = ttl])

SearchCall(p, ns, q) ==
  Begin(p, "search", "vknn", [NoCall EXCEPT !.ns = ns, !.text = q, !.seen = Active(db, ns)])

\* forget_expired reads the clock before it selects.
ForgetCall(p, ns) ==
  Begin(p, "forget", "scan", [NoCall EXCEPT !.ns = ns, !.now = clock])

StatsCall(p, ns) == Begin(p, "stats", "active", [NoCall EXCEPT !.ns = ns])

PushCall(p) == Begin(p, "push", "dump", NoCall)

-----------------------------------------------------------------------------
(* store *)

\* Slip: a BEGIN comes first, so the SELECTs of a store pin a snapshot.
StoreKnnPinned(p) ==
  /\ pc[p] = "knn"
  /\ IF tx[p] \in {"none", "begun"}
     THEN tx' = [tx EXCEPT ![p] = "read"] /\ view' = [view EXCEPT ![p] = db]
     ELSE UNCHANGED <<tx, view>>
  /\ Goto(p, "stamp")
  /\ UNCHANGED <<db, call, clock, calls>>

\* _nearest, first statement: the nearest vector of the whole file.
StoreKnn(p) ==
  /\ pc[p] = "knn"
  /\ Select(p)
  /\ LET hits == Nearest(View(p), call[p].text) IN
     \/ /\ hits = {}
        /\ Goto(p, "stamp")
        /\ UNCHANGED call
     \/ \E id \in hits :
          /\ Goto(p, "row")
          /\ call' = [call EXCEPT ![p].target = id]
  /\ UNCHANGED <<db, clock, calls>>

\* _nearest, second statement, and classify.
StoreRow(p) ==
  /\ pc[p] = "row"
  /\ Select(p)
  /\ call' = [call EXCEPT ![p].target =
                Superseded(View(p), call[p].target, call[p].ns, call[p].text)]
  /\ Goto(p, "stamp")
  /\ UNCHANGED <<db, clock, calls>>

StoreStamp(p) ==
  /\ pc[p] = "stamp"
  /\ call' = [call EXCEPT ![p].now = clock]
  /\ Goto(p, "insert")
  /\ UNCHANGED <<db, tx, view, clock, calls>>

StoreInsert(p) ==
  /\ pc[p] = "insert"
  /\ Write(p, InsertEpisode(View(p), call[p].ns, call[p].text, call[p].now, call[p].ttl))
  /\ Goto(p, "vector")
  /\ UNCHANGED <<db, call, clock, calls>>

\* Slip: ids counted from 0.
NewIdFromZero(p) == Len(view[p].episodes) - 1

\* cur.lastrowid: the write lock is held, so the new row is still the last one.
NewId(p) == Len(view[p].episodes)

StoreVector(p) ==
  /\ pc[p] = "vector"
  /\ Write(p, AddVector(view[p], NewId(p)))
  /\ Goto(p, "entities")
  /\ UNCHANGED <<db, call, clock, calls>>

StoreEntities(p) ==
  /\ pc[p] = "entities"
  /\ Write(p, IndexEntities(view[p], NewId(p), call[p].text, call[p].ns))
  /\ Goto(p, IF call[p].target = NULL THEN "commit" ELSE "supersede")
  /\ UNCHANGED <<db, call, clock, calls>>

StoreSupersede(p) ==
  /\ pc[p] = "supersede"
  /\ Write(p, SupersedeEpisode(view[p], call[p].target, call[p].now, NewId(p)))
  /\ Goto(p, "unvector")
  /\ UNCHANGED <<db, call, clock, calls>>

StoreUnvector(p) ==
  /\ pc[p] = "unvector"
  /\ Write(p, RemoveVector(view[p], call[p].target))
  /\ Goto(p, "commit")
  /\ UNCHANGED <<db, call, clock, calls>>

-----------------------------------------------------------------------------
(* forget_expired *)

ForgetScan(p) ==
  /\ pc[p] = "scan"
  /\ Select(p)
  /\ LET due == Expired(View(p), call[p].ns, call[p].now) IN
     /\ call' = [call EXCEPT ![p].ids = due]
     /\ Goto(p, IF due = {} THEN "commit" ELSE "expire")
  /\ UNCHANGED <<db, clock, calls>>

\* The UPDATE for the next id of the list.
ForgetExpire(p) ==
  /\ pc[p] = "expire"
  /\ \E id \in call[p].ids :
       /\ \A other \in call[p].ids : id <= other
       /\ Write(p, ExpireEpisode(View(p), id, call[p].now))
       /\ call' = [call EXCEPT ![p].target = id, ![p].ids = @ \ {id}]
  /\ Goto(p, "forget")
  /\ UNCHANGED <<db, clock, calls>>

\* Slip: the sweep returns before its commit().
ForgetVectorReturns(p) ==
  /\ pc[p] = "forget"
  /\ Write(p, RemoveVector(View(p), call[p].target))
  /\ IF call[p].ids = {} THEN Finish(p) ELSE Goto(p, "expire") /\ UNCHANGED call
  /\ UNCHANGED <<db, clock, calls>>

\* The removal of its vector, and on to the next id.
ForgetVector(p) ==
  /\ pc[p] = "forget"
  /\ Write(p, RemoveVector(View(p), call[p].target))
  /\ Goto(p, IF call[p].ids = {} THEN "commit" ELSE "expire")
  /\ UNCHANGED <<db, call, clock, calls>>

-----------------------------------------------------------------------------
(* search: the four channels, the fusion, the touch. The ranking is left to *)
(* chance: any subset of the hits that the limit admits may be returned.    *)

\* knn with k = pool, which holds every vector of a small database.
SearchKnn(p) ==
  /\ pc[p] = "vknn"
  /\ Select(p)
  /\ call' = [call EXCEPT ![p].ids = View(p).vectors]
  /\ Goto(p, "vfilter")
  /\ UNCHANGED <<db, clock, calls>>

\* _filter_ns_valid
SearchFilter(p) ==
  /\ pc[p] = "vfilter"
  /\ Select(p)
  /\ call' = [call EXCEPT ![p].ids = @ \cap Active(View(p), call[p].ns)]
  /\ Goto(p, "keyword")
  /\ UNCHANGED <<db, clock, calls>>

Gather(p, from, hits, to) ==
  /\ pc[p] = from
  /\ Select(p)
  /\ call' = [call EXCEPT ![p].ids = @ \cup hits]
  /\ Goto(p, to)
  /\ UNCHANGED <<db, clock, calls>>

SearchKeyword(p) ==
  Gather(p, "keyword", KeywordHits(View(p), call[p].text, call[p].ns), "graph")

SearchGraph(p) ==
  Gather(p, "graph", GraphHits(View(p), call[p].text, call[p].ns), "temporal")

\* Slip: the temporal channel is left out of the fusion.
SearchFuseWithoutTime(p) ==
  /\ pc[p] = "temporal"
  /\ Select(p)
  /\ IF call[p].ids = {} THEN Finish(p) ELSE Goto(p, "touch") /\ UNCHANGED call
  /\ UNCHANGED <<db, clock, calls>>

\* The temporal channel, the cut at the limit, and _contents.
SearchFuse(p) ==
  /\ pc[p] = "temporal"
  /\ Select(p)
  /\ LET hits == call[p].ids \cup Active(View(p), call[p].ns) IN
     \/ /\ hits = {}
        /\ Finish(p)
     \/ \E ranked \in (SUBSET hits) \ {{}} :
          /\ call' = [call EXCEPT ![p].ids = ranked]
          /\ Goto(p, "touch")
  /\ UNCHANGED <<db, clock, calls>>

SearchTouch(p) ==
  /\ pc[p] = "touch"
  /\ Write(p, TouchEpisodes(View(p), call[p].ids))
  /\ Goto(p, "commit")
  /\ UNCHANGED <<db, call, clock, calls>>

-----------------------------------------------------------------------------
(* stats, and the snapshot that opens a push *)

\* Slip: the active rows of every namespace are counted.
StatsActiveAnywhere(p) ==
  /\ pc[p] = "active"
  /\ Select(p)
  /\ call' = [call EXCEPT ![p].ids = DOMAIN View(p).episodes \ Closed(View(p))]
  /\ Goto(p, "total")
  /\ UNCHANGED <<db, clock, calls>>

StatsActive(p) ==
  /\ pc[p] = "active"
  /\ Select(p)
  /\ call' = [call EXCEPT ![p].ids = Active(View(p), call[p].ns)]
  /\ Goto(p, "total")
  /\ UNCHANGED <<db, clock, calls>>

StatsTotal(p) ==
  /\ pc[p] = "total"
  /\ Select(p)
  /\ Finish(p)
  /\ UNCHANGED <<db, clock, calls>>

\* _dump_db: sqlite3's backup retries for ever while its own connection has a write open.
PushDump(p) ==
  /\ pc[p] = "dump"
  /\ tx[p] # "write"
  /\ Finish(p)
  /\ UNCHANGED <<db, tx, view, clock, calls>>

-----------------------------------------------------------------------------
(* Failures. None is handled: the exception leaves the call, the process     *)
(* goes on and answers the next one.                                        *)

\* The first write of a call finds another writer, or its own snapshot out of date.
WriteRefused(p) ==
  /\ pc[p] \in {"insert", "expire", "touch"}
  /\ \/ tx[p] = "stale"
     \/ "locked" \in Failures /\ ~CanWrite(p)
  /\ BeginOnly(p)
  /\ Finish(p)
  /\ UNCHANGED <<db, view, clock, calls>>

\* A parameter of the INSERT cannot be bound.
BindFails(p) ==
  /\ "bind" \in Failures
  /\ pc[p] = "insert"
  /\ BeginOnly(p)
  /\ Finish(p)
  /\ UNCHANGED <<db, view, clock, calls>>

\* An exception between two statements: KeyboardInterrupt, or an I/O error, on which
\* SQLite may also roll the transaction back by itself.
Aborts(p) ==
  /\ "abort" \in Failures
  /\ pc[p] \in {"vector", "entities", "supersede", "unvector", "forget", "expire", "commit"}
  /\ tx[p] = "write"
  /\ \/ UNCHANGED <<tx, view>>
     \/ tx' = [tx EXCEPT ![p] = "none"] /\ view' = [view EXCEPT ![p] = EmptyDatabase]
  /\ Finish(p)
  /\ UNCHANGED <<db, clock, calls>>

\* The process dies and is started again; SQLite discards what it had not committed.
Crash(p) ==
  /\ pc[p] # "idle" \/ tx[p] # "none"
  /\ tx' = [tx EXCEPT ![p] = "none"]
  /\ view' = [view EXCEPT ![p] = EmptyDatabase]
  /\ Finish(p)
  /\ UNCHANGED <<db, clock, calls>>

Tick ==
  /\ clock < MaxClock
  /\ clock' = clock + 1
  /\ UNCHANGED <<db, tx, view, pc, call, calls>>

-----------------------------------------------------------------------------

StoreStep(p) ==
  \/ StoreKnn(p) \/ StoreRow(p) \/ StoreStamp(p) \/ StoreInsert(p) \/ StoreVector(p)
  \/ StoreEntities(p) \/ StoreSupersede(p) \/ StoreUnvector(p)

ForgetStep(p) == ForgetScan(p) \/ ForgetExpire(p) \/ ForgetVector(p)

SearchStep(p) ==
  \/ SearchKnn(p) \/ SearchFilter(p) \/ SearchKeyword(p) \/ SearchGraph(p)
  \/ SearchFuse(p) \/ SearchTouch(p)

Step(p) ==
  \/ StoreStep(p) \/ ForgetStep(p) \/ SearchStep(p)
  \/ StatsActive(p) \/ StatsTotal(p) \/ PushDump(p)
  \/ Commit(p) \/ WriteRefused(p)

NewCall(p) ==
  \/ \E ns \in Namespaces, c \in Contents, ttl \in Ttls : StoreCall(p, ns, c, ttl)
  \/ \E ns \in Namespaces, q \in Contents : SearchCall(p, ns, q)
  \/ \E ns \in Namespaces : ForgetCall(p, ns) \/ StatsCall(p, ns)
  \/ PushCall(p)

Next ==
  \/ \E p \in Procs : NewCall(p) \/ Step(p) \/ BindFails(p) \/ Aborts(p) \/ Crash(p)
  \/ Tick

Spec == Init /\ [][Next]_vars

\* A live process runs its call to the end.
FairSpec == Spec /\ \A p \in Procs : WF_vars(Step(p))

-----------------------------------------------------------------------------
(* Properties. *)

TypeOK ==
  /\ db \in Database
  /\ tx \in [Procs -> TxStates]
  /\ view \in [Procs -> Database]
  /\ pc \in [Procs -> Steps]
  /\ call \in [Procs -> Calls]
  /\ clock \in Nat
  /\ calls \in Nat

\* The committed episodes keep this lineage whatever processes race, fail or die: the
\* neighbor is read long before the UPDATE that closes it, and is not read again.
Lineage == SupersededByNewer(db)

\* store, forget_expired and _touch update table and indexes in several statements; no
\* commit, whoever makes it, publishes them half done.
IndexesDerived == Derived(db)

\* An episode is closed no earlier than it became valid: store reads the clock after it
\* chose the neighbor, and forget_expired closes only what had expired by its reading.
ValidInterval ==
  \A i \in DOMAIN db.episodes :
    db.episodes[i].validTo # NULL => db.episodes[i].validFrom <= db.episodes[i].validTo

\* No connection is left behind in a snapshot that another process's commit has outdated: there
\* it would read the past and be refused every write from then on. A store reads long before
\* it writes, but until its INSERT without a transaction.
SnapshotsCurrent == \A p \in Procs : tx[p] # "stale"

\* Reconciliation leaves one current episode of a text in a namespace, not a pile.
NoDuplicates ==
  \A ns \in Namespaces : \A i, j \in Active(db, ns) :
    db.episodes[i].content = db.episodes[j].content => i = j

\* A search returns only episodes that were current in its namespace at some moment of the
\* call, though its channels read at different moments.
SearchIsRegular ==
  \A p \in Procs :
    (call[p].kind = "search" /\ pc[p] = "commit") => call[p].ids \subseteq call[p].seen

\* The "superseded" count of the statistics, total - active, is never negative: the active
\* rows are counted first and another process may store before the total is.
StatsNotNegative ==
  \A p \in Procs :
    pc[p] = "total" =>
      Cardinality(call[p].ids) <= Cardinality(InNamespace(View(p), call[p].ns))

\* A search answers "nothing" only if its namespace has nothing current in the file.
EmptyAnswerIsTrue ==
  [][\A p \in Procs : (pc[p] = "temporal" /\ SearchFuse(p) /\ pc'[p] = "idle")
                        => Active(db, call[p].ns) = {}]_vars

\* The committed history only grows: no text, namespace, start or expiry of an episode is
\* rewritten, what is closed stays closed, no access is lost to a concurrent write.
HistoryPreserved == [][Extends(db, db')]_db

Ledger == INSTANCE EpisodeLedger WITH ledger <- db.episodes

\* The engine implements the ledger: a call takes effect at its commit, once and wholly, or
\* (it raised, its process died) not at all.
ImplementsLedger == Ledger!Spec

\* Every call ends: whoever holds the write lock gives it up, and everyone else proceeds.
CallsEnd == \A p \in Procs : pc[p] # "idle" ~> pc[p] = "idle"

=============================================================================
