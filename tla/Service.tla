------------------------------ MODULE Service -------------------------------
(***************************************************************************)
(* The interfaces of one memory file: an MCP server for every namespace,   *)
(* behind the payment gate, and the console of one namespace.  Here a call *)
(* of the engine is a single step, as KausaMemory!ImplementsLedger allows; *)
(* what may happen between two steps is the rest of the world: while a     *)
(* payment is verified, the oracle thinks or a client turns a page, the    *)
(* other processes go on storing and sweeping.                             *)
(***************************************************************************)
EXTENDS MemoryDb

CONSTANTS
  Here,          \* the namespace of the console
  Ttls,          \* the ttl_seconds a caller may pass
  Questions,     \* the POSTs to /api/ask
  Limits,        \* the limits a client asks for, NULL for none
  Proofs,        \* the payment proofs a call may carry, see ProofKinds
  Verifier,      \* the PaymentVerifier of a hosted gate, see Accepts
  MaxRequests,   \* bound: the calls of tools
  MaxVisits,     \* bound: no GET /api/search after so many searches of the console
  MaxClock       \* bound: the largest reading of the clock

\* payment_proof: None, the proof of a payment that has settled, or any other string.
ProofKinds == {"none", "settled", "unsettled"}

ASSUME ServiceAssumptions ==
  /\ Here \in Namespaces
  /\ Ttls \subseteq Int \cup {NULL}
  /\ Limits \subseteq Int \cup {NULL}
  /\ Proofs \subseteq ProofKinds
  /\ Verifier \in {"any", "careful"}
  /\ {MaxRequests, MaxVisits, MaxClock} \subseteq Nat

VARIABLES
  db,         \* the file
  clock,      \* time.time()
  gate,       \* the X402Gate of the servers
  settled,    \* history: settled[tool], the payments for it that have settled
  accepted,   \* history: accepted[tool], the calls of it the verifier has accepted
  visits,     \* history: the searches of the console
  mcp,        \* mcp[ns]: the guarded_call the server of ns is in
  requests,   \* the calls of tools so far
  asks,       \* asks[q]: a question and its answer
  reader      \* a client that lists the episodes page by page

vars == <<db, clock, gate, settled, accepted, visits, mcp, requests, asks, reader>>

\* memory_context is memory_search with its results on lines of text.
Tools == {"memory_store", "memory_search"}

\* The text to store is all that matters of the arguments; a name may be no tool's.
Request ==
  [tool : {"memory_store"}, text : Contents]
    \cup [tool : {"memory_search", "unknown"}, text : {NULL}]

NoRequest == [tool |-> "none", text |-> NULL]

NoCall == [step |-> "idle", request |-> NoRequest, proof |-> "none"]

\* X402Gate: free_mode, or hosted with a verifier, or hosted without one.
Gates == {"free", "hosted", "unverified"}

Calls == [step : {"idle", "authorize", "dispatch"},
          request : Request \cup {NoRequest}, proof : ProofKinds]

NotAsked == [step |-> "new", sources |-> {}]

\* owed: what was there when the listing began and has not been seen.
NotReading ==
  [step |-> "new", all |-> FALSE, limit |-> NULL, offset |-> 0, owed |-> {}, closed |-> {}]

Init ==
  /\ db = EmptyDatabase
  /\ clock = 0
  /\ gate \in Gates
  /\ settled = [t \in Tools \cup {"unknown"} |-> 0]
  /\ accepted = settled
  /\ visits = 0
  /\ mcp = [ns \in Namespaces |-> NoCall]
  /\ requests = 0
  /\ asks = [q \in Questions |-> NotAsked]
  /\ reader = NotReading

-----------------------------------------------------------------------------
(* The engine, a call a step. *)

\* Slip: a near duplicate is rewritten where it is.
AfterStoreInPlace(d, ns, c, ttl, now) ==
  LET id == Len(d.episodes) + 1 IN
  {IF old = NULL THEN AddVector(InsertEpisode(d, ns, c, now, ttl), id)
   ELSE Update(d, [i \in {old} |-> NewEpisode(ns, c, now, ttl)]) :
     old \in IF Nearest(d, c) = {} THEN {NULL}
             ELSE {Superseded(d, hit, ns, c) : hit \in Nearest(d, c)}}

\* What a store that succeeds makes of database d.
AfterStore(d, ns, c, ttl, now) ==
  LET id    == Len(d.episodes) + 1
      added == IndexEntities(AddVector(InsertEpisode(d, ns, c, now, ttl), id), id, c, ns)
  IN  {IF old = NULL THEN added
       ELSE RemoveVector(SupersedeEpisode(added, old, now, id), old) :
         old \in IF Nearest(d, c) = {} THEN {NULL}
                 ELSE {Superseded(d, hit, ns, c) : hit \in Nearest(d, c)}}

\* What a search may find: all that is current in a small database is within any limit.
Results(d, ns) == {ids \in SUBSET Active(d, ns) : ids = {} => Active(d, ns) = {}}

\* Another program sweeps a namespace: ExpireEpisode and RemoveVector for every row.
Sweep(ns) ==
  LET due == Expired(db, ns, clock) IN
  /\ due # {}
  /\ db' = [Update(db, [i \in due |-> [db.episodes[i] EXCEPT !.validTo = clock]])
              EXCEPT !.vectors = @ \ due]
  /\ UNCHANGED <<clock, gate, settled, accepted, visits, mcp, requests, asks, reader>>

Tick ==
  /\ clock < MaxClock
  /\ clock' = clock + 1
  /\ UNCHANGED <<db, gate, settled, accepted, visits, mcp, requests, asks, reader>>

-----------------------------------------------------------------------------
(* guarded_call: authorize, then dispatch. *)

\* A caller pays first, if at all, and sends the call with a proof or without one.
Receive(ns, r, proof) ==
  /\ mcp[ns].step = "idle"
  /\ requests < MaxRequests
  /\ requests' = requests + 1
  /\ mcp' = [mcp EXCEPT ![ns] = [step |-> "authorize", request |-> r, proof |-> proof]]
  /\ settled' = IF proof = "settled" THEN [settled EXCEPT ![r.tool] = @ + 1] ELSE settled
  /\ UNCHANGED <<db, clock, gate, accepted, visits, asks, reader>>

\* The call ends: an answer, a challenge or an exception.
Reply(ns) == mcp' = [mcp EXCEPT ![ns] = NoCall]

Proceed(ns) == mcp' = [mcp EXCEPT ![ns].step = "dispatch"]

\* The verifier is not in the repository. It is given the tool, the token and the price,
\* not the proof. "careful": it accepts no more calls of a tool than were paid for.
Accepts(tool) == Verifier = "careful" => accepted[tool] < settled[tool]

\* Slip: a verifier is asked only if there is one.
AuthorizeUnverified(ns) ==
  LET tool == mcp[ns].request.tool IN
  /\ mcp[ns].step = "authorize"
  /\ \/ /\ gate = "free" \/ (gate = "unverified" /\ mcp[ns].proof # "none")
        /\ Proceed(ns) /\ UNCHANGED accepted
     \/ /\ gate = "hosted" /\ mcp[ns].proof # "none" /\ Accepts(tool)
        /\ Proceed(ns) /\ accepted' = [accepted EXCEPT ![tool] = @ + 1]
     \/ gate # "free" /\ Reply(ns) /\ UNCHANGED accepted
  /\ UNCHANGED <<db, clock, gate, settled, visits, requests, asks, reader>>

\* authorize: no proof and no verifier are a 402; the verifier accepts, refuses or raises.
Authorize(ns) ==
  LET tool == mcp[ns].request.tool IN
  /\ mcp[ns].step = "authorize"
  /\ \/ gate = "free" /\ Proceed(ns) /\ UNCHANGED accepted
     \/ /\ gate = "hosted" /\ mcp[ns].proof # "none" /\ Accepts(tool)
        /\ Proceed(ns) /\ accepted' = [accepted EXCEPT ![tool] = @ + 1]
     \/ gate # "free" /\ Reply(ns) /\ UNCHANGED accepted
  /\ UNCHANGED <<db, clock, gate, settled, visits, requests, asks, reader>>

\* MemoryTools.call: an unknown tool or unusable arguments raise, and the engine may.
Dispatch(ns) ==
  LET r == mcp[ns].request IN
  /\ mcp[ns].step = "dispatch"
  /\ \/ UNCHANGED db
     \/ /\ r.tool = "memory_store"
        /\ \E ttl \in Ttls : db' \in AfterStore(db, ns, r.text, ttl, clock)
     \/ /\ r.tool = "memory_search"
        /\ \E ids \in Results(db, ns) : db' = TouchEpisodes(db, ids)
  /\ Reply(ns)
  /\ UNCHANGED <<clock, gate, settled, accepted, visits, requests, asks, reader>>

-----------------------------------------------------------------------------
(* GET /api/search and POST /api/ask *)

\* A search that counts its accesses; a question of blanks only changes nothing.
ConsoleSearch ==
  /\ visits < MaxVisits
  /\ visits' = visits + 1
  /\ \E ids \in Results(db, Here) : db' = TouchEpisodes(db, ids)
  /\ UNCHANGED <<clock, gate, settled, accepted, mcp, requests, asks, reader>>

Ask(q) ==
  /\ asks[q].step = "new"
  /\ asks' = [asks EXCEPT ![q].step = "asked"]
  /\ UNCHANGED <<db, clock, gate, settled, accepted, visits, mcp, requests, reader>>

\* No question (400), no token (428), a search that raises (500).
AskRefused(q) ==
  /\ asks[q].step = "asked"
  /\ asks' = [asks EXCEPT ![q].step = "failed"]
  /\ UNCHANGED <<db, clock, gate, settled, accepted, visits, mcp, requests, reader>>

\* Slip: the sources are the whole rows.
AskSearchRows(q) ==
  /\ asks[q].step = "asked"
  /\ visits' = visits + 1
  /\ \E ids \in Results(db, Here) :
       /\ db' = TouchEpisodes(db, ids)
       /\ asks' = [asks EXCEPT ![q] =
                     [step |-> "waiting", sources |-> {db.episodes[i] : i \in ids}]]
  /\ UNCHANGED <<clock, gate, settled, accepted, mcp, requests, reader>>

\* The search whose results the prompt quotes, up to the await.
AskSearch(q) ==
  /\ asks[q].step = "asked"
  /\ visits' = visits + 1
  /\ \E ids \in Results(db, Here) :
       /\ db' = TouchEpisodes(db, ids)
       /\ asks' = [asks EXCEPT ![q] =
                     [step |-> "waiting",
                      sources |-> {[id |-> i, content |-> db.episodes[i].content] : i \in ids}]]
  /\ UNCHANGED <<clock, gate, settled, accepted, mcp, requests, reader>>

\* 200 and an answer, with the sources found before the await.
OracleAnswers(q) ==
  /\ asks[q].step = "waiting"
  /\ asks' = [asks EXCEPT ![q].step = "answered"]
  /\ UNCHANGED <<db, clock, gate, settled, accepted, visits, mcp, requests, reader>>

\* An error, another status or another shape of answer; or 120 s without a byte of it. An
\* upstream that goes on sending byte after byte is not cut off.
OracleFails(q) ==
  /\ asks[q].step = "waiting"
  /\ asks' = [asks EXCEPT ![q].step = "failed"]
  /\ UNCHANGED <<db, clock, gate, settled, accepted, visits, mcp, requests, reader>>

-----------------------------------------------------------------------------
(* GET /api/episodes, page by page. The client is not in the repository: it  *)
(* adds the count it received to the offset until a page comes back empty.  *)

\* _int_param; NULL is a missing or unreadable number.
IntParam(raw, default, lo, hi) ==
  CASE raw = NULL -> default
    [] raw # NULL /\ raw < lo -> lo
    [] raw # NULL /\ raw > hi -> hi
    [] OTHER -> raw

Rows(d, all) == IF all THEN InNamespace(d, Here) ELSE Active(d, Here)

\* Slip: ordered by a column that changes while a client pages.
BeforeByChange(d, i, j) ==
  d.episodes[i].accessCount < d.episodes[j].accessCount
  \/ (d.episodes[i].accessCount = d.episodes[j].accessCount /\ i < j)

\* ORDER BY created_at DESC; SQLite's sorter keeps rows of one time in the order of their ids.
Before(d, i, j) ==
  \/ d.episodes[i].validFrom > d.episodes[j].validFrom
  \/ d.episodes[i].validFrom = d.episodes[j].validFrom /\ i < j

\* LIMIT ? OFFSET ?
Page(d, all, limit, offset) ==
  {i \in Rows(d, all) :
     Cardinality({j \in Rows(d, all) : Before(d, j, i)}) \in offset .. offset + limit - 1}

StartListing(all, limit) ==
  /\ reader.step = "new"
  /\ reader' = [step |-> "listing", all |-> all, limit |-> limit, offset |-> 0,
                owed |-> Rows(db, all), closed |-> Closed(db) \cap InNamespace(db, Here)]
  /\ UNCHANGED <<db, clock, gate, settled, accepted, visits, mcp, requests, asks>>

ListPage ==
  LET page == Page(db, reader.all, IntParam(reader.limit, 50, 1, 500),
                   IntParam(reader.offset, 0, 0, 10000000))
  IN
  /\ reader.step = "listing"
  /\ reader' = [reader EXCEPT !.owed = @ \ page, !.offset = @ + Cardinality(page),
                              !.step = IF page = {} THEN "done" ELSE "listing"]
  /\ UNCHANGED <<db, clock, gate, settled, accepted, visits, mcp, requests, asks>>

-----------------------------------------------------------------------------

\* A server dies, between its payment and its work perhaps, and is started again.
ServerDies(ns) ==
  /\ mcp[ns].step # "idle"
  /\ Reply(ns)
  /\ UNCHANGED <<db, clock, gate, settled, accepted, visits, requests, asks, reader>>

Next ==
  \/ \E ns \in Namespaces :
       \/ \E r \in Request, proof \in Proofs : Receive(ns, r, proof)
       \/ Authorize(ns) \/ Dispatch(ns) \/ ServerDies(ns) \/ Sweep(ns)
  \/ ConsoleSearch
  \/ \E q \in Questions :
       Ask(q) \/ AskRefused(q) \/ AskSearch(q) \/ OracleAnswers(q) \/ OracleFails(q)
  \/ \E all \in BOOLEAN, limit \in Limits : StartListing(all, limit)
  \/ ListPage
  \/ Tick

Spec == Init /\ [][Next]_vars

-----------------------------------------------------------------------------
(* Properties. *)

TypeOK ==
  /\ db \in Database
  /\ clock \in 0 .. MaxClock /\ requests \in 0 .. MaxRequests
  /\ gate \in Gates
  /\ {settled, accepted} \subseteq [Tools \cup {"unknown"} -> Nat]
  /\ visits \in Nat
  /\ mcp \in [Namespaces -> Calls]
  /\ asks \in [Questions -> [step : {"new", "asked", "waiting", "answered", "failed"},
                             sources : SUBSET [id : Ids, content : Contents]]]
  /\ reader \in [step : {"new", "listing", "done"}, all : BOOLEAN, limit : Limits \cup {NULL},
                 offset : Nat, owed : SUBSET Ids, closed : SUBSET Ids]

\* Whatever servers do with refused, failing or dying calls, the file of a hosted service
\* holds no work the verifier was not asked about and did not accept: no more episodes than
\* accepted calls of memory_store, no row accessed more often than there were accepted calls
\* of memory_search and searches of the console.
WorkWasAccepted ==
  gate # "free" =>
    /\ Len(db.episodes) <= accepted["memory_store"]
    /\ \A i \in DOMAIN db.episodes :
         db.episodes[i].accessCount <= accepted["memory_search"] + visits

\* X402Gate's promise: in hosted mode a call does its work only with a proof that is good.
\* It fails: the verifier is never given the proof, so that not even a careful one can tell
\* the caller who paid from the caller who says so.
CallsArePaid ==
  \A ns \in Namespaces :
    (gate # "free" /\ mcp[ns].step = "dispatch") => mcp[ns].proof = "settled"

\* The oracle cites ids; though the memory moved on while it thought, every id it was given
\* still leads to the very text it was given.
CitationsHold ==
  \A q \in Questions : \A s \in asks[q].sources :
    /\ s.id \in InNamespace(db, Here)
    /\ db.episodes[s.id].content = s.content

\* A client that pages by offset misses nothing that was there when it began, if it includes
\* what is superseded, or if nothing was closed meanwhile; what is stored meanwhile only
\* makes it see an episode twice.
PagesSkipNothing ==
  (/\ reader.step = "done"
   /\ reader.all \/ Closed(db) \cap InNamespace(db, Here) \subseteq reader.closed)
     => reader.owed = {}

=============================================================================
