# Verification of KausaMemory v3

TLA+ models of KausaMemory, the TLC configurations that check them on small
instances, and theorems checked by TLAPS. Run `tlc -config X.cfg M` with the
module given below, and `tlapm` on each of the eight `*Proofs.tla` for the proofs.
`PROJECT.json` lists the components,
runs, hazards, findings and, under `map`, the source lines of every definition.

## 1. The system

| Part | State it keeps | Operations | Interacts with |
|---|---|---|---|
| engine core (`engine/core.py`) | none of its own: one SQLite connection | store, search, forget_expired, stats | database, vectors, retriever, reconciler |
| database (`stores/database.py`) | episodes, FTS index, entities and their links, snapshots | statements, triggers | shared by every process that opens the file |
| vectors (`stores/vectors.py`) | one vector for each current episode | add, remove, knn | the same file |
| reconciler, entities, embedder | none | classify, extract_entities, embed | called by store and search |
| retriever (`engine/retriever.py`) | none | four channels, rank fusion | four to six SELECTs of a search |
| sync (`sync.py`) | the snapshots table | push, pull | a storage backend, a head pointer, the database |
| chunking, crypto | none | chunk, build_manifest; encrypt, content_address | push and pull |
| LocalFS, S3, IPFS, Arweave | blobs; IPFS and Arweave a dictionary of addresses in the object | put, get, has, delete | sync, several devices |
| LocalHead, SolanaHead, head program | the head: cid and sequence number | read, write, set_head | sync, several devices |
| MCP server, console | one engine each | three tools; statistics, search, lists, oracle | agents, a browser, a remote language model; the same database file |
| x402 gate | its mode and its verifier | authorize, challenge | stands before an MCP server's dispatch; the verifier of payments is the caller's |

What is hard about it:

* Several processes (an MCP server for each agent, a console, a program that
  pushes) work on one database file. Each call is several statements; between
  any two another process may act. SQLite isolates transactions, but the engine
  reads outside them, and Python begins them implicitly.
* No call handles an exception: no rollback, no retry. A call that raises leaves
  its transaction open, and the process goes on with the next call.
* The tables that search uses are derived from the episodes, statement by
  statement.
* push performs many steps on three systems (blobs, head, database) with no
  transaction around them. Requests fail after they were done, transactions
  land late, processes die in the middle of writing a file.
* Several devices share the head, with files of their own or one file.
* Chunk boundaries are computed by a stateful loop with three interacting limits.
* The ranking of a search adds up four lists, each cut to a pool; one of the
  lists is cut before it is filtered. Weights, pool and damping were chosen
  together.
* Calls are accepted before it is known whether they can be served; the
  console waits for a remote model between reading its sources and citing them;
  clients page by offset through rows that others change.

What makes each part correct:

* engine: a call takes effect wholly, at its commit, or not at all; the history
  of episodes only grows; superseded_by leads to a newer episode of the same
  namespace; the indexes say what the episodes say; a search returns what was
  current during the call; reconciliation leaves one current episode of a text;
  every call ends.
* ranking: what several channels find comes first, nothing is left out that there
  is room for, and a search does not raise.
* interfaces: a hosted file holds no work the payment verifier did not accept,
  citations stay true, paging skips nothing.
* sync: a published head always leads to a complete snapshot; heads are numbered
  without gap or repetition; an older state never covers a newer one; no
  snapshots table is ahead of the head; a pull that finds a head restores it.
* chunking: the chunks in order are the input, of bounded size, cut where the
  bytes say.

## 2. The plan

1. `MemoryDb`, `KausaMemory`: engine and database, against `EpisodeLedger`. Done.
2. `MemoryDbProofs`, `KausaMemoryProofs`: the statements; types, lineage, history. Done.
   `EngineProofs`: the indexes, the ledger, the times, the counts, the searches, the
   reconciliation. Done.
3. `BlobStore`, `HeadPointer`, `Sync`, against `SnapshotRegister`, with `SyncProofs`. Done.
4. `Chunking` with `ChunkingProofs`. Done.
5. `HashEmbedder`, `RankedSearch` with `RankedSearchProofs`. Done.
6. `Service`: MCP dispatch, the x402 gate, the console's oracle and its paging, with
   `ServiceProofs` and `PagingProofs`. Done.

Every safety invariant and action property of a passing run is stated by a theorem now.
What is left to TLC is liveness (section 5).

A model of the removal of old blobs was planned and dropped: the drivers'
`delete` has no caller, and any policy of a collector would be an invention.

`KausaMemory` and `Sync` meet in two places, and each carries what it needs of
the other: the dump that opens a push is an action of `KausaMemory`, because it
waits for the connection's own transaction; the stores and the inserted row that
change a file between pushes are actions of `Sync` on page versions.

The engine appears at three grains. `KausaMemory` has its statements, and
`ImplementsLedger` shows that a call takes effect at one moment, its commit.
`Service` builds on that: a call is one step there, and what is interleaved is
what the interfaces do around it. `RankedSearch` looks into the one step that
both leave open, which hits a search returns and in which order; it needs no
other process, as every channel is one SELECT.

## 3. The modules

### MemoryDb

A database file as a value: the sequence of episodes (AUTOINCREMENT over a table from
which nothing is deleted), the rowids in the FTS index and in the vector table, the
entities and their links. One operator for each SQL statement and query. Texts, names
and namespaces are sets of model values; `EntitiesOf`, `SharesWord`, `Distance` and
`Opposes` stand for entity extraction, FTS matching, the embeddings and a contradiction
checker: arbitrary functions, so what is proved holds for every embedder. Distances are
percents of cosine distance. Three relations on files are stated here because several
modules' properties are made of them: `SupersededByNewer` and `Derived` of one file,
`Extends` of an earlier and a later one. `Derived` asks for every index in full: a
vector for exactly the current episodes, an FTS row for each episode, and for each name
in each text an entity and the link to it, so that a store which leaves out one of these
statements breaks it.

### KausaMemory

`pc[p]` is the next statement of process `p`'s call, `call[p]` its arguments and
local variables. `tx[p]` is the state of its connection:

| `tx[p]` | SQLite |
|---|---|
| none | autocommit |
| begun | Python issued BEGIN for a statement that then failed |
| read | a SELECT after BEGIN has pinned a snapshot, `view[p]` |
| stale | another process has committed since: every write is refused |
| write | `p` holds the write lock, `view[p]` has its uncommitted changes |

store is Knn, Row, Stamp, Insert, Vector, Entities, then Supersede and Unvector
if a neighbor is superseded, then Commit. forget_expired is Scan, then Expire and
Vector for each row, then Commit. search is Knn, Filter, Keyword, Graph, Fuse,
Touch, Commit; which hits survive the ranking is left open. stats is two counts
(the console's are the same). push is its dump only.

Failures are actions: `WriteRefused` (another writer for longer than the busy
timeout, or a stale snapshot), `BindFails` (a parameter SQLite cannot bind),
`Aborts` (an exception between two statements, on which SQLite may also roll
back by itself), `Crash`. `EpisodeLedger` is what remains when connections and
indexes are taken away: record, sweep, access.

### HashEmbedder, RankedSearch

`HashEmbedder` adds the tokens of a text, one a step, to a vector of integers;
`Hash` is an arbitrary function, `Dim` any multiple of four. `RankedSearch` is
one search: embed the query, then `VectorChannel` (knn over the whole file, then
`_filter_ns_valid`), `KeywordChannel`, `GraphChannel`, `TemporalChannel`, then
`Rank`. Which episodes are near, share a word or an entity, and in which order, is
open: a channel may return any list of at most `Pool` episodes of the searched
namespace, the vector channel what remains of any `Pool` episodes of the file,
the temporal channel exactly the newest. Only the temporal channel's order means
something here, so episodes are numbers that grow with time. Scores are exact:
weights in tenths, 1/(rrf_k + rank) as `Share[rank]` over the common denominator
`Scale`. Equal scores are ranked in any order, as the code's floats may round
them either way; the properties compare scores that differ by far more than a
rounding. `knn` raises when a distance is NULL, which is when one of the two
vectors is zero.

### Service

One MCP server a namespace, each behind the same gate, serving one call at a time (the
stdio transport does): `Receive`, `Authorize`, `Dispatch`. A call carries no payment
proof, one of a payment that has settled, or any other string; `settled` counts the
payments. The verifier accepts, refuses or raises, and `accepted` counts what it
accepted. What it can go by is what `authorize` hands it: the tool, the token and the
price, not the proof. With `Verifier = "any"` it may accept whatever it is asked about,
and with `"careful"` it accepts no more calls of a tool than were paid for, which is the
most it can do. `Dispatch` is the engine's call with a good outcome, or none, for an
unknown tool, arguments that cannot be used or an engine that raises. `Sweep` is another
program's forget_expired. A question goes `Ask`, then `AskRefused` or `AskSearch`, up to
the await; then `OracleAnswers` or `OracleFails`, while everything else goes on.
`ConsoleSearch` is GET /api/search; `visits` counts the searches of the console, which
leave their accesses in the file without any payment. A client lists the episodes with
`StartListing` and `ListPage`; the client itself is not in the repository, the model's
adds the count of a page to its offset until a page is empty. `owed` is what was there
at its start and has not been shown yet.

### BlobStore, HeadPointer, Sync

A blob is its content; the locator is the same value. Complete blobs are in
`whole`; a LocalFS file that was opened and not filled is in `partial`; `known`
is the dictionary of the IPFS and Arweave drivers. `head` is the head file or
account; `sent` and `landed` are Solana transactions on their way and executed;
`published` is the history of heads.

A file is one version number for each page, a chunk is one page, its ciphertext depends
on gzip's time stamp (`GzipStamps`), and a manifest on a nonce. push is Call (dump),
Chunk and Put for every chunk, Manifest and Put, ReadHead, then Check, Open, Write for
LocalHead or Send, Confirm for SolanaHead, then InsertRow, which changes the file
itself. LocalFS.put is two steps, Open and Fill. pull is Call, Manifest, Part for every
chunk. Failures: a put, send or confirmation that raises, done or not; a get or a read
of the account that raises; a row that cannot be inserted; a crash at any step, which
takes the driver object with it. `SnapshotRegister` is what a device may rely on: the
head moves from one restorable snapshot to the next.

### Chunking

The loop of chunk(), one byte a step; `cuts` are the ends of the chunks.
`NextCut` is a reference definition of where the chunk that begins at a position ends,
with a hash of the last bytes only, in which nothing is reset; `CutsOf` follows it
from cut to cut. Powers of two are a recursive function, so that proofs can
speak of them. `Delta` is what delta() leaves to upload of a manifest's order;
push does not use it, it asks `has()` chunk by chunk.

### Slips

Definitions introduced by "Slip:" are not part of the models. Each is a
plausible mistake in the code its neighbor stands for, and the property it must
break is listed under `mutants`.

## 4. The runs

| Run | Module | Question | Result |
|---|---|---|---|
| Writers | MCKausaMemory | two programs, stores (with a ttl, without, with 0) and sweeps, timeouts, bad parameters: is every call atomic, does history only grow, do indexes follow? | holds, 387 000 states |
| Search | MCKausaMemory | a console beside a server, two namespaces, exceptions inside transactions: is an answer true, does any connection stay in the past, what survives the exceptions? | holds, 988 000 states |
| OneAgent | MCKausaMemory | one agent stores, another program does the rest, both may die: one current episode of a text, indexes that follow, calls that end? | holds, 428 000 states |
| Ranking | MCRankedSearch | any query and hits, two namespaces, a full pool: is the fusion's order the promised one, is anything hidden, when does a search raise? | holds, 740 000 states |
| Service | MCService | two paid servers, a sweep, a console with a question and a paging client, servers that die: did the verifier accept all that was done, do citations hold, is a row skipped? | holds, 6 738 000 states |
| Unpaid | MCService | two hosted servers, a careful verifier: does a call work only with a good proof? | violated |
| NamespacesPileUp | MCKausaMemory | one agent, a second namespace: one current episode of a text? | violated |
| Cloud | MCSync | two devices, S3, Solana, failures, retries and late transactions: does the head always lead to a snapshot, one after the other, never an older one, and is any table ahead of it? | holds, 703 000 states |
| SharedFolder | MCSync | two programs, one LocalFS folder: what may a head point at? | complete blobs or ones being written, 3 421 000 states |
| CutShort | MCSync | Cloud's first question, LocalFS and a crash | violated |
| StampedChunks | MCSync | one program pushes twice, a second apart, with the gzip of the Pythons before 3.14: is an unchanged page put again? | violated |
| Chunk | MCChunking | round trip, delta, sizes, cut points, for every input of up to eight bytes | holds, 90 000 states |

The violated runs are the findings: each contradicts a sentence of the code's
own documentation, quoted in `PROJECT.json`.

The passing runs leave out, on purpose, circumstances in which the code does not
keep the same property. Each row names the change to the passing run that shows it;
the four violated runs are not repeated:

| Property | Holds in | Fails when |
|---|---|---|
| NoDuplicates | OneAgent | two processes store at the same time: `Roles <- StoreOnly` for both. The neighbor is read outside the transaction. |
| IndexesDerived | Writers, OneAgent | `Failures = {"abort"}`: store has no rollback, so after an exception between its INSERT and `vectors.add` the next call on the connection commits an episode without vector and entities. |
| ValidInterval | Writers | -1 among the `Ttls`: forget_expired reads the clock before it selects the rows; a row stored later in between with a negative ttl is due at once and closed at a time before its own. |
| SnapshotsCurrent | Search | `Failures = {"bind"}` or `{"locked"}`, as in Writers: a BEGIN whose statement failed stays open, the next SELECT pins a snapshot, and the next commit elsewhere outdates it. |
| CallsEnd | OneAgent | `Failures = {"abort"}`: a push on the connection whose store raised waits for its own write lock in `db.backup`. |
| EmptyAnswerIsTrue | Search | every process may do everything and `Failures = {"bind"}` or `{"locked"}`: later searches on that connection read its old snapshot. |
| PullFinds | Cloud | `Backend = "ipfs"`: the addresses of blobs are in the driver object that put them, no other device has them. |
| RowsWereHeads | no run, proved for LocalHead | two devices push to Solana: the transaction that lost is confirmed, too, and its snapshot recorded under the winner's number. `RowsNotAhead` is what is left of it, and Cloud checks that. |
| NeverOlder | Cloud | two programs push one file, `FileOf <- OneFile`: the number is taken after the upload, not at the dump. |
| SeqCounts | Cloud | `HeadKind = "local"` and two programs: both pass the comparison, then both write. |
| SeveralChannelsRise | Ranking | `2 * Pool > RrfK + 1`, outside the assumption: the top of one list then ties with or beats the bottom of two. The code's 30 and 60 are inside, 31 and 60 are not. |
| NothingHidden | Ranking | stated without its exception for a namespace larger than the pool: an old episode far from the query is in no list, whatever the limit. A negative limit, which the MCP tools pass on, cuts from the end. |
| PagesSkipNothing | Service | stated without its condition, for a listing of current rows: a row closed between two pages moves the later ones up by one. |

Three more weaknesses need no model of their own: one stored text without a letter or a
digit makes every search and every store that has it among its nearest raise
(`RaisesOnlyOnWordless` says that nothing else does, and a stored one stays);
`LocalHead.write` empties the head file before it writes it, so a crash in between
leaves one on which every read raises; and in bytes without hash boundaries, such as
zeroed pages, cuts are MAX_CHUNK apart from the last cut, so that one edit moves all
later ones, against the comment at `chunking.py:40`.

Bounds. `MaxCalls` bounds the calls of all processes together at two to four: enough for
a store, a second that supersedes it and a search or sweep between their statements, and
for a push, its retry and another device's push. Two processes suffice for the races the
code has, as nothing counts or waits for more than one other. `MaxClock` of one or two
is enough for a time to live of one to run out and for a stamp to change. Two pages make
one chunk change while the other stays. IPFS and Arweave are in no passing run: their
dictionary of addresses matters to pulls, which fail on other devices (see the table),
and to has(), which forgets what another process or an earlier life put; S3's has() may
say no as well, so a push does nothing with them that it does not do in `Cloud`, and the
proofs cover it. Chunk sizes of two to four with two mask bits keep the order of the
real limits (12 bits, 1024, 16384): the mask is not longer than the smallest chunk.
`Ranking` has a pool of two of four episodes, so lists are cut and the other namespace
can fill the vector channel's, rrf_k at twice the pool, tokens that meet in one
coordinate, and limits below, within and above what there is. `Service` has three calls
of tools, enough for two episodes one of which supersedes the other and an access, pages
of one row (the least limit the console accepts), and one question. Calls are bounded,
so a behaviour may stop: deadlock is not checked, and `OneAgent` checks that no call is
left in the middle. No symmetry is used.

Fairness. Only `OneAgent` needs it, for `CallsEnd`. It assumes weak fairness of every
process's next step: a process the operating system runs executes its statements. It
assumes neither that callers make calls, nor that clocks tick, nor that crashes or
failures happen. A writer's wait for a lock is not fair beyond that; it ends because the
holder commits.

Assumptions. The clock does not run backwards. `KausaMemory` takes searches to ask
for at least one result and the pool of 30 to hold every vector of the file, which
`RankedSearch` does not. BLAKE3 has no
collisions and AES-GCM no forgeries. S3 and IPFS store a blob whole or not at
all. A read of the Solana account at commitment Confirmed is current.
`confirm_transaction` returns once the transaction was executed, with success or
not. executemany of a touch is one statement. That NULL and TORN are no heads, and not
each other, is stated as `HeadAssumption`, because the proofs need it.

## 5. The proofs

`KausaMemoryProofs` proves, for any processes, roles, namespaces, texts,
distances, times to live, failures and bounds,

* `TypeCorrect`: `Spec => []TypeOK`,
* `LineageHolds`: `Spec => []Lineage`,
* `HistoryHolds`: `Spec => HistoryPreserved`,
* `SnapshotsStayCurrent`: `Spec => []SnapshotsCurrent`, if `Failures` has at most
  exceptions between statements (no parameter that cannot be bound, no lock that is
  waited for in vain),

from the assumptions `MemoryDbAssumptions` and `KausaMemoryAssumptions` (the
constants have their types, NULL is not a number). None of them is
inductive. The invariant `IInv` of the first three adds

* `OneWriter`: at most one connection is in state write;
* `ConnectionOK(p)`: what a connection sees is a lineage of its own, and, unless
  its snapshot is stale, it extends the committed database, so its commit can
  only extend it; in state read it is the committed database;
* `CallOK(p)`: between its INSERT and its commit a store's view ends with the row
  it inserted, of its own namespace, and the neighbor it is going to close is an
  older row of that namespace, in the view and in every later one, because rows
  keep their namespace.

The lemmas go in this order: what each statement of `MemoryDb` returns and extends; that
a step of one connection leaves the others' invariants alone (for a commit: all other
connections become stale, or see nothing yet); then one lemma for each group of actions;
then `IInvNext` and the theorems. For `SnapshotsStayCurrent` the invariant is
`Autocommit`: a connection is in a transaction only as the writer, because the first
statement that begins one also takes the lock.

`RankedSearchProofs` proves all five properties of the run, `TypeCorrect`,
`SeveralRise`, `BetterFirst`, `NoneHidden` and `OnlyWordlessRaise`, for any file, query,
hash function, pool, rrf_k with `2 * Pool <= RrfK` and limit. The invariant adds
`Embedding` (the sign of a coordinate is decided by its index, and one is not zero as
soon as a token was added: bit 1 of the hash is bit 1 of the index when the dimension is
a multiple of four), `Newest` (a namespace within the pool is in the temporal list as a
whole) and `Ordered` (what scores more than an episode of the answer is in it before it,
and a short answer has all that was found). The arithmetic is in `SignOfIndex`,
`ShareFalls` (shares fall with the rank) and `LastShare` (twice the top share is less
than three times the last one); `SeveralScoreMore` and `BetterScoresMore` compare the
scores. `SeveralRise` speaks of the default weights.

`EngineProofs` proves, each under the failures it can stand,

| Theorem | Statement | If |
|---|---|---|
| `IndexesStayDerived` | `Spec => []IndexesDerived` | no exception inside a transaction (`"abort" \notin Failures`) |
| `LedgerImplemented` | `Spec => ImplementsLedger` | the same |
| `CountsAgree` | `Spec => []StatsNotNegative` | |
| `IntervalsStayValid` | `Spec => []ValidInterval` | no negative time to live |
| `SearchesAreRegular` | `Spec => []SearchIsRegular` | no failure but deaths (`Failures = {}`) |
| `NothingMeansNothing` | `Spec => EmptyAnswerIsTrue` | the same |
| `StoresReconcile` | `Spec => []NoDuplicates` | one process stores (`OneStorer`), one namespace (`OneNamespace`), no exception inside a transaction, `SameDirection` |

* The indexes, all of them in full: vectors, full-text rows, entities and links. Lock
  timeouts, parameters that cannot be bound and crashes are allowed. With exceptions it
  is false, see above: the transaction stays open and the next commit publishes it half
  done. The invariant `DInv` says how far the indexes lag behind the rows at each
  statement of a call (`Lag(p)`: a row without its vector, a row without its links,
  closed rows that still have their vectors), and that the lag is nothing wherever a
  commit can follow.
* The ledger. `Effect(p)` says what the rows a writer sees are, compared with the
  committed ones: after the INSERT they are those and the new one, after the UPDATE one
  step `Record`; during a sweep they are a `Sweep` of the ids done so far
  (`SweepOneMore`); after the touch an `Access`. The lock keeps the committed rows where
  they are meanwhile, so the commit is that step, and every other action changes nothing
  of the ledger.
* The counts. Rows never leave a namespace (`ConnectionStep`), so what was counted as
  active is still there for the second statement.
* The times. `Clocked(p)`: from the moment a store has read the clock the neighbor it
  closes is valid from no later; what a sweep is to close has expired by its own
  reading. The condition is needed: with -1 among the `Ttls` the run `Writers` finds a
  sweep that closes a row stored after it began.
* The searches. `Regular(p)`: `seen` has everything current, and what has been gathered
  is in `seen`. A connection that is not in a transaction reads what is committed
  (`SearchSees`), and an entity of a namespace leads only to rows of it, which is where
  the indexes come in (`GraphStaysInside`): `_graph` compares no episode's namespace.
  The run `Search`, with fewer roles, allows exceptions too.
* The reconciliation. Lock timeouts, bad parameters and deaths are allowed, and any
  number of processes that sweep, search, count and push. `SameDirection` says of the
  distances what the property needs: a text has distance 0 to itself, and two texts that
  have it to a third have it to each other. It holds of the cosine distance, whose zero
  means one direction, except for texts without a token: their vector is zero and their
  distance NULL, which is `RankedSearch`'s matter. `Twins(d, c)` are the current rows
  that a store of `c` must not leave beside its own, and `Reconciled(p)` says that from
  `_neighbors` to the UPDATE there are none but the neighbor. It was read outside the
  transaction, but the other processes only close rows meanwhile (`NoMoreRows`), and on
  a stale snapshot the INSERT is refused. After the UPDATE no two current rows of the
  view are twins (`Distinct`), so neither are they after the commit. `ChoosesTwin` is
  where the one namespace is used: `knn` takes the nearest of the whole file and filters
  afterwards, so a twin in another namespace can hide the one to be closed
  (`NamespacesPileUp`). With two storers both may read the neighbor before either
  inserts; after an exception the next call commits the row without the UPDATE.

`ServiceProofs` proves `TypeCorrect`, `AllWorkAccepted` and `CitationsStay`, for any
namespaces, texts, questions, limits and proofs, and for either verifier.
`WorkWasAccepted` is not inductive: a call is accepted one step before it is used.
`Allowed` therefore counts the requests that were accepted and wait for their dispatch
(`Pending`) on the side of what is used, so that a dispatch that fails or a server that
dies only widens the gap; `Finite` serves the counting. It is a bound on work by
acceptances, and no more can be said: that an acceptance is backed by a payment of the
caller is `CallsArePaid`, which the run `Unpaid` refutes. `CitationsHold` follows from
`StepExtends`: every step extends the file.

`PagingProofs` proves `NothingSkipped`: `Spec => []PagesSkipNothing`, for any number
of rows and any size of page. The invariant `Reading` says that every row the client is
still owed has at least `offset` rows before it (`Rank`). New rows come before the
old ones, so ranks only grow; the rows of a page are those whose rank is from the offset
to below offset plus limit, because ranks are contiguous (`RanksContiguous`); so
an empty page leaves nothing owed. The offset is
what `_int_param` makes of it, cut at 10 000 000.

`SyncProofs` proves, for any processes, devices, files, pages, calls, failures and bounds,

| Theorem | Statement | For |
|---|---|---|
| `TypeCorrect` | `Spec => []TypeOK` | every driver and head |
| `HeadsArrive` | `Spec => []HeadArrives` | every driver, unless a process dies inside `LocalFS.put` (`NothingCut`) |
| `HeadsCanBeRestored` | `Spec => []HeadRestorable` | the drivers whose put is atomic: S3, IPFS, Arweave |
| `PullsFind` | `Spec => PullFinds` | S3 |
| `HeadsAreNumbered` | `Spec => []SeqCounts` | SolanaHead, or LocalHead and one program that pushes (`Ordered`) |
| `RowsRecordHeads` | `Spec => []RowsWereHeads` | LocalHead and one program that pushes |
| `RowsFollowHeads` | `Spec => []RowsNotAhead` | `Ordered` |
| `NeverOlderHolds` | `Spec => []NeverOlder` | `Ordered` and `OneWriterPerFile` |
| `RegisterImplemented` | `Spec => ImplementsRegister` | atomic puts and `Ordered` |

The restrictions are the ones the table of section 4 shows to be needed, but for
`RowsFollowHeads`, whose proof uses the numbering: TLC finds `RowsNotAhead` to hold for two
programs and LocalHead as well. `TypeCorrect` rests on `JobAt`, what the local variables hold at each step.

* What a head leads to. `Kept`: at each step of push, every locator collected so far is
  of a blob that is stored or that a live process is filling (`Coming`), and from the
  manifest on the whole snapshot is; with the transactions on their way this reaches
  `published`, while nothing is ever removed from the store. That is
  `HeadArrives`; with a driver whose put is atomic nothing is ever half
  filled, which makes it `HeadRestorable`.
* The numbers. For SolanaHead, no number in flight is more than one above the last
  accepted (`NotAhead`), so the program's comparison lets exactly the next one
  through (`AcceptedIsNext`). For LocalHead and one program (`LInv`), the head file has
  the last head or is cut short, whatever process died in whichever step, and the
  number in hand is the next one from the comparison to the write (`Moving`).
  `RowsRecordHeads` follows from the same invariant: the row is inserted after the write.
* The table and the head. A row is inserted by a process that has only the manifest
  it confirmed in hand (`Informed`). Every call draws its own nonce, so a manifest is
  sent once, under one number (`OwnSteps`, `Used`); an executed transaction, accepted or
  not, had a number the head has reached by then, as by `NotAhead` no number in flight is
  further ahead than the next one. `UInv` puts these together.
* What covers what. `Made` are the heads sent or published. `VInv`: a head is of a version
  that its file had (`MadeOK`), a higher number is never of an older version
  (`MadeInOrder`); what a push has in hand is made of the pages it dumped (`Drawn`), of
  a version that no head of its file exceeds, and from the comparison on with a number that
  none of them exceeds (`Latest`). The file only gets newer and is dumped before the
  number is taken, in a retry as well, so a late transaction is in order, too.
* The refinement needs the first two: an accepted transaction or a written file is
  `Publish` of the register, every other step is `Upload` or changes nothing of
  it (`StepRegister`).

`ChunkingProofs` proves, for all sizes with MIN_CHUNK at most MAX_CHUNK, any hash table
and any input,

| Theorem | Statement |
|---|---|
| `Typed` | `Spec => []TypeOK` |
| `ChunkSizes` | `Spec => []SizesBounded` |
| `RoundTrips` | `Spec => []RoundTrip` |
| `CutsLocal` | `Spec => []CutsAreLocal` |

The invariant adds to the sizes that the chunk under way starts at the last cut and is
shorter than MAX_CHUNK while the loop runs (`Positions`). The other theorems
speak of recursive functions and folds (`Manifest`, `Delta`, `CutsOf`, `Pow2`), and what
those compute is shown by induction over positions: `UpTo`, by the least number for
which a set of numbers fails, as the library's induction theorems
cannot be instantiated. `RoundTrips`: the chunks between the cuts, put together, have at
each position the input's byte (`Reassembled`), and `Delta` has each chunk that is
lacking once. `CutsLocal`: doubling a hash pushes bits out, so after `MaskBits` bytes the
bits under the mask do not depend on where hashing began (`RollForgets`), and a chunk is
at least that long when it may end (`MaskBits <= MinChunk`). `Local` then says that
the cuts found, followed by the reference's cuts from the chunk under way, are
`CutsOf` of the input.

`MemoryDbProofs` has no theorem of its own; it says once, for the other modules, what
each statement returns, keeps and extends.

Only model-checked: `CallsEnd` of the engine. Liveness under fairness and ENABLED are out
of the prover's reach. No other property of a passing run is without a theorem; the
findings (`NamespacesPileUp`, `CutShort`, `Unpaid`, `StampedChunks`) are TLC's.

## 6. Not modelled

Prices and the text of challenges, the console's lists of entities and snapshots (one
SELECT each), the regular expressions of entity extraction, FastEmbed's neural
model, key derivation and the ciphers, the bytes of accounts and
transactions, schema creation, HTTP and stdio transports, argument parsing, the
demonstration and the recall evaluation. `delete` of the drivers has no caller.
