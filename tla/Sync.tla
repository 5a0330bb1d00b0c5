-------------------------------- MODULE Sync --------------------------------
(***************************************************************************)
(* push and pull, run by several processes against one storage backend and *)
(* one head pointer.  A process owns a database file, alone or together    *)
(* with other processes of its machine.  Each step is one call on the      *)
(* backend, the head or the database; anything may happen between two.     *)
(*                                                                         *)
(* A snapshot is a sequence of chunks, one for each page of the file.  A   *)
(* page is known by its version: the number the file's last change got.    *)
(***************************************************************************)
EXTENDS BlobStore, HeadPointer, FiniteSets, FiniteSetsExt

CONSTANTS
  Files,        \* the database files
  FileOf,       \* FileOf[p]: the file process p works on
  Roles,        \* Roles[p]: the calls p makes
  Pages,        \* the number of pages of a file
  GzipStamps,   \* gzip.compress writes the time into its output (Python before 3.14)
  Failures,     \* which failures a run considers, see FailureKinds
  MaxEdits,     \* bound: memories are stored while the file's version is below it
  MaxCalls,     \* bound: the calls made by all processes together
  MaxClock      \* bound: the largest reading of the clock

\* "network": a request to the storage service or the chain fails, done or not done
\* "crash":   a process dies and is started again
\* "locked":  the INSERT into the snapshots table raises
FailureKinds == {"network", "crash", "locked"}

ASSUME SyncAssumptions ==
  /\ FileOf \in [Procs -> Files]
  /\ Roles \in [Procs -> SUBSET {"push", "pull"}]
  /\ Pages \in Nat \ {0}
  /\ GzipStamps \in BOOLEAN
  /\ Failures \subseteq FailureKinds
  /\ {MaxEdits, MaxCalls, MaxClock} \subseteq Nat

VARIABLES
  file,     \* file[f]: the version of each page
  rows,     \* rows[f]: the snapshots table, as the heads it records
  pc,       \* pc[p]: the next step of p's call
  job,      \* job[p]: the local variables of p's call
  clock,    \* the second gzip stamps
  calls     \* the calls made so far

syncVars == <<file, rows, pc, job, clock, calls>>
vars == <<whole, partial, known, head, sent, landed, published,
          file, rows, pc, job, clock, calls>>

Versions == [1..Pages -> Nat]

\* The ciphertext of a chunk: encrypt_deterministic of a page, with the second gzip stamps.
Chunks == [file : Files, page : 1..Pages, version : Nat, stamp : Nat]

\* The ciphertext of a manifest: a random nonce makes every one different.
Manifests == [chunks : Seq(Chunks), nonce : Nat]

Blobs == Chunks \cup Manifests

Heads == [cid : Manifests, seq : Nat \ {0}]

\* No head and a torn head file are told from a head, and from each other.
ASSUME HeadAssumption == NULL \notin Heads /\ TORN \notin Heads \cup {NULL}

Steps == {"idle", "chunk", "put", "fill", "head", "check", "open", "write", "send",
          "confirm", "row", "manifest", "parts"}

Jobs ==
  [ id    : Nat,                    \* stands for the nonce drawn for the manifest
    pages : Versions,               \* push: the dumped snapshot
    locs  : Seq(Blobs),             \* push: the locators so far; pull: those still to get
    blob  : Blobs \cup {NULL},      \* push: the ciphertext being put, at last the manifest
    seq   : Nat ]

NoPages == [i \in 1..Pages |-> 0]
NoJob == [id |-> 0, pages |-> NoPages, locs |-> << >>, blob |-> NULL, seq |-> 0]

Newest(pages) == Max(Range(pages))

Init ==
  /\ StoreInit
  /\ HeadInit
  /\ file = [f \in Files |-> [i \in 1..Pages |-> IF i = 1 THEN 1 ELSE 0]]
  /\ rows = [f \in Files |-> {}]
  /\ pc = [p \in Procs |-> "idle"]
  /\ job = [p \in Procs |-> NoJob]
  /\ clock = 0
  /\ calls = 0

Goto(p, step) == pc' = [pc EXCEPT ![p] = step]

\* p's call ends, by a return or by an exception.
Finish(p) == Goto(p, "idle") /\ job' = [job EXCEPT ![p] = NoJob]

Begin(p, role, step, j) ==
  /\ role \in Roles[p]
  /\ pc[p] = "idle"
  /\ calls < MaxCalls
  /\ calls' = calls + 1
  /\ Goto(p, step)
  /\ job' = [job EXCEPT ![p] = [j EXCEPT !.id = calls']]
  /\ UNCHANGED <<storeVars, headVars, file, rows, clock>>

-----------------------------------------------------------------------------
(* push: the blobs *)

\* The database is dumped, the snapshot cut into chunks.
PushCall(p) ==
  Begin(p, "push", "chunk", [NoJob EXCEPT !.pages = file[FileOf[p]]])

\* The ciphertext of the next chunk.
NextChunk(p) ==
  LET page == Len(job[p].locs) + 1 IN
  [ file |-> FileOf[p], page |-> page, version |-> job[p].pages[page],
    stamp |-> IF GzipStamps THEN clock ELSE 0 ]

\* Encrypt the next chunk and ask the backend whether it has it.
PushChunk(p) ==
  /\ pc[p] = "chunk"
  /\ Len(job[p].locs) < Pages
  /\ \E found \in Has(p, NextChunk(p)) :
       IF found
       THEN /\ job' = [job EXCEPT ![p].locs = Append(@, NextChunk(p))]
            /\ UNCHANGED pc
       ELSE /\ job' = [job EXCEPT ![p].blob = NextChunk(p)]
            /\ Goto(p, "put")
  /\ UNCHANGED <<storeVars, headVars, file, rows, clock, calls>>

\* Slip: the head is moved to a manifest that was not put.
PushManifestUnstored(p) ==
  /\ pc[p] = "chunk"
  /\ Len(job[p].locs) = Pages
  /\ job' = [job EXCEPT ![p].blob = [chunks |-> job[p].locs, nonce |-> job[p].id]]
  /\ Goto(p, "head")
  /\ UNCHANGED <<storeVars, headVars, file, rows, clock, calls>>

\* Every chunk is stored: encrypt the manifest.
PushManifest(p) ==
  /\ pc[p] = "chunk"
  /\ Len(job[p].locs) = Pages
  /\ job' = [job EXCEPT ![p].blob = [chunks |-> job[p].locs, nonce |-> job[p].id]]
  /\ Goto(p, "put")
  /\ UNCHANGED <<storeVars, headVars, file, rows, clock, calls>>

\* put returned: on to the next chunk, or after the manifest to the head.
Stored(p) ==
  IF Len(job[p].locs) < Pages
  THEN job' = [job EXCEPT ![p].locs = Append(@, job[p].blob)] /\ Goto(p, "chunk")
  ELSE Goto(p, "head") /\ UNCHANGED job

\* put of the network drivers.
Put(p) ==
  /\ pc[p] = "put"
  /\ Backend # "localfs"
  /\ Upload(p, job[p].blob)
  /\ Stored(p)
  /\ UNCHANGED <<headVars, file, rows, clock, calls>>

\* put of LocalFS: a file that has appeared since has() is left alone ...
PutExists(p) ==
  /\ pc[p] = "put"
  /\ Backend = "localfs"
  /\ job[p].blob \in whole \cup partial
  /\ Stored(p)
  /\ UNCHANGED <<storeVars, headVars, file, rows, clock, calls>>

\* ... unless it appears after put's own exists(). The file is opened, then filled.
PutOpen(p) ==
  /\ pc[p] = "put"
  /\ Backend = "localfs"
  /\ OpenBlob(job[p].blob)
  /\ Goto(p, "fill")
  /\ UNCHANGED <<headVars, file, rows, job, clock, calls>>

PutFill(p) ==
  /\ pc[p] = "fill"
  /\ FillBlob(job[p].blob)
  /\ Stored(p)
  /\ UNCHANGED <<headVars, file, rows, clock, calls>>

-----------------------------------------------------------------------------
(* push: the head *)

NewHead(p) == [cid |-> job[p].blob, seq |-> job[p].seq]

\* head.read(): a file that does not parse raises.
ReadHead(p) ==
  /\ pc[p] = "head"
  /\ IF head = TORN
     THEN Finish(p)
     ELSE /\ job' = [job EXCEPT ![p].seq = NextSeq]
          /\ Goto(p, IF HeadKind = "local" THEN "check" ELSE "send")
  /\ UNCHANGED <<storeVars, headVars, file, rows, clock, calls>>

\* LocalHead.write reads the file again and compares.
CheckHead(p) ==
  /\ pc[p] = "check"
  /\ IF head = TORN \/ Rejects(job[p].seq)
     THEN Finish(p)
     ELSE Goto(p, "open") /\ UNCHANGED job
  /\ UNCHANGED <<storeVars, headVars, file, rows, clock, calls>>

OpenHead(p) ==
  /\ pc[p] = "open"
  /\ TruncateHead
  /\ Goto(p, "write")
  /\ UNCHANGED <<storeVars, file, rows, job, clock, calls>>

WriteHead(p) ==
  /\ pc[p] = "write"
  /\ FillHead(NewHead(p))
  /\ Goto(p, "row")
  /\ UNCHANGED <<storeVars, file, rows, job, clock, calls>>

\* SolanaHead.write: the RPC node simulates the transaction before it forwards it.
SendHead(p) ==
  /\ pc[p] = "send"
  /\ IF Rejects(job[p].seq)
     THEN Finish(p) /\ UNCHANGED headVars
     ELSE Send(NewHead(p)) /\ Goto(p, "confirm") /\ UNCHANGED job
  /\ UNCHANGED <<storeVars, file, rows, clock, calls>>

\* Slip: a transaction counts as executed once it was sent.
ConfirmHeadAtOnce(p) ==
  /\ pc[p] = "confirm"
  /\ Goto(p, "row")
  /\ UNCHANGED <<storeVars, headVars, file, rows, job, clock, calls>>

\* confirm_transaction waits until the transaction was executed, not that it succeeded.
ConfirmHead(p) ==
  /\ pc[p] = "confirm"
  /\ job[p].blob \in landed
  /\ Goto(p, "row")
  /\ UNCHANGED <<storeVars, headVars, file, rows, job, clock, calls>>

\* INSERT OR REPLACE INTO snapshots, and commit: the last page changes.
InsertRow(p) ==
  LET f == FileOf[p] IN
  /\ pc[p] = "row"
  /\ rows' = [rows EXCEPT ![f] = {r \in @ : r.seq # job[p].seq} \cup {NewHead(p)}]
  /\ file' = [file EXCEPT ![f][Pages] = Newest(file[f]) + 1]
  /\ Finish(p)
  /\ UNCHANGED <<storeVars, headVars, clock, calls>>

-----------------------------------------------------------------------------
(* pull *)

\* Without a head, or with one that does not parse, the call ends at once.
PullCall(p) ==
  /\ head \notin {NULL, TORN}
  /\ Begin(p, "pull", "manifest", [NoJob EXCEPT !.locs = <<head.cid>>])

PullManifest(p) ==
  LET m == Head(job[p].locs) IN
  /\ pc[p] = "manifest"
  /\ Readable(p, m)
  /\ job' = [job EXCEPT ![p].locs = m.chunks]
  /\ Goto(p, "parts")
  /\ UNCHANGED <<storeVars, headVars, file, rows, clock, calls>>

PullPart(p) ==
  LET rest == Tail(job[p].locs) IN
  /\ pc[p] = "parts"
  /\ Readable(p, Head(job[p].locs))
  /\ IF rest = << >> THEN Finish(p) ELSE job' = [job EXCEPT ![p].locs = rest] /\ UNCHANGED pc
  /\ UNCHANGED <<storeVars, headVars, file, rows, clock, calls>>

\* get raises: the blob is not there, not whole, or its address is not known.
PullMisses(p) ==
  /\ pc[p] \in {"manifest", "parts"}
  /\ ~Readable(p, Head(job[p].locs))
  /\ Finish(p)
  /\ UNCHANGED <<storeVars, headVars, file, rows, clock, calls>>

-----------------------------------------------------------------------------
(* Failures. push handles none: what it did so far stays. *)

\* The upload raises, and the service has stored the blob or not.
PutFails(p) ==
  /\ "network" \in Failures
  /\ pc[p] = "put"
  /\ Backend # "localfs"
  /\ UploadUnanswered(job[p].blob) \/ UNCHANGED storeVars
  /\ Finish(p)
  /\ UNCHANGED <<headVars, file, rows, clock, calls>>

\* A get of the storage service, or push's read of the account, raises.
ReadFails(p) ==
  /\ "network" \in Failures
  /\ \/ pc[p] \in {"manifest", "parts"} /\ Backend # "localfs"
     \/ pc[p] = "head" /\ HeadKind = "solana"
  /\ Finish(p)
  /\ UNCHANGED <<storeVars, headVars, file, rows, clock, calls>>

\* The RPC call raises, and the transaction was forwarded or not.
SendFails(p) ==
  /\ "network" \in Failures
  /\ pc[p] = "send"
  /\ \/ ~Rejects(job[p].seq) /\ Send(NewHead(p))
     \/ UNCHANGED headVars
  /\ Finish(p)
  /\ UNCHANGED <<storeVars, file, rows, clock, calls>>

\* The confirmation times out; the transaction may still be on its way.
ConfirmFails(p) ==
  /\ "network" \in Failures
  /\ pc[p] = "confirm"
  /\ Finish(p)
  /\ UNCHANGED <<storeVars, headVars, file, rows, clock, calls>>

\* The head was moved, the row is not inserted.
RowFails(p) ==
  /\ "locked" \in Failures
  /\ pc[p] = "row"
  /\ Finish(p)
  /\ UNCHANGED <<storeVars, headVars, file, rows, clock, calls>>

Crash(p) ==
  /\ "crash" \in Failures
  /\ pc[p] # "idle" \/ known[p] # {}
  /\ Restart(p)
  /\ Finish(p)
  /\ UNCHANGED <<headVars, file, rows, clock, calls>>

\* The chain executes a transaction, or drops it.
Chain ==
  /\ \E h \in sent : SetHead(h) \/ Expire(h)
  /\ UNCHANGED <<storeVars, syncVars>>

\* A memory is stored: one page of the file changes.
Edit(f) ==
  /\ Newest(file[f]) < MaxEdits
  /\ \E i \in 1..Pages : file' = [file EXCEPT ![f][i] = Newest(file[f]) + 1]
  /\ UNCHANGED <<storeVars, headVars, rows, pc, job, clock, calls>>

Tick ==
  /\ clock < MaxClock
  /\ clock' = clock + 1
  /\ UNCHANGED <<storeVars, headVars, file, rows, pc, job, calls>>

-----------------------------------------------------------------------------

PushStep(p) ==
  \/ PushChunk(p) \/ PushManifest(p)
  \/ Put(p) \/ PutExists(p) \/ PutOpen(p) \/ PutFill(p)
  \/ ReadHead(p) \/ CheckHead(p) \/ OpenHead(p) \/ WriteHead(p)
  \/ SendHead(p) \/ ConfirmHead(p) \/ InsertRow(p)

PullStep(p) == PullManifest(p) \/ PullPart(p) \/ PullMisses(p)

Fails(p) ==
  \/ PutFails(p) \/ ReadFails(p) \/ SendFails(p) \/ ConfirmFails(p)
  \/ RowFails(p) \/ Crash(p)

Next ==
  \/ \E p \in Procs : PushCall(p) \/ PullCall(p) \/ PushStep(p) \/ PullStep(p) \/ Fails(p)
  \/ \E f \in Files : Edit(f)
  \/ Chain
  \/ Tick

Spec == Init /\ [][Next]_vars

-----------------------------------------------------------------------------
(* Properties. *)

TypeOK ==
  /\ {whole, partial} \subseteq SUBSET Blobs
  /\ known \in [Procs -> SUBSET Blobs]
  /\ head \in Heads \cup {NULL, TORN}
  /\ sent \in SUBSET Heads
  /\ landed \in SUBSET Manifests
  /\ published \in Seq(Heads)
  /\ file \in [Files -> Versions]
  /\ rows \in [Files -> SUBSET Heads]
  /\ pc \in [Procs -> Steps]
  /\ job \in [Procs -> Jobs]
  /\ clock \in Nat
  /\ calls \in Nat

\* The blobs of a snapshot are stored completely.
Restorable(m) == {m} \cup Range(m.chunks) \subseteq whole

\* A head is never published before, nor without, every blob it leads to: chunks are put
\* before the manifest and the manifest before the head, whichever step fails.
HeadRestorable == \A i \in DOMAIN published : Restorable(published[i].cid)

\* LocalFS makes the file of a blob before it writes the bytes, and has() sees the file. If
\* no process dies, a head whose blobs are not complete is waiting for one that writes them.
HeadArrives ==
  \A i \in DOMAIN published :
    \A b \in {published[i].cid} \cup Range(published[i].cid.chunks) :
      b \in whole \/ \E p \in Procs : pc[p] = "fill" /\ job[p].blob = b

\* Heads are numbered 1, 2, 3 ...: no write is accepted on top of a head its pusher has
\* not read, so no number is given twice and none is left out.
SeqCounts == \A i \in DOMAIN published : published[i].seq = i

\* The version of the file a snapshot was taken of.
FileIn(m) == m.chunks[1].file
VersionIn(m) == Max({c.version : c \in Range(m.chunks)})

\* A later head never restores an older state of the same file, late transactions and
\* retries included: this is what the strictly increasing seq is for.
NeverOlder ==
  \A i, j \in DOMAIN published :
    LET old == published[i].cid
        new == published[j].cid IN
    (i < j /\ FileIn(old) = FileIn(new)) => VersionIn(old) <= VersionIn(new)

\* The snapshots table records only heads that were published.
RowsWereHeads == \A f \in Files : rows[f] \subseteq Range(published)

\* No snapshots table is ahead of the head: a number it records is one the head has
\* reached, though the row is inserted by a process that never reads the head again, and
\* confirm_transaction does not tell an accepted transaction from a rejected one.
RowsNotAhead == \A f \in Files : \A r \in rows[f] : r.seq <= Len(published)

\* Incremental push: of an unchanged page nothing is put that is stored already, not even
\* encrypted differently. It fails where gzip writes the time: the same page put a second
\* later is another ciphertext, with another address.
OnlyNewChunks ==
  \A p \in Procs :
    (pc[p] = "put" /\ Len(job[p].locs) < Pages) =>
      \A b \in whole \cap Chunks :
        [b EXCEPT !.stamp = 0] # [job[p].blob EXCEPT !.stamp = 0]

\* Every pull that finds a head restores it, on every device.
PullFinds == [][\A p \in Procs : ~PullMisses(p)]_vars

Register ==
  INSTANCE SnapshotRegister WITH
    current <- IF published = << >> THEN NULL ELSE published[Len(published)],
    restorable <- {m \in whole \ Chunks : Restorable(m)}

\* Sync implements the register: it moves from one restorable snapshot to the next.
ImplementsRegister == Register!Spec

=============================================================================
