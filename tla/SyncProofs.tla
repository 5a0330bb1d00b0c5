----------------------------- MODULE SyncProofs -----------------------------
(***************************************************************************)
(* push and pull, proved for any number of processes, files, pages, calls  *)
(* and failures: types; what is published can be restored, or is being     *)
(* written by somebody; the snapshots table, the numbers of the heads and  *)
(* the age of what they lead to; the refinement of the register. Each      *)
(* theorem names the drivers, head pointers and writers for which it       *)
(* holds.                                                                  *)
(***************************************************************************)
EXTENDS Sync, FiniteSetTheorems, WellFoundedInduction, TLAPS

-----------------------------------------------------------------------------
(* Newest is a version. *)

\* A set of numbers that is not empty has a least one.
LEMMA LeastNumber ==
  ASSUME NEW T \in SUBSET Nat, T # {}
  PROVE  \E least \in T : \A n \in T : least <= n
<1>1. \E least \in T : \A n \in T : ~ (<<n, least>> \in OpToRel(<, Nat))
  BY NatLessThanWellFounded, WFMin, Zenon
<1>2. \E least \in T : \A n \in T : ~ (n < least)
  BY <1>1, Zenon DEF OpToRel
<1> QED
  BY <1>2

\* Finitely many pages have an upper bound.
LEMMA PagesBounded ==
  ASSUME NEW pages \in Versions
  PROVE  \E n \in Nat : \A i \in 1 .. Pages : pages[i] <= n
<1> DEFINE Bounded(k) == \E n \in Nat : \A i \in 1 .. k : pages[i] <= n
           T == {k \in 1 .. Pages : ~ Bounded(k)}
<1>1. Pages \in Nat \ {0} /\ \A i \in 1 .. Pages : pages[i] \in Nat
  BY SyncAssumptions DEF Versions
<1>2. ASSUME T # {} PROVE FALSE
  <2>1. T \in SUBSET Nat
    BY <1>1
  <2>2. PICK k \in T : \A j \in T : k <= j
    BY <1>2, <2>1, LeastNumber
  <2>3. k \in 1 .. Pages /\ ~ Bounded(k)
    BY <2>2
  <2>4. k # 1
    <3>1. \A i \in 1 .. 1 : pages[i] <= pages[1] /\ pages[1] \in Nat
      BY <1>1
    <3> QED
      BY <2>3, <3>1
  <2>5. k - 1 \in 1 .. Pages /\ Bounded(k - 1)
    <3>1. k - 1 \in 1 .. Pages /\ ~ (k <= k - 1)
      BY <1>1, <2>3, <2>4
    <3>2. k - 1 \notin T
      <4> HIDE DEF T
      <4> QED
        BY <3>1, <2>2
    <3> HIDE DEF Bounded
    <3> QED
      BY <3>1, <3>2
  <2>6. PICK n \in Nat : \A i \in 1 .. k - 1 : pages[i] <= n
    BY <2>5
  <2> DEFINE more == IF n <= pages[k] THEN pages[k] ELSE n
  <2>7. more \in Nat /\ n <= more /\ pages[k] <= more
    BY <1>1, <2>3
  <2> HIDE DEF more
  <2>8. ASSUME NEW i \in 1 .. k PROVE pages[i] <= more
    <3>1. i = k \/ i \in 1 .. k - 1
      BY <2>3
    <3>2. pages[i] \in Nat
      BY <1>1, <2>3
    <3> QED
      BY <2>6, <2>7, <3>1, <3>2
  <2> QED
    BY <2>3, <2>7, <2>8
<1>3. Pages \in 1 .. Pages
  BY <1>1
<1>4. Bounded(Pages)
  <2> HIDE DEF Bounded
  <2> QED
    BY <1>2, <1>3
<1> QED
  BY <1>4

\* The newest version is one of the versions.
LEMMA NewestType ==
  ASSUME NEW pages \in Versions
  PROVE  Newest(pages) \in Nat /\ \A i \in 1 .. Pages : pages[i] <= Newest(pages)
<1> DEFINE S == Range(pages)
           T == {n \in Nat : \A s \in S : s <= n}
<1>1. /\ S \subseteq Nat /\ S # {} /\ \A i \in 1 .. Pages : pages[i] \in S
      /\ \A s \in S : \E i \in 1 .. Pages : s = pages[i]
  BY SyncAssumptions DEF Versions, Range
<1> HIDE DEF S
<1>2. T # {} /\ T \in SUBSET Nat
  BY <1>1, PagesBounded
<1>3. PICK least \in T : \A n \in T : least <= n
  BY <1>2, LeastNumber
<1>4. least \in S
  <2> SUFFICES ASSUME least \notin S PROVE FALSE
    OBVIOUS
  <2>1. least \in Nat /\ \A s \in S : s < least
    BY <1>1, <1>3
  <2>2. least # 0
    <3>1. PICK s \in S : TRUE
      BY <1>1
    <3>2. s \in Nat /\ s < least
      BY <1>1, <2>1
    <3> QED
      BY <2>1, <3>2
  <2>3. least - 1 \in Nat /\ \A s \in S : s <= least - 1
    BY <1>1, <2>1, <2>2
  <2>4. least - 1 \in T
    BY <2>3
  <2> HIDE DEF T
  <2> QED
    BY <1>3, <2>1, <2>4
<1>5. \E x \in S : \A y \in S : x >= y
  BY <1>1, <1>3, <1>4
<1>6. Max(S) \in S /\ \A y \in S : Max(S) >= y
  BY <1>5 DEF Max
<1> QED
  BY <1>1, <1>6 DEF Newest, S

-----------------------------------------------------------------------------
(* The inductive invariant of the types. *)

\* A manifest of a whole snapshot.
Full(m) == m \in Manifests /\ Len(m.chunks) = Pages

\* The steps of push that have a manifest to publish.
HeadSteps == {"check", "open", "write", "send", "confirm", "row"}

\* What the local variables hold at a step.
JobAt(step, j) ==
  /\ step \in {"chunk", "put", "fill"} => j.locs \in Seq(Chunks) /\ Len(j.locs) <= Pages
  /\ step \in {"put", "fill"} /\ Len(j.locs) < Pages => j.blob \in Chunks
  /\ step \in {"put", "fill"} /\ Len(j.locs) = Pages =>
       j.blob = [chunks |-> j.locs, nonce |-> j.id]
  /\ step \in HeadSteps \cup {"head"} => Full(j.blob)
  /\ step \in HeadSteps => j.seq \in Nat \ {0}
  /\ step = "manifest" => \E m : Full(m) /\ j.locs = <<m>>
  /\ step = "parts" => j.locs \in Seq(Chunks) /\ j.locs # << >>

StoreOK ==
  /\ whole \subseteq Blobs /\ partial \subseteq Blobs
  /\ known \in [Procs -> SUBSET Blobs]

HeadsOK ==
  /\ head \in Heads \cup {NULL, TORN}
  /\ sent \in SUBSET Heads
  /\ landed \in SUBSET Manifests
  /\ published \in Seq(Heads)
  /\ head \notin {NULL, TORN} => Full(head.cid)
  /\ \A h \in sent : Full(h.cid)

FilesOK == file \in [Files -> Versions] /\ rows \in [Files -> SUBSET Heads]

JobsOK ==
  /\ pc \in [Procs -> Steps] /\ job \in [Procs -> Jobs]
  /\ \A p \in Procs : JobAt(pc[p], job[p])

IInv == StoreOK /\ HeadsOK /\ FilesOK /\ JobsOK /\ clock \in Nat /\ calls \in Nat

\* The idle job is a job.
LEMMA NoJobType == NoJob \in Jobs
<1>1. << >> \in Seq(Blobs)
  OBVIOUS
<1> QED
  BY <1>1 DEF NoJob, NoPages, Jobs, Versions

\* A call moves on.
LEMMA JobStep ==
  ASSUME JobsOK, NEW p \in Procs, NEW step \in Steps, NEW j \in Jobs, JobAt(step, j),
         pc' = [pc EXCEPT ![p] = step], job' = [job EXCEPT ![p] = j]
  PROVE  JobsOK'
<1>1. /\ pc' \in [Procs -> Steps] /\ job' \in [Procs -> Jobs]
      /\ pc'[p] = step /\ job'[p] = j
      /\ \A q \in Procs \ {p} : pc'[q] = pc[q] /\ job'[q] = job[q]
  BY DEF JobsOK
<1>2. \A q \in Procs : JobAt(pc'[q], job'[q])
  BY <1>1 DEF JobsOK
<1> QED
  BY <1>1, <1>2 DEF JobsOK

\* A call ends.
LEMMA FinishStep ==
  ASSUME JobsOK, NEW p \in Procs, Finish(p)
  PROVE  JobsOK'
<1>1. JobAt("idle", NoJob)
  BY DEF JobAt, HeadSteps
<1>2. "idle" \in Steps
  BY DEF Steps
<1> QED
  BY <1>1, <1>2, NoJobType, JobStep DEF Finish, Goto

\* A call goes on with the variables it has.
LEMMA GotoStep ==
  ASSUME JobsOK, NEW p \in Procs, NEW step \in Steps, Goto(p, step), UNCHANGED job,
         JobAt(step, job[p])
  PROVE  JobsOK'
<1>1. job' = [job EXCEPT ![p] = job[p]] /\ job[p] \in Jobs
  BY DEF JobsOK
<1> QED
  BY <1>1, JobStep DEF Goto

\* A chunk that is stored is one locator more, a manifest is ready for the head.
LEMMA StoredStep ==
  ASSUME JobsOK, NEW p \in Procs, pc[p] \in {"put", "fill"}, Stored(p)
  PROVE  /\ JobsOK'
         /\ job[p].blob \in Blobs
<1> DEFINE j == job[p]
<1>1. j \in Jobs /\ JobAt(pc[p], j) /\ Pages \in Nat
  BY SyncAssumptions DEF JobsOK
<1>2. j.locs \in Seq(Chunks) /\ Len(j.locs) <= Pages
  BY <1>1 DEF JobAt
<1>3. CASE Len(j.locs) < Pages
  <2> DEFINE locs == Append(j.locs, j.blob)
             k == [j EXCEPT !.locs = locs]
  <2>1. j.blob \in Chunks
    BY <1>1, <1>3 DEF JobAt
  <2>2. locs \in Seq(Chunks) /\ Len(locs) <= Pages
    BY <1>1, <1>2, <1>3, <2>1
  <2>3. locs \in Seq(Blobs)
    BY <2>2 DEF Blobs
  <2> HIDE DEF locs
  <2>4. k \in Jobs /\ k.locs = locs
    BY <1>1, <2>3 DEF Jobs
  <2>5. job' = [job EXCEPT ![p] = k] /\ pc' = [pc EXCEPT ![p] = "chunk"]
    BY <1>3 DEF Stored, Goto, locs
  <2> HIDE DEF k
  <2>6. JobAt("chunk", k) /\ "chunk" \in Steps
    BY <2>2, <2>4 DEF JobAt, HeadSteps, Steps
  <2> QED
    BY <2>1, <2>4, <2>5, <2>6, JobStep DEF Blobs
<1>4. CASE Len(j.locs) = Pages
  <2>1. j.blob = [chunks |-> j.locs, nonce |-> j.id] /\ j.id \in Nat
    BY <1>1, <1>4 DEF JobAt, Jobs
  <2>2. Full(j.blob)
    BY <1>2, <1>4, <2>1 DEF Full, Manifests
  <2>3. JobAt("head", j) /\ "head" \in Steps
    BY <2>2 DEF JobAt, HeadSteps, Steps
  <2>4. Goto(p, "head") /\ UNCHANGED job
    BY <1>4, <1>1 DEF Stored
  <2> QED
    BY <2>2, <2>3, <2>4, GotoStep DEF Full, Blobs
<1>5. Len(j.locs) \in Nat
  BY <1>2
<1> QED
  BY <1>1, <1>2, <1>3, <1>4, <1>5

-----------------------------------------------------------------------------
(* Each step keeps the types. *)

\* What happens to a blob.
LEMMA StoreStep ==
  ASSUME StoreOK, NEW p \in Procs, NEW b \in Blobs,
         Upload(p, b) \/ UploadUnanswered(b) \/ OpenBlob(b) \/ FillBlob(b)
  PROVE  StoreOK'
<1>1. whole' \subseteq Blobs /\ partial' \subseteq Blobs
  BY DEF StoreOK, Upload, UploadUnanswered, OpenBlob, FillBlob
<1>2. known' = known \/ known' = [known EXCEPT ![p] = @ \cup {b}]
  BY DEF Upload, UploadUnanswered, OpenBlob, FillBlob
<1>3. known' \in [Procs -> SUBSET Blobs]
  BY <1>2 DEF StoreOK
<1> QED
  BY <1>1, <1>3 DEF StoreOK

\* The head a push publishes.
LEMMA NewHeadType ==
  ASSUME JobsOK, NEW p \in Procs, pc[p] \in HeadSteps
  PROVE  NewHead(p) \in Heads /\ Full(NewHead(p).cid) /\ NewHead(p).cid = job[p].blob
<1>1. job[p] \in Jobs /\ JobAt(pc[p], job[p])
  BY DEF JobsOK
<1>2. Full(job[p].blob) /\ job[p].seq \in Nat \ {0}
  BY <1>1 DEF JobAt
<1> QED
  BY <1>2 DEF NewHead, Heads, Full

\* A call begins.
LEMMA PushCallType ==
  ASSUME IInv, NEW p \in Procs, PushCall(p)
  PROVE  IInv'
<1> DEFINE j == [[NoJob EXCEPT !.pages = file[FileOf[p]]] EXCEPT !.id = calls']
<1>1. calls' \in Nat /\ file[FileOf[p]] \in Versions
  BY SyncAssumptions DEF IInv, FilesOK, PushCall, Begin
<1>2. j \in Jobs /\ j.locs = << >>
  BY <1>1, NoJobType DEF NoJob, Jobs
<1>3. JobAt("chunk", j) /\ "chunk" \in Steps
  <2>1. << >> \in Seq(Chunks) /\ Len(<< >>) <= Pages
    BY SyncAssumptions
  <2> HIDE DEF j
  <2> QED
    BY <1>2, <2>1 DEF JobAt, HeadSteps, Steps
<1>4. pc' = [pc EXCEPT ![p] = "chunk"] /\ job' = [job EXCEPT ![p] = j]
  BY DEF PushCall, Begin, Goto
<1>5. JobsOK'
  <2> HIDE DEF j
  <2> QED
    BY <1>2, <1>3, <1>4, JobStep DEF IInv
<1> QED
  BY <1>1, <1>5 DEF PushCall, Begin, IInv, StoreOK, HeadsOK, FilesOK, storeVars, headVars

LEMMA PullCallType ==
  ASSUME IInv, NEW p \in Procs, PullCall(p)
  PROVE  IInv'
<1> DEFINE j == [[NoJob EXCEPT !.locs = <<head.cid>>] EXCEPT !.id = calls']
<1>1. calls' \in Nat /\ Full(head.cid)
  BY DEF IInv, HeadsOK, PullCall, Begin
<1>2. <<head.cid>> \in Seq(Blobs)
  BY <1>1 DEF Full, Blobs
<1>3. j \in Jobs /\ j.locs = <<head.cid>>
  BY <1>1, <1>2, NoJobType DEF NoJob, Jobs
<1>4. JobAt("manifest", j) /\ "manifest" \in Steps
  <2> HIDE DEF j
  <2> QED
    BY <1>1, <1>3 DEF JobAt, HeadSteps, Steps
<1>5. pc' = [pc EXCEPT ![p] = "manifest"] /\ job' = [job EXCEPT ![p] = j]
  BY DEF PullCall, Begin, Goto
<1>6. JobsOK'
  <2> HIDE DEF j
  <2> QED
    BY <1>3, <1>4, <1>5, JobStep DEF IInv
<1> QED
  BY <1>1, <1>6 DEF PullCall, Begin, IInv, StoreOK, HeadsOK, FilesOK, storeVars, headVars

\* The next chunk is a chunk.
LEMMA NextChunkType ==
  ASSUME IInv, NEW p \in Procs, pc[p] = "chunk", Len(job[p].locs) < Pages
  PROVE  NextChunk(p) \in Chunks
<1>1. job[p] \in Jobs /\ JobAt("chunk", job[p])
  BY DEF IInv, JobsOK
<1>2. job[p].locs \in Seq(Chunks) /\ job[p].pages \in Versions
  BY <1>1 DEF JobAt, Jobs
<1>3. Len(job[p].locs) + 1 \in 1 .. Pages
  BY <1>2, SyncAssumptions
<1>4. job[p].pages[Len(job[p].locs) + 1] \in Nat /\ FileOf[p] \in Files /\ clock \in Nat
  BY <1>2, <1>3, SyncAssumptions DEF Versions, IInv
<1> QED
  BY <1>3, <1>4 DEF NextChunk, Chunks

LEMMA PushChunkType ==
  ASSUME IInv, NEW p \in Procs, PushChunk(p)
  PROVE  IInv'
<1> DEFINE j == job[p]
           b == NextChunk(p)
<1>1. b \in Chunks
  BY NextChunkType DEF PushChunk
<1> HIDE DEF b
<1>2. j \in Jobs /\ j.locs \in Seq(Chunks) /\ Len(j.locs) < Pages /\ Pages \in Nat
  BY SyncAssumptions DEF PushChunk, IInv, JobsOK, JobAt
<1>3. CASE job' = [job EXCEPT ![p].locs = Append(@, b)] /\ UNCHANGED pc
  <2> DEFINE locs == Append(j.locs, b)
             k == [j EXCEPT !.locs = locs]
  <2>1. locs \in Seq(Chunks) /\ Len(locs) <= Pages
    BY <1>1, <1>2
  <2>2. locs \in Seq(Blobs)
    BY <2>1 DEF Blobs
  <2>3. job' = [job EXCEPT ![p] = k]
    BY <1>3
  <2> HIDE DEF locs
  <2>4. k \in Jobs /\ k.locs = locs
    BY <1>2, <2>2 DEF Jobs
  <2> HIDE DEF k
  <2>5. JobAt("chunk", k) /\ "chunk" \in Steps
    BY <2>1, <2>4 DEF JobAt, HeadSteps, Steps
  <2>6. pc' = [pc EXCEPT ![p] = "chunk"]
    BY <1>3 DEF PushChunk, IInv, JobsOK
  <2> QED
    BY <2>3, <2>4, <2>5, <2>6, JobStep DEF IInv
       , PushChunk, StoreOK, HeadsOK, FilesOK, storeVars, headVars
<1>4. CASE job' = [job EXCEPT ![p].blob = b] /\ Goto(p, "put")
  <2> DEFINE k == [j EXCEPT !.blob = b]
  <2>1. job' = [job EXCEPT ![p] = k]
    BY <1>4
  <2>2. k \in Jobs /\ k.locs = j.locs /\ k.blob = b
    BY <1>1, <1>2 DEF Jobs, Blobs
  <2> HIDE DEF k
  <2>3. JobAt("put", k) /\ "put" \in Steps
    BY <1>1, <1>2, <2>2 DEF JobAt, HeadSteps, Steps
  <2> QED
    BY <1>4, <2>1, <2>2, <2>3, JobStep DEF IInv, Goto
       , PushChunk, StoreOK, HeadsOK, FilesOK, storeVars, headVars
<1> QED
  BY <1>3, <1>4 DEF PushChunk, b

LEMMA PushManifestType ==
  ASSUME IInv, NEW p \in Procs, PushManifest(p)
  PROVE  IInv'
<1> DEFINE j == job[p]
           m == [chunks |-> j.locs, nonce |-> j.id]
           k == [j EXCEPT !.blob = m]
<1>1. /\ j \in Jobs /\ j.locs \in Seq(Chunks) /\ Len(j.locs) = Pages /\ Pages \in Nat
      /\ j.id \in Nat
  BY SyncAssumptions DEF PushManifest, IInv, JobsOK, JobAt, Jobs
<1>2. m \in Blobs
  BY <1>1 DEF Manifests, Blobs
<1>3. job' = [job EXCEPT ![p] = k]
  BY DEF PushManifest
<1>4. k \in Jobs /\ k.locs = j.locs /\ k.id = j.id /\ k.blob = m
  <2> HIDE DEF m
  <2> QED
    BY <1>1, <1>2 DEF Jobs
<1>5. JobAt("put", k) /\ "put" \in Steps
  <2> HIDE DEF k
  <2> QED
    BY <1>1, <1>4 DEF JobAt, HeadSteps, Steps
<1>6. JobsOK'
  <2> HIDE DEF k
  <2> QED
    BY <1>3, <1>4, <1>5, JobStep DEF IInv, PushManifest, Goto
<1> QED
  BY <1>6 DEF PushManifest, IInv, StoreOK, HeadsOK, FilesOK, storeVars, headVars

\* put, in one step or two.
LEMMA PutType ==
  ASSUME IInv, NEW p \in Procs, Put(p) \/ PutExists(p) \/ PutOpen(p) \/ PutFill(p)
  PROVE  IInv'
<1>1. pc[p] \in {"put", "fill"} /\ pc[p] \in Steps /\ job[p] \in Jobs /\ JobAt(pc[p], job[p])
  BY DEF Put, PutExists, PutOpen, PutFill, IInv, JobsOK
<1>2. job[p].blob \in Blobs
  <2>1. job[p].locs \in Seq(Chunks) /\ Len(job[p].locs) \in Nat /\ Len(job[p].locs) <= Pages
    BY <1>1 DEF JobAt
  <2>2. CASE Len(job[p].locs) < Pages
    BY <1>1, <2>2 DEF JobAt, Blobs
  <2>3. CASE Len(job[p].locs) = Pages
    <3>1. job[p].blob = [chunks |-> job[p].locs, nonce |-> job[p].id] /\ job[p].id \in Nat
      BY <1>1, <2>3 DEF JobAt, Jobs
    <3> QED
      BY <2>1, <3>1 DEF Blobs, Manifests
  <2> QED
    BY <2>1, <2>2, <2>3, SyncAssumptions
<1>3. StoreOK'
  <2>1. CASE UNCHANGED storeVars
    BY <2>1 DEF IInv, StoreOK, storeVars
  <2> QED
    BY <1>2, <2>1, StoreStep DEF IInv, Put, PutExists, PutOpen, PutFill
<1>4. JobsOK'
  <2>1. CASE PutOpen(p)
    <3>1. JobAt("fill", job[p]) /\ "fill" \in Steps
      BY <1>1, <2>1 DEF JobAt, PutOpen, HeadSteps, Steps
    <3> QED
      BY <2>1, <3>1, GotoStep DEF PutOpen, IInv
  <2>2. CASE Stored(p)
    BY <1>1, <2>2, StoredStep DEF IInv
  <2> QED
    BY <2>1, <2>2 DEF Put, PutExists, PutFill
<1> QED
  BY <1>3, <1>4 DEF Put, PutExists, PutOpen, PutFill, IInv, HeadsOK, FilesOK, headVars

\* The head is read, compared, truncated, written, or sent and waited for.
LEMMA ReadHeadType ==
  ASSUME IInv, NEW p \in Procs, ReadHead(p)
  PROVE  IInv'
<1> DEFINE step == IF HeadKind = "local" THEN "check" ELSE "send"
           k == [job[p] EXCEPT !.seq = NextSeq]
<1>1. job[p] \in Jobs /\ Full(job[p].blob) /\ step \in {"check", "send"}
  BY DEF ReadHead, IInv, JobsOK, JobAt
<1>2. CASE head = TORN
  BY <1>2, FinishStep DEF ReadHead, IInv, StoreOK, HeadsOK, FilesOK, storeVars, headVars
<1>3. CASE head # TORN
  <2>1. NextSeq \in Nat \ {0}
    BY <1>3 DEF NextSeq, IInv, HeadsOK, Heads
  <2>2. k \in Jobs /\ k.blob = job[p].blob /\ k.seq = NextSeq
    <3> HIDE DEF step
    <3> QED
      BY <1>1, <2>1 DEF Jobs
  <2>3. job' = [job EXCEPT ![p] = k] /\ pc' = [pc EXCEPT ![p] = step]
    BY <1>3 DEF ReadHead, Goto
  <2>4. JobAt(step, k) /\ step \in Steps
    <3> HIDE DEF k, step
    <3> QED
      BY <1>1, <2>1, <2>2 DEF JobAt, HeadSteps, Steps
  <2>5. JobsOK'
    <3> HIDE DEF k, step
    <3> QED
      BY <2>2, <2>3, <2>4, JobStep DEF IInv
  <2> QED
    BY <2>5 DEF ReadHead, IInv, StoreOK, HeadsOK, FilesOK, storeVars, headVars
<1> QED
  BY <1>2, <1>3

\* From one head step to another the variables stay what they are.
LEMMA HeadStepsGo ==
  ASSUME JobsOK, NEW p \in Procs, pc[p] \in HeadSteps, NEW step \in HeadSteps,
         Goto(p, step), UNCHANGED job
  PROVE  JobsOK'
<1>1. JobAt(pc[p], job[p])
  BY DEF JobsOK
<1>2. JobAt(step, job[p]) /\ step \in Steps
  BY <1>1 DEF JobAt, HeadSteps, Steps
<1> QED
  BY <1>2, GotoStep

\* A head is published, by a process or by the chain.
LEMMA PublishType ==
  ASSUME HeadsOK, NEW h \in Heads, Full(h.cid), Publish(h)
  PROVE  /\ head' \in Heads \cup {NULL, TORN} /\ Full(head'.cid)
         /\ published' \in Seq(Heads)
BY DEF Publish, HeadsOK

LEMMA LocalHeadType ==
  ASSUME IInv, NEW p \in Procs, CheckHead(p) \/ OpenHead(p) \/ WriteHead(p)
  PROVE  IInv'
<1>1. CASE CheckHead(p)
  <2>1. JobsOK'
    BY <1>1, FinishStep, HeadStepsGo DEF CheckHead, HeadSteps, IInv
  <2> QED
    BY <1>1, <2>1 DEF CheckHead, IInv, StoreOK, HeadsOK, FilesOK, storeVars, headVars
<1>2. CASE OpenHead(p)
  <2>1. JobsOK'
    BY <1>2, HeadStepsGo DEF OpenHead, HeadSteps, IInv
  <2>2. HeadsOK'
    BY <1>2 DEF OpenHead, TruncateHead, IInv, HeadsOK
  <2> QED
    BY <1>2, <2>1, <2>2 DEF OpenHead, IInv, StoreOK, FilesOK, storeVars
<1>3. CASE WriteHead(p)
  <2>1. JobsOK'
    BY <1>3, HeadStepsGo DEF WriteHead, HeadSteps, IInv
  <2>2. NewHead(p) \in Heads /\ Full(NewHead(p).cid)
    BY <1>3, NewHeadType DEF WriteHead, HeadSteps, IInv
  <2>3. HeadsOK'
    <3>1. CASE Publish(NewHead(p))
      BY <1>3, <2>2, <3>1, PublishType DEF WriteHead, FillHead, IInv, HeadsOK
    <3>2. CASE head' = TORN /\ UNCHANGED published
      BY <1>3, <3>2 DEF WriteHead, FillHead, IInv, HeadsOK
    <3> QED
      BY <1>3, <3>1, <3>2 DEF WriteHead, FillHead
  <2> QED
    BY <1>3, <2>1, <2>3 DEF WriteHead, IInv, StoreOK, FilesOK, storeVars
<1> QED
  BY <1>1, <1>2, <1>3

\* A transaction is sent.
LEMMA SendType ==
  ASSUME HeadsOK, NEW h \in Heads, Full(h.cid), Send(h)
  PROVE  HeadsOK'
BY DEF HeadsOK, Send

LEMMA SolanaHeadType ==
  ASSUME IInv, NEW p \in Procs,
         SendHead(p) \/ SendFails(p) \/ ConfirmHead(p) \/ ConfirmFails(p)
  PROVE  IInv'
<1>1. pc[p] \in HeadSteps
  BY DEF SendHead, SendFails, ConfirmHead, ConfirmFails, HeadSteps
<1>2. JobsOK'
  <2>1. CASE Finish(p)
    BY <2>1, FinishStep DEF IInv
  <2>2. CASE \E step \in {"confirm", "row"} : Goto(p, step) /\ UNCHANGED job
    BY <1>1, <2>2, HeadStepsGo DEF HeadSteps, IInv
  <2> QED
    BY <2>1, <2>2 DEF SendHead, SendFails, ConfirmHead, ConfirmFails
<1>3. HeadsOK'
  <2>1. CASE UNCHANGED headVars
    BY <2>1 DEF IInv, HeadsOK, headVars
  <2>2. CASE Send(NewHead(p))
    BY <1>1, <2>2, NewHeadType, SendType DEF IInv
  <2> QED
    BY <2>1, <2>2 DEF SendHead, SendFails, ConfirmHead, ConfirmFails
<1> QED
  BY <1>2, <1>3 DEF SendHead, SendFails, ConfirmHead, ConfirmFails, IInv, StoreOK, FilesOK,
                    storeVars

\* A page of a file changes.
LEMMA EditType ==
  ASSUME FilesOK, NEW f \in Files, NEW i \in 1 .. Pages,
         file' = [file EXCEPT ![f][i] = Newest(file[f]) + 1],
         rows' \in [Files -> SUBSET Heads]
  PROVE  FilesOK'
<1>1. file[f] \in Versions /\ Newest(file[f]) + 1 \in Nat
  BY NewestType DEF FilesOK
<1> DEFINE pages == [file[f] EXCEPT ![i] = Newest(file[f]) + 1]
<1>2. pages \in Versions
  BY <1>1 DEF Versions
<1>3. file' = [file EXCEPT ![f] = pages]
  OBVIOUS
<1> HIDE DEF pages
<1> QED
  BY <1>2, <1>3 DEF FilesOK

LEMMA InsertRowType ==
  ASSUME IInv, NEW p \in Procs, InsertRow(p)
  PROVE  IInv'
<1>1. NewHead(p) \in Heads
  BY NewHeadType DEF InsertRow, HeadSteps, IInv
<1>2. FileOf[p] \in Files /\ Pages \in 1 .. Pages
  BY SyncAssumptions
<1>3. rows' \in [Files -> SUBSET Heads]
  BY <1>1, <1>2 DEF InsertRow, IInv, FilesOK
<1>4. FilesOK'
  BY <1>2, <1>3, EditType DEF InsertRow, IInv
<1>5. JobsOK'
  BY FinishStep DEF InsertRow, IInv
<1> QED
  BY <1>4, <1>5 DEF InsertRow, IInv, StoreOK, HeadsOK, storeVars, headVars

\* pull follows the locators.
LEMMA PullManifestType ==
  ASSUME IInv, NEW p \in Procs, PullManifest(p)
  PROVE  IInv'
<1> DEFINE m == Head(job[p].locs)
           k == [job[p] EXCEPT !.locs = m.chunks]
<1>1. job[p] \in Jobs /\ \E full : Full(full) /\ job[p].locs = <<full>>
  BY DEF PullManifest, IInv, JobsOK, JobAt
<1>2. Full(m)
  BY <1>1
<1> HIDE DEF m
<1>3. m.chunks \in Seq(Chunks) /\ Len(m.chunks) = Pages
  BY <1>2 DEF Full, Manifests
<1>4. m.chunks \in Seq(Blobs) /\ m.chunks # << >>
  BY <1>3, SyncAssumptions DEF Blobs
<1>5. k \in Jobs /\ k.locs = m.chunks
  BY <1>1, <1>4 DEF Jobs
<1>6. job' = [job EXCEPT ![p] = k] /\ pc' = [pc EXCEPT ![p] = "parts"]
  BY DEF PullManifest, Goto, m
<1> HIDE DEF k
<1>7. JobAt("parts", k) /\ "parts" \in Steps
  BY <1>3, <1>4, <1>5 DEF JobAt, HeadSteps, Steps
<1>8. JobsOK'
  BY <1>5, <1>6, <1>7, JobStep DEF IInv
<1> QED
  BY <1>8 DEF PullManifest, IInv, StoreOK, HeadsOK, FilesOK, storeVars, headVars

LEMMA PullPartType ==
  ASSUME IInv, NEW p \in Procs, PullPart(p)
  PROVE  IInv'
<1> DEFINE rest == Tail(job[p].locs)
           k == [job[p] EXCEPT !.locs = rest]
<1>1. job[p] \in Jobs /\ job[p].locs \in Seq(Chunks) /\ job[p].locs # << >>
  BY DEF PullPart, IInv, JobsOK, JobAt
<1>2. rest \in Seq(Chunks) /\ rest \in Seq(Blobs)
  <2>1. rest \in Seq(Chunks)
    BY <1>1
  <2> QED
    BY <2>1 DEF Blobs
<1>3. JobsOK'
  <2>1. CASE Finish(p)
    BY <2>1, FinishStep DEF IInv
  <2>2. CASE rest # << >> /\ job' = [job EXCEPT ![p].locs = rest] /\ UNCHANGED pc
    <3>1. job' = [job EXCEPT ![p] = k] /\ pc' = [pc EXCEPT ![p] = "parts"]
      BY <2>2 DEF PullPart, IInv, JobsOK
    <3> HIDE DEF rest
    <3>2. k \in Jobs /\ k.locs = rest
      BY <1>1, <1>2 DEF Jobs
    <3> HIDE DEF k
    <3>3. JobAt("parts", k) /\ "parts" \in Steps
      BY <1>2, <2>2, <3>2 DEF JobAt, HeadSteps, Steps
    <3> QED
      BY <3>1, <3>2, <3>3, JobStep DEF IInv
  <2> QED
    BY <2>1, <2>2 DEF PullPart
<1> QED
  BY <1>3 DEF PullPart, IInv, StoreOK, HeadsOK, FilesOK, storeVars, headVars

\* A call ends, or its process does.
LEMMA EndType ==
  ASSUME IInv, NEW p \in Procs, PullMisses(p) \/ PutFails(p) \/ ReadFails(p) \/ RowFails(p)
           \/ Crash(p)
  PROVE  IInv'
<1>1. JobsOK'
  BY FinishStep DEF IInv, PullMisses, PutFails, ReadFails, RowFails, Crash
<1>2. StoreOK'
  <2>1. CASE UNCHANGED storeVars
    BY <2>1 DEF IInv, StoreOK, storeVars
  <2>2. CASE pc[p] = "put" /\ UploadUnanswered(job[p].blob)
    <3>1. job[p].blob \in Blobs
      <4>1. JobAt("put", job[p]) /\ job[p] \in Jobs
        BY <2>2 DEF IInv, JobsOK
      <4>2. CASE Len(job[p].locs) < Pages
        BY <4>1, <4>2 DEF JobAt, Blobs
      <4>3. CASE Len(job[p].locs) = Pages
        BY <4>1, <4>3 DEF JobAt, Blobs, Manifests, Jobs
      <4> QED
        BY <4>1, <4>2, <4>3, SyncAssumptions DEF JobAt
    <3> QED
      BY <2>2, <3>1, StoreStep DEF IInv
  <2>3. CASE Restart(p)
    BY <2>3 DEF Restart, IInv, StoreOK
  <2> QED
    BY <2>1, <2>2, <2>3 DEF PullMisses, PutFails, ReadFails, RowFails, Crash
<1> QED
  BY <1>1, <1>2 DEF PullMisses, PutFails, ReadFails, RowFails, Crash, IInv, HeadsOK,
     FilesOK, headVars

\* The chain executes or drops a transaction.
LEMMA ChainType ==
  ASSUME IInv, Chain
  PROVE  IInv'
<1>1. PICK h \in sent : SetHead(h) \/ Expire(h)
  BY DEF Chain
<1>2. h \in Heads /\ Full(h.cid) /\ h.cid \in Manifests
  BY <1>1 DEF IInv, HeadsOK, Heads
<1>3. sent' \subseteq sent /\ landed' \subseteq landed \cup {h.cid}
  BY <1>1 DEF SetHead, Expire
<1>4. UNCHANGED <<head, published>> \/ Publish(h)
  BY <1>1 DEF SetHead, Expire
<1>5. HeadsOK'
  BY <1>2, <1>3, <1>4, PublishType DEF IInv, HeadsOK
<1> QED
  BY <1>5 DEF Chain, IInv, StoreOK, FilesOK, JobsOK, storeVars, syncVars

-----------------------------------------------------------------------------

\* The program starts with the invariant.
LEMMA InitIInv == Init => IInv
<1> SUFFICES ASSUME Init PROVE IInv
  OBVIOUS
<1>1. StoreOK
  BY DEF Init, StoreInit, StoreOK
<1>2. HeadsOK
  BY DEF Init, HeadInit, HeadsOK
<1>3. FilesOK
  BY DEF Init, FilesOK, Versions
<1>4. JobsOK
  <2>1. JobAt("idle", NoJob)
    BY DEF JobAt, HeadSteps
  <2>2. "idle" \in Steps
    BY DEF Steps
  <2> QED
    BY <2>1, <2>2, NoJobType DEF Init, JobsOK
<1> QED
  BY <1>1, <1>2, <1>3, <1>4 DEF Init, IInv

\* Every step keeps it.
LEMMA StepIInv == IInv /\ [Next]_vars => IInv'
<1> SUFFICES ASSUME IInv, [Next]_vars PROVE IInv'
  OBVIOUS
<1>1. ASSUME NEW p \in Procs, PushCall(p) \/ PullCall(p) PROVE IInv'
  BY <1>1, PushCallType, PullCallType
<1>2. ASSUME NEW p \in Procs, PushStep(p) PROVE IInv'
  BY <1>2, PushChunkType, PushManifestType, PutType, ReadHeadType, LocalHeadType,
     SolanaHeadType, InsertRowType DEF PushStep
<1>3. ASSUME NEW p \in Procs, PullStep(p) PROVE IInv'
  BY <1>3, PullManifestType, PullPartType, EndType DEF PullStep
<1>4. ASSUME NEW p \in Procs, Fails(p) PROVE IInv'
  BY <1>4, EndType, SolanaHeadType DEF Fails
<1>5. ASSUME NEW f \in Files, Edit(f) PROVE IInv'
  <2>1. FilesOK'
    BY <1>5, EditType DEF Edit, IInv, FilesOK
  <2> QED
    BY <1>5, <2>1 DEF Edit, IInv, StoreOK, HeadsOK, JobsOK, storeVars, headVars
<1>6. CASE Tick
  BY <1>6 DEF Tick, IInv, StoreOK, HeadsOK, FilesOK, JobsOK, storeVars, headVars
<1>7. CASE UNCHANGED vars
  BY <1>7 DEF vars, IInv, StoreOK, HeadsOK, FilesOK, JobsOK
<1> QED
  BY <1>1, <1>2, <1>3, <1>4, <1>5, <1>6, <1>7, ChainType DEF Next

\* The invariant of every run of the program.
LEMMA AlwaysIInv == Spec => []IInv
BY InitIInv, StepIInv, PTL DEF Spec

\* push and pull keep the types of the backend, the head, the files and their own
\* variables, whatever fails.
THEOREM TypeCorrect == Spec => []TypeOK
<1>1. IInv => TypeOK
  BY DEF IInv, StoreOK, HeadsOK, FilesOK, JobsOK, TypeOK
<1> QED
  BY AlwaysIInv, <1>1, PTL

-----------------------------------------------------------------------------
(* What is published can be restored: every locator on its way to a head   *)
(* is of a blob that is stored, or of one that a process is writing. The   *)
(* services drop nothing, and a LocalFS put that began ends if no process  *)
(* dies in it.                                                             *)

\* No put is cut short: a request of a network driver is done or not done.
NothingCut == Backend # "localfs" \/ "crash" \notin Failures

\* The blobs that are stored and those that are being written.
Coming == whole \cup {job[p].blob : p \in {q \in Procs : pc[q] = "fill"}}

\* The blobs of a snapshot.
BlobsOf(m) == {m} \cup Range(m.chunks)

\* What a call of push or pull relies on, of the blobs w.
Kept(step, j, w) ==
  /\ step \in {"chunk", "put", "fill", "parts"} => Range(j.locs) \subseteq w
  /\ step \in HeadSteps \cup {"head"} => BlobsOf(j.blob) \subseteq w
  /\ step = "manifest" => BlobsOf(j.locs[1]) \subseteq w

CallsKept == \A p \in Procs : Kept(pc[p], job[p], Coming)

HeadsKept ==
  /\ head \notin {NULL, TORN} => BlobsOf(head.cid) \subseteq Coming
  /\ \A h \in sent : BlobsOf(h.cid) \subseteq Coming
  /\ \A i \in DOMAIN published : BlobsOf(published[i].cid) \subseteq Coming

\* What an answer of has() can rest on.
StoreKept ==
  /\ partial \subseteq Coming
  /\ \A p \in Procs : known[p] \subseteq Coming
  /\ Backend # "localfs" => \A p \in Procs : pc[p] # "fill"

RInv == CallsKept /\ HeadsKept /\ StoreKept

\* What a step of one call does to the other calls: nothing.
LEMMA OthersStay ==
  ASSUME IInv, NEW p \in Procs,
         PushCall(p) \/ PullCall(p) \/ PushStep(p) \/ PullStep(p) \/ Fails(p)
  PROVE  \A q \in Procs \ {p} : pc'[q] = pc[q] /\ job'[q] = job[q]
<1>1. pc \in [Procs -> Steps] /\ job \in [Procs -> Jobs]
  BY DEF IInv, JobsOK
<1>2. CASE PushCall(p) \/ PullCall(p)
  BY <1>1, <1>2 DEF PushCall, PullCall, Begin, Goto
<1>3. CASE PushChunk(p) \/ PushManifest(p)
  BY <1>1, <1>3 DEF PushChunk, PushManifest, Goto
<1>4. CASE Put(p) \/ PutExists(p) \/ PutOpen(p) \/ PutFill(p)
  BY <1>1, <1>4 DEF Put, PutExists, PutOpen, PutFill, Stored, Goto
<1>5. CASE ReadHead(p) \/ CheckHead(p) \/ OpenHead(p) \/ WriteHead(p)
  BY <1>1, <1>5 DEF ReadHead, CheckHead, OpenHead, WriteHead, Finish, Goto
<1>6. CASE SendHead(p) \/ ConfirmHead(p) \/ InsertRow(p) \/ Fails(p)
  BY <1>1, <1>6 DEF SendHead, ConfirmHead, InsertRow, Fails, PutFails, ReadFails, SendFails,
                    ConfirmFails, RowFails, Crash, Finish, Goto
<1>7. CASE PullStep(p)
  BY <1>1, <1>7 DEF PullStep, PullManifest, PullPart, PullMisses, Finish, Goto
<1> QED
  BY <1>2, <1>3, <1>4, <1>5, <1>6, <1>7 DEF PushStep

\* A put that is under way is not given up, a step takes nothing away from what is stored
\* or being written.
LEMMA ComingGrows ==
  ASSUME NothingCut, IInv, StoreKept, NEW p \in Procs,
         PushCall(p) \/ PullCall(p) \/ PushStep(p) \/ PullStep(p) \/ Fails(p)
  PROVE  Coming \subseteq Coming'
<1>1. \A q \in Procs \ {p} : pc'[q] = pc[q] /\ job'[q] = job[q]
  BY OthersStay
<1>2. pc \in [Procs -> Steps] /\ job \in [Procs -> Jobs]
  BY DEF IInv, JobsOK
<1>3. CASE whole \subseteq whole' /\ pc[p] # "fill"
  BY <1>1, <1>3 DEF Coming
<1>4. CASE PutOpen(p)
  <2>1. whole' = whole \ {job[p].blob} /\ pc'[p] = "fill" /\ job' = job
    BY <1>2, <1>4 DEF PutOpen, OpenBlob, Goto
  <2> QED
    BY <1>1, <2>1 DEF Coming
<1>5. CASE PutFill(p)
  <2>1. whole' = whole \cup {job[p].blob}
    BY <1>5 DEF PutFill, FillBlob
  <2> QED
    BY <1>1, <2>1 DEF Coming
<1>6. CASE PushCall(p) \/ PullCall(p)
  BY <1>3, <1>6 DEF PushCall, PullCall, Begin, storeVars
<1>7. CASE PushStep(p) /\ ~ PutOpen(p) /\ ~ PutFill(p)
  BY <1>3, <1>7 DEF PushStep, PushChunk, PushManifest, Put, PutExists, ReadHead, CheckHead,
     OpenHead, WriteHead, SendHead, ConfirmHead, InsertRow, Upload, storeVars
<1>8. CASE PullStep(p)
  BY <1>3, <1>8 DEF PullStep, PullManifest, PullPart, PullMisses, storeVars
<1>9. CASE Fails(p)
  <2>1. Crash(p) => pc[p] # "fill"
    BY DEF Crash, NothingCut, StoreKept
  <2> QED
    BY <1>3, <1>9, <2>1 DEF Fails, PutFails, ReadFails, SendFails, ConfirmFails,
       RowFails, Crash, UploadUnanswered, Restart, storeVars
<1> QED
  BY <1>4, <1>5, <1>6, <1>7, <1>8, <1>9

\* A driver remembers the address of a blob only when it is stored, and the only files
\* without all of their bytes are those that a process is writing.
LEMMA StoreKeptStep ==
  ASSUME IInv, StoreKept, NEW p \in Procs, Coming \subseteq Coming',
         PushCall(p) \/ PullCall(p) \/ PushStep(p) \/ PullStep(p) \/ Fails(p)
  PROVE  StoreKept'
<1>1. /\ pc \in [Procs -> Steps] /\ job \in [Procs -> Jobs]
      /\ known \in [Procs -> SUBSET Blobs]
      /\ \A q \in Procs \ {p} : pc'[q] = pc[q]
  BY OthersStay DEF IInv, JobsOK, StoreOK
<1> DEFINE b == job[p].blob
<1>2. CASE PutOpen(p)
  <2>1. /\ Backend = "localfs" /\ partial' = partial \cup {b} /\ UNCHANGED known
        /\ pc'[p] = "fill" /\ job' = job
    BY <1>1, <1>2 DEF PutOpen, OpenBlob, Goto
  <2>2. b \in Coming'
    BY <2>1 DEF Coming
  <2> QED
    BY <2>1, <2>2 DEF StoreKept
<1>3. CASE ~ PutOpen(p)
  <2>1. partial' \subseteq partial
    BY <1>3 DEF PushCall, PullCall, Begin, PushStep, PushChunk, PushManifest, Put, PutExists,
       PutFill, ReadHead, CheckHead, OpenHead, WriteHead, SendHead, ConfirmHead, InsertRow,
       Upload, FillBlob, storeVars, PullStep, PullManifest, PullPart, PullMisses, Fails,
       PutFails, ReadFails, SendFails, ConfirmFails, RowFails, Crash, UploadUnanswered,
       Restart
  <2>2. \/ known' = known
        \/ known' = [known EXCEPT ![p] = {}]
        \/ known' = [known EXCEPT ![p] = @ \cup {b}] /\ b \in whole'
    BY <1>3 DEF PushCall, PullCall, Begin, PushStep, PushChunk, PushManifest, Put, PutExists,
       PutFill, ReadHead, CheckHead, OpenHead, WriteHead, SendHead, ConfirmHead, InsertRow,
       Upload, FillBlob, storeVars, PullStep, PullManifest, PullPart, PullMisses, Fails,
       PutFails, ReadFails, SendFails, ConfirmFails, RowFails, Crash, UploadUnanswered,
       Restart
  <2>3. ASSUME NEW q \in Procs PROVE known'[q] \subseteq Coming'
    <3>1. known[q] \subseteq Coming'
      BY DEF StoreKept
    <3>2. known'[q] \subseteq known[q] \/ (known'[q] \subseteq known[q] \cup {b} /\ b \in whole')
      BY <1>1, <2>2
    <3> QED
      BY <3>1, <3>2 DEF Coming
  <2>4. Backend # "localfs" => pc'[p] # "fill"
    <3>1. SUFFICES ASSUME Backend # "localfs" PROVE pc'[p] # "fill"
      OBVIOUS
    <3>2. pc[p] # "fill"
      BY <3>1 DEF StoreKept
    <3>3. pc'[p] = pc[p] \/ \E step \in Steps \ {"fill"} : pc'[p] = step
      BY <1>1, <1>3 DEF PushCall, PullCall, Begin, PushStep, PushChunk, PushManifest, Put,
         PutExists, PutFill, ReadHead, CheckHead, OpenHead, WriteHead, SendHead, ConfirmHead,
         InsertRow, PullStep, PullManifest, PullPart, PullMisses, Fails, PutFails,
         ReadFails, SendFails, ConfirmFails, RowFails, Crash, Stored, Finish, Goto, Steps
    <3> QED
      BY <3>2, <3>3
  <2> QED
    BY <1>1, <2>1, <2>3, <2>4 DEF StoreKept
<1> QED
  BY <1>2, <1>3

\* What a call relies on stays.
LEMMA KeptStep ==
  ASSUME IInv, CallsKept, Coming \subseteq Coming',
         NEW p \in Procs, NEW step, NEW j, Kept(step, j, Coming'),
         pc' = [pc EXCEPT ![p] = step], job' = [job EXCEPT ![p] = j]
  PROVE  CallsKept'
<1>1. /\ pc'[p] = step /\ job'[p] = j
      /\ \A q \in Procs \ {p} : pc'[q] = pc[q] /\ job'[q] = job[q]
  BY DEF IInv, JobsOK
<1>2. \A q \in Procs \ {p} : Kept(pc[q], job[q], Coming')
  BY DEF CallsKept, Kept
<1> QED
  BY <1>1, <1>2 DEF CallsKept

\* It does so when the call goes on with the variables it has.
LEMMA KeptGoto ==
  ASSUME IInv, CallsKept, Coming \subseteq Coming',
         NEW p \in Procs, NEW step, Goto(p, step), UNCHANGED job,
         Kept(step, job[p], Coming')
  PROVE  CallsKept'
<1>1. job' = [job EXCEPT ![p] = job[p]]
  BY DEF IInv, JobsOK
<1> QED
  BY <1>1, KeptStep DEF Goto

\* It does so when the call ends.
LEMMA KeptFinish ==
  ASSUME IInv, CallsKept, Coming \subseteq Coming', NEW p \in Procs, Finish(p)
  PROVE  CallsKept'
<1>1. Kept("idle", NoJob, Coming')
  BY DEF Kept, HeadSteps
<1> QED
  BY <1>1, KeptStep DEF Finish, Goto

\* It does so when no call does anything.
LEMMA KeptIdle ==
  ASSUME CallsKept, Coming \subseteq Coming', UNCHANGED <<pc, job>>
  PROVE  CallsKept'
BY DEF CallsKept, Kept

\* What the heads lead to stays.
LEMMA HeadsKeptIdle ==
  ASSUME HeadsKept, Coming \subseteq Coming', UNCHANGED headVars
  PROVE  HeadsKept'
BY DEF HeadsKept, headVars

\* A head is published with all that it leads to.
LEMMA HeadsKeptPublish ==
  ASSUME HeadsOK, HeadsKept, Coming \subseteq Coming',
         NEW h, BlobsOf(h.cid) \subseteq Coming, Publish(h), sent' \subseteq sent
  PROVE  HeadsKept'
<1>1. published \in Seq(Heads) /\ published' = Append(published, h) /\ head' = h
  BY DEF HeadsOK, Publish
<1>2. ASSUME NEW i \in DOMAIN published' PROVE BlobsOf(published'[i].cid) \subseteq Coming'
  <2>1. published'[i] = h \/ (i \in DOMAIN published /\ published'[i] = published[i])
    BY <1>1
  <2> QED
    BY <2>1 DEF HeadsKept
<1> QED
  BY <1>1, <1>2 DEF HeadsKept

\* The range of a sequence with one more element.
LEMMA RangeAppend ==
  ASSUME NEW S, NEW q \in Seq(S), NEW x \in S
  PROVE  Range(Append(q, x)) = Range(q) \cup {x}
<1>1. /\ DOMAIN Append(q, x) = DOMAIN q \cup {Len(q) + 1}
      /\ Append(q, x)[Len(q) + 1] = x
      /\ \A i \in DOMAIN q : Append(q, x)[i] = q[i]
  OBVIOUS
<1> QED
  BY <1>1 DEF Range

\* A call begins: push holds nothing yet, pull holds the head.
LEMMA CallKept ==
  ASSUME IInv, RInv, Coming \subseteq Coming', NEW p \in Procs, PushCall(p) \/ PullCall(p)
  PROVE  CallsKept' /\ HeadsKept'
<1>1. UNCHANGED headVars
  BY DEF PushCall, PullCall, Begin, storeVars
<1>2. CallsKept'
  <2>1. CASE PushCall(p)
    <3> DEFINE j == [[NoJob EXCEPT !.pages = file[FileOf[p]]] EXCEPT !.id = calls']
    <3>1. pc' = [pc EXCEPT ![p] = "chunk"] /\ job' = [job EXCEPT ![p] = j]
      BY <2>1 DEF PushCall, Begin, Goto
    <3>2. j.locs = << >>
      BY DEF NoJob
    <3> HIDE DEF j
    <3>3. Kept("chunk", j, Coming')
      BY <3>2 DEF Kept, HeadSteps, Range
    <3> QED
      BY <1>1, <3>1, <3>3, KeptStep DEF RInv
  <2>2. CASE PullCall(p)
    <3> DEFINE j == [[NoJob EXCEPT !.locs = <<head.cid>>] EXCEPT !.id = calls']
    <3>1. pc' = [pc EXCEPT ![p] = "manifest"] /\ job' = [job EXCEPT ![p] = j]
      BY <2>2 DEF PullCall, Begin, Goto
    <3>2. j.locs[1] = head.cid
      BY DEF NoJob
    <3> HIDE DEF j
    <3>3. Kept("manifest", j, Coming')
      BY <1>1, <2>2, <3>2 DEF Kept, HeadSteps, PullCall, RInv, HeadsKept
    <3> QED
      BY <1>1, <3>1, <3>3, KeptStep DEF RInv
  <2> QED
    BY <2>1, <2>2
<1> QED
  BY <1>1, <1>2, HeadsKeptIdle DEF RInv

\* has() vouches only for what is stored or being written.
LEMMA FoundIsComing ==
  ASSUME StoreKept, NEW p \in Procs, NEW b, NEW found \in Has(p, b), found
  PROVE  b \in Coming
BY BackendAssumption DEF Has, Backends, StoreKept, Coming

LEMMA PushChunkKept ==
  ASSUME IInv, RInv, Coming \subseteq Coming', NEW p \in Procs, PushChunk(p)
  PROVE  CallsKept' /\ HeadsKept'
<1> DEFINE b == NextChunk(p)
<1>1. /\ UNCHANGED headVars
      /\ job[p].locs \in Seq(Chunks) /\ Range(job[p].locs) \subseteq Coming
  BY DEF PushChunk, storeVars, IInv, JobsOK, JobAt, RInv, CallsKept, Kept
<1>2. b \in Chunks
  BY NextChunkType DEF PushChunk
<1>3. CallsKept'
  <2>1. PICK found \in Has(p, b) :
          IF found THEN /\ job' = [job EXCEPT ![p].locs = Append(@, b)]
                        /\ UNCHANGED pc
                   ELSE job' = [job EXCEPT ![p].blob = b] /\ Goto(p, "put")
    BY DEF PushChunk
  <2> HIDE DEF b
  <2>2. CASE found
    <3> DEFINE locs == Append(job[p].locs, b)
               k == [job[p] EXCEPT !.locs = locs]
    <3>1. b \in Coming
      BY <2>2, FoundIsComing DEF RInv
    <3>2. Range(locs) \subseteq Coming'
      BY <1>1, <1>2, <3>1, RangeAppend
    <3>3. job' = [job EXCEPT ![p] = k]
      BY <2>1, <2>2
    <3> HIDE DEF locs
    <3>4. k.locs = locs
      BY DEF IInv, JobsOK, Jobs
    <3> HIDE DEF k
    <3>5. Kept("chunk", k, Coming')
      BY <3>2, <3>4 DEF Kept, HeadSteps
    <3>6. pc' = [pc EXCEPT ![p] = "chunk"]
      BY <2>1, <2>2 DEF PushChunk, IInv, JobsOK
    <3> QED
      BY <1>1, <3>3, <3>5, <3>6, KeptStep DEF RInv
  <2>3. CASE ~ found
    <3> DEFINE k == [job[p] EXCEPT !.blob = b]
    <3>1. job' = [job EXCEPT ![p] = k] /\ pc' = [pc EXCEPT ![p] = "put"]
      BY <2>1, <2>3 DEF Goto
    <3>2. k.locs = job[p].locs
      BY DEF IInv, JobsOK, Jobs
    <3> HIDE DEF k
    <3>3. Kept("put", k, Coming')
      BY <1>1, <3>2 DEF Kept, HeadSteps
    <3> QED
      BY <1>1, <3>1, <3>3, KeptStep DEF RInv
  <2> QED
    BY <2>2, <2>3
<1> QED
  BY <1>1, <1>3, HeadsKeptIdle DEF RInv

LEMMA PushManifestKept ==
  ASSUME IInv, RInv, Coming \subseteq Coming', NEW p \in Procs, PushManifest(p)
  PROVE  CallsKept' /\ HeadsKept'
<1> DEFINE k == [job[p] EXCEPT !.blob = [chunks |-> job[p].locs, nonce |-> job[p].id]]
<1>1. UNCHANGED headVars
  BY DEF PushManifest, storeVars
<1>2. job' = [job EXCEPT ![p] = k] /\ pc' = [pc EXCEPT ![p] = "put"]
  BY DEF PushManifest, Goto
<1>3. k.locs = job[p].locs
  BY DEF IInv, JobsOK, Jobs
<1>4. Range(job[p].locs) \subseteq Coming
  BY DEF PushManifest, RInv, CallsKept, Kept
<1> HIDE DEF k
<1>5. Kept("put", k, Coming')
  BY <1>1, <1>3, <1>4 DEF Kept, HeadSteps
<1> QED
  BY <1>1, <1>2, <1>5, KeptStep, HeadsKeptIdle DEF RInv

\* The file of a blob is opened.
LEMMA OpenKept ==
  ASSUME IInv, RInv, Coming \subseteq Coming', NEW p \in Procs, PutOpen(p)
  PROVE  CallsKept' /\ HeadsKept'
<1>1. Goto(p, "fill") /\ UNCHANGED job /\ UNCHANGED headVars
  BY DEF PutOpen
<1>2. Range(job[p].locs) \subseteq Coming
  BY DEF PutOpen, RInv, CallsKept, Kept
<1>3. Kept("fill", job[p], Coming')
  BY <1>2 DEF Kept, HeadSteps
<1> QED
  BY <1>1, <1>3, KeptGoto, HeadsKeptIdle DEF RInv

\* put returns: the blob is stored, or another process is writing it.
LEMMA PutKept ==
  ASSUME IInv, RInv, Coming \subseteq Coming', NEW p \in Procs,
         Put(p) \/ PutExists(p) \/ PutFill(p)
  PROVE  CallsKept' /\ HeadsKept'
<1> DEFINE j == job[p]
<1>1. /\ UNCHANGED headVars /\ Stored(p)
      /\ j \in Jobs /\ JobAt(pc[p], j) /\ pc[p] \in {"put", "fill"}
      /\ Range(j.locs) \subseteq Coming
  BY DEF Put, PutExists, PutFill, IInv, JobsOK, RInv, CallsKept, Kept
<1>2. j.blob \in Coming'
  <2>1. CASE Put(p) \/ PutFill(p)
    BY <2>1 DEF Put, Upload, PutFill, FillBlob, Coming
  <2>2. CASE PutExists(p)
    <3>1. j.blob \in whole \/ j.blob \in partial
      BY <2>2 DEF PutExists
    <3>2. whole \subseteq Coming /\ partial \subseteq Coming
      BY DEF RInv, StoreKept, Coming
    <3> QED
      BY <3>1, <3>2
  <2> QED
    BY <2>1, <2>2
<1>3. Pages \in Nat /\ j.locs \in Seq(Chunks) /\ Len(j.locs) \in Nat /\ Len(j.locs) <= Pages
  BY <1>1, SyncAssumptions DEF JobAt
<1>4. CallsKept'
  <2>1. CASE Len(j.locs) < Pages
    <3> DEFINE locs == Append(j.locs, j.blob)
               k == [j EXCEPT !.locs = locs]
    <3>1. j.blob \in Chunks
      BY <1>1, <2>1 DEF JobAt
    <3>2. Range(locs) \subseteq Coming'
      BY <1>1, <1>2, <1>3, <3>1, RangeAppend
    <3>3. job' = [job EXCEPT ![p] = k] /\ pc' = [pc EXCEPT ![p] = "chunk"]
      BY <1>1, <2>1 DEF Stored, Goto
    <3> HIDE DEF locs
    <3>4. k.locs = locs
      BY <1>1 DEF Jobs
    <3> HIDE DEF k
    <3>5. Kept("chunk", k, Coming')
      BY <3>2, <3>4 DEF Kept, HeadSteps
    <3> QED
      BY <1>1, <3>3, <3>5, KeptStep DEF RInv
  <2>2. CASE Len(j.locs) = Pages
    <3>1. j.blob = [chunks |-> j.locs, nonce |-> j.id]
      BY <1>1, <2>2 DEF JobAt
    <3>2. BlobsOf(j.blob) \subseteq Coming'
      BY <1>1, <1>2, <3>1 DEF BlobsOf
    <3>3. Kept("head", j, Coming')
      BY <3>2 DEF Kept, HeadSteps
    <3>4. Goto(p, "head") /\ UNCHANGED job
      BY <1>1, <1>3, <2>2 DEF Stored
    <3> QED
      BY <1>1, <3>3, <3>4, KeptGoto DEF RInv
  <2> QED
    BY <1>3, <2>1, <2>2
<1> QED
  BY <1>1, <1>4, HeadsKeptIdle DEF RInv

\* The head is read, compared, truncated, written, or sent and waited for.
LEMMA HeadStepKept ==
  ASSUME IInv, RInv, Coming \subseteq Coming', NEW p \in Procs,
         \/ ReadHead(p) \/ CheckHead(p) \/ OpenHead(p) \/ WriteHead(p)
         \/ SendHead(p) \/ ConfirmHead(p) \/ SendFails(p) \/ ConfirmFails(p)
  PROVE  CallsKept' /\ HeadsKept'
<1>1. /\ pc[p] \in HeadSteps \cup {"head"}
      /\ BlobsOf(job[p].blob) \subseteq Coming
  BY DEF ReadHead, CheckHead, OpenHead, WriteHead, SendHead, ConfirmHead, SendFails,
         ConfirmFails, storeVars, HeadSteps, RInv, CallsKept, Kept
<1>2. CallsKept'
  <2>1. CASE Finish(p)
    BY <1>1, <2>1, KeptFinish DEF RInv
  <2>2. ASSUME NEW step \in HeadSteps, Goto(p, step), UNCHANGED job PROVE CallsKept'
    <3>1. Kept(step, job[p], Coming')
      BY <1>1, <2>2 DEF Kept, HeadSteps
    <3> QED
      BY <1>1, <2>2, <3>1, KeptGoto DEF RInv
  <2>3. CASE ReadHead(p) /\ head # TORN
    <3> DEFINE step == IF HeadKind = "local" THEN "check" ELSE "send"
               k == [job[p] EXCEPT !.seq = NextSeq]
    <3>1. job' = [job EXCEPT ![p] = k] /\ pc' = [pc EXCEPT ![p] = step]
      BY <2>3 DEF ReadHead, Goto
    <3>2. step \in {"check", "send"}
      OBVIOUS
    <3> HIDE DEF step
    <3>3. k.blob = job[p].blob
      BY DEF IInv, JobsOK, Jobs
    <3> HIDE DEF k
    <3>4. Kept(step, k, Coming')
      BY <1>1, <3>2, <3>3 DEF Kept, HeadSteps
    <3> QED
      BY <1>1, <3>1, <3>4, KeptStep DEF RInv
  <2> QED
    BY <2>1, <2>2, <2>3 DEF ReadHead, CheckHead, OpenHead, WriteHead, SendHead, ConfirmHead,
                            SendFails, ConfirmFails, HeadSteps
<1>3. BlobsOf(NewHead(p).cid) \subseteq Coming
  BY <1>1 DEF NewHead
<1>4. HeadsKept'
  <2>1. CASE UNCHANGED headVars
    BY <1>1, <2>1, HeadsKeptIdle DEF RInv
  <2>2. CASE WriteHead(p) /\ Publish(NewHead(p))
    BY <1>1, <1>3, <2>2, HeadsKeptPublish DEF RInv, IInv, WriteHead, FillHead
  <2>3. CASE head' = TORN /\ UNCHANGED <<sent, published>>
    BY <1>1, <2>3 DEF RInv, HeadsKept
  <2>4. CASE Send(NewHead(p))
    BY <1>1, <1>3, <2>4 DEF RInv, HeadsKept, Send
  <2> QED
    BY <2>1, <2>2, <2>3, <2>4
       DEF ReadHead, CheckHead, OpenHead, WriteHead, SendHead, ConfirmHead, SendFails,
           ConfirmFails, TruncateHead, FillHead
<1> QED
  BY <1>1, <1>2, <1>4 DEF RInv

\* pull follows the locators of a snapshot that is stored.
LEMMA PullStepKept ==
  ASSUME IInv, RInv, Coming \subseteq Coming', NEW p \in Procs, PullManifest(p) \/ PullPart(p)
  PROVE  CallsKept' /\ HeadsKept'
<1>1. UNCHANGED headVars
  BY DEF PullManifest, PullPart, storeVars
<1>2. CASE PullManifest(p)
  <2> DEFINE m == Head(job[p].locs)
             k == [job[p] EXCEPT !.locs = m.chunks]
  <2>1. m = job[p].locs[1]
    BY <1>2 DEF PullManifest, IInv, JobsOK, JobAt
  <2>2. Range(m.chunks) \subseteq Coming
    BY <1>2, <2>1 DEF PullManifest, RInv, CallsKept, Kept, BlobsOf
  <2> HIDE DEF m
  <2>3. k.locs = m.chunks
    BY DEF IInv, JobsOK, Jobs
  <2>4. job' = [job EXCEPT ![p] = k] /\ pc' = [pc EXCEPT ![p] = "parts"]
    BY <1>2 DEF PullManifest, Goto, m
  <2> HIDE DEF k
  <2>5. Kept("parts", k, Coming')
    BY <1>1, <2>2, <2>3 DEF Kept, HeadSteps
  <2> QED
    BY <1>1, <2>4, <2>5, KeptStep, HeadsKeptIdle DEF RInv
<1>3. CASE PullPart(p)
  <2> DEFINE rest == Tail(job[p].locs)
             k == [job[p] EXCEPT !.locs = rest]
  <2>1. job[p].locs \in Seq(Chunks) /\ job[p].locs # << >>
    BY <1>3 DEF PullPart, IInv, JobsOK, JobAt
  <2>2. Range(job[p].locs) \subseteq Coming
    BY <1>3 DEF PullPart, RInv, CallsKept, Kept
  <2>3. Range(rest) \subseteq Coming
    BY <2>1, <2>2 DEF Range
  <2>4. CASE Finish(p)
    BY <1>1, <2>4, KeptFinish, HeadsKeptIdle DEF RInv
  <2>5. CASE job' = [job EXCEPT ![p].locs = rest] /\ UNCHANGED pc
    <3>1. job' = [job EXCEPT ![p] = k] /\ pc' = [pc EXCEPT ![p] = "parts"]
      BY <1>3, <2>5 DEF PullPart, IInv, JobsOK
    <3> HIDE DEF rest
    <3>2. k.locs = rest
      BY DEF IInv, JobsOK, Jobs
    <3> HIDE DEF k
    <3>3. Kept("parts", k, Coming')
      BY <1>1, <2>3, <3>2 DEF Kept, HeadSteps
    <3> QED
      BY <1>1, <3>1, <3>3, KeptStep, HeadsKeptIdle DEF RInv
  <2> QED
    BY <1>3, <2>4, <2>5 DEF PullPart
<1> QED
  BY <1>2, <1>3

\* A call ends, or its process does.
LEMMA EndKept ==
  ASSUME IInv, RInv, Coming \subseteq Coming', NEW p \in Procs,
         InsertRow(p) \/ PullMisses(p) \/ PutFails(p) \/ ReadFails(p) \/ RowFails(p)
           \/ Crash(p)
  PROVE  CallsKept' /\ HeadsKept'
<1>1. UNCHANGED headVars /\ Finish(p)
  BY DEF InsertRow, PullMisses, PutFails, ReadFails, RowFails, Crash
<1> QED
  BY <1>1, KeptFinish, HeadsKeptIdle DEF RInv

LEMMA ChainKept ==
  ASSUME IInv, RInv, Coming \subseteq Coming', Chain
  PROVE  CallsKept' /\ HeadsKept'
<1>1. PICK h \in sent : SetHead(h) \/ Expire(h)
  BY DEF Chain
<1>2. UNCHANGED <<pc, job>> /\ sent' \subseteq sent
  BY <1>1 DEF Chain, syncVars, SetHead, Expire
<1>3. CASE UNCHANGED <<head, published>>
  BY <1>2, <1>3, KeptIdle DEF RInv, HeadsKept
<1>4. CASE Publish(h)
  BY <1>1, <1>2, <1>4, HeadsKeptPublish, KeptIdle DEF RInv, HeadsKept, IInv
<1> QED
  BY <1>1, <1>3, <1>4 DEF SetHead, Expire

\* Every step of push and pull, if no put is cut short.
LEMMA StepRInv == NothingCut /\ IInv /\ RInv /\ [Next]_vars => RInv' /\ Coming \subseteq Coming'
<1> SUFFICES ASSUME NothingCut, IInv, RInv, [Next]_vars
             PROVE  RInv' /\ Coming \subseteq Coming'
  OBVIOUS
<1>1. ASSUME NEW p \in Procs,
             PushCall(p) \/ PullCall(p) \/ PushStep(p) \/ PullStep(p) \/ Fails(p)
      PROVE  RInv' /\ Coming \subseteq Coming'
  <2>1. Coming \subseteq Coming' /\ StoreKept'
    BY <1>1, ComingGrows, StoreKeptStep DEF RInv
  <2>2. CASE PushCall(p) \/ PullCall(p)
    BY <2>1, <2>2, CallKept DEF RInv
  <2>3. CASE PushStep(p)
    BY <2>1, <2>3, PushChunkKept, PushManifestKept, OpenKept, PutKept, HeadStepKept, EndKept
       DEF PushStep, RInv
  <2>4. CASE PullStep(p) \/ Fails(p)
    BY <2>1, <2>4, PullStepKept, EndKept, HeadStepKept DEF PullStep, Fails, RInv
  <2> QED
    BY <1>1, <2>2, <2>3, <2>4
<1>2. CASE Chain \/ (\E f \in Files : Edit(f)) \/ Tick \/ UNCHANGED vars
  <2>1. UNCHANGED <<whole, partial, known, pc, job>>
    BY <1>2 DEF Chain, Edit, Tick, vars, storeVars, syncVars
  <2>2. UNCHANGED Coming
    BY <2>1 DEF Coming
  <2>3. StoreKept'
    BY <2>1, <2>2 DEF RInv, StoreKept
  <2>4. CASE Chain
    BY <2>2, <2>3, <2>4, ChainKept DEF RInv
  <2>5. CASE UNCHANGED headVars
    BY <2>1, <2>2, <2>3, <2>5, KeptIdle, HeadsKeptIdle DEF RInv
  <2> QED
    BY <1>2, <2>4, <2>5 DEF Edit, Tick, vars, headVars
<1> QED
  BY <1>1, <1>2 DEF Next

\* The invariant of every run in which no put is cut short.
LEMMA AlwaysRInv ==
  ASSUME NothingCut
  PROVE  Spec => [](IInv /\ RInv)
<1>1. Init => RInv
  BY DEF Init, StoreInit, HeadInit, RInv, CallsKept, Kept, HeadSteps, HeadsKept, StoreKept
<1> QED
  BY <1>1, AlwaysIInv, StepRInv, PTL DEF Spec

\* With a network driver there is nothing half written.
LEMMA NothingHalf ==
  ASSUME Backend # "localfs", RInv
  PROVE  Coming = whole
BY DEF RInv, StoreKept, Coming

\* If no process dies in a put, whatever a head leads to is stored, or a process is
\* writing it: with every driver, with either head pointer and any number of programs
\* that push the same chunks to the same folder.
THEOREM HeadsArrive ==
  ASSUME NothingCut
  PROVE  Spec => []HeadArrives
<1>1. RInv => HeadArrives
  BY DEF RInv, HeadsKept, HeadArrives, BlobsOf, Coming
<1> QED
  BY <1>1, AlwaysRInv, PTL

\* With the network drivers a head is published only after every blob it leads to is
\* stored, and they stay stored, whichever requests fail and whichever processes die.
THEOREM HeadsCanBeRestored ==
  ASSUME Backend # "localfs"
  PROVE  Spec => []HeadRestorable
<1>1. RInv => HeadRestorable
  BY NothingHalf DEF RInv, HeadsKept, HeadRestorable, Restorable, BlobsOf
<1>2. NothingCut
  BY DEF NothingCut
<1> QED
  BY <1>1, <1>2, AlwaysRInv, PTL

\* With S3, a pull that finds a head restores it.
THEOREM PullsFind ==
  ASSUME Backend = "s3"
  PROVE  Spec => PullFinds
<1>1. ASSUME IInv, RInv, [Next]_vars
      PROVE  [\A p \in Procs : ~ PullMisses(p)]_vars
  <2> SUFFICES ASSUME NEW p \in Procs, PullMisses(p) PROVE FALSE
    OBVIOUS
  <2> DEFINE b == Head(job[p].locs)
  <2>1. b \notin whole
    BY DEF PullMisses, Readable, Mapped
  <2>2. b = job[p].locs[1] /\ b \in Range(job[p].locs)
    <3>1. pc[p] \in {"manifest", "parts"} /\ JobAt(pc[p], job[p])
      BY <1>1 DEF PullMisses, IInv, JobsOK
    <3>2. CASE pc[p] = "manifest"
      BY <3>1, <3>2 DEF JobAt, Range
    <3>3. CASE pc[p] = "parts"
      BY <3>1, <3>3 DEF JobAt, Range
    <3> QED
      BY <3>1, <3>2, <3>3
  <2> HIDE DEF b
  <2>3. b \in whole
    <3>1. CallsKept /\ Coming = whole
      BY <1>1, NothingHalf DEF RInv
    <3> QED
      BY <2>2, <3>1 DEF PullMisses, CallsKept, Kept, BlobsOf
  <2> QED
    BY <2>1, <2>3
<1>2. NothingCut
  BY DEF NothingCut
<1> QED
  BY <1>1, <1>2, AlwaysRInv, PTL DEF Spec, PullFinds

-----------------------------------------------------------------------------
(* The numbers of the heads, with SolanaHead: a push takes the number      *)
(* after the head it read, the program refuses what is not above its own,  *)
(* so the numbers in flight exceed the last accepted one by one at most.   *)

Last == IF published = << >> THEN NULL ELSE published[Len(published)]

\* A number a push may be holding.
NotAhead(n) == n <= Len(published) + 1

CallsNumbered ==
  \A p \in Procs :
    /\ pc[p] \notin {"check", "open", "write"}
    /\ pc[p] \in {"send", "confirm", "row"} => NotAhead(job[p].seq)

SInv ==
  /\ head = Last
  /\ SeqCounts
  /\ \A h \in sent : NotAhead(h.seq)
  /\ CallsNumbered

\* The head has the number of heads there have been.
LEMMA HeadNumber ==
  ASSUME HeadsOK, SInv
  PROVE  /\ Len(published) \in Nat /\ head # TORN
         /\ head = NULL => Len(published) = 0
         /\ head # NULL => head \in Heads /\ head.seq = Len(published)
<1>1. published \in Seq(Heads) /\ Len(published) \in Nat
  BY DEF HeadsOK
<1>2. CASE published = << >>
  BY <1>1, <1>2, HeadAssumption DEF SInv, Last
<1>3. CASE published # << >>
  <2>1. Len(published) \in DOMAIN published /\ published[Len(published)] \in Heads
    BY <1>1, <1>3
  <2>2. head = published[Len(published)] /\ head.seq = Len(published)
    BY <1>3, <2>1 DEF SInv, Last, SeqCounts
  <2> QED
    BY <1>1, <2>1, <2>2, HeadAssumption
<1> QED
  BY <1>2, <1>3

\* A call that is at no step with a number, or goes on with the number it has.
LEMMA NumberedStep ==
  ASSUME IInv, CallsNumbered, UNCHANGED published, NEW p \in Procs,
         \A q \in Procs \ {p} : pc'[q] = pc[q] /\ job'[q] = job[q],
         pc'[p] \notin {"check", "open", "write"},
         pc'[p] \in {"send", "confirm", "row"} => NotAhead(job'[p].seq)
  PROVE  CallsNumbered'
BY DEF CallsNumbered, NotAhead

\* A call publishes nothing itself and holds no number that is ahead.
LEMMA CallSInv ==
  ASSUME HeadKind = "solana", IInv, SInv, NEW p \in Procs,
         PushCall(p) \/ PullCall(p) \/ PushStep(p) \/ PullStep(p) \/ Fails(p)
  PROVE  SInv' /\ UNCHANGED <<head, published>>
<1>1. pc \in [Procs -> Steps] /\ job \in [Procs -> Jobs] /\ job[p] \in Jobs
  BY DEF IInv, JobsOK
<1>2. ~ CheckHead(p) /\ ~ OpenHead(p) /\ ~ WriteHead(p)
  BY DEF SInv, CallsNumbered, CheckHead, OpenHead, WriteHead
<1>3. /\ UNCHANGED <<head, published>>
      /\ sent' = sent \/ (pc[p] = "send" /\ sent' = sent \cup {NewHead(p)})
  <2>1. CASE UNCHANGED headVars
    BY <2>1 DEF headVars
  <2>2. CASE pc[p] = "send" /\ Send(NewHead(p))
    BY <2>2 DEF Send
  <2> QED
    BY <1>2, <2>1, <2>2
       DEF PushCall, PullCall, Begin, PushStep, PushChunk, PushManifest, Put, PutExists,
           PutOpen, PutFill, ReadHead, SendHead, ConfirmHead, InsertRow, PullStep,
           PullManifest, PullPart, PullMisses, Fails, PutFails, ReadFails, SendFails,
           ConfirmFails, RowFails, Crash
<1>4. \A h \in sent' : NotAhead(h.seq)
  BY <1>3 DEF SInv, CallsNumbered, NewHead
<1>5. /\ pc'[p] \notin {"check", "open", "write"}
      /\ pc'[p] \in {"send", "confirm", "row"} => NotAhead(job'[p].seq)
  <2>1. CASE Finish(p)
    BY <1>1, <2>1 DEF Finish, Goto
  <2>2. CASE ReadHead(p) /\ head # TORN
    <3>1. pc'[p] = "send" /\ job'[p].seq = NextSeq
      BY <1>1, <2>2 DEF ReadHead, Goto, Jobs
    <3>2. NotAhead(NextSeq)
      BY HeadNumber DEF NextSeq, NotAhead, IInv
    <3> QED
      BY <3>1, <3>2
  <2>3. CASE SendHead(p) \/ ConfirmHead(p)
    BY <1>1, <2>1, <2>3 DEF SendHead, ConfirmHead, Goto, SInv, CallsNumbered
  <2>4. CASE pc'[p] \in {"chunk", "put", "fill", "head", "manifest", "parts"}
    BY <2>4
  <2>5. CASE PushCall(p) \/ PullCall(p)
    BY <1>1, <2>4, <2>5 DEF PushCall, PullCall, Begin, Goto
  <2>6. CASE PushChunk(p) \/ PushManifest(p)
    BY <1>1, <2>4, <2>6 DEF PushChunk, PushManifest, Goto
  <2>7. CASE Put(p) \/ PutExists(p) \/ PutOpen(p) \/ PutFill(p)
    BY <1>1, <2>4, <2>7 DEF Put, PutExists, PutOpen, PutFill, Stored, Goto
  <2>8. CASE PullStep(p)
    BY <1>1, <2>1, <2>4, <2>8 DEF PullStep, PullManifest, PullPart, PullMisses, Goto
  <2>9. CASE Fails(p) \/ InsertRow(p)
    BY <2>1, <2>9 DEF Fails, PutFails, ReadFails, SendFails, ConfirmFails, RowFails,
       Crash, InsertRow
  <2> QED
    BY <1>2, <2>1, <2>2, <2>3, <2>5, <2>6, <2>7, <2>8, <2>9 DEF PushStep, ReadHead
<1>6. CallsNumbered'
  BY <1>3, <1>5, OthersStay, NumberedStep DEF SInv
<1> QED
  BY <1>3, <1>4, <1>6 DEF SInv, Last, SeqCounts, NotAhead

\* The program gives the head that it accepts the next number.
LEMMA AcceptedIsNext ==
  ASSUME HeadsOK, SInv, NEW h \in sent, ~ Rejects(h.seq)
  PROVE  h.seq = Len(published) + 1
<1>1. h \in Heads /\ h.seq \in Nat \ {0} /\ h.seq <= Len(published) + 1
  BY DEF HeadsOK, Heads, SInv, NotAhead
<1>2. CASE head = NULL
  BY <1>1, <1>2, HeadNumber
<1>3. CASE head # NULL
  <2>1. head \notin {NULL, TORN} /\ head.seq = Len(published) /\ Len(published) \in Nat
    BY <1>3, HeadNumber
  <2> QED
    BY <1>1, <2>1 DEF Rejects
<1> QED
  BY <1>2, <1>3

LEMMA ChainSInv ==
  ASSUME IInv, SInv, Chain
  PROVE  SInv'
<1>1. PICK h \in sent : SetHead(h) \/ Expire(h)
  BY DEF Chain
<1>2. UNCHANGED <<pc, job>> /\ sent' \subseteq sent
  BY <1>1 DEF Chain, syncVars, SetHead, Expire
<1>3. CASE UNCHANGED <<head, published>>
  BY <1>2, <1>3 DEF SInv, Last, SeqCounts, NotAhead, CallsNumbered
<1>4. CASE Publish(h) /\ ~ Rejects(h.seq)
  <2>1. /\ published \in Seq(Heads) /\ h \in Heads /\ h.seq = Len(published) + 1
        /\ published' = Append(published, h) /\ head' = h
    BY <1>1, <1>4, AcceptedIsNext DEF Publish, IInv, HeadsOK
  <2>2. /\ Len(published') = Len(published) + 1 /\ Len(published) \in Nat
        /\ published'[Len(published')] = h /\ published' # << >>
    BY <2>1
  <2>3. ASSUME NEW i \in DOMAIN published' PROVE published'[i].seq = i
    <3>1. \/ i = Len(published) + 1 /\ published'[i] = h
          \/ i \in DOMAIN published /\ published'[i] = published[i]
      BY <2>1
    <3> QED
      BY <2>1, <3>1 DEF SInv, SeqCounts
  <2>4. ASSUME NEW n \in Nat, NotAhead(n) PROVE NotAhead(n)'
    BY <2>2, <2>4 DEF NotAhead
  <2>5. /\ \A g \in sent : g.seq \in Nat
        /\ \A p \in Procs : job[p].seq \in Nat
    BY DEF IInv, HeadsOK, Heads, JobsOK, Jobs
  <2>6. CallsNumbered'
    BY <1>2, <2>4, <2>5 DEF SInv, CallsNumbered
  <2>7. (\A g \in sent : NotAhead(g.seq))'
    BY <1>2, <2>4, <2>5 DEF SInv
  <2> QED
    BY <2>1, <2>2, <2>3, <2>6, <2>7 DEF SInv, Last, SeqCounts
<1> QED
  BY <1>1, <1>3, <1>4 DEF SetHead, Expire

\* Every step, with SolanaHead.
LEMMA StepSInv == HeadKind = "solana" /\ IInv /\ SInv /\ [Next]_vars => SInv'
<1> SUFFICES ASSUME HeadKind = "solana", IInv, SInv, [Next]_vars PROVE SInv'
  OBVIOUS
<1>1. CASE (\E f \in Files : Edit(f)) \/ Tick \/ UNCHANGED vars
  <2>1. UNCHANGED <<pc, job>> /\ UNCHANGED headVars
    BY <1>1 DEF Edit, Tick, vars, headVars
  <2> QED
    BY <2>1 DEF SInv, Last, SeqCounts, NotAhead, CallsNumbered, headVars
<1> QED
  BY <1>1, CallSInv, ChainSInv DEF Next

\* The invariant of every run with SolanaHead.
LEMMA AlwaysSInv ==
  ASSUME HeadKind = "solana"
  PROVE  Spec => [](IInv /\ SInv)
<1>1. Init => SInv
  <2> SUFFICES ASSUME Init PROVE SInv
    OBVIOUS
  <2> QED
    BY DEF Init, HeadInit, SInv, Last, SeqCounts, CallsNumbered
<1> QED
  BY <1>1, AlwaysIInv, StepSInv, PTL DEF Spec

-----------------------------------------------------------------------------
(* With LocalHead: the file is read, compared, emptied and written in four *)
(* steps. One program that pushes may die between any two of them, the     *)
(* others only read.                                                       *)

\* At most one process pushes.
OneWriter ==
  \A p, q \in Procs : "push" \in Roles[p] /\ "push" \in Roles[q] => p = q

PullSteps == {"idle", "manifest", "parts"}

\* A process that does not push takes no step of push.
PullersPull == \A p \in Procs : "push" \notin Roles[p] => pc[p] \in PullSteps

\* What a push relies on while it moves the head.
Moving(p) ==
  /\ pc[p] \notin {"send", "confirm"}
  /\ pc[p] \in {"check", "open", "write"} => job[p].seq = Len(published) + 1
  /\ pc[p] = "write" => head = TORN
  /\ pc[p] = "row" => NewHead(p) \in Range(published)

LInv ==
  /\ PullersPull
  /\ head \in {Last, TORN}
  /\ sent = {}
  /\ SeqCounts
  /\ \A p \in Procs : Moving(p)
  /\ RowsWereHeads

\* A process keeps to the calls of its role.
LEMMA PullersPullStep == IInv /\ PullersPull /\ [Next]_vars => PullersPull'
<1> SUFFICES ASSUME IInv, PullersPull, [Next]_vars PROVE PullersPull'
  OBVIOUS
<1>1. ASSUME NEW p \in Procs,
             PushCall(p) \/ PullCall(p) \/ PushStep(p) \/ PullStep(p) \/ Fails(p)
      PROVE  PullersPull'
  <2>1. pc \in [Procs -> Steps]
    BY DEF IInv, JobsOK
  <2>2. ASSUME "push" \notin Roles[p] PROVE pc'[p] \in PullSteps
    <3>1. pc[p] \in PullSteps /\ ~ PushCall(p)
      BY <2>2 DEF PullersPull, PushCall, Begin
    <3>2. ~ PushStep(p)
      BY <3>1 DEF PullSteps, PushStep, PushChunk, PushManifest, Put, PutExists, PutOpen,
         PutFill, ReadHead, CheckHead, OpenHead, WriteHead, SendHead, ConfirmHead, InsertRow
    <3> QED
      BY <1>1, <2>1, <3>1, <3>2 DEF PullSteps, PullCall, Begin, PullStep, PullManifest,
         PullPart, PullMisses, Fails, PutFails, ReadFails, SendFails, ConfirmFails,
         RowFails, Crash, Finish, Goto
  <2> QED
    BY <1>1, <2>2, OthersStay DEF PullersPull
<1>2. CASE Chain \/ (\E f \in Files : Edit(f)) \/ Tick \/ UNCHANGED vars
  BY <1>2 DEF Chain, Edit, Tick, vars, syncVars, PullersPull
<1> QED
  BY <1>1, <1>2 DEF Next

\* The number of the next head, when the file can be read.
LEMMA LocalNumber ==
  ASSUME HeadsOK, head \in {Last, TORN}, head # TORN, SeqCounts
  PROVE  NextSeq = Len(published) + 1
<1>1. published \in Seq(Heads) /\ Len(published) \in Nat
  BY DEF HeadsOK
<1>2. CASE published = << >>
  BY <1>1, <1>2 DEF Last, NextSeq
<1>3. CASE published # << >>
  <2>1. Len(published) \in DOMAIN published /\ published[Len(published)] \in Heads
    BY <1>1, <1>3
  <2>2. head = published[Len(published)] /\ head.seq = Len(published) /\ head # NULL
    BY <1>3, <2>1, HeadAssumption DEF Last, SeqCounts
  <2> QED
    BY <2>2 DEF NextSeq
<1> QED
  BY <1>2, <1>3

\* The next head follows the others.
LEMMA AppendNumbered ==
  ASSUME HeadsOK, SeqCounts, NEW h \in Heads, h.seq = Len(published) + 1, Publish(h)
  PROVE  /\ SeqCounts' /\ head' = Last' /\ Last' = h
         /\ Range(published') = Range(published) \cup {h}
<1>1. /\ published \in Seq(Heads) /\ published' = Append(published, h) /\ head' = h
      /\ Len(published) \in Nat
  BY DEF HeadsOK, Publish
<1>2. /\ Len(published') = Len(published) + 1
      /\ published'[Len(published')] = h /\ published' # << >>
  BY <1>1
<1>3. ASSUME NEW i \in DOMAIN published' PROVE published'[i].seq = i
  <2>1. \/ i = Len(published) + 1 /\ published'[i] = h
        \/ i \in DOMAIN published /\ published'[i] = published[i]
    BY <1>1
  <2> QED
    BY <2>1 DEF SeqCounts
<1> QED
  BY <1>1, <1>2, <1>3, RangeAppend DEF SeqCounts, Last

\* While one process moves the head, the others take no step of push.
LEMMA OthersMoving ==
  ASSUME OneWriter, IInv, LInv, NEW p \in Procs,
         PushCall(p) \/ PullCall(p) \/ PushStep(p) \/ PullStep(p) \/ Fails(p),
         pc[p] \in PullSteps => UNCHANGED <<head, published>>
  PROVE  \A q \in Procs \ {p} : Moving(q)'
<1> SUFFICES ASSUME NEW q \in Procs \ {p} PROVE Moving(q)'
  OBVIOUS
<1>1. pc'[q] = pc[q] /\ job'[q] = job[q]
  BY OthersStay
<1>2. CASE pc[p] \in PullSteps
  BY <1>1, <1>2 DEF LInv, Moving, NewHead
<1>3. CASE pc[p] \notin PullSteps
  <2>1. "push" \in Roles[p]
    BY <1>3 DEF LInv, PullersPull
  <2>2. "push" \notin Roles[q]
    BY <2>1 DEF OneWriter
  <2>3. pc[q] \in PullSteps
    BY <2>2 DEF LInv, PullersPull
  <2> QED
    BY <1>1, <2>3 DEF Moving, PullSteps
<1> QED
  BY <1>2, <1>3

\* A step that leaves the head and the table alone.
LEMMA HeadAloneStep ==
  ASSUME HeadKind = "local", OneWriter, IInv, LInv, NEW p \in Procs,
         PushCall(p) \/ PullCall(p) \/ PushStep(p) \/ PullStep(p) \/ Fails(p),
         ~ OpenHead(p), ~ WriteHead(p)
  PROVE  UNCHANGED headVars /\ Moving(p)'
<1>1. pc \in [Procs -> Steps] /\ job \in [Procs -> Jobs] /\ job[p] \in Jobs
  BY DEF IInv, JobsOK
<1>2. pc[p] \notin {"send", "confirm"}
  BY DEF LInv, Moving
<1>3. UNCHANGED headVars
  BY <1>2 DEF PushCall, PullCall, Begin, PushStep, PushChunk, PushManifest, Put, PutExists,
     PutOpen, PutFill, ReadHead, CheckHead, SendHead, ConfirmHead, InsertRow, PullStep,
     PullManifest, PullPart, PullMisses, Fails, PutFails, ReadFails, SendFails,
     ConfirmFails, RowFails, Crash
<1>4. CASE pc'[p] \in {"idle", "chunk", "put", "fill", "head", "manifest", "parts"}
  BY <1>3, <1>4 DEF Moving
<1>5. CASE ReadHead(p) /\ head # TORN
  <2>1. pc'[p] = "check" /\ job'[p].seq = NextSeq
    BY <1>1, <1>5 DEF ReadHead, Goto, Jobs
  <2>2. NextSeq = Len(published) + 1
    BY <1>5, LocalNumber DEF LInv, IInv
  <2> QED
    BY <1>3, <2>1, <2>2 DEF Moving, headVars
<1>6. CASE CheckHead(p)
  <2>1. pc'[p] = "idle" \/ (pc[p] = "check" /\ pc'[p] = "open" /\ UNCHANGED job)
    BY <1>1, <1>6 DEF CheckHead, Finish, Goto
  <2> QED
    BY <1>3, <1>4, <2>1 DEF LInv, Moving, headVars
<1>7. CASE Finish(p)
  BY <1>1, <1>4, <1>7 DEF Finish, Goto
<1>8. CASE PushCall(p) \/ PullCall(p)
  BY <1>1, <1>4, <1>8 DEF PushCall, PullCall, Begin, Goto
<1>9. CASE PushChunk(p) \/ PushManifest(p)
  BY <1>1, <1>4, <1>9 DEF PushChunk, PushManifest, Goto
<1>10. CASE Put(p) \/ PutExists(p) \/ PutOpen(p) \/ PutFill(p)
  BY <1>1, <1>4, <1>10 DEF Put, PutExists, PutOpen, PutFill, Stored, Goto
<1>11. CASE PullStep(p)
  BY <1>1, <1>4, <1>7, <1>11 DEF PullStep, PullManifest, PullPart, PullMisses, Goto
<1>12. CASE Fails(p) \/ InsertRow(p)
  BY <1>7, <1>12 DEF Fails, PutFails, ReadFails, SendFails, ConfirmFails, RowFails,
     Crash, InsertRow
<1>13. ~ SendHead(p) /\ ~ ConfirmHead(p)
  BY <1>2 DEF SendHead, ConfirmHead
<1> QED
  BY <1>3, <1>5, <1>6, <1>7, <1>8, <1>9, <1>10, <1>11, <1>12, <1>13 DEF PushStep, ReadHead

\* Only INSERT changes the snapshots table, and it records the head just moved.
LEMMA RowsStep ==
  ASSUME IInv, LInv, NEW p \in Procs,
         PushCall(p) \/ PullCall(p) \/ PushStep(p) \/ PullStep(p) \/ Fails(p),
         Range(published) \subseteq Range(published')
  PROVE  RowsWereHeads'
<1>1. CASE InsertRow(p)
  <2>1. NewHead(p) \in Range(published) /\ RowsWereHeads
    BY <1>1 DEF InsertRow, LInv, Moving
  <2>2. /\ rows \in [Files -> SUBSET Heads]
        /\ rows' = [rows EXCEPT ![FileOf[p]] =
                      {r \in @ : r.seq # job[p].seq} \cup {NewHead(p)}]
    BY <1>1 DEF InsertRow, IInv, FilesOK
  <2>3. \A f \in Files : rows'[f] \subseteq rows[f] \cup {NewHead(p)}
    BY <2>2
  <2> QED
    BY <2>1, <2>3 DEF RowsWereHeads
<1>2. CASE UNCHANGED rows
  BY <1>2 DEF LInv, RowsWereHeads
<1>3. ~ InsertRow(p) => UNCHANGED rows
  BY DEF PushCall, PullCall, Begin, PushStep, PushChunk, PushManifest, Put, PutExists,
     PutOpen, PutFill, ReadHead, CheckHead, OpenHead, WriteHead, SendHead, ConfirmHead,
     PullStep, PullManifest, PullPart, PullMisses, Fails, PutFails, ReadFails, SendFails,
     ConfirmFails, RowFails, Crash
<1> QED
  BY <1>1, <1>2, <1>3

\* The one writer finds the file as it left it.
LEMMA WriteHeadPublishes ==
  ASSUME IInv, LInv, NEW p \in Procs, WriteHead(p)
  PROVE  /\ Publish(NewHead(p)) /\ NewHead(p) \in Heads
         /\ NewHead(p).seq = Len(published) + 1
         /\ UNCHANGED sent
<1>1. pc[p] = "write" /\ head = TORN /\ job[p].seq = Len(published) + 1
  BY DEF WriteHead, LInv, Moving
<1>2. NewHead(p) \in Heads
  BY <1>1, NewHeadType DEF IInv, HeadSteps
<1> QED
  BY <1>1, <1>2 DEF WriteHead, FillHead, NewHead

\* A step of one call, with LocalHead.
LEMMA CallLInv ==
  ASSUME HeadKind = "local", OneWriter, IInv, LInv, PullersPull', NEW p \in Procs,
         PushCall(p) \/ PullCall(p) \/ PushStep(p) \/ PullStep(p) \/ Fails(p)
  PROVE  LInv'
<1>1. pc \in [Procs -> Steps] /\ job \in [Procs -> Jobs]
  BY DEF IInv, JobsOK
<1>2. CASE OpenHead(p)
  <2>1. /\ pc[p] = "open" /\ head' = TORN /\ UNCHANGED <<sent, published, job>>
        /\ pc'[p] = "write"
    BY <1>1, <1>2 DEF OpenHead, TruncateHead, Goto
  <2>2. Moving(p)'
    BY <2>1 DEF LInv, Moving
  <2>3. \A q \in Procs : Moving(q)'
    BY <2>1, <2>2, OthersMoving DEF PullSteps
  <2>4. RowsWereHeads'
    BY <2>1, RowsStep
  <2> QED
    BY <2>1, <2>3, <2>4 DEF LInv, SeqCounts, Last
<1>3. CASE WriteHead(p)
  <2>1. /\ Publish(NewHead(p)) /\ NewHead(p) \in Heads
        /\ NewHead(p).seq = Len(published) + 1 /\ UNCHANGED sent
        /\ pc[p] = "write" /\ pc'[p] = "row" /\ UNCHANGED job
    BY <1>1, <1>3, WriteHeadPublishes DEF WriteHead, Goto
  <2>2. /\ SeqCounts' /\ head' = Last'
        /\ Range(published') = Range(published) \cup {NewHead(p)}
    BY <2>1, AppendNumbered DEF LInv, IInv
  <2>3. Moving(p)'
    BY <2>1, <2>2 DEF Moving, NewHead
  <2>4. \A q \in Procs : Moving(q)'
    BY <2>1, <2>3, OthersMoving DEF PullSteps
  <2>5. RowsWereHeads'
    BY <2>2, RowsStep
  <2> QED
    BY <2>1, <2>2, <2>4, <2>5 DEF LInv
<1>4. CASE ~ OpenHead(p) /\ ~ WriteHead(p)
  <2>1. UNCHANGED <<head, sent, published>> /\ Moving(p)'
    BY <1>4, HeadAloneStep DEF headVars
  <2>2. \A q \in Procs : Moving(q)'
    BY <2>1, OthersMoving
  <2>3. RowsWereHeads'
    BY <2>1, RowsStep
  <2> QED
    BY <2>1, <2>2, <2>3 DEF LInv, SeqCounts, Last
<1> QED
  BY <1>2, <1>3, <1>4

\* Every step, with LocalHead and one process that pushes.
LEMMA StepLInv == HeadKind = "local" /\ OneWriter /\ IInv /\ LInv /\ [Next]_vars => LInv'
<1> SUFFICES ASSUME HeadKind = "local", OneWriter, IInv, LInv, [Next]_vars PROVE LInv'
  OBVIOUS
<1>1. PullersPull'
  BY PullersPullStep DEF LInv
<1>2. ~ Chain
  BY DEF LInv, Chain
<1>3. CASE (\E f \in Files : Edit(f)) \/ Tick \/ UNCHANGED vars
  <2>1. UNCHANGED <<pc, job, rows, head, sent, published>>
    BY <1>3 DEF Edit, Tick, vars, headVars
  <2> QED
    BY <1>1, <2>1 DEF LInv, Last, SeqCounts, Moving, NewHead, RowsWereHeads
<1> QED
  BY <1>1, <1>2, <1>3, CallLInv DEF Next

\* The invariant of every run with LocalHead and one process that pushes.
LEMMA AlwaysLInv ==
  ASSUME HeadKind = "local", OneWriter
  PROVE  Spec => [](IInv /\ LInv)
<1>1. Init => LInv
  <2> SUFFICES ASSUME Init PROVE LInv
    OBVIOUS
  <2> QED
    BY DEF Init, HeadInit, LInv, Last, SeqCounts, PullersPull, PullSteps, Moving,
           RowsWereHeads
<1> QED
  BY <1>1, AlwaysIInv, StepLInv, PTL DEF Spec

\* With LocalHead and one program that pushes, the snapshots table records only heads that
\* there have been, wherever the program dies and whichever INSERT fails.
THEOREM RowsRecordHeads ==
  ASSUME HeadKind = "local", OneWriter
  PROVE  Spec => []RowsWereHeads
<1>1. LInv => RowsWereHeads
  BY DEF LInv
<1> QED
  BY <1>1, AlwaysLInv, PTL

-----------------------------------------------------------------------------
(* Heads that follow one another, whichever head pointer keeps them.       *)

\* SolanaHead orders any number of writers, LocalHead does not.
Ordered == HeadKind = "solana" \/ OneWriter

NInv == IF HeadKind = "solana" THEN SInv ELSE LInv

LEMMA AlwaysNInv ==
  ASSUME Ordered
  PROVE  Spec => [](IInv /\ NInv)
<1>1. CASE HeadKind = "solana"
  <2>1. SInv => NInv
    BY <1>1 DEF NInv
  <2> QED
    BY <1>1, <2>1, AlwaysSInv, PTL
<1>2. CASE HeadKind # "solana"
  <2>1. HeadKind = "local" /\ OneWriter
    BY <1>2, HeadKindAssumption DEF Ordered
  <2>2. LInv => NInv
    BY <1>2 DEF NInv
  <2> QED
    BY <2>1, <2>2, AlwaysLInv, PTL
<1> QED
  BY <1>1, <1>2

\* The published heads are numbered 1, 2, 3 ...: with SolanaHead whatever is retried, sent
\* twice, executed late or dropped; with LocalHead and one program that pushes, wherever it
\* dies.
THEOREM HeadsAreNumbered ==
  ASSUME Ordered
  PROVE  Spec => []SeqCounts
<1>1. NInv => SeqCounts
  BY DEF NInv, SInv, LInv
<1> QED
  BY <1>1, AlwaysNInv, PTL

\* A step publishes nothing, or the head of a sent transaction or of a push, with the next
\* number; and then nothing is stored.
LEMMA PublishNext ==
  ASSUME Ordered, IInv, NInv, [Next]_vars
  PROVE  \/ UNCHANGED published
         \/ \E h \in Heads :
              /\ Publish(h) /\ h.seq = Len(published) + 1
              /\ h \in sent \/ \E p \in Procs : pc[p] \in HeadSteps /\ h = NewHead(p)
              /\ UNCHANGED whole
<1>1. CASE HeadKind = "solana"
  <2>0. SInv
    BY <1>1 DEF NInv
  <2>1. CASE Chain
    <3>1. PICK h \in sent : SetHead(h) \/ Expire(h)
      BY <2>1 DEF Chain
    <3>2. UNCHANGED whole /\ h \in Heads
      BY <2>1, <3>1 DEF Chain, storeVars, IInv, HeadsOK
    <3>3. UNCHANGED published \/ (Publish(h) /\ ~ Rejects(h.seq))
      BY <3>1 DEF SetHead, Expire
    <3>4. Publish(h) /\ ~ Rejects(h.seq) => h.seq = Len(published) + 1
      BY <2>0, <3>1, AcceptedIsNext DEF IInv
    <3> QED
      BY <3>1, <3>2, <3>3, <3>4
  <2>2. CASE (\E f \in Files : Edit(f)) \/ Tick \/ UNCHANGED vars
    BY <2>2 DEF Edit, Tick, vars, headVars
  <2> QED
    BY <1>1, <2>0, <2>1, <2>2, CallSInv DEF Next
<1>2. CASE HeadKind # "solana"
  <2>0. LInv /\ HeadKind = "local" /\ OneWriter
    BY <1>2, HeadKindAssumption DEF NInv, Ordered
  <2>1. ASSUME NEW p \in Procs, WriteHead(p)
        PROVE  /\ Publish(NewHead(p)) /\ NewHead(p) \in Heads
               /\ NewHead(p).seq = Len(published) + 1
               /\ pc[p] \in HeadSteps /\ UNCHANGED whole
    BY <2>0, <2>1, WriteHeadPublishes DEF WriteHead, HeadSteps, storeVars
  <2>2. ASSUME NEW p \in Procs, OpenHead(p) PROVE UNCHANGED published
    BY <2>2 DEF OpenHead, TruncateHead
  <2>3. ~ Chain
    BY <2>0 DEF LInv, Chain
  <2>4. CASE (\E f \in Files : Edit(f)) \/ Tick \/ UNCHANGED vars
    BY <2>4 DEF Edit, Tick, vars, headVars
  <2>5. ASSUME NEW p \in Procs, ~ OpenHead(p), ~ WriteHead(p),
               PushCall(p) \/ PullCall(p) \/ PushStep(p) \/ PullStep(p) \/ Fails(p)
        PROVE  UNCHANGED published
    BY <2>0, <2>5, HeadAloneStep DEF headVars
  <2> QED
    BY <2>1, <2>2, <2>3, <2>4, <2>5 DEF Next
<1> QED
  BY <1>1, <1>2

-----------------------------------------------------------------------------
(* The snapshots table and the head.  With SolanaHead a push waits until a *)
(* transaction with its cid was executed.  Cids are numbered once, so that *)
(* it was its own, and whether that was accepted or came too late, the     *)
(* head has reached its number.                                            *)

\* The manifests whose transactions were sent, by their nonces.
Used == {h.cid.nonce : h \in sent} \cup {m.nonce : m \in landed}

\* The steps of push with a manifest.
OwnSteps == {"head"} \cup HeadSteps

\* What a push knows of the transaction it sent.
Informed(p) ==
  /\ pc[p] = "confirm" =>
       /\ \A h \in sent : h.cid = job[p].blob => h.seq = job[p].seq
       /\ job[p].blob \in landed => job[p].seq <= Len(published)
  /\ pc[p] = "row" => job[p].seq <= Len(published)

UInv ==
  /\ \A n \in Used : n <= calls
  /\ \A p \in Procs : pc[p] # "idle" => job[p].id \in 1..calls
  /\ \A p, q \in Procs :
       p # q /\ pc[p] # "idle" /\ pc[q] # "idle" => job[p].id # job[q].id
  /\ \A p \in Procs : pc[p] \in OwnSteps => job[p].blob.nonce = job[p].id
  /\ \A p \in Procs : pc[p] \notin {"idle", "confirm", "row"} => job[p].id \notin Used
  /\ \A p \in Procs : Informed(p)
  /\ RowsNotAhead

\* A call has the number it began with, and sends before it waits.
LEMMA IdStep ==
  ASSUME IInv, NEW p \in Procs,
         PushCall(p) \/ PullCall(p) \/ PushStep(p) \/ PullStep(p) \/ Fails(p),
         pc'[p] # "idle"
  PROVE  \/ /\ pc[p] # "idle" /\ job'[p].id = job[p].id /\ calls' = calls
            /\ pc[p] \in {"confirm", "row"} => pc'[p] = "row"
         \/ /\ job'[p].id = calls + 1 /\ calls' = calls + 1
            /\ pc'[p] \in {"chunk", "manifest"} /\ UNCHANGED headVars
<1>1. pc \in [Procs -> Steps] /\ job \in [Procs -> Jobs] /\ job[p] \in Jobs
  BY DEF IInv, JobsOK
<1>2. ~ Finish(p)
  BY <1>1 DEF Finish, Goto
<1>3. CASE PushCall(p)
  <2>1. /\ calls' = calls + 1 /\ pc'[p] = "chunk" /\ UNCHANGED headVars
        /\ job'[p] = [[NoJob EXCEPT !.pages = file[FileOf[p]]] EXCEPT !.id = calls']
    BY <1>1, <1>3 DEF PushCall, Begin, Goto
  <2> QED
    BY <2>1 DEF NoJob
<1>4. CASE PullCall(p)
  <2>1. /\ calls' = calls + 1 /\ pc'[p] = "manifest" /\ UNCHANGED headVars
        /\ job'[p] = [[NoJob EXCEPT !.locs = <<head.cid>>] EXCEPT !.id = calls']
    BY <1>1, <1>4 DEF PullCall, Begin, Goto
  <2> QED
    BY <2>1 DEF NoJob
<1>5. CASE PushChunk(p) \/ PushManifest(p)
  BY <1>1, <1>5 DEF PushChunk, PushManifest, Goto, Jobs
<1>6. CASE Put(p) \/ PutExists(p) \/ PutOpen(p) \/ PutFill(p)
  BY <1>1, <1>6 DEF Put, PutExists, PutOpen, PutFill, Stored, Goto, Jobs
<1>7. CASE ReadHead(p) \/ CheckHead(p) \/ OpenHead(p) \/ WriteHead(p) \/ SendHead(p)
           \/ ConfirmHead(p)
  BY <1>1, <1>2, <1>7 DEF ReadHead, CheckHead, OpenHead, WriteHead, SendHead, ConfirmHead,
     Goto, Jobs
<1>8. CASE PullStep(p)
  BY <1>1, <1>2, <1>8 DEF PullStep, PullManifest, PullPart, PullMisses, Goto, Jobs
<1>9. ~ Fails(p) /\ ~ InsertRow(p)
  BY <1>2 DEF Fails, PutFails, ReadFails, SendFails, ConfirmFails, RowFails, Crash, InsertRow
<1> QED
  BY <1>3, <1>4, <1>5, <1>6, <1>7, <1>8, <1>9 DEF PushStep

\* The manifest of a push bears the number of its call.
LEMMA NonceStep ==
  ASSUME IInv, NEW p \in Procs,
         PushCall(p) \/ PullCall(p) \/ PushStep(p) \/ PullStep(p) \/ Fails(p),
         pc'[p] \in OwnSteps
  PROVE  \/ pc[p] \in OwnSteps /\ job'[p].blob = job[p].blob /\ job'[p].id = job[p].id
         \/ job'[p].blob.nonce = job'[p].id
<1>1. /\ pc \in [Procs -> Steps] /\ job \in [Procs -> Jobs] /\ job[p] \in Jobs
      /\ JobAt(pc[p], job[p])
  BY DEF IInv, JobsOK
<1>2. ~ Finish(p)
  BY <1>1 DEF Finish, Goto, OwnSteps, HeadSteps
<1>3. ~ PushCall(p) /\ ~ PullCall(p)
  BY <1>1 DEF PushCall, PullCall, Begin, Goto, OwnSteps, HeadSteps
<1>4. ~ PushChunk(p) /\ ~ PushManifest(p)
  BY <1>1 DEF PushChunk, PushManifest, Goto, OwnSteps, HeadSteps
<1>5. CASE pc[p] \in {"put", "fill"} /\ Stored(p)
  <2>1. Len(job[p].locs) <= Pages /\ ~ Len(job[p].locs) < Pages /\ UNCHANGED job
    BY <1>1, <1>5 DEF Stored, Goto, JobAt, OwnSteps, HeadSteps
  <2>2. Len(job[p].locs) = Pages
    BY <1>1, <1>5, <2>1, SyncAssumptions DEF JobAt
  <2> QED
    BY <1>1, <1>5, <2>1, <2>2 DEF JobAt
<1>6. CASE Put(p) \/ PutExists(p) \/ PutFill(p)
  BY <1>5, <1>6 DEF Put, PutExists, PutFill
<1>7. ~ PutOpen(p)
  BY <1>1 DEF PutOpen, Goto, OwnSteps, HeadSteps
<1>8. CASE ReadHead(p) \/ CheckHead(p) \/ OpenHead(p) \/ WriteHead(p) \/ SendHead(p)
           \/ ConfirmHead(p)
  BY <1>1, <1>2, <1>8 DEF ReadHead, CheckHead, OpenHead, WriteHead, SendHead, ConfirmHead,
     Goto, Jobs, OwnSteps, HeadSteps
<1>9. ~ PullStep(p)
  BY <1>1, <1>2 DEF PullStep, PullManifest, PullPart, PullMisses, Goto, OwnSteps, HeadSteps
<1>10. ~ Fails(p) /\ ~ InsertRow(p)
  BY <1>2 DEF Fails, PutFails, ReadFails, SendFails, ConfirmFails, RowFails, Crash, InsertRow
<1> QED
  BY <1>3, <1>4, <1>6, <1>7, <1>8, <1>9, <1>10 DEF PushStep

\* A call sends one transaction or none, with its own head.
LEMMA SentStep ==
  ASSUME HeadKind = "solana", IInv, SInv, NEW p \in Procs,
         PushCall(p) \/ PullCall(p) \/ PushStep(p) \/ PullStep(p) \/ Fails(p)
  PROVE  \/ UNCHANGED headVars
         \/ /\ pc[p] = "send" /\ Send(NewHead(p)) /\ pc'[p] \in {"idle", "confirm"}
            /\ pc'[p] = "confirm" => UNCHANGED job
<1>1. pc \in [Procs -> Steps] /\ job \in [Procs -> Jobs]
  BY DEF IInv, JobsOK
<1>2. ~ CheckHead(p) /\ ~ OpenHead(p) /\ ~ WriteHead(p)
  BY DEF SInv, CallsNumbered, CheckHead, OpenHead, WriteHead
<1>3. CASE SendHead(p) \/ SendFails(p)
  BY <1>1, <1>3 DEF SendHead, SendFails, Finish, Goto
<1> QED
  BY <1>2, <1>3
     DEF PushCall, PullCall, Begin, PushStep, PushChunk, PushManifest, Put, PutExists,
         PutOpen, PutFill, ReadHead, SendHead, ConfirmHead, InsertRow, PullStep,
         PullManifest, PullPart, PullMisses, Fails, PutFails, ReadFails, SendFails,
         ConfirmFails, RowFails, Crash

\* How a push comes to wait, and to insert its row.
LEMMA WaitStep ==
  ASSUME HeadKind = "solana", IInv, SInv, NEW p \in Procs,
         PushCall(p) \/ PullCall(p) \/ PushStep(p) \/ PullStep(p) \/ Fails(p),
         pc'[p] \in {"confirm", "row"}
  PROVE  /\ UNCHANGED job
         /\ \/ pc'[p] = "confirm" /\ pc[p] = "send" /\ Send(NewHead(p))
            \/ /\ pc'[p] = "row" /\ pc[p] = "confirm" /\ job[p].blob \in landed
               /\ UNCHANGED headVars
<1>1. pc \in [Procs -> Steps] /\ job \in [Procs -> Jobs]
  BY DEF IInv, JobsOK
<1>2. ~ CheckHead(p) /\ ~ OpenHead(p) /\ ~ WriteHead(p)
  BY DEF SInv, CallsNumbered, CheckHead, OpenHead, WriteHead
<1>3. ~ Finish(p)
  BY <1>1 DEF Finish, Goto
<1>4. CASE SendHead(p) \/ ConfirmHead(p)
  BY <1>1, <1>3, <1>4 DEF SendHead, ConfirmHead, Goto
<1>5. ~ PushCall(p) /\ ~ PullCall(p)
  BY <1>1 DEF PushCall, PullCall, Begin, Goto
<1>6. ~ PushChunk(p) /\ ~ PushManifest(p)
  BY <1>1 DEF PushChunk, PushManifest, Goto
<1>7. ~ Put(p) /\ ~ PutExists(p) /\ ~ PutOpen(p) /\ ~ PutFill(p)
  BY <1>1 DEF Put, PutExists, PutOpen, PutFill, Stored, Goto
<1>8. ~ ReadHead(p)
  BY <1>1, <1>3 DEF ReadHead, Goto
<1>9. ~ PullStep(p)
  BY <1>1, <1>3 DEF PullStep, PullManifest, PullPart, PullMisses, Goto
<1>10. ~ Fails(p) /\ ~ InsertRow(p)
  BY <1>3 DEF Fails, PutFails, ReadFails, SendFails, ConfirmFails, RowFails, Crash, InsertRow
<1> QED
  BY <1>2, <1>4, <1>5, <1>6, <1>7, <1>8, <1>9, <1>10 DEF PushStep

\* A step of a call adds no number to the used ones but its own, and that when it sends.
LEMMA UsedStep ==
  ASSUME HeadKind = "solana", IInv, SInv, UInv, NEW p \in Procs,
         PushCall(p) \/ PullCall(p) \/ PushStep(p) \/ PullStep(p) \/ Fails(p)
  PROVE  \/ UNCHANGED headVars /\ Used' = Used
         \/ /\ pc[p] = "send" /\ pc'[p] \in {"idle", "confirm"}
            /\ sent' = sent \cup {NewHead(p)} /\ UNCHANGED <<landed, published>>
            /\ Used' = Used \cup {job[p].id}
<1>1. CASE UNCHANGED headVars
  BY <1>1 DEF headVars, Used
<1>2. CASE pc[p] = "send" /\ Send(NewHead(p)) /\ pc'[p] \in {"idle", "confirm"}
  <2>1. sent' = sent \cup {NewHead(p)} /\ UNCHANGED <<landed, published>>
    BY <1>2 DEF Send
  <2>2. NewHead(p).cid.nonce = job[p].id
    BY <1>2 DEF UInv, OwnSteps, HeadSteps, NewHead
  <2>3. Used' = Used \cup {job[p].id}
    BY <2>1, <2>2 DEF Used
  <2> QED
    BY <1>2, <2>1, <2>3
<1> QED
  BY <1>1, <1>2, SentStep

\* A push that waits is told of its own transaction only; one that saw it executed has a
\* number the head has reached.
LEMMA InformedStep ==
  ASSUME HeadKind = "solana", IInv, SInv, UInv, NEW p \in Procs,
         PushCall(p) \/ PullCall(p) \/ PushStep(p) \/ PullStep(p) \/ Fails(p)
  PROVE  \A q \in Procs : Informed(q)'
<1>1. \A q \in Procs \ {p} : pc'[q] = pc[q] /\ job'[q] = job[q]
  BY OthersStay
<1>2. UNCHANGED <<landed, published>>
  BY UsedStep DEF headVars
<1>3. ASSUME NEW q \in Procs \ {p}
      PROVE  Informed(q)'
  <2>1. ASSUME pc[q] = "confirm", NEW h \in sent', h.cid = job[q].blob
        PROVE  h.seq = job[q].seq
    <3>1. CASE h \in sent
      BY <2>1, <3>1 DEF UInv, Informed
    <3>2. CASE h \notin sent
      <4>1. pc[p] = "send" /\ h = NewHead(p)
        BY <2>1, <3>2, UsedStep DEF headVars
      <4>2. job[p].blob.nonce = job[p].id /\ job[q].blob.nonce = job[q].id
        BY <2>1, <4>1 DEF UInv, OwnSteps, HeadSteps
      <4>3. job[p].id # job[q].id
        BY <2>1, <4>1 DEF UInv
      <4> QED
        BY <2>1, <4>1, <4>2, <4>3 DEF NewHead
    <3> QED
      BY <3>1, <3>2
  <2> QED
    BY <1>1, <1>2, <2>1 DEF UInv, Informed
<1>4. Informed(p)'
  <2>1. CASE pc'[p] \notin {"confirm", "row"}
    BY <2>1 DEF Informed
  <2>2. CASE pc'[p] = "confirm"
    <3>1. UNCHANGED job /\ pc[p] = "send" /\ Send(NewHead(p))
      BY <2>2, WaitStep
    <3>2. job[p].blob.nonce = job[p].id /\ job[p].id \notin Used
      BY <3>1 DEF UInv, OwnSteps, HeadSteps
    <3>3. job[p].blob \notin landed /\ \A h \in sent : h.cid # job[p].blob
      BY <3>2 DEF Used
    <3> QED
      BY <2>2, <3>1, <3>3 DEF Informed, Send, NewHead
  <2>3. CASE pc'[p] = "row"
    <3>1. UNCHANGED job /\ pc[p] = "confirm" /\ job[p].blob \in landed
      BY <2>3, WaitStep
    <3> QED
      BY <1>2, <2>3, <3>1 DEF UInv, Informed
  <2> QED
    BY <2>1, <2>2, <2>3
<1> QED
  BY <1>3, <1>4

\* Only INSERT adds a row, with a number the head has reached.
LEMMA RowsNotAheadStep ==
  ASSUME IInv, UInv, NEW p \in Procs, UNCHANGED published,
         PushCall(p) \/ PullCall(p) \/ PushStep(p) \/ PullStep(p) \/ Fails(p)
  PROVE  RowsNotAhead'
<1>1. CASE InsertRow(p)
  <2>1. job[p].seq <= Len(published) /\ RowsNotAhead
    BY <1>1 DEF InsertRow, UInv, Informed
  <2>2. /\ rows \in [Files -> SUBSET Heads]
        /\ rows' = [rows EXCEPT ![FileOf[p]] =
                      {r \in @ : r.seq # job[p].seq} \cup {NewHead(p)}]
    BY <1>1 DEF InsertRow, IInv, FilesOK
  <2>3. \A f \in Files : rows'[f] \subseteq rows[f] \cup {NewHead(p)}
    BY <2>2
  <2>4. NewHead(p).seq = job[p].seq
    BY DEF NewHead
  <2> QED
    BY <2>1, <2>3, <2>4 DEF RowsNotAhead
<1>2. CASE UNCHANGED rows
  BY <1>2 DEF UInv, RowsNotAhead
<1>3. ~ InsertRow(p) => UNCHANGED rows
  BY DEF PushCall, PullCall, Begin, PushStep, PushChunk, PushManifest, Put, PutExists,
     PutOpen, PutFill, ReadHead, CheckHead, OpenHead, WriteHead, SendHead, ConfirmHead,
     PullStep, PullManifest, PullPart, PullMisses, Fails, PutFails, ReadFails, SendFails,
     ConfirmFails, RowFails, Crash
<1> QED
  BY <1>1, <1>2, <1>3

\* A step of a call keeps the numbers apart.
LEMMA CallUInv ==
  ASSUME HeadKind = "solana", IInv, SInv, UInv, NEW p \in Procs,
         PushCall(p) \/ PullCall(p) \/ PushStep(p) \/ PullStep(p) \/ Fails(p)
  PROVE  UInv'
<1>1. \A q \in Procs \ {p} : pc'[q] = pc[q] /\ job'[q] = job[q]
  BY OthersStay
<1>2. calls \in Nat /\ calls' \in {calls, calls + 1}
  BY DEF IInv, PushCall, PullCall, Begin, PushStep, PushChunk, PushManifest, Put, PutExists,
     PutOpen, PutFill, ReadHead, CheckHead, OpenHead, WriteHead, SendHead, ConfirmHead,
     InsertRow, PullStep, PullManifest, PullPart, PullMisses, Fails, PutFails, ReadFails,
     SendFails, ConfirmFails, RowFails, Crash
<1>3. /\ \A q \in Procs : pc[q] # "idle" => job[q].id \in 1..calls
      /\ \A n \in Used : n <= calls
  BY DEF UInv
<1>4. \A n \in Used' : n <= calls'
  <2>1. \A n \in Used' : n \in Used \/ (pc[p] = "send" /\ n = job[p].id)
    BY UsedStep
  <2>2. \A n \in Used : n \in Nat
    BY DEF Used, IInv, HeadsOK, Heads, Manifests
  <2> QED
    BY <1>2, <1>3, <2>1, <2>2
<1>5. pc'[p] # "idle" => job'[p].id \in 1..calls'
  BY <1>2, <1>3, IdStep
<1>6. \A q \in Procs : pc'[q] # "idle" => job'[q].id \in 1..calls'
  BY <1>1, <1>2, <1>3, <1>5
<1>7. ASSUME NEW q \in Procs \ {p}, pc'[p] # "idle", pc[q] # "idle"
      PROVE  job'[p].id # job[q].id
  <2>1. job[q].id <= calls /\ job[q].id \in Nat
    BY <1>2, <1>3, <1>7
  <2>2. pc[p] # "idle" => job[p].id # job[q].id
    BY <1>7 DEF UInv
  <2> QED
    BY <1>2, <1>7, <2>1, <2>2, IdStep
<1>8. \A q, r \in Procs :
        q # r /\ pc'[q] # "idle" /\ pc'[r] # "idle" => job'[q].id # job'[r].id
  BY <1>1, <1>7 DEF UInv
<1>9. \A q \in Procs : pc'[q] \in OwnSteps => job'[q].blob.nonce = job'[q].id
  BY <1>1, NonceStep DEF UInv
<1>10. ASSUME NEW q \in Procs, pc'[q] \notin {"idle", "confirm", "row"}
       PROVE  job'[q].id \notin Used'
  <2>1. CASE q = p
    <3>1. CASE job'[p].id = calls + 1 /\ UNCHANGED headVars
      BY <1>2, <1>3, <3>1, <2>1 DEF Used, headVars
    <3>2. CASE pc[p] \notin {"idle", "confirm", "row"} /\ job'[p].id = job[p].id
      <4>1. Used' = Used
        BY <1>10, <2>1, UsedStep
      <4> QED
        BY <2>1, <3>2, <4>1 DEF UInv
    <3> QED
      BY <1>10, <2>1, <3>1, <3>2, IdStep
  <2>2. CASE q # p
    <3>1. pc'[q] = pc[q] /\ job'[q] = job[q] /\ job[q].id \notin Used
      BY <1>1, <1>10, <2>2 DEF UInv
    <3>2. pc[p] = "send" => job[p].id # job[q].id
      BY <1>10, <2>2, <3>1 DEF UInv
    <3> QED
      BY <3>1, <3>2, UsedStep
  <2> QED
    BY <2>1, <2>2
<1>11. RowsNotAhead'
  BY UsedStep, RowsNotAheadStep DEF headVars
<1> QED
  BY <1>4, <1>6, <1>8, <1>9, <1>10, <1>11, InformedStep DEF UInv

\* A transaction that is executed is not above the head afterwards.
LEMMA ChainUInv ==
  ASSUME IInv, SInv, UInv, Chain
  PROVE  UInv'
<1>1. PICK h \in sent : SetHead(h) \/ Expire(h)
  BY DEF Chain
<1>2. /\ UNCHANGED <<pc, job, calls, rows>> /\ sent' \subseteq sent
      /\ landed' \subseteq landed \cup {h.cid}
  BY <1>1 DEF Chain, syncVars, SetHead, Expire
<1>3. Used' \subseteq Used
  BY <1>2 DEF Used
<1>4. /\ Len(published) \in Nat /\ Len(published') \in Nat
      /\ Len(published) <= Len(published')
      /\ h.cid \in landed' \ landed => h.seq <= Len(published')
  <2>1. published \in Seq(Heads) /\ h \in Heads /\ Len(published) \in Nat /\ h.seq \in Nat
    BY DEF IInv, HeadsOK, Heads
  <2>2. CASE Expire(h)
    BY <2>1, <2>2 DEF Expire
  <2>3. CASE SetHead(h) /\ Rejects(h.seq)
    <3>1. UNCHANGED published /\ h.seq <= head.seq /\ head # NULL
      BY <2>3 DEF SetHead, Rejects
    <3>2. head.seq = Len(published)
      BY <3>1, HeadNumber DEF IInv
    <3> QED
      BY <2>1, <3>1, <3>2
  <2>4. CASE SetHead(h) /\ ~ Rejects(h.seq)
    <3>1. published' = Append(published, h) /\ h.seq = Len(published) + 1
      BY <2>4, AcceptedIsNext DEF SetHead, Publish, IInv
    <3> QED
      BY <2>1, <3>1
  <2> QED
    BY <1>1, <2>2, <2>3, <2>4
<1>5. ASSUME NEW p \in Procs
      PROVE  Informed(p)'
  <2>1. job[p].seq \in Nat
    BY DEF IInv, JobsOK, Jobs
  <2>2. Informed(p)
    BY DEF UInv
  <2>3. ASSUME pc[p] = "confirm", job[p].blob \in landed'
        PROVE  job[p].seq <= Len(published')
    <3>1. CASE job[p].blob \in landed
      BY <1>4, <2>1, <2>2, <2>3, <3>1 DEF Informed
    <3>2. CASE job[p].blob \notin landed
      <4>1. h.cid = job[p].blob /\ h.cid \in landed' \ landed
        BY <1>2, <2>3, <3>2
      <4>2. h.seq = job[p].seq
        BY <2>2, <2>3, <4>1 DEF Informed
      <4> QED
        BY <1>4, <4>1, <4>2
    <3> QED
      BY <3>1, <3>2
  <2> QED
    BY <1>2, <1>4, <2>1, <2>2, <2>3 DEF Informed
<1>6. RowsNotAhead'
  <2>1. \A f \in Files : \A r \in rows[f] : r.seq \in Nat
    BY DEF IInv, FilesOK, Heads
  <2> QED
    BY <1>2, <1>4, <2>1 DEF UInv, RowsNotAhead
<1> QED
  BY <1>2, <1>3, <1>5, <1>6 DEF UInv

\* Every step, with SolanaHead.
LEMMA StepUInv == HeadKind = "solana" /\ IInv /\ SInv /\ UInv /\ [Next]_vars => UInv'
<1> SUFFICES ASSUME HeadKind = "solana", IInv, SInv, UInv, [Next]_vars PROVE UInv'
  OBVIOUS
<1>1. CASE (\E f \in Files : Edit(f)) \/ Tick \/ UNCHANGED vars
  <2>1. UNCHANGED <<pc, job, rows, calls>> /\ UNCHANGED headVars
    BY <1>1 DEF Edit, Tick, vars, headVars
  <2> QED
    BY <2>1 DEF UInv, Used, Informed, RowsNotAhead, headVars
<1> QED
  BY <1>1, CallUInv, ChainUInv DEF Next

\* No snapshots table is ahead of the head: with SolanaHead for any number of writers and
\* whatever is retried, late or rejected; with LocalHead for one program that pushes.
THEOREM RowsFollowHeads ==
  ASSUME Ordered
  PROVE  Spec => []RowsNotAhead
<1>1. CASE HeadKind = "solana"
  <2>1. Init => UInv
    <3> SUFFICES ASSUME Init PROVE UInv
      OBVIOUS
    <3> QED
      BY DEF Init, HeadInit, UInv, Used, OwnSteps, HeadSteps, Informed, RowsNotAhead
  <2>2. UInv => RowsNotAhead
    BY DEF UInv
  <2> QED
    BY <1>1, <2>1, <2>2, AlwaysSInv, StepUInv, PTL DEF Spec
<1>2. CASE HeadKind # "solana"
  <2>1. HeadKind = "local" /\ OneWriter
    BY <1>2, HeadKindAssumption DEF Ordered
  <2>2. IInv /\ LInv => RowsNotAhead
    <3> SUFFICES ASSUME IInv, LInv, NEW f \in Files, NEW r \in rows[f]
                 PROVE  r.seq <= Len(published)
      BY DEF RowsNotAhead
    <3>1. PICK i \in DOMAIN published : r = published[i]
      BY DEF LInv, RowsWereHeads, Range
    <3>2. r.seq = i
      BY <3>1 DEF LInv, SeqCounts
    <3>3. published \in Seq(Heads)
      BY DEF IInv, HeadsOK
    <3> QED
      BY <3>1, <3>2, <3>3
  <2> QED
    BY <2>1, <2>2, AlwaysLInv, PTL
<1> QED
  BY <1>1, <1>2

-----------------------------------------------------------------------------
(* The versions of the snapshots.  A file only gets newer; its one writer  *)
(* dumps it, and later reads the head and takes the next number.  So of    *)
(* two heads it made, the one with the larger number is of the newer file, *)
(* in whatever order they arrive.                                          *)

\* No two processes push the same file.
OneWriterPerFile ==
  \A p, q \in Procs :
    "push" \in Roles[p] /\ "push" \in Roles[q] /\ FileOf[p] = FileOf[q] => p = q

\* The heads that are published or may still be.
Made == sent \cup Range(published)

PushSteps == {"chunk", "put", "fill", "head"} \cup HeadSteps

\* The chunks at hand are the pages of the snapshot.
Drawn(p) ==
  LET j == job[p] IN
  /\ pc[p] \in {"chunk", "put", "fill"} =>
       \A k \in DOMAIN j.locs : j.locs[k].file = FileOf[p] /\ j.locs[k].version = j.pages[k]
  /\ pc[p] \in {"put", "fill"} /\ Len(j.locs) < Pages =>
       j.blob.file = FileOf[p] /\ j.blob.version = j.pages[Len(j.locs) + 1]
  /\ pc[p] \in {"head"} \cup HeadSteps =>
       FileIn(j.blob) = FileOf[p] /\ VersionIn(j.blob) = Newest(j.pages)

\* The snapshot of a push is not older than any head of its file, and not newer than it.
Latest(p) ==
  pc[p] \in PushSteps =>
    /\ Newest(job[p].pages) <= Newest(file[FileOf[p]])
    /\ \A h \in Made : FileIn(h.cid) = FileOf[p] =>
         /\ VersionIn(h.cid) <= Newest(job[p].pages)
         /\ pc[p] \in HeadSteps => h.seq <= job[p].seq

MadeOK ==
  \A h \in Made :
    /\ FileIn(h.cid) \in Files /\ VersionIn(h.cid) \in Nat
    /\ VersionIn(h.cid) <= Newest(file[FileIn(h.cid)])

MadeInOrder ==
  \A g, h \in Made :
    FileIn(g.cid) = FileIn(h.cid) /\ g.seq < h.seq => VersionIn(g.cid) <= VersionIn(h.cid)

VInv ==
  /\ PullersPull
  /\ MadeOK
  /\ MadeInOrder
  /\ \A p \in Procs : Drawn(p)
  /\ \A p \in Procs : Latest(p)

\* A change makes a file newer.
LEMMA NewestGrows ==
  ASSUME NEW pages \in Versions, NEW i \in 1..Pages
  PROVE  LET new == [pages EXCEPT ![i] = Newest(pages) + 1] IN
         new \in Versions /\ Newest(pages) <= Newest(new)
<1> DEFINE new == [pages EXCEPT ![i] = Newest(pages) + 1]
<1>1. Newest(pages) \in Nat
  BY NewestType
<1>2. new \in Versions /\ new[i] = Newest(pages) + 1
  BY <1>1 DEF Versions
<1> HIDE DEF new
<1>3. Newest(new) \in Nat /\ new[i] <= Newest(new)
  BY <1>2, NewestType
<1>4. Newest(pages) <= Newest(new)
  BY <1>1, <1>2, <1>3
<1> QED
  BY <1>2, <1>4 DEF new

\* A manifest of all the pages of a snapshot has the file and the version of the snapshot.
LEMMA ManifestVersion ==
  ASSUME NEW pages \in Versions, NEW f, NEW m, m.chunks \in Seq(Chunks),
         Len(m.chunks) = Pages,
         \A k \in DOMAIN m.chunks : m.chunks[k].file = f /\ m.chunks[k].version = pages[k]
  PROVE  FileIn(m) = f /\ VersionIn(m) = Newest(pages)
<1>1. Pages \in Nat \ {0}
  BY SyncAssumptions
<1>2. DOMAIN m.chunks = 1..Pages /\ 1 \in 1..Pages
  BY <1>1
<1>3. FileIn(m) = f
  BY <1>2 DEF FileIn
<1>4. {c.version : c \in Range(m.chunks)} = Range(pages)
  <2>1. DOMAIN pages = 1..Pages
    BY DEF Versions
  <2>2. /\ Range(m.chunks) = {m.chunks[k] : k \in 1..Pages}
        /\ Range(pages) = {pages[k] : k \in 1..Pages}
    BY <1>2, <2>1 DEF Range
  <2> QED
    BY <1>2, <2>2
<1> QED
  BY <1>3, <1>4 DEF VersionIn, Newest

\* The chunks at hand stay the pages of the snapshot.
LEMMA DrawnStep ==
  ASSUME IInv, IInv', VInv, NEW p \in Procs,
         PushCall(p) \/ PullCall(p) \/ PushStep(p) \/ PullStep(p) \/ Fails(p)
  PROVE  Drawn(p)'
<1> DEFINE j == job[p]
<1>1. pc \in [Procs -> Steps] /\ job \in [Procs -> Jobs] /\ j \in Jobs /\ Drawn(p)
  BY DEF IInv, JobsOK, VInv
<1>2. CASE pc'[p] \in PullSteps
  BY <1>2 DEF Drawn, PullSteps, HeadSteps
<1>3. CASE Finish(p)
  BY <1>1, <1>2, <1>3 DEF Finish, Goto, PullSteps
<1>4. CASE PushCall(p)
  <2>1. pc'[p] = "chunk" /\ job'[p].locs = << >>
    BY <1>1, <1>4 DEF PushCall, Begin, Goto, NoJob, Jobs
  <2> QED
    BY <2>1 DEF Drawn, HeadSteps
<1>5. CASE PullCall(p) \/ PullStep(p)
  BY <1>1, <1>2, <1>3, <1>5 DEF PullCall, Begin, PullStep, PullManifest, PullPart, PullMisses,
     Goto, PullSteps
<1>6. CASE PushChunk(p)
  <2> DEFINE b == NextChunk(p)
  <2>1. /\ pc[p] = "chunk" /\ j.locs \in Seq(Chunks) /\ Len(j.locs) < Pages
        /\ b.file = FileOf[p] /\ b.version = j.pages[Len(j.locs) + 1] /\ b \in Chunks
    BY <1>1, <1>6, NextChunkType DEF PushChunk, NextChunk, IInv, JobsOK, JobAt
  <2>2. PICK found \in Has(p, b) :
          IF found THEN /\ job' = [job EXCEPT ![p].locs = Append(@, b)] /\ UNCHANGED pc
                   ELSE job' = [job EXCEPT ![p].blob = b] /\ Goto(p, "put")
    BY <1>6 DEF PushChunk
  <2> HIDE DEF b
  <2>3. CASE found
    <3>1. pc'[p] = "chunk" /\ job'[p].locs = Append(j.locs, b) /\ job'[p].pages = j.pages
      BY <1>1, <2>1, <2>2, <2>3 DEF Jobs
    <3>2. \A k \in DOMAIN Append(j.locs, b) :
            \/ k \in DOMAIN j.locs /\ Append(j.locs, b)[k] = j.locs[k]
            \/ k = Len(j.locs) + 1 /\ Append(j.locs, b)[k] = b
      BY <2>1
    <3> QED
      BY <1>1, <2>1, <3>1, <3>2 DEF Drawn, HeadSteps
  <2>4. CASE ~ found
    <3>1. /\ pc'[p] = "put" /\ job'[p].locs = j.locs /\ job'[p].blob = b
          /\ job'[p].pages = j.pages
      BY <1>1, <2>2, <2>4 DEF Goto, Jobs
    <3> QED
      BY <1>1, <2>1, <3>1 DEF Drawn, HeadSteps
  <2> QED
    BY <2>3, <2>4
<1>7. CASE PushManifest(p)
  <2>1. /\ pc[p] = "chunk" /\ Len(j.locs) = Pages /\ Pages \in Nat /\ pc'[p] = "put"
        /\ job'[p].locs = j.locs /\ job'[p].pages = j.pages
    BY <1>1, <1>7, SyncAssumptions DEF PushManifest, Goto, Jobs
  <2> QED
    BY <1>1, <2>1 DEF Drawn, HeadSteps
<1>8. CASE PutOpen(p)
  <2>1. pc[p] = "put" /\ pc'[p] = "fill" /\ UNCHANGED job
    BY <1>1, <1>8 DEF PutOpen, Goto
  <2> QED
    BY <1>1, <2>1 DEF Drawn, HeadSteps
<1>9. CASE pc[p] \in {"put", "fill"} /\ Stored(p)
  <2>1. /\ j.locs \in Seq(Chunks) /\ Len(j.locs) \in Nat /\ Len(j.locs) <= Pages
        /\ Pages \in Nat /\ JobAt(pc[p], j)
    BY <1>9, SyncAssumptions DEF IInv, JobsOK, JobAt
  <2>2. CASE Len(j.locs) < Pages
    <3>1. /\ pc'[p] = "chunk" /\ job'[p].locs = Append(j.locs, j.blob)
          /\ job'[p].pages = j.pages
      BY <1>1, <1>9, <2>2 DEF Stored, Goto, Jobs
    <3>2. j.blob \in Chunks
      BY <1>9, <2>1, <2>2 DEF JobAt
    <3>3. \A k \in DOMAIN Append(j.locs, j.blob) :
            \/ k \in DOMAIN j.locs /\ Append(j.locs, j.blob)[k] = j.locs[k]
            \/ k = Len(j.locs) + 1 /\ Append(j.locs, j.blob)[k] = j.blob
      BY <2>1, <3>2
    <3> QED
      BY <1>1, <1>9, <2>2, <3>1, <3>3 DEF Drawn, HeadSteps
  <2>3. CASE Len(j.locs) = Pages
    <3>1. pc'[p] = "head" /\ UNCHANGED job
      BY <1>1, <1>9, <2>1, <2>3 DEF Stored, Goto
    <3>2. j.blob.chunks = j.locs /\ j.pages \in Versions
      BY <1>1, <1>9, <2>1, <2>3 DEF JobAt, Jobs
    <3>3. \A k \in DOMAIN j.blob.chunks :
            j.blob.chunks[k].file = FileOf[p] /\ j.blob.chunks[k].version = j.pages[k]
      BY <1>1, <1>9, <3>2 DEF Drawn
    <3>4. FileIn(j.blob) = FileOf[p] /\ VersionIn(j.blob) = Newest(j.pages)
      BY <2>1, <2>3, <3>2, <3>3, ManifestVersion
    <3> QED
      BY <3>1, <3>4 DEF Drawn
  <2> QED
    BY <2>1, <2>2, <2>3
<1>10. CASE Put(p) \/ PutExists(p) \/ PutFill(p)
  BY <1>9, <1>10 DEF Put, PutExists, PutFill
<1>11. CASE ReadHead(p) /\ head # TORN
  <2>1. /\ pc[p] = "head" /\ pc'[p] \in {"check", "send"}
        /\ job'[p].blob = j.blob /\ job'[p].pages = j.pages
    BY <1>1, <1>11 DEF ReadHead, Goto, Jobs
  <2> QED
    BY <1>1, <2>1 DEF Drawn, HeadSteps
<1>12. CASE CheckHead(p) \/ OpenHead(p) \/ WriteHead(p) \/ SendHead(p) \/ ConfirmHead(p)
  <2>1. CASE pc[p] \in HeadSteps /\ pc'[p] \in HeadSteps /\ UNCHANGED job
    BY <1>1, <2>1 DEF Drawn, HeadSteps
  <2>2. Finish(p) \/ (pc[p] \in HeadSteps /\ pc'[p] \in HeadSteps /\ UNCHANGED job)
    BY <1>1, <1>12 DEF CheckHead, OpenHead, WriteHead, SendHead, ConfirmHead, Goto, HeadSteps
  <2> QED
    BY <1>3, <2>1, <2>2
<1>13. CASE Fails(p) \/ InsertRow(p)
  BY <1>3, <1>13 DEF Fails, PutFails, ReadFails, SendFails, ConfirmFails, RowFails,
     Crash, InsertRow
<1> QED
  BY <1>3, <1>4, <1>5, <1>6, <1>7, <1>8, <1>10, <1>11, <1>12, <1>13 DEF PushStep, ReadHead

\* The snapshot of a push is the file when the push began.
LEMMA PagesStep ==
  ASSUME IInv, NEW p \in Procs,
         PushCall(p) \/ PullCall(p) \/ PushStep(p) \/ PullStep(p) \/ Fails(p),
         pc'[p] \in PushSteps
  PROVE  \/ pc[p] \in PushSteps /\ job'[p].pages = job[p].pages
         \/ /\ job'[p].pages = file[FileOf[p]] /\ pc'[p] = "chunk"
            /\ UNCHANGED <<sent, published>>
<1>1. pc \in [Procs -> Steps] /\ job \in [Procs -> Jobs] /\ job[p] \in Jobs
  BY DEF IInv, JobsOK
<1>2. ~ Finish(p)
  BY <1>1 DEF Finish, Goto, PushSteps, HeadSteps
<1>3. CASE PushCall(p)
  <2>1. UNCHANGED <<sent, published>> /\ pc'[p] = "chunk"
    BY <1>1, <1>3 DEF PushCall, Begin, Goto, headVars
  <2>2. job'[p] = [[NoJob EXCEPT !.pages = file[FileOf[p]]] EXCEPT !.id = calls']
    BY <1>1, <1>3 DEF PushCall, Begin
  <2>3. job'[p].pages = file[FileOf[p]]
    BY <2>2 DEF NoJob
  <2> QED
    BY <2>1, <2>3
<1>4. CASE PushChunk(p) \/ PushManifest(p)
  BY <1>1, <1>4 DEF PushChunk, PushManifest, PushSteps, Jobs
<1>5. CASE Put(p) \/ PutExists(p) \/ PutOpen(p) \/ PutFill(p)
  BY <1>1, <1>5 DEF Put, PutExists, PutOpen, PutFill, Stored, PushSteps, Jobs
<1>6. CASE ReadHead(p) \/ CheckHead(p) \/ OpenHead(p) \/ WriteHead(p) \/ SendHead(p)
           \/ ConfirmHead(p)
  BY <1>1, <1>2, <1>6 DEF ReadHead, CheckHead, OpenHead, WriteHead, SendHead, ConfirmHead,
     PushSteps, HeadSteps, Jobs
<1>7. ~ Fails(p) /\ ~ InsertRow(p)
  BY <1>2 DEF Fails, PutFails, ReadFails, SendFails, ConfirmFails, RowFails, Crash, InsertRow
<1>8. ~ PullStep(p) /\ ~ PullCall(p)
  BY <1>1, <1>2 DEF PullStep, PullManifest, PullPart, PullMisses, PullCall, Begin, Goto,
     PushSteps, HeadSteps
<1> QED
  BY <1>3, <1>4, <1>5, <1>6, <1>7, <1>8 DEF PushStep

\* The heads of a step: it makes none, or the one it has a number for.
LEMMA MadeStep ==
  ASSUME IInv, NEW p \in Procs,
         PushCall(p) \/ PullCall(p) \/ PushStep(p) \/ PullStep(p) \/ Fails(p)
  PROVE  \/ Made' \subseteq Made
         \/ pc[p] \in HeadSteps /\ Made' \subseteq Made \cup {NewHead(p)}
<1>1. CASE UNCHANGED <<sent, published>>
  BY <1>1 DEF Made
<1>2. CASE pc[p] \in HeadSteps /\ Send(NewHead(p))
  BY <1>2 DEF Made, Send
<1>3. CASE WriteHead(p) /\ Publish(NewHead(p))
  <2>1. pc[p] \in HeadSteps /\ NewHead(p) \in Heads /\ UNCHANGED sent
    BY <1>3, NewHeadType DEF WriteHead, FillHead, HeadSteps, IInv
  <2>2. published \in Seq(Heads) /\ published' = Append(published, NewHead(p))
    BY <1>3 DEF Publish, IInv, HeadsOK
  <2>3. Range(published') = Range(published) \cup {NewHead(p)}
    BY <2>1, <2>2, RangeAppend
  <2> QED
    BY <2>1, <2>3 DEF Made
<1>4. CASE SendHead(p) \/ SendFails(p)
  BY <1>1, <1>2, <1>4 DEF SendHead, SendFails, HeadSteps, headVars
<1>5. CASE WriteHead(p)
  BY <1>1, <1>3, <1>5 DEF WriteHead, FillHead
<1>6. ~ SendHead(p) /\ ~ SendFails(p) /\ ~ WriteHead(p) => UNCHANGED <<sent, published>>
  BY DEF PushCall, PullCall, Begin, PushStep, PushChunk, PushManifest, Put, PutExists,
     PutOpen, PutFill, ReadHead, CheckHead, OpenHead, TruncateHead, ConfirmHead, InsertRow,
     PullStep, PullManifest, PullPart, PullMisses, Fails, PutFails, ReadFails,
     ConfirmFails, RowFails, Crash, headVars
<1> QED
  BY <1>1, <1>4, <1>5, <1>6

\* A push that has just read the head takes a number no head in sight exceeds.
LEMMA ReadNumber ==
  ASSUME HeadsOK, NInv, head # TORN
  PROVE  \A h \in Made : h.seq <= NextSeq
<1>1. published \in Seq(Heads) /\ Len(published) \in Nat
  BY DEF HeadsOK
<1>2. \A h \in Range(published) : h.seq \in Nat /\ h.seq <= Len(published)
  BY <1>1 DEF NInv, SInv, LInv, SeqCounts, Range
<1>3. CASE HeadKind = "solana"
  <2>1. SInv
    BY <1>3 DEF NInv
  <2>2. NextSeq = Len(published) + 1
    BY <2>1, HeadNumber, HeadAssumption DEF NextSeq
  <2> QED
    BY <1>1, <1>2, <2>1, <2>2 DEF Made, SInv, NotAhead
<1>4. CASE HeadKind # "solana"
  <2>1. LInv
    BY <1>4 DEF NInv
  <2>2. NextSeq = Len(published) + 1
    BY <2>1, LocalNumber DEF LInv
  <2> QED
    BY <1>1, <1>2, <2>1, <2>2 DEF Made, LInv
<1> QED
  BY <1>3, <1>4

\* The number of a push is the one it took when it read the head.
LEMMA SeqStep ==
  ASSUME IInv, NInv, NEW p \in Procs,
         PushCall(p) \/ PullCall(p) \/ PushStep(p) \/ PullStep(p) \/ Fails(p),
         pc'[p] \in HeadSteps
  PROVE  \/ pc[p] \in HeadSteps /\ job'[p].seq = job[p].seq
         \/ /\ \A h \in Made : h.seq <= job'[p].seq
            /\ UNCHANGED <<sent, published>>
<1>1. pc \in [Procs -> Steps] /\ job \in [Procs -> Jobs] /\ job[p] \in Jobs
  BY DEF IInv, JobsOK
<1>2. ~ Finish(p)
  BY <1>1 DEF Finish, Goto, HeadSteps
<1>3. CASE ReadHead(p)
  <2>1. head # TORN /\ job'[p].seq = NextSeq /\ UNCHANGED <<sent, published>>
    BY <1>1, <1>2, <1>3 DEF ReadHead, Jobs, headVars
  <2> QED
    BY <2>1, ReadNumber DEF IInv
<1>4. CASE CheckHead(p) \/ OpenHead(p) \/ WriteHead(p) \/ SendHead(p) \/ ConfirmHead(p)
  BY <1>1, <1>2, <1>4 DEF CheckHead, OpenHead, WriteHead, SendHead, ConfirmHead, HeadSteps
<1>5. ~ Fails(p) /\ ~ InsertRow(p)
  BY <1>2 DEF Fails, PutFails, ReadFails, SendFails, ConfirmFails, RowFails, Crash, InsertRow
<1>6. ~ PullStep(p) /\ ~ PullCall(p) /\ ~ PushCall(p)
  BY <1>1, <1>2 DEF PullStep, PullManifest, PullPart, PullMisses, PushCall, PullCall, Begin,
     Goto, HeadSteps
<1>7. ~ PushChunk(p) /\ ~ PushManifest(p)
  BY <1>1 DEF PushChunk, PushManifest, Goto, HeadSteps
<1>8. ~ Put(p) /\ ~ PutExists(p) /\ ~ PutOpen(p) /\ ~ PutFill(p)
  BY <1>1 DEF Put, PutExists, PutOpen, PutFill, Stored, Goto, HeadSteps
<1> QED
  BY <1>3, <1>4, <1>5, <1>6, <1>7, <1>8 DEF PushStep

\* The versions of all files stay or grow.
FilesGrow == \A f \in Files : Newest(file[f]) <= Newest(file'[f])

LEMMA FileStep ==
  ASSUME IInv, [Next]_vars
  PROVE  FilesGrow
<1>1. ASSUME NEW f \in Files, NEW i \in 1..Pages,
             file' = [file EXCEPT ![f][i] = Newest(file[f]) + 1]
      PROVE  FilesGrow
  <2> DEFINE new == [file[f] EXCEPT ![i] = Newest(file[f]) + 1]
  <2>1. file \in [Files -> Versions]
    BY DEF IInv, FilesOK
  <2>2. Newest(file[f]) <= Newest(new)
    BY <2>1, NewestGrows
  <2>3. file' = [file EXCEPT ![f] = new]
    BY <1>1
  <2> HIDE DEF new
  <2>4. \A g \in Files : file'[g] = IF g = f THEN new ELSE file[g]
    BY <2>1, <2>3
  <2>5. \A g \in Files : Newest(file[g]) \in Nat
    BY <2>1, NewestType
  <2> QED
    BY <2>2, <2>4, <2>5 DEF FilesGrow
<1>2. CASE UNCHANGED file
  <2>1. \A g \in Files : Newest(file[g]) \in Nat
    BY NewestType DEF IInv, FilesOK
  <2> QED
    BY <1>2, <2>1 DEF FilesGrow
<1>3. ASSUME NEW p \in Procs, InsertRow(p) PROVE FilesGrow
  <2>1. FileOf[p] \in Files /\ Pages \in 1..Pages
    BY SyncAssumptions
  <2> QED
    BY <1>1, <1>3, <2>1 DEF InsertRow
<1>4. ASSUME NEW f \in Files, Edit(f) PROVE FilesGrow
  BY <1>1, <1>4 DEF Edit
<1>5. ASSUME NEW p \in Procs, ~ InsertRow(p),
             PushCall(p) \/ PullCall(p) \/ PushStep(p) \/ PullStep(p) \/ Fails(p)
      PROVE  UNCHANGED file
  BY <1>5 DEF PushCall, PullCall, Begin, PushStep, PushChunk, PushManifest, Put, PutExists,
     PutOpen, PutFill, ReadHead, CheckHead, OpenHead, WriteHead, SendHead, ConfirmHead,
     PullStep, PullManifest, PullPart, PullMisses, Fails, PutFails, ReadFails, SendFails,
     ConfirmFails, RowFails, Crash
<1>6. Chain \/ Tick \/ UNCHANGED vars => UNCHANGED file
  BY DEF Chain, Tick, vars, syncVars
<1> QED
  BY <1>2, <1>3, <1>4, <1>5, <1>6 DEF Next

\* A head that a push makes is not older than those of its file with smaller numbers.
LEMMA MadeInOrderStep ==
  ASSUME IInv, VInv, NEW p \in Procs, pc[p] \in HeadSteps, Made' \subseteq Made \cup {NewHead(p)}
  PROVE  MadeInOrder'
<1> DEFINE n == NewHead(p)
<1>1. /\ FileIn(n.cid) = FileOf[p] /\ VersionIn(n.cid) = Newest(job[p].pages)
      /\ n.seq = job[p].seq /\ n.seq \in Nat
  BY DEF NewHead, VInv, Drawn, IInv, JobsOK, Jobs
<1>2. \A h \in Made : FileIn(h.cid) = FileIn(n.cid) =>
        VersionIn(h.cid) <= VersionIn(n.cid) /\ h.seq <= n.seq
  BY <1>1 DEF VInv, Latest, PushSteps
<1>3. \A h \in Made : h.seq \in Nat
  <2>1. sent \subseteq Heads /\ published \in Seq(Heads)
    BY DEF IInv, HeadsOK
  <2>2. Range(published) \subseteq Heads
    BY <2>1 DEF Range
  <2> QED
    BY <2>1, <2>2 DEF Made, Heads
<1> HIDE DEF n
<1>4. ASSUME NEW g \in Made', NEW h \in Made', FileIn(g.cid) = FileIn(h.cid), g.seq < h.seq
      PROVE  VersionIn(g.cid) <= VersionIn(h.cid)
  <2>1. CASE g \in Made /\ h \in Made
    BY <1>4, <2>1 DEF VInv, MadeInOrder
  <2>2. CASE g \in Made /\ h = n
    BY <1>2, <1>4, <2>2
  <2>3. CASE g = n
    <3>1. h # n
      BY <1>1, <1>4, <2>3
    <3>2. h \in Made
      BY <3>1 DEF n
    <3> QED
      BY <1>1, <1>2, <1>3, <1>4, <2>3, <3>2
  <2> QED
    BY <2>1, <2>2, <2>3 DEF n
<1> QED
  BY <1>4 DEF MadeInOrder

\* The heads stay heads of versions their files have had.
LEMMA MadeOKStep ==
  ASSUME IInv, IInv', VInv, FilesGrow, NEW p \in Procs,
         \/ Made' \subseteq Made
         \/ pc[p] \in HeadSteps /\ Made' \subseteq Made \cup {NewHead(p)}
  PROVE  MadeOK'
<1>1. \A f \in Files : /\ Newest(file[f]) \in Nat /\ Newest(file'[f]) \in Nat
                       /\ Newest(file[f]) <= Newest(file'[f])
  BY NewestType DEF IInv, FilesOK, FilesGrow
<1>2. ASSUME NEW h \in Made
      PROVE  /\ FileIn(h.cid) \in Files /\ VersionIn(h.cid) \in Nat
             /\ VersionIn(h.cid) <= Newest(file'[FileIn(h.cid)])
  BY <1>1 DEF VInv, MadeOK
<1>3. ASSUME pc[p] \in HeadSteps
      PROVE  LET h == NewHead(p) IN
             /\ FileIn(h.cid) \in Files /\ VersionIn(h.cid) \in Nat
             /\ VersionIn(h.cid) <= Newest(file'[FileIn(h.cid)])
  <2>1. /\ FileIn(NewHead(p).cid) = FileOf[p]
        /\ VersionIn(NewHead(p).cid) = Newest(job[p].pages)
    BY <1>3 DEF NewHead, VInv, Drawn
  <2>2. FileOf[p] \in Files /\ Newest(job[p].pages) \in Nat
    BY SyncAssumptions, NewestType DEF IInv, JobsOK, Jobs
  <2>3. Newest(job[p].pages) <= Newest(file[FileOf[p]])
    BY <1>3 DEF VInv, Latest, PushSteps
  <2> QED
    BY <1>1, <2>1, <2>2, <2>3
<1> QED
  BY <1>2, <1>3 DEF MadeOK

\* The snapshot of a push stays the latest of its file.
LEMMA LatestStep ==
  ASSUME IInv, IInv', NInv, VInv, FilesGrow, OneWriterPerFile, NEW p \in Procs,
         PushCall(p) \/ PullCall(p) \/ PushStep(p) \/ PullStep(p) \/ Fails(p),
         NEW q \in Procs
  PROVE  Latest(q)'
<1> SUFFICES ASSUME pc'[q] \in PushSteps
             PROVE  /\ Newest(job'[q].pages) <= Newest(file'[FileOf[q]])
                    /\ \A h \in Made' : FileIn(h.cid) = FileOf[q] =>
                         /\ VersionIn(h.cid) <= Newest(job'[q].pages)
                         /\ pc'[q] \in HeadSteps => h.seq <= job'[q].seq
  BY DEF Latest
<1> DEFINE n == NewHead(p)
<1>1. /\ FileOf[q] \in Files
      /\ Newest(file[FileOf[q]]) \in Nat /\ Newest(file'[FileOf[q]]) \in Nat
      /\ Newest(file[FileOf[q]]) <= Newest(file'[FileOf[q]])
      /\ Newest(job[q].pages) \in Nat /\ job[q].seq \in Nat
  BY SyncAssumptions, NewestType DEF IInv, FilesOK, FilesGrow, JobsOK, Jobs
<1>2. \/ Made' \subseteq Made
      \/ pc[p] \in HeadSteps /\ Made' \subseteq Made \cup {n}
  BY MadeStep
<1>3. pc[p] \in HeadSteps =>
        /\ FileIn(n.cid) = FileOf[p] /\ VersionIn(n.cid) = Newest(job[p].pages)
        /\ n.seq = job[p].seq
  BY DEF NewHead, VInv, Drawn
<1> HIDE DEF n
<1>4. CASE q # p
  <2>1. pc'[q] = pc[q] /\ job'[q] = job[q]
    BY <1>4, OthersStay
  <2>2. Newest(job[q].pages) <= Newest(file[FileOf[q]])
    BY <2>1 DEF VInv, Latest
  <2>3. pc[p] \in HeadSteps => FileOf[p] # FileOf[q]
    <3>1. "push" \in Roles[q]
      BY <2>1 DEF VInv, PullersPull, PullSteps, PushSteps, HeadSteps
    <3>2. pc[p] \in HeadSteps => "push" \in Roles[p]
      BY DEF VInv, PullersPull, PullSteps, HeadSteps
    <3> QED
      BY <1>4, <3>1, <3>2 DEF OneWriterPerFile
  <2>4. \A h \in Made' : FileIn(h.cid) = FileOf[q] => h \in Made
    BY <1>2, <1>3, <2>3
  <2>5. \A h \in Made : FileIn(h.cid) = FileOf[q] =>
          /\ VersionIn(h.cid) <= Newest(job[q].pages)
          /\ pc[q] \in HeadSteps => h.seq <= job[q].seq
    BY <2>1 DEF VInv, Latest
  <2> QED
    BY <1>1, <2>1, <2>2, <2>4, <2>5
<1>5. CASE q = p /\ job'[p].pages = file[FileOf[p]] /\ pc'[p] = "chunk"
           /\ UNCHANGED <<sent, published>>
  <2>1. Made' = Made /\ pc'[p] \notin HeadSteps
    BY <1>5 DEF Made, HeadSteps
  <2>2. \A h \in Made : FileIn(h.cid) = FileOf[p] => VersionIn(h.cid) <= Newest(file[FileOf[p]])
    BY DEF VInv, MadeOK
  <2> QED
    BY <1>1, <1>5, <2>1, <2>2
<1>6. CASE q = p /\ pc[p] \in PushSteps /\ job'[p].pages = job[p].pages
  <2>1. Latest(p)
    BY DEF VInv
  <2>2. /\ Newest(job[p].pages) <= Newest(file[FileOf[p]])
        /\ \A h \in Made : FileIn(h.cid) = FileOf[p] => VersionIn(h.cid) <= Newest(job[p].pages)
    BY <1>6, <2>1 DEF Latest
  <2>3. \A h \in Made' : FileIn(h.cid) = FileOf[p] => VersionIn(h.cid) <= Newest(job[p].pages)
    BY <1>1, <1>2, <1>3, <1>6, <2>2
  <2>4. ASSUME pc'[p] \in HeadSteps, NEW h \in Made', FileIn(h.cid) = FileOf[p]
        PROVE  h.seq <= job'[p].seq
    <3>1. CASE pc[p] \in HeadSteps /\ job'[p].seq = job[p].seq
      BY <1>1, <1>2, <1>3, <1>6, <2>1, <2>4, <3>1 DEF Latest
    <3>2. CASE (\A g \in Made : g.seq <= job'[p].seq) /\ UNCHANGED <<sent, published>>
      BY <2>4, <3>2 DEF Made
    <3> QED
      BY <2>4, <3>1, <3>2, SeqStep
  <2> QED
    BY <1>1, <1>6, <2>2, <2>3, <2>4
<1> QED
  BY <1>4, <1>5, <1>6, PagesStep

\* Every step, when no two processes push one file and heads follow one another.
LEMMA StepVInv ==
  OneWriterPerFile /\ IInv /\ IInv' /\ NInv /\ VInv /\ [Next]_vars => VInv'
<1> SUFFICES ASSUME OneWriterPerFile, IInv, IInv', NInv, VInv, [Next]_vars PROVE VInv'
  OBVIOUS
<1>1. PullersPull' /\ FilesGrow
  BY PullersPullStep, FileStep DEF VInv
<1>2. ASSUME NEW p \in Procs,
             PushCall(p) \/ PullCall(p) \/ PushStep(p) \/ PullStep(p) \/ Fails(p)
      PROVE  VInv'
  <2>1. \/ Made' \subseteq Made
        \/ pc[p] \in HeadSteps /\ Made' \subseteq Made \cup {NewHead(p)}
    BY <1>2, MadeStep
  <2>2. MadeOK'
    BY <1>1, <2>1, MadeOKStep
  <2>3. MadeInOrder'
    BY <2>1, MadeInOrderStep DEF VInv, MadeInOrder
  <2>4. \A q \in Procs : Drawn(q)'
    <3>1. Drawn(p)'
      BY <1>2, DrawnStep
    <3>2. ASSUME NEW q \in Procs \ {p} PROVE Drawn(q)'
      BY <1>2, OthersStay DEF VInv, Drawn
    <3> QED
      BY <3>1, <3>2
  <2>5. \A q \in Procs : Latest(q)'
    BY <1>1, <1>2, LatestStep
  <2> QED
    BY <1>1, <2>2, <2>3, <2>4, <2>5 DEF VInv
<1>3. CASE Chain \/ (\E f \in Files : Edit(f)) \/ Tick \/ UNCHANGED vars
  <2>1. UNCHANGED <<pc, job>>
    BY <1>3 DEF Chain, Edit, Tick, vars, syncVars
  <2>2. Made' \subseteq Made
    <3>1. CASE UNCHANGED <<sent, published>>
      BY <3>1 DEF Made
    <3>2. CASE Chain
      <4>1. PICK h \in sent : SetHead(h) \/ Expire(h)
        BY <3>2 DEF Chain
      <4>2. sent' \subseteq sent /\ h \in Heads /\ published \in Seq(Heads)
        BY <4>1 DEF SetHead, Expire, IInv, HeadsOK
      <4>3. UNCHANGED published \/ published' = Append(published, h)
        BY <4>1 DEF SetHead, Expire, Publish
      <4>4. Range(published') \subseteq Range(published) \cup {h}
        <5>1. CASE UNCHANGED published
          BY <5>1
        <5>2. CASE published' = Append(published, h)
          <6>1. Range(Append(published, h)) = Range(published) \cup {h}
            BY <4>2, RangeAppend
          <6> QED
            BY <5>2, <6>1
        <5> QED
          BY <4>3, <5>1, <5>2
      <4> QED
        BY <4>1, <4>2, <4>4 DEF Made
    <3> QED
      BY <1>3, <3>1, <3>2 DEF Edit, Tick, vars, headVars
  <2>3. \A f \in Files : /\ Newest(file[f]) \in Nat /\ Newest(file'[f]) \in Nat
                         /\ Newest(file[f]) <= Newest(file'[f])
    BY <1>1, NewestType DEF IInv, FilesOK, FilesGrow
  <2>4. MadeOK'
    BY <2>2, <2>3 DEF VInv, MadeOK
  <2>5. MadeInOrder'
    BY <2>2 DEF VInv, MadeInOrder
  <2>6. \A q \in Procs : Drawn(q)'
    BY <2>1 DEF VInv, Drawn
  <2>7. ASSUME NEW q \in Procs PROVE Latest(q)'
    <3>1. FileOf[q] \in Files /\ Newest(job[q].pages) \in Nat
      BY SyncAssumptions, NewestType DEF IInv, JobsOK, Jobs
    <3>2. Latest(q)
      BY DEF VInv
    <3> QED
      BY <2>1, <2>2, <2>3, <3>1, <3>2 DEF Latest
  <2> QED
    BY <1>1, <2>4, <2>5, <2>6, <2>7 DEF VInv
<1> QED
  BY <1>2, <1>3 DEF Next

\* A later head never restores an older state of the same file, in whatever order the
\* transactions of one writer arrive and whatever it retries: with SolanaHead and any
\* number of devices that push a file each, with LocalHead and one program that pushes.
THEOREM NeverOlderHolds ==
  ASSUME Ordered, OneWriterPerFile
  PROVE  Spec => []NeverOlder
<1>1. Init => VInv
  <2> SUFFICES ASSUME Init PROVE VInv
    OBVIOUS
  <2>1. Made = {}
    BY DEF Init, HeadInit, Made, Range
  <2> QED
    BY <2>1 DEF Init, VInv, MadeOK, MadeInOrder, PullersPull, PullSteps, Drawn, Latest,
       PushSteps, HeadSteps
<1>2. ASSUME IInv, NInv, VInv PROVE NeverOlder
  <2> SUFFICES ASSUME NEW i \in DOMAIN published, NEW j \in DOMAIN published, i < j,
                      FileIn(published[i].cid) = FileIn(published[j].cid)
               PROVE  VersionIn(published[i].cid) <= VersionIn(published[j].cid)
    BY DEF NeverOlder
  <2>1. published[i].seq = i /\ published[j].seq = j
    BY <1>2 DEF NInv, SInv, LInv, SeqCounts
  <2>2. published[i] \in Made /\ published[j] \in Made
    BY DEF Made, Range
  <2> QED
    BY <1>2, <2>1, <2>2 DEF VInv, MadeInOrder
<1> QED
  BY <1>1, <1>2, AlwaysNInv, StepVInv, PTL DEF Spec

-----------------------------------------------------------------------------
(* Sync implements the register.                                           *)

RestorableNow == {m \in whole \ Chunks : Restorable(m)}

\* A manifest is told from a chunk.
LEMMA ManifestIsNoChunk == Manifests \cap Chunks = {}
<1>1. ASSUME NEW m \in Manifests, m \in Chunks PROVE FALSE
  <2>1. DOMAIN m = {"chunks", "nonce"}
    BY DEF Manifests
  <2>2. DOMAIN m = {"file", "page", "version", "stamp"}
    BY <1>1 DEF Chunks
  <2>3. "file" \notin {"chunks", "nonce"}
    OBVIOUS
  <2> QED
    BY <2>1, <2>2, <2>3
<1> QED
  BY <1>1

\* What is published last has the number of heads there have been.
LEMMA LastNumber ==
  ASSUME HeadsOK, SeqCounts
  PROVE  Len(published) + 1 = IF Last = NULL THEN 1 ELSE Last.seq + 1
<1>1. published \in Seq(Heads) /\ Len(published) \in Nat
  BY DEF HeadsOK
<1>2. CASE published = << >>
  BY <1>1, <1>2 DEF Last
<1>3. CASE published # << >>
  <2>1. Len(published) \in DOMAIN published /\ published[Len(published)] \in Heads
    BY <1>1, <1>3
  <2> QED
    BY <1>3, <2>1, HeadAssumption DEF Last, SeqCounts
<1> QED
  BY <1>2, <1>3

\* A step that publishes nothing is an upload of the register, any other publishes the
\* next snapshot.
LEMMA StepRegister ==
  ASSUME Backend # "localfs", Ordered, IInv, RInv, NInv, [Next]_vars, RInv',
         Coming \subseteq Coming'
  PROVE  [Register!Next]_<<Last, RestorableNow>>
<1>1. whole = Coming /\ whole' = Coming'
  <2>1. RInv => Coming = whole
    BY NothingHalf
  <2>2. RInv' => Coming' = whole'
    BY DEF RInv, StoreKept, Coming
  <2> QED
    BY <2>1, <2>2
<1>2. CASE UNCHANGED published
  <2>1. RestorableNow \subseteq RestorableNow'
    BY <1>1 DEF RestorableNow, Restorable
  <2>2. Register!Upload
    BY <1>2, <2>1 DEF Register!Upload, RestorableNow
  <2> QED
    BY <2>2 DEF Register!Next
<1>3. ASSUME NEW h \in Heads, Publish(h), h.seq = Len(published) + 1, UNCHANGED whole,
             h \in sent \/ \E p \in Procs : pc[p] \in HeadSteps /\ h = NewHead(p)
      PROVE  Register!Publish
  <2>1. SeqCounts /\ HeadsOK
    BY DEF NInv, SInv, LInv, IInv
  <2>2. Last' = h
    BY <1>3, <2>1, AppendNumbered
  <2>3. h.cid \in RestorableNow
    <3>1. BlobsOf(h.cid) \subseteq Coming
      BY <1>3 DEF RInv, HeadsKept, CallsKept, Kept, NewHead
    <3>2. Restorable(h.cid) /\ h.cid \in Manifests
      BY <1>1, <1>3, <3>1 DEF Restorable, BlobsOf, Heads
    <3>3. h.cid \in whole /\ h.cid \notin Chunks
      BY <3>2, ManifestIsNoChunk DEF Restorable
    <3> QED
      BY <3>2, <3>3 DEF RestorableNow
  <2>4. h.seq = IF Last = NULL THEN 1 ELSE Last.seq + 1
    BY <1>3, <2>1, LastNumber
  <2>5. UNCHANGED RestorableNow
    BY <1>3 DEF RestorableNow, Restorable
  <2> QED
    BY <2>2, <2>3, <2>4, <2>5 DEF Register!Publish, Last, RestorableNow
<1> QED
  BY <1>2, <1>3, PublishNext DEF Register!Next

\* With a network driver and heads that follow one another, push and pull are a register of
\* snapshots: what becomes restorable stays so, and the current snapshot is only ever
\* replaced by the next one, whole and numbered without a gap.
THEOREM RegisterImplemented ==
  ASSUME Backend # "localfs", Ordered
  PROVE  Spec => ImplementsRegister
<1>1. Init => Register!Init
  <2> SUFFICES ASSUME Init PROVE Register!Init
    OBVIOUS
  <2> QED
    BY DEF Init, StoreInit, HeadInit, Register!Init
<1>2. NothingCut
  BY DEF NothingCut
<1>3. IInv /\ RInv /\ NInv /\ [Next]_vars => [Register!Next]_<<Last, RestorableNow>>
  BY <1>2, StepRInv, StepRegister
<1>4. [Register!Next]_<<Last, RestorableNow>> =>
        [Register!Next]_<<IF published = << >> THEN NULL ELSE published[Len(published)],
                          {m \in whole \ Chunks : Restorable(m)}>>
  BY DEF Last, RestorableNow
<1> QED
  BY <1>1, <1>2, <1>3, <1>4, AlwaysRInv, AlwaysNInv, PTL
     DEF Spec, ImplementsRegister, Register!Spec

=============================================================================
