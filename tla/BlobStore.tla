----------------------------- MODULE BlobStore ------------------------------
(***************************************************************************)
(* The storage backends.  A blob is known by its content: BLAKE3 is taken  *)
(* to be collision free, so a locator and the ciphertext it addresses are  *)
(* one value, and a get that verifies the hash returns it or raises.       *)
(*                                                                         *)
(* What differs between the drivers is how a put can be half done and how  *)
(* has and get find what was put.                                          *)
(***************************************************************************)

CONSTANTS
  Procs,      \* the processes, each with a driver object of its own
  Backend     \* the driver they use

Backends == {"localfs", "s3", "ipfs", "arweave"}

ASSUME BackendAssumption == Backend \in Backends

VARIABLES
  whole,      \* the blobs that are stored completely
  partial,    \* LocalFS: the blobs whose file exists without all of its bytes
  known       \* known[p]: IPFS, Arweave: the blobs whose address p's driver remembers

storeVars == <<whole, partial, known>>

StoreInit ==
  /\ whole = {}
  /\ partial = {}
  /\ known = [p \in Procs |-> {}]

\* Both network drivers look blobs up in a dictionary of the driver object.
Mapped == Backend \in {"ipfs", "arweave"}

\* Slip: any exception of head_object counts as "yes".
HasOnError(p, l) == {(l \in whole), TRUE}

\* The answers has(l) may give. S3: any exception of head_object counts as "no".
Has(p, l) ==
  CASE Backend = "localfs" -> {(l \in whole \cup partial)}
    [] Backend = "s3"      -> {(l \in whole), FALSE}
    [] OTHER               -> {(l \in known[p])}

\* get(l) returns; otherwise it raises.
Readable(p, l) == l \in whole /\ (Mapped => l \in known[p])

\* LocalFS.put opens the file for writing, which empties it, ...
OpenBlob(l) ==
  /\ whole' = whole \ {l}
  /\ partial' = partial \cup {l}
  /\ UNCHANGED known

\* Slip: the bytes are not all written.
FillBlobShort(l) == UNCHANGED storeVars

\* ... and then writes the bytes.
FillBlob(l) ==
  /\ whole' = whole \cup {l}
  /\ partial' = partial \ {l}
  /\ UNCHANGED known

\* The put of the other drivers: the service stores all of the blob or nothing.
Upload(p, l) ==
  /\ whole' = whole \cup {l}
  /\ known' = IF Mapped THEN [known EXCEPT ![p] = @ \cup {l}] ELSE known
  /\ UNCHANGED partial

\* The upload was done, its answer was lost: put raises before it notes the address.
UploadUnanswered(l) ==
  /\ whole' = whole \cup {l}
  /\ UNCHANGED <<partial, known>>

\* The driver object goes with its process.
Restart(p) ==
  /\ known' = [known EXCEPT ![p] = {}]
  /\ UNCHANGED <<whole, partial>>

=============================================================================
