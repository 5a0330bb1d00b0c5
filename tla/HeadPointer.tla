---------------------------- MODULE HeadPointer -----------------------------
(***************************************************************************)
(* The head pointer: the one mutable value, that says which snapshot is    *)
(* current.  LocalHead keeps it in a JSON file, SolanaHead in an account   *)
(* of the program kausamemory_head.                                        *)
(***************************************************************************)
EXTENDS Integers, Sequences

CONSTANTS
  HeadKind,   \* "local" or "solana"
  NULL,       \* no head yet
  TORN        \* a head file that does not parse

ASSUME HeadKindAssumption == HeadKind \in {"local", "solana"}

VARIABLES
  head,       \* what a read finds: NULL, TORN or a record of cid and seq
  sent,       \* SolanaHead: the transactions on their way
  landed,     \* SolanaHead: the cids whose transaction was executed, with success or not
  published   \* history: the heads there have been, oldest first

headVars == <<head, sent, landed, published>>

HeadInit ==
  /\ head = NULL
  /\ sent = {}
  /\ landed = {}
  /\ published = << >>

\* Slip: snapshots are numbered from 0.
NextSeqFromZero == IF head = NULL THEN 0 ELSE head.seq + 1

\* push: the number of the next snapshot.
NextSeq == IF head = NULL THEN 1 ELSE head.seq + 1

\* Slips: an equal seq is let through; every seq is.
RejectsLess(seq) == head \notin {NULL, TORN} /\ seq < head.seq
RejectsNone(seq) == FALSE

\* The guard of LocalHead.write and of set_head. A new account has seq 0, below every seq.
Rejects(seq) == head \notin {NULL, TORN} /\ seq <= head.seq

Publish(h) ==
  /\ head' = h
  /\ published' = Append(published, h)

\* LocalHead.write: write_text empties the file, ...
TruncateHead ==
  /\ head' = TORN
  /\ UNCHANGED <<sent, landed, published>>

\* ... and writes the text. If another process has opened and written the file meanwhile,
\* the longer text may stick out behind the shorter one.
FillHead(h) ==
  /\ \/ Publish(h)
     \/ head # TORN /\ head' = TORN /\ UNCHANGED published
  /\ UNCHANGED <<sent, landed>>

\* SolanaHead.write: send_raw_transaction.
Send(h) ==
  /\ sent' = sent \cup {h}
  /\ UNCHANGED <<head, landed, published>>

\* set_head: the program executes the transaction when it arrives.
SetHead(h) ==
  /\ h \in sent
  /\ sent' = sent \ {h}
  /\ landed' = landed \cup {h.cid}
  /\ IF Rejects(h.seq) THEN UNCHANGED <<head, published>> ELSE Publish(h)

\* The blockhash of the transaction expires before it arrives.
Expire(h) ==
  /\ h \in sent
  /\ sent' = sent \ {h}
  /\ UNCHANGED <<head, landed, published>>

=============================================================================
