-------------------------- MODULE SnapshotRegister --------------------------
(***************************************************************************)
(* What sync promises a device that has nothing but the key: a register    *)
(* that holds the current snapshot.  Snapshots become restorable and stay  *)
(* so; the register moves from one to the next, numbered without a gap,    *)
(* and only to a snapshot that can be restored.                            *)
(***************************************************************************)
EXTENDS Integers

CONSTANT NULL

VARIABLES
  current,      \* NULL or a record of cid and seq
  restorable    \* the snapshots whose blobs are all stored

Init == current = NULL /\ restorable = {}

Upload ==
  /\ restorable \subseteq restorable'
  /\ UNCHANGED current

Publish ==
  /\ current'.cid \in restorable
  /\ current'.seq = IF current = NULL THEN 1 ELSE current.seq + 1
  /\ UNCHANGED restorable

Next == Upload \/ Publish

Spec == Init /\ [][Next]_<<current, restorable>>

=============================================================================
