-------------------------------- MODULE MCSync ------------------------------
(* Small instances of Sync for TLC. *)
EXTENDS Sync

CONSTANTS p1, p2, laptop, phone, null, torn

\* Each process is a device with a file of its own.
TwoDevices == [p \in Procs |-> IF p = p1 THEN laptop ELSE phone]

\* All processes share the laptop's file.
OneFile == [p \in Procs |-> laptop]

PushAndPull == [p \in Procs |-> {"push", "pull"}]

\* One process pushes, the others only restore.
OnePusher == [p \in Procs |-> IF p = p1 THEN {"push"} ELSE {"pull"}]

=============================================================================
