----------------------------- MODULE MCChunking -----------------------------
(* Small instances of Chunking for TLC: three byte values, two mask bits. *)
EXTENDS Chunking

MCGear == [b \in Bytes |-> 5 * b + 1]

=============================================================================
