------------------------------ MODULE Chunking ------------------------------
(***************************************************************************)
(* Content-defined chunking: the loop of chunk(), one byte for each step,  *)
(* and the manifest made from its chunks.  Two chunks have one id exactly  *)
(* if they have the same bytes, so a chunk is its own id.                  *)
(***************************************************************************)
EXTENDS Integers, Sequences, SequencesExt

CONSTANTS
  Bytes,       \* the byte values
  MaxLength,   \* bound: the longest input
  MinChunk,    \* MIN_CHUNK
  MaxChunk,    \* MAX_CHUNK
  MaskBits,    \* _MASK has this many low bits set
  Width,       \* the bits of the rolling hash
  Gear         \* _GEAR: one number for each byte value

\* 1 << n, for the widths that are used; a function, so that it can be reasoned about.
Pow2[n \in 0..Width] == IF n = 0 THEN 1 ELSE 2 * Pow2[n - 1]

ASSUME ChunkingAssumptions ==
  /\ {MaxLength, MaskBits, Width} \subseteq Nat
  /\ {MinChunk, MaxChunk} \subseteq Nat \ {0}
  /\ MinChunk <= MaxChunk
  /\ MaskBits <= MinChunk
  /\ MaskBits <= Width
  /\ Gear \in [Bytes -> 0..(Pow2[Width] - 1)]

VARIABLES
  data,     \* the input
  i,        \* the bytes hashed so far
  start,    \* where the chunk under way starts: the bytes already in chunks
  h,        \* the rolling hash
  cuts      \* the ends of the chunks found

vars == <<data, i, start, h, cuts>>

Inputs == BoundedSeq(Bytes, MaxLength)

Init ==
  /\ data \in Inputs
  /\ i = 0
  /\ start = 0
  /\ h = 0
  /\ cuts = << >>

\* Slips: the hash is not cut to its width; it is not shifted, so it forgets nothing.
RollWide(hash, byte) == 2 * hash + Gear[byte]
RollUnshifted(hash, byte) == (hash + Gear[byte]) % Pow2[Width]

\* h = ((h << 1) + GEAR[byte]) & 0xFFFFFFFF
Roll(hash, byte) == (2 * hash + Gear[byte]) % Pow2[Width]

\* Slip: an oversized chunk is cut one byte late.
IsCutLate(size, hash) == size >= MinChunk /\ (hash % Pow2[MaskBits] = 0 \/ size > MaxChunk)

\* The condition on which the loop cuts after a byte.
IsCut(size, hash) ==
  size >= MinChunk /\ (hash % Pow2[MaskBits] = 0 \/ size >= MaxChunk)

\* An input of at most MIN_CHUNK bytes is one chunk, without hashing, or none.
Short ==
  /\ i = 0
  /\ Len(data) \in 1..MinChunk
  /\ i' = Len(data)
  /\ start' = Len(data)
  /\ cuts' = <<Len(data)>>
  /\ UNCHANGED <<data, h>>

Scan ==
  LET hash == Roll(h, data[i + 1]) IN
  /\ Len(data) > MinChunk
  /\ i < Len(data)
  /\ i' = i + 1
  /\ IF IsCut(i + 1 - start, hash)
     THEN cuts' = Append(cuts, i + 1) /\ start' = i + 1 /\ h' = 0
     ELSE h' = hash /\ UNCHANGED <<cuts, start>>
  /\ UNCHANGED data

\* What is left after the loop is the last chunk.
Rest ==
  /\ i = Len(data)
  /\ start < i
  /\ cuts' = Append(cuts, i)
  /\ start' = i
  /\ UNCHANGED <<data, i, h>>

Next == Short \/ Scan \/ Rest

Spec == Init /\ [][Next]_vars

Done == i = Len(data) /\ start = i

\* The chunks whose ends are the given cuts.
ChunksOf(d, ends) ==
  [k \in 1..Len(ends) |-> SubSeq(d, IF k = 1 THEN 1 ELSE ends[k - 1] + 1, ends[k])]

\* Slip: the order has the keys of the blocks, each once.
ManifestOnce(d, ends) ==
  FoldLeft(LAMBDA order, c : IF Contains(order, c) THEN order ELSE Append(order, c),
           << >>, ChunksOf(d, ends))

\* build_manifest: the ids in order. Its blocks are the range of this sequence.
Manifest(d, ends) == ChunksOf(d, ends)

\* reassemble
Reassemble(order) == FlattenSeq(order)

\* delta: the ids that are not stored yet, each once.
Delta(order, have) ==
  FoldLeft(LAMBDA out, c : IF c \in have \/ Contains(out, c) THEN out ELSE Append(out, c),
           << >>, order)

-----------------------------------------------------------------------------
(* Properties. *)

\* The hash of the last MaskBits bytes before a position, and of nothing else.
WindowHash(d, at) ==
  FoldLeft(LAMBDA hash, byte : Roll(hash, byte), 0,
           SubSeq(d, (IF at > MaskBits THEN at - MaskBits ELSE 0) + 1, at))

\* Where the chunk from a position ends, by the words of the documentation: the first
\* position, at least MIN_CHUNK on, where the most recent bytes say so, or MAX_CHUNK.
NextCut(d, from) ==
  LET ends == {at \in (from + MinChunk)..Len(d) :
                 at - from = MaxChunk \/ WindowHash(d, at) % Pow2[MaskBits] = 0}
  IN IF ends = {} THEN Len(d) ELSE Min(ends)

\* The cuts of an input: from each one to the next.
CutsOf(d) ==
  LET Cuts[from \in 0..Len(d)] ==
        IF from = Len(d) THEN << >> ELSE <<NextCut(d, from)>> \o Cuts[NextCut(d, from)]
  IN Cuts[0]

TypeOK ==
  /\ data \in Inputs
  /\ i \in 0..Len(data)
  /\ start \in 0..i
  /\ h \in 0..(Pow2[Width] - 1)
  /\ cuts \in Seq(1..Len(data))

\* The snapshot that is pulled is the snapshot that was pushed: the chunks in the order of
\* the manifest are the input, whatever is cut and however the last byte falls, and a store
\* that has some of them lacks exactly the delta, in which no chunk comes twice.
RoundTrip ==
  Done =>
    LET order == Manifest(data, cuts) IN
    /\ Reassemble(order) = data
    /\ \A have \in SUBSET Range(order) :
         LET new == Delta(order, have) IN
         IsInjective(new) /\ Range(new) = Range(order) \ have

\* Every chunk has MIN_CHUNK to MAX_CHUNK bytes; only the last one may be shorter.
SizesBounded ==
  \A k \in DOMAIN cuts :
    LET size == cuts[k] - (IF k = 1 THEN 0 ELSE cuts[k - 1]) IN
    size <= MaxChunk /\ (size >= MinChunk \/ (cuts[k] = Len(data) /\ size > 0))

\* The rolling hash, though reset at every cut, cuts where the windowed hash says: before
\* MIN_CHUNK bytes it is not asked, and after them it has forgotten the reset.
CutsAreLocal == Done => cuts = CutsOf(data)

=============================================================================
