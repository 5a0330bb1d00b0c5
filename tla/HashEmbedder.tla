---------------------------- MODULE HashEmbedder ----------------------------
(***************************************************************************)
(* The default embedder, one token of a text a step: a token adds one or   *)
(* takes one away at a coordinate of the vector, as its hash says.  The    *)
(* vector is then scaled to length one, or left alone if it is zero, which *)
(* changes nothing of what matters here: is there a direction at all?      *)
(***************************************************************************)
EXTENDS Integers, Sequences

CONSTANTS
  Tokens,     \* the words that occur in texts
  Hash,       \* Hash[t]: blake2b of a token, as a number
  Dim         \* the dimension of the vectors, 256

ASSUME HashEmbedderAssumptions ==
  /\ Hash \in [Tokens -> Nat]
  /\ Dim \in Nat \ {0} /\ Dim % 4 = 0

VARIABLES
  rest,       \* the tokens still to be added
  vec         \* v, before it is normalized

Coordinates == 0 .. Dim - 1

ZeroVector == [i \in Coordinates |-> 0]

EmbedInit(text) == rest = text /\ vec = ZeroVector

Index(h) == h % Dim

\* Slip: a bit of the hash that the index does not have.
SignOfHighBit(h) == IF (h \div Dim) % 2 = 1 THEN 1 ELSE -1

\* Bit 1 of the hash. Bit 1 of the index is the same one, as Dim is a multiple of four.
Sign(h) == IF (h \div 2) % 2 = 1 THEN 1 ELSE -1

AddToken ==
  /\ rest # << >>
  /\ vec' = [vec EXCEPT ![Index(Hash[Head(rest)])] = @ + Sign(Hash[Head(rest)])]
  /\ rest' = Tail(rest)

=============================================================================
