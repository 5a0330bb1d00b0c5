\* Every input of up to eight bytes.
SPECIFICATION Spec
CONSTANTS
  Bytes = {0, 1, 2}
  MaxLength = 8
  MinChunk = 2
  MaxChunk = 4
  MaskBits = 2
  Width = 5
  Gear <- MCGear
INVARIANTS TypeOK RoundTrip SizesBounded CutsAreLocal
\* The loop ends with the input.
CHECK_DEADLOCK FALSE
