--------------------------- MODULE ChunkingProofs ---------------------------
(***************************************************************************)
(* The chunking loop, proved for every input, hash table and chunk sizes:  *)
(* its types, the sizes of the chunks, that the chunks make up the input,  *)
(* that the delta is what is missing, and that cuts depend on nearby bytes *)
(* alone. What the recursive functions and folds of the model compute is   *)
(* proved by induction on positions, see UpTo.                             *)
(***************************************************************************)
EXTENDS Chunking, WellFoundedInduction, TLAPS

-----------------------------------------------------------------------------
(* Numbers. *)

\* A set of numbers that is not empty has a least one.
LEMMA LeastNumber ==
  ASSUME NEW T \in SUBSET Nat, T # {}
  PROVE  \E least \in T : \A n \in T : least <= n
<1>1. \E least \in T : \A n \in T : ~ (<<n, least>> \in OpToRel(<, Nat))
  BY NatLessThanWellFounded, WFMin, Zenon
<1>2. \E least \in T : \A n \in T : ~ (n < least)
  BY <1>1, Zenon DEF OpToRel
<1> QED
  BY <1>2

\* Induction up to a bound: a set with 0, and with k + 1 where it has k, has every number.
LEMMA UpTo ==
  ASSUME NEW N \in Nat, NEW S, 0 \in S, \A k \in 0..(N - 1) : k \in S => k + 1 \in S
  PROVE  \A k \in 0..N : k \in S
<1> DEFINE T == {k \in 0..N : k \notin S}
<1>1. ASSUME T # {} PROVE FALSE
  <2>1. PICK least \in T : \A n \in T : least <= n
    <3>1. T \in SUBSET Nat
      OBVIOUS
    <3> HIDE DEF T
    <3> QED
      BY <1>1, <3>1, LeastNumber
  <2>2. least \in 0..N /\ least \notin S /\ least # 0
    BY <2>1
  <2>3. least - 1 \in 0..(N - 1)
    BY <2>2
  <2>4. least - 1 \in S
    BY <2>1, <2>3
  <2>5. least - 1 + 1 \in S
    BY <2>3, <2>4
  <2> QED
    BY <2>2, <2>5
<1> QED
  BY <1>1

\* The recursive definition of the powers of two defines a function.
LEMMA Pow2Defined ==
  Pow2 = [n \in 0..Width |-> IF n = 0 THEN 1 ELSE 2 * Pow2[n - 1]]
<1> DEFINE Is(f, k) == f = [n \in 0..k |-> IF n = 0 THEN 1 ELSE 2 * f[n - 1]]
           S == {k \in 0..Width : \E f : Is(f, k)}
<1>0. Width \in Nat
  BY ChunkingAssumptions
<1>1. 0 \in S
  <2>1. Is([n \in 0..0 |-> 1], 0)
    OBVIOUS
  <2>2. \E f : Is(f, 0)
    BY <2>1
  <2> HIDE DEF Is
  <2> QED
    BY <1>0, <2>2
<1>2. ASSUME NEW k \in 0..(Width - 1), k \in S PROVE k + 1 \in S
  <2>1. PICK f : Is(f, k)
    BY <1>2
  <2> DEFINE g == [n \in 0..(k + 1) |-> IF n = k + 1 THEN 2 * f[k] ELSE f[n]]
  <2>2. Is(g, k + 1)
    <3>1. ASSUME NEW n \in 0..(k + 1) PROVE g[n] = IF n = 0 THEN 1 ELSE 2 * g[n - 1]
      <4>1. CASE n = k + 1
        BY <1>0, <4>1
      <4>2. CASE n \in 0..k
        BY <1>0, <2>1, <4>2
      <4> QED
        BY <1>0, <4>1, <4>2
    <3> QED
      BY <3>1
  <2> HIDE DEF g
  <2>3. k + 1 \in 0..Width
    BY <1>0
  <2> QED
    BY <2>2, <2>3
<1>3. Width \in S
  <2> HIDE DEF S
  <2> QED
    BY <1>0, <1>1, <1>2, UpTo
<1>4. \E f : Is(f, Width)
  BY <1>3
<1> QED
  BY <1>4 DEF Pow2

\* Powers of two are positive and double.
LEMMA Pow2Doubles ==
  /\ \A n \in 0..Width : Pow2[n] \in Nat \ {0}
  /\ \A n \in 0..(Width - 1) : Pow2[n + 1] = 2 * Pow2[n]
<1>0. Width \in Nat
  BY ChunkingAssumptions
<1>1. Pow2[0] = 1 /\ \A n \in 0..(Width - 1) : Pow2[n + 1] = 2 * Pow2[n]
  <2> QED
    BY <1>0, Pow2Defined
<1> DEFINE S == {n \in 0..Width : Pow2[n] \in Nat \ {0}}
<1>2. 0 \in S
  BY <1>0, <1>1
<1>3. \A n \in 0..(Width - 1) : n \in S => n + 1 \in S
  BY <1>0, <1>1
<1> HIDE DEF S
<1>4. \A n \in 0..Width : n \in S
  BY <1>0, <1>2, <1>3, UpTo
<1> QED
  BY <1>1, <1>4 DEF S

\* A multiple of n that is less than n and more than -n is none of n.
LEMMA SmallMultiple ==
  ASSUME NEW n \in Nat \ {0}, NEW u \in Int, n * u < n, - n < n * u
  PROVE  u = 0
<1>1. ASSUME u >= 1 PROVE FALSE
  <2>1. u - 1 \in Nat /\ n \in Nat
    BY <1>1
  <2>2. n * (u - 1) >= 0
    BY <2>1
  <2>3. n * u = n * (u - 1) + n
    OBVIOUS
  <2> QED
    BY <2>2, <2>3
<1>2. ASSUME u <= -1 PROVE FALSE
  <2>1. - u - 1 \in Nat
    BY <1>2
  <2>2. n * (- u - 1) >= 0
    BY <2>1
  <2>3. n * u = - (n * (- u - 1)) - n
    OBVIOUS
  <2> QED
    BY <2>2, <2>3
<1> QED
  BY <1>1, <1>2

\* A number is a multiple of n and a remainder.
LEMMA Remainder ==
  ASSUME NEW x \in Int, NEW n \in Nat \ {0}
  PROVE  x % n \in 0..(n - 1) /\ \E z \in Int : x = n * z + (x % n)
<1>1. x % n \in 0..(n - 1)
  OBVIOUS
<1>2. x = n * (x \div n) + (x % n) /\ x \div n \in Int
  OBVIOUS
<1> QED
  BY <1>1, <1>2

\* There is only one remainder.
LEMMA RemainderIs ==
  ASSUME NEW n \in Nat \ {0}, NEW z \in Int, NEW r \in 0..(n - 1)
  PROVE  (n * z + r) % n = r
<1> DEFINE x == n * z + r
<1>1. x \in Int
  OBVIOUS
<1>2. PICK w \in Int : x = n * w + (x % n)
  BY <1>1, Remainder
<1>3. x % n \in 0..(n - 1)
  BY <1>1, Remainder
<1> DEFINE s == x % n
<1> HIDE DEF s
<1>4. n * (z - w) = s - r
  <2>1. n * z + r = n * w + s /\ s \in Int
    BY <1>2, <1>3 DEF s
  <2>2. n * (z - w) = n * z - n * w
    OBVIOUS
  <2>3. n * z \in Int /\ n * w \in Int
    OBVIOUS
  <2> QED
    BY <2>1, <2>2, <2>3
<1>5. n * (z - w) < n /\ - n < n * (z - w)
  BY <1>3, <1>4 DEF s
<1>6. z - w = 0
  BY <1>5, SmallMultiple
<1> QED
  BY <1>2, <1>3, <1>4, <1>6 DEF s

\* A remainder by a multiple of n has the remainder by n.
LEMMA RemainderOfMultiple ==
  ASSUME NEW x \in Int, NEW n \in Nat \ {0}, NEW q \in Nat \ {0}
  PROVE  (x % (n * q)) % n = x % n
<1> DEFINE m == n * q
<1>1. m \in Nat \ {0}
  OBVIOUS
<1>2. PICK z \in Int : x = m * z + (x % m)
  <2> HIDE DEF m
  <2> QED
    BY <1>1, Remainder
<1>3. x % m \in Int
  <2> HIDE DEF m
  <2> QED
    BY <1>1, Remainder
<1> DEFINE y == x % m
<1>4. PICK w \in Int : y = n * w + (y % n)
  BY <1>3, Remainder
<1>5. y % n \in 0..(n - 1)
  BY <1>3, Remainder
<1> DEFINE r == y % n
           v == q * z + w
<1>6. v \in Int /\ x = n * v + r
  <2>1. x = (n * q) * z + (n * w + r)
    BY <1>2, <1>4
  <2>2. r \in Int /\ n * w \in Int
    BY <1>5
  <2> HIDE DEF r
  <2>3. (n * q) * z = n * (q * z) /\ n * (q * z + w) = n * (q * z) + n * w
    OBVIOUS
  <2> QED
    BY <2>1, <2>2, <2>3
<1> HIDE DEF r, v
<1>7. (n * v + r) % n = r
  BY <1>5, <1>6, RemainderIs DEF r
<1> QED
  BY <1>6, <1>7 DEF r

-----------------------------------------------------------------------------
(* The loop. *)

\* The loop's variables are a hash and positions of the input, the chunk under way starts where the
\* last cut is, and while the loop runs it is not yet as long as MAX_CHUNK.
Positions ==
  /\ data \in Inputs
  /\ i \in 0..Len(data)
  /\ start \in 0..i
  /\ h \in 0..(Pow2[Width] - 1)
  /\ cuts \in Seq(1..Len(data))
  /\ start = IF cuts = << >> THEN 0 ELSE cuts[Len(cuts)]
  /\ i - start < MaxChunk

IInv == Positions /\ SizesBounded

\* An input is a sequence.
LEMMA InputType ==
  ASSUME NEW d \in Inputs
  PROVE  d \in Seq(Bytes) /\ Len(d) \in Nat
<1>1. PICK m \in 0..MaxLength : d \in [1..m -> Bytes]
  BY DEF Inputs, BoundedSeq, SeqOf
<1>2. m \in Nat
  BY <1>1, ChunkingAssumptions
<1>3. d \in Seq(Bytes)
  BY <1>1, <1>2
<1> QED  BY <1>3

\* The loop starts with no chunk.
LEMMA IInvInit == Init => IInv
<1> SUFFICES ASSUME Init PROVE IInv
  OBVIOUS
<1>1. Len(data) \in Nat
  BY InputType DEF Init
<1>2. MaxChunk \in Nat \ {0} /\ Width \in Nat
  BY ChunkingAssumptions
<1>3. 0 \in 0..(Pow2[Width] - 1)
  BY <1>2, Pow2Doubles
<1> QED  BY <1>1, <1>2, <1>3 DEF Init, IInv, Positions, SizesBounded

\* A cut at position at ends a chunk of an allowed size.
LEMMA OneMoreCut ==
  ASSUME IInv, NEW at \in Nat,
         data' = data,
         cuts' = Append(cuts, at),
         at > start, at <= Len(data), at - start <= MaxChunk,
         at - start >= MinChunk \/ at = Len(data)
  PROVE  /\ cuts' \in Seq(1..Len(data'))
         /\ cuts' # << >>
         /\ cuts'[Len(cuts')] = at
         /\ SizesBounded'
<1> DEFINE n == Len(cuts)
<1>1. /\ cuts \in Seq(1..Len(data))
      /\ n \in Nat
      /\ DOMAIN cuts = 1..n
      /\ start = IF n = 0 THEN 0 ELSE cuts[n]
      /\ Len(data) \in Nat
      /\ start \in Nat
      /\ \A k \in 1..n : cuts[k] \in Nat
  BY InputType DEF IInv, Positions
<1>2. /\ cuts' \in Seq(1..Len(data))
      /\ Len(cuts') = n + 1
      /\ DOMAIN cuts' = 1..(n + 1)
      /\ cuts'[n + 1] = at
      /\ \A k \in 1..n : cuts'[k] = cuts[k]
  BY <1>1
<1>3. {MinChunk, MaxChunk} \subseteq Nat
  BY ChunkingAssumptions
<1>4. ASSUME NEW k \in DOMAIN cuts'
      PROVE  LET size == cuts'[k] - (IF k = 1 THEN 0 ELSE cuts'[k - 1]) IN
             /\ size <= MaxChunk
             /\ size >= MinChunk \/ (cuts'[k] = Len(data') /\ size > 0)
  <2> DEFINE from == IF k = 1 THEN 0 ELSE cuts'[k - 1]
  <2>1. CASE k = n + 1
    <3>1. k - 1 = n /\ (k # 1 => k - 1 \in 1..n)
      BY <1>1, <2>1
    <3>2. from = start
      BY <1>1, <1>2, <3>1, n = 0 \/ n # 0
    <3>3. cuts'[k] = at
      BY <1>2, <2>1
    <3> HIDE DEF from
    <3>4. at - from <= MaxChunk /\ at - from > 0 /\ (at - from >= MinChunk \/ at = Len(data'))
      BY <1>1, <1>3, <3>2
    <3> QED  BY <3>3, <3>4 DEF from
  <2>2. CASE k \in 1..n
    <3>1. k # 1 => k - 1 \in 1..n
      BY <1>1, <2>2
    <3>2. cuts'[k] = cuts[k] /\ from = (IF k = 1 THEN 0 ELSE cuts[k - 1])
      BY <1>2, <2>2, <3>1
    <3>3. LET size == cuts[k] - (IF k = 1 THEN 0 ELSE cuts[k - 1]) IN
          /\ size <= MaxChunk
          /\ size >= MinChunk \/ (cuts[k] = Len(data) /\ size > 0)
      BY <1>1, <2>2 DEF IInv, SizesBounded
    <3> QED  BY <3>2, <3>3
  <2>3. k = n + 1 \/ k \in 1..n
    BY <1>1, <1>2
  <2> QED  BY <2>1, <2>2, <2>3
<1>5. SizesBounded'
  BY <1>4 DEF SizesBounded
<1> QED  BY <1>2, <1>5

\* The rolling hash has its width.
LEMMA RollType ==
  ASSUME NEW x \in Nat, NEW byte \in Bytes
  PROVE  Roll(x, byte) \in 0..(Pow2[Width] - 1)
<1>1. Pow2[Width] \in Nat \ {0} /\ Gear[byte] \in Nat
  BY ChunkingAssumptions, Pow2Doubles
<1>2. 2 * x + Gear[byte] \in Nat
  BY <1>1
<1> QED  BY <1>1, <1>2 DEF Roll

\* Every step of the loop keeps the invariant.
LEMMA IInvNext == IInv /\ [Next]_vars => IInv'
<1> SUFFICES ASSUME IInv, [Next]_vars PROVE IInv'
  OBVIOUS
<1>0. Positions /\ SizesBounded
  BY DEF IInv
<1>b. data \in Seq(Bytes) /\ Len(data) \in Nat
  BY <1>0, InputType DEF Positions
<1>a. /\ {MinChunk, MaxChunk} \subseteq Nat \ {0}
      /\ MinChunk <= MaxChunk
  BY ChunkingAssumptions
<1>1. CASE Short
  <2>1. cuts = << >> /\ start = 0 /\ cuts' = Append(cuts, Len(data))
    \* The first chunk: nothing was hashed, so nothing was cut.
    <3>1. start = 0
      BY <1>0, <1>1 DEF Short, Positions
    <3>2. cuts = << >>
      <4> SUFFICES ASSUME cuts # << >> PROVE FALSE
        OBVIOUS
      <4>1. /\ cuts \in Seq(Nat) /\ Len(cuts) \in Nat \ {0}
            /\ cuts[Len(cuts)] = 0
        BY <1>0, <3>1 DEF Positions
      <4>2. Len(cuts) \in DOMAIN cuts /\ 1 \in DOMAIN cuts
        BY <4>1
      <4>3. \A k \in DOMAIN cuts : cuts[k] > 0
        BY <1>0, <1>b, <1>a, <4>1 DEF SizesBounded, Positions
      <4> QED  BY <4>1, <4>2, <4>3
    <3> QED  BY <1>1, <3>1, <3>2 DEF Short
  <2>2. /\ SizesBounded' /\ cuts' \in Seq(1..Len(data'))
        /\ cuts' # << >> /\ cuts'[Len(cuts')] = Len(data)
    BY <1>0, <1>b, <1>a, <1>1, <2>1, OneMoreCut DEF Short, Positions
  <2>3. Positions'
    BY <1>0, <1>b, <1>a, <1>1, <2>2 DEF Short, Positions
  <2> QED  BY <2>2, <2>3 DEF IInv
<1>2. CASE Scan
  <2> DEFINE hash == Roll(h, data[i + 1])
  <2>1. i + 1 \in Nat /\ i + 1 > start /\ i + 1 <= Len(data) /\ i + 1 - start <= MaxChunk
    BY <1>0, <1>b, <1>a, <1>2 DEF Scan, Positions
  <2>a. 0 \in 0..(Pow2[Width] - 1) /\ hash \in 0..(Pow2[Width] - 1)
    <3>1. Width \in Nat /\ Pow2[Width] \in Nat \ {0}
      BY ChunkingAssumptions, Pow2Doubles
    <3>2. h \in Nat /\ data[i + 1] \in Bytes
      BY <1>0, <1>b, <2>1, <3>1 DEF Positions
    <3> QED  BY <3>1, <3>2, RollType
  <2>2. CASE IsCut(i + 1 - start, hash)
    <3> HIDE DEF hash
    <3>1. /\ i' = i + 1 /\ start' = i + 1 /\ data' = data /\ h' = 0
          /\ cuts' = Append(cuts, i + 1)
      BY <1>2, <2>2 DEF Scan, hash
    <3>2. i + 1 - start >= MinChunk
      BY <2>2 DEF IsCut
    <3>3. /\ SizesBounded' /\ cuts' \in Seq(1..Len(data'))
          /\ cuts' # << >> /\ cuts'[Len(cuts')] = i + 1
      <4>1. PICK at \in Nat : at = i + 1
        BY <2>1
      <4>2. /\ cuts' = Append(cuts, at) /\ at > start /\ at <= Len(data)
            /\ at - start <= MaxChunk /\ at - start >= MinChunk
        <5>1. /\ i \in Nat /\ start \in Nat /\ Len(data) \in Nat
              /\ MinChunk \in Nat /\ MaxChunk \in Nat
          BY <1>0, <1>b, <1>a DEF Positions
        <5>2. cuts' = Append(cuts, at)
          BY <3>1, <4>1
        <5>3. at > start /\ at <= Len(data) /\ at - start <= MaxChunk /\ at - start >= MinChunk
          BY <2>1, <3>2, <4>1, <5>1
        <5> QED  BY <5>2, <5>3
      <4>3. SizesBounded' /\ cuts' \in Seq(1..Len(data')) /\ cuts' # << >> /\ cuts'[Len(cuts')] = at
        BY <3>1, <4>2, OneMoreCut
      <4> QED  BY <4>1, <4>3
    <3>4. Positions'
      BY <1>0, <1>b, <1>a, <2>1, <2>a, <3>1, <3>3 DEF Positions
    <3> QED  BY <3>3, <3>4 DEF IInv
  <2>3. CASE ~IsCut(i + 1 - start, hash)
    <3>1. i' = i + 1 /\ h' = hash /\ UNCHANGED <<data, cuts, start>>
      BY <1>2, <2>3 DEF Scan
    <3>2. i + 1 - start < MaxChunk
      BY <1>0, <1>b, <1>a, <2>1, <2>3 DEF IsCut, Positions
    <3>3. SizesBounded'
      BY <1>0, <3>1 DEF SizesBounded
    <3>4. Positions'
      <4> HIDE DEF hash
      <4> QED  BY <1>0, <1>b, <1>a, <2>1, <2>a, <3>1, <3>2 DEF Positions
    <3> QED  BY <3>3, <3>4 DEF IInv
  <2> QED  BY <2>2, <2>3 DEF IInv
<1>3. CASE Rest
  <2>1. SizesBounded' /\ cuts' \in Seq(1..Len(data')) /\ cuts' # << >> /\ cuts'[Len(cuts')] = i
    BY <1>0, <1>b, <1>a, <1>3, OneMoreCut DEF Rest, Positions
  <2>2. Positions'
    BY <1>0, <1>b, <1>a, <1>3, <2>1 DEF Rest, Positions
  <2> QED  BY <2>1, <2>2 DEF IInv
<1>4. CASE UNCHANGED vars
  BY <1>0, <1>4 DEF IInv, vars, Positions, SizesBounded
<1> QED  BY <1>1, <1>2, <1>3, <1>4 DEF Next

\* The invariant of the loop.
LEMMA Invariance == Spec => []IInv
  BY IInvInit, IInvNext, PTL DEF Spec

\* The loop's variables have their types: the hash stays within its width and every cut
\* within the input, for every input, every table of the hash and every chunk size.
THEOREM Typed == Spec => []TypeOK
<1>1. IInv => TypeOK
  BY DEF IInv, Positions, TypeOK
<1> QED  BY <1>1, Invariance, PTL

\* Every chunk of every input has MIN_CHUNK to MAX_CHUNK bytes, but for a shorter last one,
\* whatever the two sizes and whatever the rolling hash computes.
THEOREM ChunkSizes == Spec => []SizesBounded
<1>1. IInv => SizesBounded
  BY DEF IInv
<1> QED  BY <1>1, Invariance, PTL

-----------------------------------------------------------------------------
(* Folds from the left. *)

\* A set of positions has a last one.
LEMMA LastPosition ==
  ASSUME NEW k \in Nat, NEW s \in SUBSET (1..k), s # {}
  PROVE  Max(s) \in s /\ \A y \in s : y <= Max(s)
<1> DEFINE T == {n \in 0..k : \A y \in s : y <= n}
<1>1. PICK last \in T : \A n \in T : last <= n
  <2>1. T \in SUBSET Nat /\ k \in T
    OBVIOUS
  <2> HIDE DEF T
  <2> QED
    BY <2>1, LeastNumber
<1>2. last \in s
  <2> SUFFICES ASSUME last \notin s PROVE FALSE
    OBVIOUS
  <2>1. last # 0 /\ last \in 0..k
    <3>1. PICK y \in s : TRUE
      OBVIOUS
    <3>2. y \in 1..k /\ y <= last /\ last \in 0..k
      BY <1>1
    <3> QED
      BY <3>2
  <2>2. \A y \in s : y <= last - 1
    BY <1>1, <2>1
  <2>3. last - 1 \in T
    BY <2>1, <2>2
  <2> HIDE DEF T
  <2> QED
    BY <1>1, <2>1, <2>3
<1>3. \E x \in s : \A y \in s : x >= y
  BY <1>1, <1>2
<1>4. Max(s) \in s /\ \A y \in s : Max(s) >= y
  BY <1>3 DEF Max
<1> QED
  BY <1>4

\* The last of some positions up to the next one, with the next one, is the next one.
LEMMA LastOfAll ==
  ASSUME NEW k \in Nat, NEW s \in SUBSET (1..(k + 1)), k + 1 \in s
  PROVE  Max(s) = k + 1
<1>1. k + 1 \in Nat /\ s # {}
  OBVIOUS
<1>2. Max(s) \in s /\ \A y \in s : y <= Max(s)
  BY <1>1, LastPosition
<1>3. Max(s) \in 1..(k + 1) /\ k + 1 <= Max(s)
  BY <1>2
<1> QED
  BY <1>3

\* FoldLeft over n elements, where next[j] is the step that takes in the j-th.
Iterates(next, base, n, f) ==
  f = [s \in SUBSET (1..n) |-> IF s = {} THEN base ELSE next[Max(s)][f[s \ {Max(s)}]]]

\* The recursive definition of a fold defines a function.
LEMMA IterateDefined ==
  ASSUME NEW A, NEW base \in A, NEW n \in Nat, NEW next \in [1..n -> [A -> A]]
  PROVE  \E f \in [SUBSET (1..n) -> A] : Iterates(next, base, n, f)
<1> DEFINE Found(k) == \E f \in [SUBSET (1..k) -> A] : Iterates(next, base, k, f)
           S == {k \in 0..n : Found(k)}
<1>1. 0 \in S
  <2> DEFINE f == [s \in SUBSET (1..0) |-> base]
  <2>1. 1..0 = {}
    OBVIOUS
  <2>2. Iterates(next, base, 0, f) /\ f \in [SUBSET (1..0) -> A]
    BY <2>1 DEF Iterates
  <2> HIDE DEF f
  <2>3. Found(0)
    BY <2>2
  <2> HIDE DEF Found
  <2> QED
    BY <2>3
<1>2. ASSUME NEW k \in 0..(n - 1), k \in S PROVE k + 1 \in S
  <2>1. PICK f \in [SUBSET (1..k) -> A] : Iterates(next, base, k, f)
    BY <1>2
  <2> DEFINE g == [s \in SUBSET (1..(k + 1)) |->
                    IF k + 1 \in s THEN next[k + 1][f[s \ {k + 1}]] ELSE f[s]]
  <2>2. ASSUME NEW s \in SUBSET (1..(k + 1))
        PROVE  g[s] = IF s = {} THEN base ELSE next[Max(s)][g[s \ {Max(s)}]]
    <3>1. CASE k + 1 \in s
      <4>1. Max(s) = k + 1 /\ s # {}
        BY <3>1, LastOfAll
      <4>2. s \ {k + 1} \in SUBSET (1..(k + 1)) /\ k + 1 \notin s \ {k + 1}
        OBVIOUS
      <4>3. g[s \ {k + 1}] = f[s \ {k + 1}]
        BY <4>2
      <4>4. g[s] = next[k + 1][f[s \ {k + 1}]]
        BY <3>1
      <4> HIDE DEF g
      <4> QED
        BY <4>1, <4>3, <4>4
    <3>2. CASE k + 1 \notin s /\ s # {}
      <4>1. s \in SUBSET (1..k)
        BY <3>2
      <4>2. Max(s) \in s
        <5>1. k \in Nat /\ s # {}
          BY <3>2
        <5> QED
          BY <4>1, <5>1, LastPosition
      <4>3. s \ {Max(s)} \in SUBSET (1..(k + 1)) /\ k + 1 \notin s \ {Max(s)}
        BY <3>2
      <4>4. g[s] = f[s] /\ g[s \ {Max(s)}] = f[s \ {Max(s)}]
        BY <3>2, <4>3
      <4> HIDE DEF g
      <4> QED
        BY <2>1, <3>2, <4>1, <4>4 DEF Iterates
    <3>3. CASE s = {}
      <4>1. s \in SUBSET (1..k) /\ k + 1 \notin s
        BY <3>3
      <4>2. f[s] = base
        BY <2>1, <3>3, <4>1 DEF Iterates
      <4> QED
        BY <3>3, <4>1, <4>2
    <3> QED
      BY <3>1, <3>2, <3>3
  <2>3. Iterates(next, base, k + 1, g)
    <3>1. g = [s \in SUBSET (1..(k + 1)) |-> g[s]]
      OBVIOUS
    <3> HIDE DEF g
    <3> QED
      BY <2>2, <3>1 DEF Iterates
  <2>4. g \in [SUBSET (1..(k + 1)) -> A]
    <3> SUFFICES ASSUME NEW s \in SUBSET (1..(k + 1)) PROVE g[s] \in A
      OBVIOUS
    <3>1. CASE k + 1 \in s
      <4>1. s \ {k + 1} \in SUBSET (1..k)
        OBVIOUS
      <4>2. f[s \ {k + 1}] \in A /\ k + 1 \in 1..n
        BY <4>1
      <4> QED
        BY <3>1, <4>2
    <3>2. CASE k + 1 \notin s
      <4>1. s \in SUBSET (1..k)
        BY <3>2
      <4> QED
        BY <3>2, <4>1
    <3> QED
      BY <3>1, <3>2
  <2> HIDE DEF g
  <2>5. Found(k + 1) /\ k + 1 \in 0..n
    BY <2>3, <2>4
  <2> QED
    BY <2>5
<1>3. n \in S
  <2>1. \A k \in 0..(n - 1) : k \in S => k + 1 \in S
    BY <1>2
  <2>2. n \in 0..n
    OBVIOUS
  <2> HIDE DEF S
  <2>3. \A k \in 0..n : k \in S
    BY <1>1, <2>1, UpTo
  <2> QED
    BY <2>2, <2>3
<1> QED
  BY <1>3

\* The positions up to the next one: it is the last of them.
LEMMA NextPosition ==
  ASSUME NEW n \in Nat, NEW k \in 0..(n - 1)
  PROVE  /\ 1..(k + 1) \in SUBSET (1..n) /\ 1..(k + 1) # {}
         /\ Max(1..(k + 1)) = k + 1
         /\ (1..(k + 1)) \ {k + 1} = 1..k
<1>1. /\ k + 1 \in 1..(k + 1) /\ 1..(k + 1) \in SUBSET (1..n)
      /\ (1..(k + 1)) \ {k + 1} = 1..k
  OBVIOUS
<1>2. Max(1..(k + 1)) = k + 1
  BY <1>1, LastOfAll
<1> QED
  BY <1>1, <1>2

-----------------------------------------------------------------------------
(* What is pulled is what was pushed. *)

\* What delta does with the next id of the order.
Lacking(have, out, c) == IF c \in have \/ Contains(out, c) THEN out ELSE Append(out, c)

\* The delta of an order is made by taking in its ids one after the other.
LEMMA DeltaDefined ==
  ASSUME NEW X, NEW order \in Seq(X), NEW have
  PROVE  \E f : /\ f[1..0] = << >>
                /\ \A k \in 0..(Len(order) - 1) :
                     f[1..(k + 1)] = Lacking(have, f[1..k], order[k + 1])
                /\ Delta(order, have) = f[1..Len(order)]
<1> DEFINE n == Len(order)
           next == [j \in 1..n |-> [out \in Seq(X) |-> Lacking(have, out, order[j])]]
           Is(f) == f = [s \in SUBSET (1..n) |->
                           IF s = {} THEN << >>
                           ELSE Lacking(have, f[s \ {Max(s)}], order[Max(s)])]
           iter == CHOOSE f : Is(f)
<1>1. n \in Nat /\ DOMAIN order = 1..n /\ \A k \in 1..n : order[k] \in X
  OBVIOUS
<1>2. \A j \in 1..n, out \in Seq(X) :
        next[j][out] = Lacking(have, out, order[j]) /\ Lacking(have, out, order[j]) \in Seq(X)
  BY <1>1 DEF Lacking
<1>3. Delta(order, have) = iter[1..n]
  BY <1>1 DEF Delta, FoldLeft, MapThenFoldSet, Lacking
<1>4. next \in [1..n -> [Seq(X) -> Seq(X)]]
  BY <1>2
<1> HIDE DEF n, next
<1>5. PICK f \in [SUBSET (1..n) -> Seq(X)] : Iterates(next, << >>, n, f)
  <2>1. << >> \in Seq(X)
    OBVIOUS
  <2> QED
    BY <1>1, <1>4, <2>1, IterateDefined
<1>6. Is(f)
  <2>1. ASSUME NEW s \in SUBSET (1..n), s # {}
        PROVE  next[Max(s)][f[s \ {Max(s)}]] = Lacking(have, f[s \ {Max(s)}], order[Max(s)])
    <3>1. Max(s) \in 1..n
      BY <1>1, <2>1, LastPosition
    <3>2. s \ {Max(s)} \in SUBSET (1..n)
      OBVIOUS
    <3> QED
      BY <1>2, <3>1, <3>2
  <2> QED
    BY <1>5, <2>1 DEF Iterates
<1>7. Is(iter)
  <2>1. \E g : Is(g)
    <3> HIDE DEF Is
    <3> QED
      BY <1>6
  <2> QED
    BY <2>1
<1> HIDE DEF iter
<1>8. iter[1..0] = << >>
  <2>1. 1..0 = {} /\ 1..0 \in SUBSET (1..n)
    BY <1>1
  <2> QED
    BY <1>7, <2>1
<1>9. ASSUME NEW k \in 0..(n - 1)
      PROVE  iter[1..(k + 1)] = Lacking(have, iter[1..k], order[k + 1])
  <2>1. /\ 1..(k + 1) \in SUBSET (1..n) /\ 1..(k + 1) # {}
        /\ Max(1..(k + 1)) = k + 1
        /\ (1..(k + 1)) \ {k + 1} = 1..k
    BY <1>1, NextPosition
  <2> QED
    BY <1>7, <2>1
<1> QED
  BY <1>3, <1>8, <1>9 DEF n

\* The delta of an order: the ids that are not stored yet, each once.
LEMMA DeltaIs ==
  ASSUME NEW X, NEW order \in Seq(X), NEW have
  PROVE  IsInjective(Delta(order, have)) /\ Range(Delta(order, have)) = Range(order) \ have
<1> DEFINE n == Len(order)
<1>0. n \in Nat /\ DOMAIN order = 1..n /\ \A k \in 1..n : order[k] \in X
  OBVIOUS
<1>1. PICK f : /\ f[1..0] = << >>
               /\ \A k \in 0..(n - 1) : f[1..(k + 1)] = Lacking(have, f[1..k], order[k + 1])
               /\ Delta(order, have) = f[1..n]
  BY DeltaDefined
<1> DEFINE Good(k, out) == /\ out \in Seq(X)
                           /\ IsInjective(out)
                           /\ Range(out) = {order[j] : j \in 1..k} \ have
           S == {k \in 0..n : Good(k, f[1..k])}
<1>2. 0 \in S
  <2>1. f[1..0] = << >>
    BY <1>1
  <2>2. Good(0, << >>)
    BY DEF IsInjective, Range
  <2> HIDE DEF Good
  <2> QED
    BY <1>0, <2>1, <2>2
<1>3. ASSUME NEW k \in 0..(n - 1), k \in S PROVE k + 1 \in S
  <2> DEFINE out == f[1..k]
             c == order[k + 1]
  <2>1. Good(k, out)
    BY <1>3
  <2>2. f[1..(k + 1)] = Lacking(have, out, c)
    BY <1>1
  <2>3. c \in X /\ {order[j] : j \in 1..(k + 1)} = {order[j] : j \in 1..k} \cup {c}
    <3>1. \A j \in 1..(k + 1) : j \in 1..k \/ j = k + 1
      OBVIOUS
    <3>2. k + 1 \in 1..(k + 1) /\ k + 1 \in 1..n /\ 1..k \subseteq 1..(k + 1)
      BY <1>0
    <3> QED
      BY <1>0, <3>1, <3>2
  <2> HIDE DEF out, c
  <2>4. Contains(out, c) <=> c \in Range(out)
    BY <2>1 DEF Contains, Range
  <2>5. CASE c \in have \/ Contains(out, c)
    <3>1. Lacking(have, out, c) = out
      BY <2>5 DEF Lacking
    <3>2. Good(k + 1, out)
      BY <2>1, <2>3, <2>4, <2>5
    <3> QED
      BY <1>0, <2>2, <3>1, <3>2
  <2>6. CASE ~ (c \in have \/ Contains(out, c))
    <3>1. Lacking(have, out, c) = Append(out, c)
      BY <2>6 DEF Lacking
    <3>2. out \in Seq(X)
      BY <2>1
    <3>3. /\ Append(out, c) \in Seq(X)
          /\ DOMAIN Append(out, c) = DOMAIN out \cup {Len(out) + 1}
          /\ Append(out, c)[Len(out) + 1] = c
          /\ \A j \in DOMAIN out : Append(out, c)[j] = out[j]
      BY <2>3, <3>2
    <3>4. Range(Append(out, c)) = Range(out) \cup {c}
      BY <3>3 DEF Range
    <3>5. IsInjective(Append(out, c))
      BY <2>1, <2>4, <2>6, <3>3 DEF IsInjective, Range
    <3>6. Good(k + 1, Append(out, c))
      BY <2>1, <2>3, <2>6, <3>3, <3>4, <3>5
    <3>7. Good(k + 1, f[1..(k + 1)]) /\ k + 1 \in 0..n
      <4> HIDE DEF Good, n
      <4> QED
        BY <1>0, <2>2, <3>1, <3>6
    <3> HIDE DEF Good
    <3> QED
      BY <3>7
  <2> QED
    BY <2>5, <2>6
<1>4. n \in S
  <2> HIDE DEF S, n
  <2> QED
    BY <1>0, <1>2, <1>3, UpTo
<1>5. Range(order) = {order[j] : j \in 1..n}
  BY <1>0 DEF Range
<1> QED
  BY <1>1, <1>4, <1>5

\* Where the k-th chunk starts: at the end of the chunk before it.
From(ends, k) == IF k = 1 THEN 0 ELSE ends[k - 1]

\* Ends of chunks: each one is after the one before, and the last is the end of the input.
ChunkEnds(d, ends) ==
  /\ ends \in Seq(1..Len(d))
  /\ \A k \in DOMAIN ends : From(ends, k) < ends[k]
  /\ IF ends = << >> THEN d = << >> ELSE ends[Len(ends)] = Len(d)

\* A beginning of an input and the piece that follows it are a longer beginning.
LEMMA Beginnings ==
  ASSUME NEW d \in Seq(Bytes), NEW a \in 1..Len(d), NEW b \in 1..Len(d), a < b
  PROVE  SubSeq(d, 1, a) \o SubSeq(d, a + 1, b) = SubSeq(d, 1, b)
<1> DEFINE u == SubSeq(d, 1, a)
           v == SubSeq(d, a + 1, b)
           w == SubSeq(d, 1, b)
<1>1. /\ u \in Seq(Bytes) /\ Len(u) = a /\ \A j \in 1..a : u[j] = d[j]
      /\ v \in Seq(Bytes) /\ Len(v) = b - a /\ \A j \in 1..(b - a) : v[j] = d[a + j]
      /\ w \in Seq(Bytes) /\ Len(w) = b /\ \A j \in 1..b : w[j] = d[j]
  OBVIOUS
<1>0. a \in Nat /\ b \in Nat /\ b - a \in Nat /\ a + (b - a) = b
  OBVIOUS
<1> HIDE DEF u, v, w
<1>2. u \o v \in Seq(Bytes) /\ Len(u \o v) = b
  <2>1. u \in Seq(Bytes) /\ v \in Seq(Bytes)
    BY <1>1
  <2>2. u \o v \in Seq(Bytes) /\ Len(u \o v) = Len(u) + Len(v)
    BY <2>1
  <2> QED
    BY <1>0, <1>1, <2>2
<1>a. \A j \in 1..b : (u \o v)[j] = IF j <= a THEN u[j] ELSE v[j - a]
  <2>1. u \in Seq(Bytes) /\ v \in Seq(Bytes)
    BY <1>1
  <2>2. \A j \in 1..(Len(u) + Len(v)) :
          (u \o v)[j] = IF j <= Len(u) THEN u[j] ELSE v[j - Len(u)]
    BY <2>1
  <2> QED
    BY <1>0, <1>1, <2>2
<1> DEFINE uv == u \o v
<1>3. uv \in Seq(Bytes) /\ Len(uv) = b /\ \A j \in 1..b : uv[j] = IF j <= a THEN u[j] ELSE v[j - a]
  BY <1>2, <1>a
<1> HIDE DEF uv
<1>4. ASSUME NEW j \in 1..b PROVE uv[j] = w[j]
  <2>1. CASE j <= a
    <3>1. j \in 1..a
      BY <1>0, <2>1
    <3> QED
      BY <1>1, <1>3, <2>1, <3>1
  <2>2. CASE ~ (j <= a)
    <3>1. j - a \in 1..(b - a) /\ a + (j - a) = j
      BY <1>0, <2>2
    <3>2. uv[j] = v[j - a] /\ v[j - a] = d[a + (j - a)]
      BY <1>1, <1>3, <2>2, <3>1
    <3> QED
      BY <1>1, <3>1, <3>2
  <2> QED
    BY <2>1, <2>2
<1>5. uv = w
  BY <1>0, <1>1, <1>3, <1>4
<1> QED
  BY <1>5 DEF u, v, w, uv

\* The chunks of an input, one after the other, are the input.
LEMMA Reassembled ==
  ASSUME NEW d \in Seq(Bytes), NEW ends, ChunkEnds(d, ends)
  PROVE  /\ ChunksOf(d, ends) \in Seq(Seq(Bytes))
         /\ Reassemble(ChunksOf(d, ends)) = d
<1> DEFINE n == Len(ends)
           chunks == ChunksOf(d, ends)
<1>1. /\ n \in Nat /\ DOMAIN ends = 1..n /\ Len(d) \in Nat
      /\ \A k \in 1..n : ends[k] \in 1..Len(d)
  BY DEF ChunkEnds
<1>2. ASSUME NEW k \in 1..n
      PROVE  /\ From(ends, k) \in 0..Len(d) /\ From(ends, k) < ends[k]
             /\ chunks[k] = SubSeq(d, From(ends, k) + 1, ends[k])
  <2>1. From(ends, k) < ends[k]
    BY <1>1 DEF ChunkEnds
  <2>2. From(ends, k) \in 0..Len(d)
    <3>1. k = 1 \/ k - 1 \in 1..n
      BY <1>1
    <3> QED
      BY <1>1, <3>1 DEF From
  <2>3. chunks[k] = SubSeq(d, IF k = 1 THEN 1 ELSE ends[k - 1] + 1, ends[k])
    BY DEF ChunksOf
  <2>4. (IF k = 1 THEN 1 ELSE ends[k - 1] + 1) = From(ends, k) + 1
    BY DEF From
  <2> QED
    BY <2>1, <2>2, <2>3, <2>4
<1>3. chunks \in Seq(Seq(Bytes)) /\ Len(chunks) = n
  <2>1. \A k \in 1..n : chunks[k] \in Seq(Bytes)
    <3> SUFFICES ASSUME NEW k \in 1..n PROVE chunks[k] \in Seq(Bytes)
      OBVIOUS
    <3> DEFINE x == From(ends, k) + 1
               y == ends[k]
    <3>1. x \in 1..(Len(d) + 1) /\ y \in 1..Len(d) /\ chunks[k] = SubSeq(d, x, y)
      BY <1>1, <1>2
    <3> HIDE DEF x, y, chunks, n
    <3>2. SubSeq(d, x, y) \in Seq(Bytes)
      BY <1>1, <3>1
    <3> QED
      BY <3>1, <3>2
  <2>2. chunks = [k \in 1..n |-> chunks[k]]
    BY DEF ChunksOf
  <2> HIDE DEF chunks, n
  <2> QED
    BY <1>1, <2>1, <2>2
<1> HIDE DEF chunks
<1>4. CASE ends = << >>
  <2>1. n = 0 /\ d = << >>
    BY <1>4 DEF ChunkEnds
  <2>2. chunks = << >>
    BY <1>3, <2>1
  <2>3. Reassemble(chunks) = << >>
    BY <2>2 DEF Reassemble, FlattenSeq
  <2> QED
    BY <1>3, <2>1, <2>3 DEF chunks
<1>5. CASE ends # << >>
  <2>1. n \in Nat \ {0} /\ ends[n] = Len(d)
    BY <1>1, <1>5 DEF ChunkEnds
  <2> DEFINE Is(f) == f = [k \in 1..n |-> IF k = 1 THEN chunks[k] ELSE f[k - 1] \o chunks[k]]
             whole == [k \in 1..n |-> SubSeq(d, 1, ends[k])]
             flatten == CHOOSE f : Is(f)
  <2>2. Is(whole)
    <3> SUFFICES ASSUME NEW k \in 1..n
                 PROVE  whole[k] = IF k = 1 THEN chunks[k] ELSE whole[k - 1] \o chunks[k]
      OBVIOUS
    <3>1. CASE k = 1
      BY <1>2, <3>1 DEF From
    <3>2. CASE k # 1
      <4>1. k - 1 \in 1..n /\ From(ends, k) = ends[k - 1]
        BY <1>1, <3>2 DEF From
      <4>2. ends[k - 1] \in 1..Len(d) /\ ends[k] \in 1..Len(d) /\ ends[k - 1] < ends[k]
        BY <1>1, <1>2, <4>1
      <4>3. SubSeq(d, 1, ends[k - 1]) \o SubSeq(d, ends[k - 1] + 1, ends[k]) = SubSeq(d, 1, ends[k])
        BY <4>2, Beginnings
      <4>4. chunks[k] = SubSeq(d, ends[k - 1] + 1, ends[k])
        BY <1>2, <4>1
      <4>5. whole[k] = SubSeq(d, 1, ends[k]) /\ whole[k - 1] = SubSeq(d, 1, ends[k - 1])
        BY <4>1
      <4> HIDE DEF whole
      <4> QED
        BY <3>2, <4>3, <4>4, <4>5
    <3> QED
      BY <3>1, <3>2
  <2>3. Is(flatten)
    <3>1. \E f : Is(f)
      <4> HIDE DEF Is, whole
      <4> QED
        BY <2>2
    <3> QED
      BY <3>1
  <2> DEFINE S == {k \in 0..n : k # 0 => flatten[k] = SubSeq(d, 1, ends[k])}
  <2> HIDE DEF flatten
  <2>4. 0 \in S
    BY <2>1
  <2>5. ASSUME NEW k \in 0..(n - 1), k \in S PROVE k + 1 \in S
    <3>1. k + 1 \in 1..n /\ k + 1 # 0 /\ k + 1 - 1 = k
      BY <2>1
    <3>2. flatten[k + 1] = IF k + 1 = 1 THEN chunks[k + 1] ELSE flatten[k] \o chunks[k + 1]
      <4>1. \A j \in 1..n :
              flatten[j] = IF j = 1 THEN chunks[j] ELSE flatten[j - 1] \o chunks[j]
        BY <2>3
      <4> HIDE DEF n
      <4> QED
        BY <3>1, <4>1
    <3>3. whole[k + 1] = IF k + 1 = 1 THEN chunks[k + 1] ELSE whole[k] \o chunks[k + 1]
      <4>1. \A j \in 1..n : whole[j] = IF j = 1 THEN chunks[j] ELSE whole[j - 1] \o chunks[j]
        <5> HIDE DEF whole
        <5> QED
          BY <2>2
      <4> HIDE DEF n, whole
      <4> QED
        BY <3>1, <4>1
    <3>4. k # 0 => flatten[k] = whole[k]
      <4>1. k # 0 => k \in 1..n
        BY <2>1
      <4> QED
        BY <2>5, <4>1
    <3>5. flatten[k + 1] = whole[k + 1]
      <4> HIDE DEF whole
      <4>1. k = 0 <=> k + 1 = 1
        BY <2>1
      <4> QED
        BY <3>2, <3>3, <3>4, <4>1
    <3>6. whole[k + 1] = SubSeq(d, 1, ends[k + 1])
      BY <3>1
    <3> HIDE DEF whole, n
    <3> QED
      BY <3>1, <3>5, <3>6, <2>1
  <2>6. n \in S
    <3>1. n \in Nat
      BY <2>1
    <3>2. \A k \in 0..(n - 1) : k \in S => k + 1 \in S
      BY <2>5
    <3>3. n \in 0..n
      BY <3>1
    <3> HIDE DEF S, n
    <3>4. \A k \in 0..n : k \in S
      BY <3>1, <2>4, <3>2, UpTo
    <3> QED
      BY <3>3, <3>4
  <2>7. flatten[n] = SubSeq(d, 1, Len(d))
    BY <2>1, <2>6
  <2>8. SubSeq(d, 1, Len(d)) = d
    OBVIOUS
  <2>9. Reassemble(chunks) = flatten[n]
    BY <1>3, <2>1 DEF Reassemble, FlattenSeq, flatten
  <2> QED
    BY <1>3, <2>7, <2>8, <2>9 DEF chunks
<1> QED
  BY <1>4, <1>5

\* When the loop is done its cuts are ends of chunks of the whole input.
LEMMA DoneEnds == IInv /\ Done => ChunkEnds(data, cuts)
<1> SUFFICES ASSUME IInv, Done PROVE ChunkEnds(data, cuts)
  OBVIOUS
<1>1. /\ data \in Seq(Bytes) /\ Len(data) \in Nat
      /\ cuts \in Seq(1..Len(data))
      /\ (IF cuts = << >> THEN 0 ELSE cuts[Len(cuts)]) = Len(data)
  BY InputType DEF IInv, Positions, Done
<1>2. ASSUME NEW k \in DOMAIN cuts PROVE From(cuts, k) < cuts[k]
  <2>1. MinChunk \in Nat \ {0}
    BY ChunkingAssumptions
  <2>2. cuts[k] - From(cuts, k) >= MinChunk \/ cuts[k] - From(cuts, k) > 0
    BY DEF IInv, SizesBounded, From
  <2>3. cuts[k] \in Nat /\ From(cuts, k) \in Nat
    <3>1. k \in 1..Len(cuts) /\ (k = 1 \/ k - 1 \in 1..Len(cuts))
      BY <1>1
    <3> QED  BY <1>1, <3>1 DEF From
  <2> QED  BY <2>1, <2>2, <2>3
<1>3. cuts = << >> => data = << >>
  BY <1>1
<1> QED  BY <1>1, <1>2, <1>3 DEF ChunkEnds

\* What is pulled is what was pushed: the chunks of every input, in the order of its
\* manifest, are the input; and of every set of chunks a store may have, the delta lists
\* exactly those of the manifest that are missing, none of them twice.
THEOREM RoundTrips == Spec => []RoundTrip
<1>1. IInv => RoundTrip
  <2> SUFFICES ASSUME IInv, Done PROVE RoundTrip
    BY DEF RoundTrip
  <2> DEFINE order == Manifest(data, cuts)
  <2>1. order \in Seq(Seq(Bytes)) /\ Reassemble(order) = data
    BY DoneEnds, Reassembled, InputType DEF IInv, Positions, Manifest
  <2> HIDE DEF order
  <2>2. ASSUME NEW have
        PROVE  /\ IsInjective(Delta(order, have))
               /\ Range(Delta(order, have)) = Range(order) \ have
    BY <2>1, DeltaIs
  <2> QED  BY <2>1, <2>2 DEF RoundTrip, order
<1> QED  BY <1>1, Invariance, PTL

-----------------------------------------------------------------------------
(* The rolling hash forgets. *)

\* The hash of the bytes after position a, up to each position.
IsHash(d, a, k, f) == f = [b \in 0..k |-> IF b <= a THEN 0 ELSE Roll(f[b - 1], d[b])]

HashFrom(d, a) == CHOOSE f : IsHash(d, a, Len(d), f)

Hashes == 0..(Pow2[Width] - 1)

\* The recursive definition of the hash defines a function.
LEMMA HashDefined ==
  ASSUME NEW d \in Seq(Bytes), NEW a \in 0..Len(d)
  PROVE  IsHash(d, a, Len(d), HashFrom(d, a)) /\ HashFrom(d, a) \in [0..Len(d) -> Hashes]
<1> DEFINE n == Len(d)
           Found(k) == \E f \in [0..k -> Hashes] : IsHash(d, a, k, f)
           S == {k \in 0..n : Found(k)}
<1>0. n \in Nat /\ (\A b \in 1..n : d[b] \in Bytes) /\ a \in Nat
  OBVIOUS
<1>1. 0 \in Hashes /\ Hashes \subseteq Nat /\ \A x \in Hashes, y \in Bytes : Roll(x, y) \in Hashes
  <2>1. Width \in 0..Width /\ Pow2[Width] \in Nat \ {0}
    BY ChunkingAssumptions, Pow2Doubles
  <2> QED
    BY <2>1, RollType DEF Hashes
<1>2. 0 \in S
  <2> DEFINE f == [b \in 0..0 |-> 0]
  <2>1. IsHash(d, a, 0, f) /\ f \in [0..0 -> Hashes]
    BY <1>0, <1>1 DEF IsHash
  <2> HIDE DEF f
  <2>2. Found(0)
    BY <2>1
  <2> HIDE DEF Found
  <2> QED
    BY <1>0, <2>2
<1>3. ASSUME NEW k \in 0..(n - 1), k \in S PROVE k + 1 \in S
  <2>1. PICK f \in [0..k -> Hashes] : IsHash(d, a, k, f)
    BY <1>3
  <2> DEFINE last == IF k + 1 <= a THEN 0 ELSE Roll(f[k], d[k + 1])
             g == [b \in 0..(k + 1) |-> IF b = k + 1 THEN last ELSE f[b]]
  <2>2. last \in Hashes
    BY <1>0, <1>1
  <2>3. g \in [0..(k + 1) -> Hashes]
    <3> HIDE DEF last
    <3> QED
      BY <2>2
  <2>4. ASSUME NEW b \in 0..(k + 1)
        PROVE  g[b] = IF b <= a THEN 0 ELSE Roll(g[b - 1], d[b])
    <3>1. CASE b = k + 1
      <4>1. g[k] = f[k] /\ b - 1 = k
        BY <3>1
      <4>2. g[b] = last
        BY <3>1
      <4> HIDE DEF g
      <4> QED
        BY <3>1, <4>1, <4>2
    <3>2. CASE b \in 0..k
      <4>1. g[b] = f[b] /\ (~ (b <= a) => g[b - 1] = f[b - 1])
        BY <1>0, <3>2
      <4> HIDE DEF g
      <4> QED
        BY <2>1, <3>2, <4>1 DEF IsHash
    <3> QED
      BY <3>1, <3>2
  <2>5. IsHash(d, a, k + 1, g)
    <3>1. g = [b \in 0..(k + 1) |-> g[b]]
      OBVIOUS
    <3> HIDE DEF g
    <3> QED
      BY <2>4, <3>1 DEF IsHash
  <2> HIDE DEF g
  <2>6. Found(k + 1) /\ k + 1 \in 0..n
    BY <1>0, <2>3, <2>5
  <2> HIDE DEF Found
  <2> QED
    BY <2>6
<1>4. n \in S
  <2>1. \A k \in 0..(n - 1) : k \in S => k + 1 \in S
    BY <1>3
  <2>2. n \in 0..n
    BY <1>0
  <2> HIDE DEF S, n
  <2>3. \A k \in 0..n : k \in S
    BY <1>0, <1>2, <2>1, UpTo
  <2> QED
    BY <2>2, <2>3
<1>5. Found(n)
  BY <1>4
<1>6. IsHash(d, a, n, HashFrom(d, a))
  BY <1>5 DEF HashFrom
<1> DEFINE H == HashFrom(d, a)
<1> HIDE DEF n, H
<1>7. \A b \in 0..n : H[b] = IF b <= a THEN 0 ELSE Roll(H[b - 1], d[b])
  BY <1>6 DEF IsHash, H
<1>8. \A b \in 0..n : H[b] \in Hashes
  <2> DEFINE T == {b \in 0..n : H[b] \in Hashes}
  <2>1. 0 \in T
    BY <1>0, <1>1, <1>7
  <2>2. ASSUME NEW b \in 0..(n - 1), b \in T PROVE b + 1 \in T
    <3>1. b + 1 \in 0..n /\ b + 1 \in 1..n /\ b + 1 - 1 = b
      BY <1>0
    <3>2. H[b + 1] = IF b + 1 <= a THEN 0 ELSE Roll(H[b], d[b + 1])
      BY <1>7, <3>1
    <3> QED
      BY <1>0, <1>1, <2>2, <3>1, <3>2
  <2> HIDE DEF T
  <2>3. \A b \in 0..n : b \in T
    BY <1>0, <2>1, <2>2, UpTo
  <2> QED
    BY <2>3 DEF T
<1> QED
  BY <1>6, <1>8 DEF H, n, IsHash

\* From the first byte hashed on, each byte is rolled into the hash of those before it.
LEMMA HashStep ==
  ASSUME NEW d \in Seq(Bytes), NEW a \in 0..Len(d)
  PROVE  /\ \A b \in 0..Len(d) : HashFrom(d, a)[b] \in Hashes
         /\ HashFrom(d, a)[a] = 0
         /\ \A b \in a..(Len(d) - 1) : HashFrom(d, a)[b + 1] = Roll(HashFrom(d, a)[b], d[b + 1])
<1> DEFINE H == HashFrom(d, a)
           n == Len(d)
<1>1. H \in [0..n -> Hashes] /\ H = [b \in 0..n |-> IF b <= a THEN 0 ELSE Roll(H[b - 1], d[b])]
  BY HashDefined DEF IsHash
<1>a. \A x \in 0..n : H[x] = IF x <= a THEN 0 ELSE Roll(H[x - 1], d[x])
  <2> HIDE DEF H, n
  <2> QED
    BY <1>1
<1>2. n \in Nat /\ a \in 0..n
  OBVIOUS
<1> HIDE DEF H, n
<1>3. ASSUME NEW b \in a..(n - 1) PROVE H[b + 1] = Roll(H[b], d[b + 1])
  <2>1. b + 1 \in 0..n /\ b + 1 - 1 = b /\ ~ (b + 1 <= a)
    BY <1>2
  <2> QED
    BY <1>a, <2>1
<1>4. H[a] = 0
  BY <1>a, <1>2
<1> QED
  BY <1>1, <1>3, <1>4 DEF H, n

\* A power of two divides the larger ones.
LEMMA Pow2Divides ==
  ASSUME NEW k \in 0..Width
  PROVE  \E q \in Nat \ {0} : Pow2[Width] = Pow2[k] * q
<1> DEFINE m == Width - k
           S == {j \in 0..m : Pow2[k + j] = Pow2[k] * Pow2[j]}
<1>1. Width \in Nat /\ m \in 0..Width /\ k + m = Width
  BY ChunkingAssumptions
<1>2. 0 \in S
  <2>1. Pow2[0] = 1 /\ Pow2[k] \in Nat
    BY <1>1, Pow2Defined, Pow2Doubles
  <2> QED
    BY <1>1, <2>1
<1>3. ASSUME NEW j \in 0..(m - 1), j \in S PROVE j + 1 \in S
  <2>1. k + j \in 0..(Width - 1) /\ j \in 0..(Width - 1) /\ k + (j + 1) = (k + j) + 1
    BY <1>1
  <2>2. Pow2[k + (j + 1)] = 2 * Pow2[k + j] /\ Pow2[j + 1] = 2 * Pow2[j]
    BY <2>1, Pow2Doubles
  <2>3. Pow2[k] \in Nat /\ Pow2[j] \in Nat
    BY <1>1, <2>1, Pow2Doubles
  <2>4. 2 * (Pow2[k] * Pow2[j]) = Pow2[k] * (2 * Pow2[j])
    BY <2>3
  <2>5. Pow2[k + j] = Pow2[k] * Pow2[j]
    BY <1>3
  <2> QED
    BY <1>1, <2>2, <2>4, <2>5
<1>4. m \in S
  <2>1. m \in Nat /\ m \in 0..m
    BY <1>1
  <2> HIDE DEF S, m
  <2>2. \A j \in 0..m : j \in S
    BY <2>1, <1>2, <1>3, UpTo
  <2> QED
    BY <2>1, <2>2
<1>5. Pow2[Width] = Pow2[k] * Pow2[m] /\ Pow2[m] \in Nat \ {0}
  BY <1>1, <1>4, Pow2Doubles
<1> QED
  BY <1>5

\* Rolling a byte in moves the bits in which two hashes agree up by one.
LEMMA RollForgets ==
  ASSUME NEW k \in 0..(Width - 1), NEW x \in Nat, NEW y \in Nat, NEW byte \in Bytes,
         x % Pow2[k] = y % Pow2[k]
  PROVE  Roll(x, byte) % Pow2[k + 1] = Roll(y, byte) % Pow2[k + 1]
<1> DEFINE n == Pow2[k]
           m == Pow2[k + 1]
           M == Pow2[Width]
           g == Gear[byte]
<1>1. k \in 0..Width /\ k + 1 \in 0..Width /\ Width \in 0..Width
  BY ChunkingAssumptions
<1>2. n \in Nat \ {0} /\ m \in Nat \ {0} /\ m = 2 * n /\ M \in Nat
  BY <1>1, Pow2Doubles
<1>3. g \in Nat
  BY <1>2, ChunkingAssumptions
<1>4. PICK q \in Nat \ {0} : M = m * q
  BY <1>1, Pow2Divides
<1> HIDE DEF n, m, M, g
<1>5. x % n = y % n
  BY DEF n
<1> DEFINE v == 2 * x + g
           w == 2 * y + g
<1>6. v \in Int /\ w \in Int /\ v - w = 2 * (x - y) /\ x \in Int /\ y \in Int
  BY <1>3
<1> HIDE DEF v, w
<1>7. v % m = w % m
  <2>1. PICK s \in Int : x = n * s + (x % n)
    BY <1>2, <1>6, Remainder
  <2>2. PICK t \in Int : y = n * t + (y % n)
    BY <1>2, <1>6, Remainder
  <2>3. PICK u \in Int : w = m * u + (w % m)
    BY <1>2, <1>6, Remainder
  <2> DEFINE r == x % n
             z == w % m
             p == u + (s - t)
  <2>4. r \in Int /\ r = y % n /\ z \in 0..(m - 1)
    BY <1>2, <1>5, <1>6, Remainder
  <2> HIDE DEF r, z, p
  <2>5. x = n * s + r /\ y = n * t + r /\ w = m * u + z /\ z \in Int
    BY <1>2, <2>1, <2>2, <2>3, <2>4 DEF r, z
  <2>6. p \in Int /\ v = m * p + z
    <3>1. m * p = m * u + m * (s - t) /\ m * (s - t) = 2 * (n * s - n * t)
      BY <1>2 DEF p
    <3>2. x - y = n * s - n * t
      BY <1>2, <2>4, <2>5
    <3>3. m * u \in Int /\ n * s - n * t \in Int /\ m * p \in Int /\ p \in Int
      BY <1>2 DEF p
    <3> QED
      BY <1>6, <2>5, <3>1, <3>2, <3>3
  <2>7. (m * p + z) % m = z
    BY <1>2, <2>4, <2>6, RemainderIs
  <2> QED
    BY <2>6, <2>7 DEF z
<1>8. (v % M) % m = v % m /\ (w % M) % m = w % m
  BY <1>2, <1>4, <1>6, RemainderOfMultiple
<1>9. Roll(x, byte) = (2 * x + g) % M /\ Roll(y, byte) = (2 * y + g) % M
  BY DEF Roll, g, M
<1> QED
  BY <1>7, <1>8, <1>9 DEF m, v, w

\* After MaskBits bytes a hash has forgotten where it started: it agrees with every other
\* one in the bits of the mask.
LEMMA Forgets ==
  ASSUME NEW d \in Seq(Bytes), NEW a \in 0..Len(d), NEW c \in 0..Len(d),
         NEW b \in 0..Len(d), a + MaskBits <= b, c + MaskBits <= b
  PROVE  HashFrom(d, a)[b] % Pow2[MaskBits] = HashFrom(d, c)[b] % Pow2[MaskBits]
<1> DEFINE n == Len(d)
           F == HashFrom(d, a)
           G == HashFrom(d, c)
           low == b - MaskBits
           S == {k \in 0..MaskBits : F[low + k] % Pow2[k] = G[low + k] % Pow2[k]}
<1>1. /\ n \in Nat /\ MaskBits \in Nat /\ MaskBits <= Width /\ Width \in Nat
      /\ low \in 0..n /\ a <= low /\ c <= low /\ low + MaskBits = b /\ b <= n
  BY ChunkingAssumptions
<1>2. /\ \A x \in 0..n : F[x] \in Nat /\ G[x] \in Nat
      /\ \A x \in low..(n - 1) : /\ F[x + 1] = Roll(F[x], d[x + 1])
                                /\ G[x + 1] = Roll(G[x], d[x + 1])
  <2>1. Hashes \subseteq Nat
    <3>1. Pow2[Width] \in Nat
      BY <1>1, Pow2Doubles
    <3> QED
      BY <3>1 DEF Hashes
  <2>2. \A x \in low..(n - 1) : x \in a..(n - 1) /\ x \in c..(n - 1)
    BY <1>1
  <2> HIDE DEF low
  <2> QED
    BY <2>1, <2>2, HashStep
<1>3. \A x \in 1..n : d[x] \in Bytes
  OBVIOUS
<1> HIDE DEF n, F, G, low
<1>4. 0 \in S
  <2>1. Pow2[0] = 1
    BY <1>1, Pow2Defined
  <2>2. F[low] \in Nat /\ G[low] \in Nat /\ low + 0 = low
    BY <1>1, <1>2
  <2>3. F[low] % 1 = 0 /\ G[low] % 1 = 0
    BY <2>2
  <2> QED
    BY <1>1, <2>1, <2>2, <2>3
<1>5. ASSUME NEW k \in 0..(MaskBits - 1), k \in S PROVE k + 1 \in S
  <2>1. /\ low + k \in low..(n - 1) /\ low + k \in 0..n /\ low + k + 1 \in 1..n
        /\ low + (k + 1) = low + k + 1 /\ k \in 0..(Width - 1) /\ k + 1 \in 0..MaskBits
    BY <1>1
  <2>2. F[low + k] \in Nat /\ G[low + k] \in Nat /\ d[low + k + 1] \in Bytes
    BY <1>2, <1>3, <2>1
  <2>3. F[low + k] % Pow2[k] = G[low + k] % Pow2[k]
    BY <1>5
  <2>4. Roll(F[low + k], d[low + k + 1]) % Pow2[k + 1]
          = Roll(G[low + k], d[low + k + 1]) % Pow2[k + 1]
    BY <2>1, <2>2, <2>3, RollForgets
  <2>5. /\ F[low + k + 1] = Roll(F[low + k], d[low + k + 1])
        /\ G[low + k + 1] = Roll(G[low + k], d[low + k + 1])
    BY <1>2, <2>1
  <2> QED
    BY <2>1, <2>4, <2>5
<1>6. MaskBits \in S
  <2>1. MaskBits \in 0..MaskBits
    BY <1>1
  <2> HIDE DEF S
  <2>2. \A k \in 0..MaskBits : k \in S
    BY <1>1, <1>4, <1>5, UpTo
  <2> QED
    BY <2>1, <2>2
<1> QED
  BY <1>1, <1>6 DEF F, G, low

-----------------------------------------------------------------------------
(* The cuts are local. *)

\* The hash of a window is the hash from the first position of the window.
LEMMA WindowIs ==
  ASSUME NEW d \in Seq(Bytes), NEW at \in MaskBits..Len(d)
  PROVE  WindowHash(d, at) = HashFrom(d, at - MaskBits)[at]
<1> DEFINE a == at - MaskBits
           w == SubSeq(d, a + 1, at)
           n == MaskBits
           H == HashFrom(d, a)
           next == [j \in 1..n |-> [x \in Hashes |-> Roll(x, w[j])]]
           Is(f) == f = [s \in SUBSET (1..n) |->
                           IF s = {} THEN 0 ELSE Roll(f[s \ {Max(s)}], w[Max(s)])]
           iter == CHOOSE f : Is(f)
<1>1. /\ n \in Nat /\ a \in 0..Len(d) /\ a + n = at /\ Len(d) \in Nat /\ at \in 0..Len(d)
      /\ \A x \in 1..Len(d) : d[x] \in Bytes
  BY ChunkingAssumptions
<1>2. (IF at > MaskBits THEN at - MaskBits ELSE 0) = a
  BY <1>1
<1> HIDE DEF a
<1>3. DOMAIN w = 1..n /\ \A j \in 1..n : w[j] = d[a + j] /\ w[j] \in Bytes
  <2>1. at = a + n /\ a + n <= Len(d) /\ a \in Nat
    BY <1>1
  <2>2. Len(w) = n /\ DOMAIN w = 1..n /\ \A j \in 1..n : w[j] = d[a + j] /\ a + j \in 1..Len(d)
    BY <1>1, <2>1
  <2> QED
    BY <1>1, <2>2
<1>4. WindowHash(d, at) = FoldLeft(LAMBDA hash, byte : Roll(hash, byte), 0, w)
  BY <1>2 DEF WindowHash
<1> HIDE DEF w
<1>5. WindowHash(d, at) = iter[1..n]
  BY <1>3, <1>4 DEF FoldLeft, MapThenFoldSet
<1>6. 0 \in Hashes /\ Hashes \subseteq Nat /\ \A x \in Hashes, y \in Bytes : Roll(x, y) \in Hashes
  <2>1. Width \in 0..Width /\ Pow2[Width] \in Nat \ {0}
    BY ChunkingAssumptions, Pow2Doubles
  <2> QED
    BY <2>1, RollType DEF Hashes
<1>7. /\ next \in [1..n -> [Hashes -> Hashes]]
      /\ \A j \in 1..n, x \in Hashes : next[j][x] = Roll(x, w[j])
  BY <1>3, <1>6
<1> HIDE DEF n, next, H
<1>8. PICK f \in [SUBSET (1..n) -> Hashes] : Iterates(next, 0, n, f)
  BY <1>1, <1>6, <1>7, IterateDefined
<1>9. Is(f)
  <2>1. ASSUME NEW s \in SUBSET (1..n), s # {}
        PROVE  next[Max(s)][f[s \ {Max(s)}]] = Roll(f[s \ {Max(s)}], w[Max(s)])
    <3>1. Max(s) \in 1..n
      BY <1>1, <2>1, LastPosition
    <3>2. s \ {Max(s)} \in SUBSET (1..n)
      OBVIOUS
    <3> QED
      BY <1>7, <3>1, <3>2
  <2> QED
    BY <1>8, <2>1 DEF Iterates
<1>10. Is(iter)
  <2>1. \E g : Is(g)
    <3> HIDE DEF Is
    <3> QED
      BY <1>9
  <2> QED
    BY <2>1
<1> HIDE DEF iter
<1> DEFINE S == {k \in 0..n : iter[1..k] = H[a + k]}
<1>11. 0 \in S
  <2>1. 1..0 = {} /\ 1..0 \in SUBSET (1..n)
    BY <1>1
  <2>2. H[a] = 0 /\ a + 0 = a
    BY <1>1, HashStep DEF H
  <2> QED
    BY <1>1, <1>10, <2>1, <2>2
<1>12. ASSUME NEW k \in 0..(n - 1), k \in S PROVE k + 1 \in S
  <2>1. /\ 1..(k + 1) \in SUBSET (1..n) /\ 1..(k + 1) # {}
        /\ Max(1..(k + 1)) = k + 1
        /\ (1..(k + 1)) \ {k + 1} = 1..k
    BY <1>1, NextPosition
  <2>2. iter[1..(k + 1)] = Roll(iter[1..k], w[k + 1])
    BY <1>10, <2>1
  <2>3. /\ a + k \in a..(Len(d) - 1) /\ k + 1 \in 1..n /\ k + 1 \in 0..n
        /\ a + k + 1 = a + (k + 1)
    BY <1>1
  <2>4. H[a + k + 1] = Roll(H[a + k], d[a + k + 1])
    BY <1>1, <2>3, HashStep DEF H
  <2>5. w[k + 1] = d[a + k + 1]
    BY <1>3, <2>3
  <2>6. iter[1..k] = H[a + k]
    BY <1>12
  <2> QED
    BY <2>2, <2>3, <2>4, <2>5, <2>6
<1>13. n \in S
  <2>1. n \in 0..n
    BY <1>1
  <2> HIDE DEF S
  <2>2. \A k \in 0..n : k \in S
    BY <1>1, <1>11, <1>12, UpTo
  <2> QED
    BY <2>1, <2>2
<1> QED
  BY <1>1, <1>5, <1>13 DEF H, a

\* A chunk long enough to be asked has a hash that agrees with that of the window.
LEMMA ChunkHashIsLocal ==
  ASSUME NEW d \in Seq(Bytes), NEW from \in 0..Len(d), NEW at \in 0..Len(d),
         from + MinChunk <= at
  PROVE  WindowHash(d, at) % Pow2[MaskBits] = HashFrom(d, from)[at] % Pow2[MaskBits]
<1>1. /\ MaskBits \in Nat /\ MinChunk \in Nat /\ MaskBits <= MinChunk
      /\ from \in Nat /\ at \in Nat /\ Len(d) \in Nat
  BY ChunkingAssumptions
<1>2. /\ at \in MaskBits..Len(d) /\ at - MaskBits \in 0..Len(d)
      /\ from + MaskBits <= at /\ at - MaskBits + MaskBits <= at
  BY <1>1
<1>3. HashFrom(d, at - MaskBits)[at] % Pow2[MaskBits] = HashFrom(d, from)[at] % Pow2[MaskBits]
  BY <1>2, Forgets
<1>4. WindowHash(d, at) = HashFrom(d, at - MaskBits)[at]
  BY <1>2, WindowIs
<1> QED
  BY <1>3, <1>4

\* The positions where the chunk from a position may end.
MayEnd(d, from) == {at \in (from + MinChunk)..Len(d) :
                    at - from = MaxChunk \/ WindowHash(d, at) % Pow2[MaskBits] = 0}

\* The next cut is the first position where the chunk may end, or the end of the input.
LEMMA NextCutIs ==
  ASSUME NEW d \in Seq(Bytes), NEW from \in 0..Len(d)
  PROVE  /\ MayEnd(d, from) = {} => NextCut(d, from) = Len(d)
         /\ \A at \in MayEnd(d, from) :
              (\A e \in MayEnd(d, from) : at <= e) => NextCut(d, from) = at
         /\ from # Len(d) => NextCut(d, from) \in (from + 1)..Len(d)
<1> DEFINE E == MayEnd(d, from)
           n == Len(d)
<1>1. n \in Nat /\ MinChunk \in Nat \ {0} /\ from \in 0..n
  BY ChunkingAssumptions
<1>2. E \subseteq (from + 1)..n
  BY <1>1 DEF MayEnd
<1>3. NextCut(d, from) = IF E = {} THEN n ELSE Min(E)
  BY DEF NextCut, MayEnd
<1> HIDE DEF E, n
<1>4. ASSUME NEW at \in E, \A e \in E : at <= e PROVE Min(E) = at
  <2>1. Min(E) \in E /\ \A e \in E : Min(E) <= e
    BY <1>4 DEF Min
  <2> HIDE DEF Min
  <2>2. at \in Nat /\ Min(E) \in Nat
    <3>1. E \subseteq Nat
      BY <1>1, <1>2
    <3> QED
      BY <2>1, <3>1
  <2>3. at <= Min(E) /\ Min(E) <= at
    BY <1>4, <2>1
  <2> QED
    BY <2>2, <2>3
<1>5. E # {} => \E at \in E : \A e \in E : at <= e
  <2>1. E \in SUBSET Nat
    BY <1>1, <1>2
  <2> QED
    BY <2>1, LeastNumber
<1>6. from # n => NextCut(d, from) \in (from + 1)..n
  BY <1>1, <1>2, <1>3, <1>4, <1>5
<1> QED
  BY <1>3, <1>4, <1>6 DEF E, n

\* The cuts from each position on.
IsCuts(d, low, f) ==
  f = [from \in low..Len(d) |->
         IF from = Len(d) THEN << >> ELSE <<NextCut(d, from)>> \o f[NextCut(d, from)]]

CutsFrom(d) == CHOOSE f : IsCuts(d, 0, f)

\* The recursive definition of the cuts defines a function.
LEMMA CutsDefined ==
  ASSUME NEW d \in Seq(Bytes)
  PROVE  /\ CutsOf(d) = CutsFrom(d)[0]
         /\ CutsFrom(d)[Len(d)] = << >>
         /\ \A from \in 0..(Len(d) - 1) :
              CutsFrom(d)[from] = <<NextCut(d, from)>> \o CutsFrom(d)[NextCut(d, from)]
         /\ \A from \in 0..Len(d) : CutsFrom(d)[from] \in Seq(Nat)
<1> DEFINE n == Len(d)
           Found(low) == \E f \in [low..n -> Seq(Nat)] : IsCuts(d, low, f)
           S == {k \in 0..n : Found(n - k)}
<1>1. n \in Nat
  OBVIOUS
<1>2. \A from \in 0..(n - 1) : NextCut(d, from) \in (from + 1)..n
  BY <1>1, NextCutIs
<1>3. 0 \in S
  <2> DEFINE f == [from \in n..n |-> << >>]
  <2>1. f \in [n..n -> Seq(Nat)] /\ IsCuts(d, n, f)
    BY <1>1 DEF IsCuts
  <2> HIDE DEF f
  <2>2. Found(n)
    BY <2>1
  <2>3. n - 0 = n /\ 0 \in 0..n
    BY <1>1
  <2> HIDE DEF Found, n
  <2> QED
    BY <2>2, <2>3
<1>4. ASSUME NEW k \in 0..(n - 1), k \in S PROVE k + 1 \in S
  <2> DEFINE low == n - (k + 1)
  <2>1. low \in 0..(n - 1) /\ n - k = low + 1
    BY <1>1
  <2>2. Found(low + 1)
    BY <1>4, <2>1
  <2> HIDE DEF low
  <2>3. PICK f \in [(low + 1)..n -> Seq(Nat)] : IsCuts(d, low + 1, f)
    BY <2>2
  <2> DEFINE first == NextCut(d, low)
             g == [from \in low..n |-> IF from = low THEN <<first>> \o f[first] ELSE f[from]]
  <2>4. first \in (low + 1)..n /\ first \in Nat
    BY <1>1, <1>2, <2>1
  <2>5. g \in [low..n -> Seq(Nat)]
    <3>1. f[first] \in Seq(Nat) /\ <<first>> \in Seq(Nat)
      BY <2>4
    <3>2. <<first>> \o f[first] \in Seq(Nat)
      BY <3>1
    <3>3. \A from \in low..n : from = low \/ from \in (low + 1)..n
      BY <1>1, <2>1
    <3> HIDE DEF first, n
    <3> QED
      BY <3>2, <3>3
  <2>6. ASSUME NEW from \in low..n
        PROVE  g[from] = IF from = n THEN << >> ELSE <<NextCut(d, from)>> \o g[NextCut(d, from)]
    <3>1. CASE from = low
      <4>1. from # n /\ NextCut(d, from) = first
        BY <1>1, <2>1, <3>1
      <4>2. g[from] = <<first>> \o f[first] /\ g[first] = f[first]
        BY <1>1, <2>1, <2>4, <3>1
      <4> HIDE DEF g, first, n
      <4> QED
        BY <4>1, <4>2
    <3>2. CASE from \in (low + 1)..n
      <4>1. g[from] = f[from]
        BY <1>1, <2>1, <3>2
      <4>2. f[from] = IF from = n THEN << >> ELSE <<NextCut(d, from)>> \o f[NextCut(d, from)]
        BY <2>3, <3>2 DEF IsCuts
      <4>3. from # n => g[NextCut(d, from)] = f[NextCut(d, from)]
        <5>1. from # n => NextCut(d, from) \in (from + 1)..n
          BY <1>1, <1>2, <2>1, <3>2
        <5> QED
          BY <1>1, <2>1, <3>2, <5>1
      <4> HIDE DEF g, n
      <4> QED
        BY <4>1, <4>2, <4>3
    <3>3. from = low \/ from \in (low + 1)..n
      BY <1>1, <2>1
    <3> QED
      BY <3>1, <3>2, <3>3
  <2>7. IsCuts(d, low, g)
    <3>1. g = [from \in low..n |-> g[from]]
      OBVIOUS
    <3> HIDE DEF g
    <3> QED
      BY <2>6, <3>1 DEF IsCuts
  <2> HIDE DEF g
  <2>8. Found(low) /\ k + 1 \in 0..n
    BY <1>1, <2>5, <2>7
  <2> HIDE DEF Found
  <2> QED
    BY <2>8 DEF low
<1>5. Found(0)
  <2>1. n \in 0..n /\ n - n = 0
    BY <1>1
  <2>2. n \in S
    <3> HIDE DEF S, n
    <3>1. \A k \in 0..n : k \in S
      BY <1>1, <1>3, <1>4, UpTo
    <3> QED
      BY <2>1, <3>1
  <2> HIDE DEF Found
  <2> QED
    BY <2>1, <2>2
<1> DEFINE C == CutsFrom(d)
<1>6. IsCuts(d, 0, C)
  BY <1>5 DEF CutsFrom
<1>7. CutsOf(d) = C[0]
  BY DEF CutsOf, CutsFrom, IsCuts
<1> HIDE DEF C, n
<1>8. /\ C[n] = << >>
      /\ \A from \in 0..(n - 1) : C[from] = <<NextCut(d, from)>> \o C[NextCut(d, from)]
  <2>1. \A from \in 0..n :
          C[from] = IF from = n THEN << >> ELSE <<NextCut(d, from)>> \o C[NextCut(d, from)]
    BY <1>6 DEF IsCuts, n
  <2>2. n \in 0..n /\ \A from \in 0..(n - 1) : from \in 0..n /\ from # n
    BY <1>1
  <2> QED
    BY <2>1, <2>2
<1>9. \A from \in 0..n : C[from] \in Seq(Nat)
  <2> DEFINE T == {k \in 0..n : \A from \in (n - k)..n : C[from] \in Seq(Nat)}
  <2>1. 0 \in T
    <3>1. \A from \in (n - 0)..n : from = n
      BY <1>1
    <3>2. C[n] \in Seq(Nat)
      BY <1>8
    <3> QED
      BY <1>1, <3>1, <3>2
  <2>2. ASSUME NEW k \in 0..(n - 1), k \in T PROVE k + 1 \in T
    <3> DEFINE low == n - (k + 1)
    <3>1. low \in 0..(n - 1) /\ n - k = low + 1 /\ k + 1 \in 0..n
      BY <1>1
    <3>2. \A from \in (low + 1)..n : C[from] \in Seq(Nat)
      BY <2>2, <3>1
    <3> HIDE DEF low
    <3>3. C[low] \in Seq(Nat)
      <4>1. NextCut(d, low) \in (low + 1)..n /\ NextCut(d, low) \in Nat
        BY <1>1, <1>2, <3>1
      <4>2. C[NextCut(d, low)] \in Seq(Nat) /\ <<NextCut(d, low)>> \in Seq(Nat)
        BY <3>2, <4>1
      <4>3. <<NextCut(d, low)>> \o C[NextCut(d, low)] \in Seq(Nat)
        BY <4>2
      <4> QED
        BY <1>8, <3>1, <4>3
    <3>4. \A from \in low..n : from = low \/ from \in (low + 1)..n
      BY <1>1, <3>1
    <3>5. \A from \in low..n : C[from] \in Seq(Nat)
      BY <3>2, <3>3, <3>4
    <3> QED
      BY <3>1, <3>5 DEF low
  <2>3. n \in T
    <3>1. n \in 0..n
      BY <1>1
    <3> HIDE DEF T
    <3>2. \A k \in 0..n : k \in T
      BY <1>1, <2>1, <2>2, UpTo
    <3> QED
      BY <3>1, <3>2
  <2>4. n - n = 0
    BY <1>1
  <2> QED
    BY <2>3, <2>4
<1> QED
  BY <1>7, <1>8, <1>9 DEF C, n

\* The hash is that of the chunk under way, the cuts so far and those from the last of them
\* on are the cuts of the input, and the chunk under way might not have ended yet.
Local ==
  /\ start < i \/ i < Len(data) => h = HashFrom(data, start)[i]
  /\ cuts \o CutsFrom(data)[start] = CutsOf(data)
  /\ \A at \in MayEnd(data, start) : i < at

\* The loop starts with all the cuts ahead.
LEMMA LocalInit == Init => Local
<1> SUFFICES ASSUME Init PROVE Local
  OBVIOUS
<1>1. data \in Seq(Bytes) /\ Len(data) \in Nat
  BY InputType DEF Init
<1>2. HashFrom(data, 0)[0] = 0
  BY <1>1, HashStep
<1>3. << >> \o CutsFrom(data)[0] = CutsOf(data)
  <2>1. CutsFrom(data)[0] \in Seq(Nat) /\ CutsOf(data) = CutsFrom(data)[0]
    BY <1>1, CutsDefined
  <2> QED
    BY <2>1
<1>4. \A at \in MayEnd(data, 0) : 0 < at
  BY <1>1, ChunkingAssumptions DEF MayEnd
<1> QED
  BY <1>2, <1>3, <1>4 DEF Init, Local

\* A cut at the next one leaves the cuts from there on.
LEMMA CutHere ==
  ASSUME IInv, Local, start # Len(data), NEW at, at = NextCut(data, start),
         cuts' = Append(cuts, at), data' = data, start' = at
  PROVE  cuts' \o CutsFrom(data')[start'] = CutsOf(data')
<1>1. /\ data \in Seq(Bytes) /\ Len(data) \in Nat /\ start \in 0..(Len(data) - 1)
      /\ cuts \in Seq(Nat)
  BY InputType DEF IInv, Positions
<1> DEFINE rest == CutsFrom(data)[at]
<1>2. at \in 0..Len(data) /\ at \in Nat
  BY <1>1, NextCutIs
<1>3. CutsFrom(data)[start] = <<at>> \o rest /\ rest \in Seq(Nat)
  BY <1>1, <1>2, CutsDefined
<1> HIDE DEF rest
<1>4. cuts' = cuts \o <<at>>
  BY <1>1, <1>2
<1>5. (cuts \o <<at>>) \o rest = cuts \o (<<at>> \o rest)
  BY <1>1, <1>2, <1>3
<1> QED
  BY <1>3, <1>4, <1>5 DEF Local, rest

\* Every step keeps the cuts those of the words.
LEMMA LocalNext == IInv /\ IInv' /\ Local /\ [Next]_vars => Local'
<1> SUFFICES ASSUME IInv, IInv', Local, [Next]_vars PROVE Local'
  OBVIOUS
<1>1. /\ data \in Seq(Bytes) /\ Len(data) \in Nat
      /\ i \in 0..Len(data) /\ start \in 0..i /\ i - start < MaxChunk
  BY InputType DEF IInv, Positions
<1>2. MinChunk \in Nat \ {0} /\ MaxChunk \in Nat \ {0} /\ MinChunk <= MaxChunk
  BY ChunkingAssumptions
<1>3. \A at \in MayEnd(data, start) : at \in (start + MinChunk)..Len(data) /\ i < at
  BY DEF MayEnd, Local
<1>a. MayEnd(data, Len(data)) = {}
  BY <1>1, <1>2 DEF MayEnd
<1>4. CASE Short
  <2>1. /\ start = 0 /\ Len(data) \in 1..MinChunk /\ UNCHANGED <<data, h>>
        /\ i' = Len(data) /\ start' = Len(data) /\ cuts' = <<Len(data)>> /\ i = 0
    BY <1>1, <1>4 DEF Short
  <2>2. \A at \in MayEnd(data, 0) : at = Len(data)
    BY <1>1, <1>2, <1>3, <2>1
  <2>3. NextCut(data, 0) = Len(data)
    <3>1. CASE MayEnd(data, 0) = {}
      BY <1>1, <3>1, NextCutIs
    <3>2. CASE MayEnd(data, 0) # {}
      <4>1. Len(data) \in MayEnd(data, 0) /\ \A e \in MayEnd(data, 0) : Len(data) <= e
        BY <1>1, <2>2, <3>2
      <4>2. 0 \in 0..Len(data)
        BY <1>1
      <4> QED
        BY <1>1, <4>1, <4>2, NextCutIs
    <3> QED
      BY <3>1, <3>2
  <2>4. CutsOf(data) = <<Len(data)>> \o << >>
    <3>1. 0 \in 0..(Len(data) - 1)
      BY <1>1, <2>1
    <3> QED
      BY <1>1, <2>3, <3>1, CutsDefined
  <2>5. CutsFrom(data)[Len(data)] = << >>
    BY <1>1, CutsDefined
  <2>6. cuts' \o CutsFrom(data')[start'] = CutsOf(data')
    BY <2>1, <2>4, <2>5
  <2>7. ~ (start' < i') /\ ~ (i' < Len(data')) /\ MayEnd(data', start') = {}
    BY <1>1, <1>a, <2>1
  <2> QED
    BY <2>6, <2>7 DEF Local
<1>5. CASE Scan
  <2> DEFINE at == i + 1
             hash == Roll(h, data[at])
             size == at - start
  <2>1. /\ at \in 1..Len(data) /\ i \in start..(Len(data) - 1) /\ start \in 0..Len(data)
        /\ start # Len(data) /\ i' = at /\ data' = data /\ size \in 1..MaxChunk
        /\ at \in Nat /\ start \in Nat /\ size = at - start
    BY <1>1, <1>2, <1>5 DEF Scan
  <2>2. hash = HashFrom(data, start)[at]
    <3>1. h = HashFrom(data, start)[i]
      BY <1>1, <2>1 DEF Local
    <3>2. HashFrom(data, start)[i + 1] = Roll(HashFrom(data, start)[i], data[i + 1])
      BY <1>1, <2>1, HashStep
    <3> QED
      BY <3>1, <3>2
  <2>3. /\ IsCut(size, hash) => cuts' = Append(cuts, at) /\ start' = at /\ h' = 0
        /\ ~ IsCut(size, hash) => h' = hash /\ UNCHANGED <<cuts, start>>
    <3> HIDE DEF hash
    <3>1. /\ IsCut(i + 1 - start, hash) =>
               cuts' = Append(cuts, i + 1) /\ start' = i + 1 /\ h' = 0
          /\ ~ IsCut(i + 1 - start, hash) => h' = hash /\ UNCHANGED <<cuts, start>>
      <4>1. CASE IsCut(i + 1 - start, hash)
        BY <1>5, <4>1 DEF Scan, hash
      <4>2. CASE ~ IsCut(i + 1 - start, hash)
        BY <1>5, <4>2 DEF Scan, hash
      <4> QED
        BY <4>1, <4>2
    <3>2. size = i + 1 - start /\ at = i + 1
      BY <1>1
    <3> HIDE DEF size, at
    <3> QED
      BY <3>1, <3>2
  <2> HIDE DEF hash, at, size
  <2>4. IsCut(size, hash) <=> at \in MayEnd(data, start)
    <3>1. CASE size >= MinChunk
      <4>1. at \in (start + MinChunk)..Len(data) /\ start + MinChunk <= at
        BY <1>1, <1>2, <2>1, <3>1
      <4>2. WindowHash(data, at) % Pow2[MaskBits] = hash % Pow2[MaskBits]
        <5>1. at \in 0..Len(data)
          BY <2>1
        <5> QED
          BY <1>1, <2>1, <2>2, <4>1, <5>1, ChunkHashIsLocal
      <4>3. size >= MaxChunk <=> at - start = MaxChunk
        BY <1>2, <2>1
      <4> QED
        BY <3>1, <4>1, <4>2, <4>3 DEF IsCut, MayEnd
    <3>2. CASE ~ (size >= MinChunk)
      <4>1. at \notin (start + MinChunk)..Len(data)
        BY <1>1, <1>2, <2>1, <3>2
      <4> QED
        BY <3>2, <4>1 DEF IsCut, MayEnd
    <3> QED
      BY <3>1, <3>2
  <2>5. \A e \in MayEnd(data, start) : at <= e
    BY <1>1, <1>3, <2>1 DEF at
  <2>6. CASE IsCut(size, hash)
    <3>1. cuts' = Append(cuts, at) /\ start' = at /\ h' = 0
      BY <2>3, <2>6
    <3>2. at = NextCut(data, start)
      BY <1>1, <2>1, <2>4, <2>5, <2>6, NextCutIs
    <3>3. cuts' \o CutsFrom(data')[start'] = CutsOf(data')
      BY <2>1, <3>1, <3>2, CutHere
    <3>4. HashFrom(data, at)[at] = 0
      <4>1. at \in 0..Len(data)
        BY <2>1
      <4> QED
        BY <1>1, <4>1, HashStep
    <3>5. \A e \in MayEnd(data, at) : at < e
      BY <1>1, <1>2, <2>1 DEF MayEnd
    <3> QED
      BY <2>1, <3>1, <3>3, <3>4, <3>5 DEF Local
  <2>7. CASE ~ IsCut(size, hash)
    <3>1. h' = hash /\ UNCHANGED <<cuts, start, data>> /\ i' = at
      BY <2>1, <2>3, <2>7
    <3>2. \A e \in MayEnd(data, start) : at < e
      <4>1. \A e \in MayEnd(data, start) : e # at /\ e \in Nat
        BY <1>1, <1>2, <1>3, <2>4, <2>7
      <4> QED
        BY <2>1, <2>5, <4>1
    <3> QED
      BY <2>2, <3>1, <3>2 DEF Local
  <2> QED
    BY <2>6, <2>7
<1>6. CASE Rest
  <2>1. /\ i = Len(data) /\ start < i /\ cuts' = Append(cuts, i) /\ start' = i
        /\ UNCHANGED <<data, i, h>>
    BY <1>6 DEF Rest
  <2>2. MayEnd(data, start) = {}
    BY <1>1, <1>2, <1>3, <2>1
  <2>3. start \in 0..Len(data) /\ start # Len(data)
    BY <1>1, <2>1
  <2>4. i = NextCut(data, start)
    BY <1>1, <2>1, <2>2, <2>3, NextCutIs
  <2>5. cuts' \o CutsFrom(data')[start'] = CutsOf(data')
    BY <2>1, <2>3, <2>4, CutHere
  <2> QED
    BY <1>1, <1>a, <2>1, <2>5 DEF Local
<1>7. CASE UNCHANGED vars
  BY <1>7 DEF vars, Local
<1> QED
  BY <1>4, <1>5, <1>6, <1>7 DEF Next

\* The cuts of every input are those that the documentation's words give: where a cut falls
\* depends on the most recent bytes and on nothing before the cut ahead of it, for every
\* table of the hash, every mask within the hash's width and every pair of sizes, because a
\* chunk is at least as long as the mask has bits.
THEOREM CutsLocal == Spec => []CutsAreLocal
<1>1. Spec => []Local
  BY LocalInit, LocalNext, Invariance, PTL DEF Spec
<1>2. IInv /\ Local => CutsAreLocal
  <2> SUFFICES ASSUME IInv, Local, Done PROVE cuts = CutsOf(data)
    BY DEF CutsAreLocal
  <2>1. data \in Seq(Bytes) /\ cuts \in Seq(1..Len(data)) /\ start = Len(data)
    BY InputType DEF IInv, Positions, Done
  <2>2. CutsFrom(data)[start] = << >>
    BY <2>1, CutsDefined
  <2> QED
    BY <2>1, <2>2 DEF Local
<1> QED
  BY <1>1, <1>2, Invariance, PTL

=============================================================================
