------------------------- MODULE BloomFilterProofs --------------------------
(***************************************************************************)
(* Proofs about the Bloom filter, for every word width, every set of keys, *)
(* every pair of hash functions and every size the constructor may choose. *)
(*                                                                         *)
(* A loaded filter is as good as a built one because a buffer that         *)
(* serialize() wrote still describes the filter in memory: nothing but     *)
(* Deserialize changes num_bits and num_hashes, and the bits only grow.    *)
(* StoredFits and StoredExact say so, and make the properties inductive.   *)
(*                                                                         *)
(* That the positions of a key differ is number theory, on powers of two:  *)
(* the sum wraps at a multiple of the number of bits, and an odd factor    *)
(* can be cancelled modulo a power of two.                                 *)
(***************************************************************************)
EXTENDS BloomFilter, FiniteSetTheorems, WellOrder

\* Every bit of the stored buffer lies behind its header and before its end.
StoredFits ==
    /\ stored \in [size : Int, header : BOOLEAN, num_bits : 0 .. Word - 1,
                   num_hashes : Nat, bits : SUBSET Nat]
    /\ \A b \in stored.bits : HeaderSize + b \div 8 < stored.size

\* An undamaged buffer belongs to the filter in memory and holds the bits of
\* the keys that were added before serialize().
StoredExact ==
    storedOK => /\ stored.header
                /\ stored.num_bits = num_bits /\ stored.num_hashes = num_hashes
                /\ stored.size = HeaderSize + bytes
                /\ \A k \in storedKeys : Indices(k) \subseteq stored.bits

\* The array has the bytes num_bits needs.
ArrayFits == bytes = byte_size(num_bits)

\* The inductive invariant.
IInv == /\ TypeOK
        /\ ArrayFits
        /\ StoredFits
        /\ StoredExact
        /\ NoFalseNegatives
        /\ ReloadAccepted
        /\ storedOK \in BOOLEAN /\ intact \in BOOLEAN

-----------------------------------------------------------------------------
(* Powers of two. *)

\* The recursive definition of Pow2 has a solution.
LEMMA PowersExist ==
    \E f \in [0 .. WordBits -> Nat \ {0}] :
        f = [e \in 0 .. WordBits |-> IF e = 0 THEN 1 ELSE 2 * f[e - 1]]
<1> DEFINE Good(f, c) == \A e \in 0 .. c : f[e] = IF e = 0 THEN 1 ELSE 2 * f[e - 1]
           S == {c \in Nat : \E f \in [0 .. c -> Nat \ {0}] : Good(f, c)}
<1>1. 0 \in S
  <2>1. [e \in 0 .. 0 |-> 1] \in [0 .. 0 -> Nat \ {0}] /\ Good([e \in 0 .. 0 |-> 1], 0)
    OBVIOUS
  <2> QED
    BY <2>1
<1>2. ASSUME NEW c \in Nat, c \in S
      PROVE  c + 1 \in S
  <2>1. PICK f \in [0 .. c -> Nat \ {0}] : Good(f, c)
    BY <1>2
  <2> DEFINE x == 2 * f[c]
             g == [e \in 0 .. c + 1 |-> IF e = c + 1 THEN x ELSE f[e]]
  <2>2. x \in Nat \ {0}
    <3>1. f[c] \in Nat \ {0}
      OBVIOUS
    <3> QED
      BY <3>1
  <2> HIDE DEF x
  <2>3. g \in [0 .. c + 1 -> Nat \ {0}]
    BY <2>2
  <2>4. ASSUME NEW e \in 0 .. c + 1
        PROVE  g[e] = IF e = 0 THEN 1 ELSE 2 * g[e - 1]
    <3>1. CASE e = c + 1
      <4>1. e # 0 /\ g[e] = x /\ g[e - 1] = f[c]
        BY <3>1
      <4> QED
        BY <4>1 DEF x
    <3>2. CASE e # c + 1
      <4>1. e \in 0 .. c /\ g[e] = f[e] /\ (e # 0 => g[e - 1] = f[e - 1])
        BY <3>2
      <4> QED
        BY <2>1, <4>1
    <3> QED
      BY <3>1, <3>2
  <2>5. Good(g, c + 1)
    BY <2>4
  <2>6. \E h \in [0 .. c + 1 -> Nat \ {0}] : Good(h, c + 1)
    <3> HIDE DEF g, Good
    <3> QED
      BY <2>3, <2>5
  <2>7. c + 1 \in Nat
    OBVIOUS
  <2> QED
    BY <2>6, <2>7, Zenon
<1>3. \A c \in Nat : c \in S
  <2> HIDE DEF S
  <2> QED
    BY <1>1, <1>2, NatInduct
<1>4. PICK f \in [0 .. WordBits -> Nat \ {0}] : Good(f, WordBits)
  BY <1>3, BloomAssumption
<1>5. f = [e \in 0 .. WordBits |-> IF e = 0 THEN 1 ELSE 2 * f[e - 1]]
  BY <1>4
<1> QED
  BY <1>5

\* Powers of two double from one to the next; a word has at least four bits.
LEMMA PowFacts ==
    /\ \A e \in 0 .. WordBits : Pow2[e] \in Nat \ {0}
    /\ Pow2[0] = 1
    /\ \A e \in 1 .. WordBits : Pow2[e] = 2 * Pow2[e - 1]
    /\ Word \in Nat /\ Word >= 16
<1> DEFINE D(f) == [e \in 0 .. WordBits |-> IF e = 0 THEN 1 ELSE 2 * f[e - 1]]
           T == [0 .. WordBits -> Nat \ {0}]
           S == {c \in Nat : c + 4 <= WordBits => Pow2[c + 4] >= 16}
<1>1. WordBits \in Nat /\ WordBits >= 4
  BY BloomAssumption
<1>2. Pow2 = CHOOSE f : f = D(f)
  BY DEF Pow2
<1>3. Pow2 = D(Pow2)
  <2>1. \E f : f = D(f)
    BY PowersExist
  <2> HIDE DEF D
  <2> QED
    BY <1>2, <2>1
<1>4. Pow2[0] = 1 /\ \A e \in 1 .. WordBits : Pow2[e] = 2 * Pow2[e - 1]
  BY <1>1, <1>3
<1> DEFINE R == {e \in Nat : e <= WordBits => Pow2[e] \in Nat \ {0}}
<1>5. \A e \in Nat : e \in R
  <2>1. 0 \in R
    BY <1>4
  <2>2. ASSUME NEW e \in Nat, e \in R
        PROVE  e + 1 \in R
    <3> SUFFICES ASSUME e + 1 <= WordBits
                 PROVE  Pow2[e + 1] \in Nat \ {0}
      OBVIOUS
    <3>1. e + 1 \in 1 .. WordBits /\ (e + 1) - 1 = e /\ Pow2[e] \in Nat \ {0}
      BY <1>1, <2>2
    <3>2. Pow2[e + 1] = 2 * Pow2[e]
      BY <1>4, <3>1
    <3> QED
      BY <3>1, <3>2
  <2> HIDE DEF R
  <2> QED
    BY <2>1, <2>2, NatInduct
<1>6. \A e \in 0 .. WordBits : Pow2[e] \in Nat \ {0}
  BY <1>1, <1>5
<1>7. \A c \in Nat : c \in S
  <2>1. 0 \in S
    <3>1. Pow2[1] = 2 * Pow2[0]
      BY <1>1, <1>4
    <3>2. Pow2[2] = 2 * Pow2[1]
      BY <1>1, <1>4
    <3>3. Pow2[3] = 2 * Pow2[2]
      BY <1>1, <1>4
    <3>4. Pow2[4] = 2 * Pow2[3]
      BY <1>1, <1>4
    <3>5. Pow2[0 + 4] = 16
      BY <1>4, <3>1, <3>2, <3>3, <3>4
    <3> QED
      BY <3>5
  <2>2. ASSUME NEW c \in Nat, c \in S
        PROVE  c + 1 \in S
    <3> SUFFICES ASSUME (c + 1) + 4 <= WordBits
                 PROVE  Pow2[(c + 1) + 4] >= 16
      OBVIOUS
    <3>1. /\ (c + 1) + 4 \in 1 .. WordBits /\ ((c + 1) + 4) - 1 = c + 4
          /\ c + 4 \in 0 .. WordBits /\ Pow2[c + 4] >= 16
      BY <1>1, <2>2
    <3>2. Pow2[(c + 1) + 4] = 2 * Pow2[c + 4] /\ Pow2[c + 4] \in Nat
      BY <1>4, <1>6, <3>1
    <3> QED
      BY <3>1, <3>2
  <2> HIDE DEF S
  <2> QED
    BY <2>1, <2>2, NatInduct
<1>8. Word \in Nat /\ Word >= 16
  <2>1. WordBits - 4 \in S /\ (WordBits - 4) + 4 = WordBits /\ WordBits \in 0 .. WordBits
    BY <1>1, <1>7
  <2>2. Pow2[WordBits] >= 16
    BY <1>1, <2>1
  <2>3. Pow2[WordBits] \in Nat
    BY <1>6, <2>1
  <2> QED
    BY <2>2, <2>3 DEF Word
<1> QED
  BY <1>4, <1>6, <1>8

-----------------------------------------------------------------------------
(* Positions. *)

\* f follows the recursion of positions(): c positions from a in steps of s.
Walk(f, a, s, m, c) == f = [n \in 0 .. c - 1 |-> IF n = 0 THEN a % m
                                                 ELSE ((f[n - 1] + s) % Word) % m]

\* The loop of positions() (lines 199-206) computes a sequence: a function that
\* satisfies its recursion exists, for every number of hashes.
LEMMA PositionsExist ==
    ASSUME NEW a \in Nat, NEW s \in Nat, NEW m \in Nat \ {0}
    PROVE  \A c \in Nat : \E f \in [0 .. c - 1 -> 0 .. m - 1] : Walk(f, a, s, m, c)
<1> DEFINE S == {c \in Nat : \E f \in [0 .. c - 1 -> 0 .. m - 1] : Walk(f, a, s, m, c)}
<1>0. Word \in Nat \ {0}
  BY PowFacts
<1>1. 0 \in S
  <2>1. [n \in 0 .. 0 - 1 |-> 0] \in [0 .. 0 - 1 -> 0 .. m - 1]
    OBVIOUS
  <2>2. Walk([n \in 0 .. 0 - 1 |-> 0], a, s, m, 0)
    BY DEF Walk
  <2> QED
    BY <2>1, <2>2
<1>2. ASSUME NEW c \in Nat, c \in S
      PROVE  c + 1 \in S
  <2>1. PICK f \in [0 .. c - 1 -> 0 .. m - 1] : Walk(f, a, s, m, c)
    BY <1>2
  <2> DEFINE x == IF c = 0 THEN a % m ELSE ((f[c - 1] + s) % Word) % m
             g == [n \in 0 .. c |-> IF n = c THEN x ELSE f[n]]
  <2>2. x \in 0 .. m - 1
    <3>1. CASE c = 0
      BY <3>1
    <3>2. CASE c # 0
      <4>1. f[c - 1] \in Nat
        BY <3>2
      <4>2. (f[c - 1] + s) % Word \in Nat
        BY <4>1, <1>0
      <4> QED
        BY <3>2, <4>2
    <3> QED
      BY <3>1, <3>2
  <2>3. g \in [0 .. c -> 0 .. m - 1]
    BY <2>2
  <2>4. ASSUME NEW n \in 0 .. c
        PROVE  g[n] = IF n = 0 THEN a % m ELSE ((g[n - 1] + s) % Word) % m
    <3>1. CASE n = c
      <4>1. n # 0 => g[n - 1] = f[c - 1]
        BY <3>1
      <4> QED
        BY <3>1, <4>1
    <3>2. CASE n # c
      <4>1. n \in 0 .. c - 1 /\ g[n] = f[n] /\ (n # 0 => g[n - 1] = f[n - 1])
        BY <3>2
      <4>2. f[n] = IF n = 0 THEN a % m ELSE ((f[n - 1] + s) % Word) % m
        BY <2>1, <4>1 DEF Walk
      <4> QED
        BY <4>1, <4>2
    <3> QED
      BY <3>1, <3>2
  <2>5. Walk(g, a, s, m, c + 1)
    <3>1. (c + 1) - 1 = c
      OBVIOUS
    <3> QED
      BY <2>4, <3>1 DEF Walk
  <2>6. g \in [0 .. (c + 1) - 1 -> 0 .. m - 1]
    BY <2>3
  <2>7. \E h \in [0 .. (c + 1) - 1 -> 0 .. m - 1] : Walk(h, a, s, m, c + 1)
    <3> HIDE DEF g
    <3> QED
      BY <2>5, <2>6
  <2>8. c + 1 \in Nat
    OBVIOUS
  <2> QED
    BY <2>7, <2>8, Zenon
<1>3. \A c \in Nat : c \in S
  <2> HIDE DEF S
  <2> QED
    BY <1>1, <1>2, NatInduct
<1> QED
  BY <1>3

\* The sizes the constructor may choose (lines 108-133), and byte_size.
LEMMA Sizes ==
    /\ Word \in Nat /\ Word >= 16
    /\ OptimalNumBits \subseteq 1 .. Word - 8
    /\ OptimalNumHashes \subseteq Nat \ {0}
    /\ \A m \in Nat : byte_size(m) \in Nat /\ Needed(m) = byte_size(m)
<1>1. Word \in Nat /\ Word >= 16
  BY PowFacts
<1>2. OptimalNumBits \subseteq 1 .. Word - 8
  BY <1>1, BloomAssumption DEF OptimalNumBits, AtLeastOne
<1>3. OptimalNumHashes \subseteq Nat \ {0}
  BY BloomAssumption DEF OptimalNumHashes, AtLeastOne
<1>4. \A m \in Nat : byte_size(m) \in Nat /\ Needed(m) = byte_size(m)
  <2> TAKE m \in Nat
  <2>1. (m + 7) % Word \in Nat
    BY <1>1
  <2> QED
    BY <2>1 DEF byte_size, Needed
<1> QED
  BY <1>1, <1>2, <1>3, <1>4

\* positions(k) satisfies its recursion, and every position is a bit number.
LEMMA PositionsFacts ==
    ASSUME TypeOK, NEW k \in Key
    PROVE  /\ h1[k] \in Nat /\ h2[k] \in Nat /\ step(k) \in Nat
           /\ num_bits \in Nat \ {0} /\ num_hashes \in Nat
           /\ Walk(positions(k), h1[k], step(k), num_bits, num_hashes)
           /\ DOMAIN positions(k) = 0 .. num_hashes - 1
           /\ \A n \in 0 .. num_hashes - 1 : positions(k)[n] \in 0 .. num_bits - 1
<1> DEFINE Rec(f) == Walk(f, h1[k], step(k), num_bits, num_hashes)
<1>1. /\ h1[k] \in Nat /\ h2[k] \in Nat /\ step(k) \in Nat
      /\ num_bits \in Nat \ {0} /\ num_hashes \in Nat
  <2>0. h1[k] \in HashValue /\ h2[k] \in HashValue
    BY DEF TypeOK, Hash64
  <2>1. h1[k] \in Nat /\ h2[k] \in Nat
    <3>1. 0 .. Word - 1 \subseteq Nat /\ HashValue \subseteq 0 .. Word - 1
      BY BloomAssumption, PowFacts
    <3> QED
      BY <2>0, <3>1
  <2>2. (2 * h2[k]) % Word \in Nat
    BY <2>1, Sizes
  <2> QED
    BY <2>1, <2>2, Sizes DEF TypeOK, step
<1>2. \E f \in [0 .. num_hashes - 1 -> 0 .. num_bits - 1] : Rec(f)
  BY <1>1, PositionsExist
<1>3. positions(k) = CHOOSE f : Rec(f)
  BY DEF positions, Walk
<1>4. Rec(positions(k))
  <2> HIDE DEF Rec
  <2> QED
    BY <1>2, <1>3
<1>5. DOMAIN positions(k) = 0 .. num_hashes - 1
  BY <1>4 DEF Walk
<1>6. \A n \in 0 .. num_hashes - 1 : positions(k)[n] \in 0 .. num_bits - 1
  <2> DEFINE S == {n \in Nat : n < num_hashes => positions(k)[n] \in 0 .. num_bits - 1}
  <2>1. 0 \in S
    BY <1>1, <1>4 DEF Walk
  <2>2. ASSUME NEW n \in Nat, n \in S
        PROVE  n + 1 \in S
    <3> SUFFICES ASSUME n + 1 < num_hashes
                 PROVE  positions(k)[n + 1] \in 0 .. num_bits - 1
      OBVIOUS
    <3>1. positions(k)[n] \in Nat
      BY <1>1, <2>2
    <3>2. (positions(k)[n] + step(k)) % Word \in Nat
      BY <3>1, <1>1, Sizes
    <3>3. positions(k)[n + 1] = ((positions(k)[n] + step(k)) % Word) % num_bits
      <4>1. n + 1 \in 0 .. num_hashes - 1 /\ n + 1 # 0 /\ (n + 1) - 1 = n
        BY <1>1
      <4> QED
        BY <1>4, <4>1 DEF Walk
    <3> QED
      BY <1>1, <3>2, <3>3
  <2>3. \A n \in Nat : n \in S
    <3> HIDE DEF S
    <3> QED
      BY <2>1, <2>2, NatInduct
  <2> QED
    BY <1>1, <2>3
<1> QED
  BY <1>1, <1>4, <1>5, <1>6

\* Every position of a key is a bit number.
LEMMA IndicesInRange ==
    ASSUME TypeOK, NEW k \in Key
    PROVE  Indices(k) \subseteq 0 .. num_bits - 1
BY PositionsFacts DEF Indices

\* positions() depends on the key, the hashes and the two counts only.
LEMMA SameIndices ==
    ASSUME NEW k, UNCHANGED <<h1, h2, num_bits, num_hashes>>
    PROVE  Indices(k)' = Indices(k)
BY DEF Indices, positions, step

\* A filter whose size is the one of its count never accesses a byte outside
\* its array.
LEMMA InsideArray ==
    ASSUME TypeOK, ArrayFits, num_bits <= Word - 8, NEW k \in Key
    PROVE  Inside(k)
<1> SUFFICES ASSUME NEW b \in Indices(k)
             PROVE  b \div 8 < bytes
  BY DEF Inside
<1>1. b \in Nat /\ b < num_bits /\ num_bits \in Nat
  BY IndicesInRange, Sizes DEF TypeOK
<1>2. bytes = (num_bits + 7) \div 8
  BY <1>1, Sizes DEF ArrayFits, byte_size
<1> QED
  BY <1>1, <1>2

-----------------------------------------------------------------------------
(* One lemma per action. *)

LEMMA InitInv == Init => IInv
<1> SUFFICES ASSUME Init
             PROVE  IInv
  OBVIOUS
<1> USE DEF Init
<1>1. num_bits \in 1 .. Word - 1 /\ num_hashes \in Nat \ {0} /\ bytes \in Nat
  BY Sizes
<1>2. TypeOK
  BY <1>1, BloomAssumption DEF TypeOK
<1>3. StoredFits
  BY Sizes DEF StoredFits, NoBuffer
<1> QED
  BY <1>2, <1>3 DEF IInv, ArrayFits, StoredExact, NoFalseNegatives, ReloadAccepted

LEMMA AddInv ==
    ASSUME IInv, NEW k \in Key, add(k)
    PROVE  IInv'
<1> USE DEF add, hashes, disk
<1>1. /\ UNCHANGED <<h1, h2, num_bits, num_hashes, bytes, stored, storedOK, storedKeys>>
      /\ UNCHANGED <<damage, intact, outcome>>
      /\ num_bits # 0 /\ num_bits \in Nat /\ bytes \in Nat
  BY Sizes DEF IInv, TypeOK
<1>2. bits' = bits \cup Indices(k)
  BY <1>1 DEF SetBits
<1>3. \A b \in Indices(k) : b \in 0 .. 8 * bytes - 1
  <2> TAKE b \in Indices(k)
  <2>1. b \in Nat /\ b \div 8 < bytes
    BY <1>1, IndicesInRange DEF Inside, IInv
  <2> QED
    BY <2>1, <1>1
<1>4. TypeOK'
  BY <1>1, <1>2, <1>3 DEF IInv, TypeOK
<1>5. \A j : Indices(j)' = Indices(j)
  BY <1>1, SameIndices
<1>6. NoFalseNegatives'
  BY <1>1, <1>2, <1>5 DEF IInv, NoFalseNegatives, might_contain
<1>7. StoredExact'
  BY <1>1, <1>5 DEF IInv, StoredExact
<1> QED
  BY <1>1, <1>4, <1>6, <1>7 DEF IInv, ArrayFits, StoredFits, ReloadAccepted, byte_size

LEMMA SerializeInv ==
    ASSUME IInv, serialize
    PROVE  IInv'
<1> USE DEF serialize, hashes, filter
<1>1. UNCHANGED <<h1, h2, num_bits, num_hashes, bits, bytes, damage, added, intact>>
  OBVIOUS
<1>2. TypeOK'
  BY <1>1 DEF IInv, TypeOK
<1>3. StoredFits'
  <2>1. bytes \in Nat /\ bits \subseteq 0 .. 8 * bytes - 1
    BY DEF IInv, TypeOK
  <2>2. \A b \in bits : b \in Nat /\ HeaderSize + b \div 8 < HeaderSize + bytes
    BY <2>1 DEF HeaderSize
  <2>3. HeaderSize + bytes \in Int /\ num_bits \in 0 .. Word - 1 /\ num_hashes \in Nat
    BY <2>1, Sizes DEF IInv, TypeOK, HeaderSize
  <2> QED
    BY <2>2, <2>3 DEF StoredFits
<1>4. \A j : Indices(j)' = Indices(j)
  BY <1>1, SameIndices
<1>5. StoredExact'
  BY <1>1, <1>4 DEF IInv, StoredExact, NoFalseNegatives, might_contain
<1>6. NoFalseNegatives'
  BY <1>1, <1>4 DEF IInv, NoFalseNegatives, might_contain
<1> QED
  BY <1>1, <1>2, <1>3, <1>5, <1>6 DEF IInv, ArrayFits, ReloadAccepted, byte_size

\* A buffer that decayed no longer counts as intact, and its bits still lie
\* between its header and its end.
LEMMA RotInv ==
    ASSUME IInv, Rot
    PROVE  IInv'
<1>1. PICK new : /\ Damage(new)
                 /\ new \in DamagedHeader \cup DamagedBits \cup DamagedNumBits
                             \cup DamagedNumHashes \cup Truncated
  BY DEF Rot
<1> USE DEF hashes, filter
<1>2. /\ UNCHANGED <<h1, h2, num_bits, num_hashes, bits, bytes, storedKeys, added>>
      /\ UNCHANGED <<intact, outcome>>
      /\ stored' = new /\ storedOK' = FALSE
  BY <1>1 DEF Damage
<1>3. TypeOK'
  BY <1>1, <1>2, BloomAssumption DEF IInv, TypeOK, Damage
<1>4. StoredFits'
  <2> USE DEF StoredFits, IInv
  <2>1. CASE new \in DamagedHeader
    BY <1>2, <2>1 DEF DamagedHeader
  <2>2. CASE new \in DamagedBits
    BY <1>2, <2>2 DEF DamagedBits
  <2>3. CASE new \in DamagedNumBits
    BY <1>2, <2>3 DEF DamagedNumBits
  <2>4. CASE new \in DamagedNumHashes
    BY <1>2, <2>4 DEF DamagedNumHashes
  <2>5. CASE new \in Truncated
    <3>1. PICK n \in HeaderSize - 1 .. stored.size - 1 :
             new = [stored EXCEPT !.size = n,
                                  !.bits = {b \in @ : HeaderSize + b \div 8 < n}]
      BY <2>5 DEF Truncated
    <3>2. n \in Int
      BY DEF HeaderSize
    <3>3. /\ new.size = n /\ new.bits = {b \in stored.bits : HeaderSize + b \div 8 < n}
          /\ new \in [size : Int, header : BOOLEAN, num_bits : 0 .. Word - 1,
                      num_hashes : Nat, bits : SUBSET Nat]
      BY <3>1, <3>2
    <3> QED
      BY <1>2, <3>3
  <2> QED
    BY <1>1, <2>1, <2>2, <2>3, <2>4, <2>5
<1>5. \A j : Indices(j)' = Indices(j)
  BY <1>2, SameIndices
<1>6. NoFalseNegatives'
  BY <1>2, <1>5 DEF IInv, NoFalseNegatives, might_contain
<1> QED
  BY <1>2, <1>3, <1>4, <1>6
     DEF IInv, ArrayFits, StoredExact, ReloadAccepted, byte_size

\* Deserialize finds every count of an undamaged buffer acceptable.
LEMMA DeserializeThrowsInv ==
    ASSUME IInv, DeserializeThrows
    PROVE  IInv'
<1> USE DEF DeserializeThrows, hashes, filter, disk
<1>1. /\ UNCHANGED <<h1, h2, num_bits, num_hashes, bits, bytes, added, intact>>
      /\ UNCHANGED <<stored, storedOK, storedKeys, damage>>
      /\ outcome' = "threw"
  OBVIOUS
<1>2. ~storedOK
  <2> SUFFICES ASSUME storedOK
               PROVE  ~Refused
    OBVIOUS
  <2>1. /\ stored.header /\ stored.num_bits = num_bits /\ stored.num_hashes = num_hashes
        /\ stored.size = HeaderSize + bytes
    BY DEF IInv, StoredExact
  <2>2. num_bits \in Nat /\ num_bits # 0 /\ num_hashes # 0 /\ bytes \in Nat
    BY Sizes DEF IInv, TypeOK
  <2>3. bytes = Needed(num_bits)
    BY <2>2, Sizes DEF IInv, ArrayFits
  <2> QED
    BY <2>1, <2>2, <2>3 DEF Refused, HeaderSize
<1>3. \A j : Indices(j)' = Indices(j)
  BY <1>1, SameIndices
<1>4. TypeOK'
  BY <1>1 DEF IInv, TypeOK
<1>5. StoredFits' /\ StoredExact' /\ ArrayFits'
  BY <1>1, <1>3 DEF IInv, StoredFits, StoredExact, ArrayFits, byte_size
<1>6. NoFalseNegatives'
  BY <1>1, <1>3 DEF IInv, NoFalseNegatives, might_contain
<1> QED
  BY <1>1, <1>2, <1>4, <1>5, <1>6 DEF IInv, ReloadAccepted

LEMMA DeserializeInv ==
    ASSUME IInv, Deserialize
    PROVE  IInv'
<1> USE DEF Deserialize, hashes, disk
<1>1. /\ UNCHANGED <<h1, h2, stored, storedOK, storedKeys, damage>>
      /\ num_bits' = stored.num_bits /\ num_hashes' = stored.num_hashes
      /\ bytes' = Needed(stored.num_bits) /\ bits' = stored.bits
      /\ added' = storedKeys /\ intact' = storedOK /\ outcome' = "accepted"
  OBVIOUS
<1>2. /\ stored.num_bits \in 1 .. Word - 1 /\ stored.num_hashes \in Nat \ {0}
      /\ stored.size = HeaderSize + Needed(stored.num_bits)
      /\ stored.num_bits \in Nat
      /\ stored.bits \subseteq Nat
  BY Sizes DEF IInv, StoredFits, Refused
<1>3. Needed(stored.num_bits) \in Nat /\ Needed(stored.num_bits) = byte_size(stored.num_bits)
  BY <1>2, Sizes
<1>4. stored.bits \subseteq 0 .. 8 * Needed(stored.num_bits) - 1
  <2> SUFFICES ASSUME NEW b \in stored.bits
               PROVE  b \in 0 .. 8 * Needed(stored.num_bits) - 1
    OBVIOUS
  <2>1. HeaderSize + b \div 8 < HeaderSize + Needed(stored.num_bits) /\ b \in Nat
    BY <1>2 DEF IInv, StoredFits
  <2> QED
    BY <2>1, <1>3 DEF HeaderSize
<1>5. TypeOK'
  BY <1>1, <1>2, <1>3, <1>4 DEF IInv, TypeOK
<1>6. ArrayFits' /\ StoredFits'
  BY <1>1, <1>3 DEF IInv, ArrayFits, StoredFits, byte_size
<1>7. storedOK => /\ UNCHANGED <<h1, h2, num_bits, num_hashes>>
                  /\ \A k \in storedKeys : Indices(k)' \subseteq stored.bits
  <2> SUFFICES ASSUME storedOK
               PROVE  /\ UNCHANGED <<h1, h2, num_bits, num_hashes>>
                      /\ \A k \in storedKeys : Indices(k)' \subseteq stored.bits
    OBVIOUS
  <2>1. UNCHANGED <<h1, h2, num_bits, num_hashes>>
    BY <1>1 DEF IInv, StoredExact
  <2>2. \A j : Indices(j)' = Indices(j)
    BY <2>1, SameIndices
  <2> QED
    BY <2>1, <2>2 DEF IInv, StoredExact
<1>8. StoredExact'
  BY <1>1, <1>2, <1>7 DEF IInv, StoredExact
<1>9. NoFalseNegatives'
  BY <1>1, <1>2, <1>7 DEF NoFalseNegatives, might_contain
<1> QED
  BY <1>1, <1>5, <1>6, <1>8, <1>9 DEF IInv, ReloadAccepted

LEMMA NextInv == IInv /\ [Next]_vars => IInv'
<1> SUFFICES ASSUME IInv, [Next]_vars
             PROVE  IInv'
  OBVIOUS
<1>1. ASSUME NEW k \in Key, add(k)
      PROVE  IInv'
  BY <1>1, AddInv
<1>2. CASE serialize
  BY <1>2, SerializeInv
<1>3. CASE Deserialize
  BY <1>3, DeserializeInv
<1>4. CASE DeserializeThrows
  BY <1>4, DeserializeThrowsInv
<1>5. CASE Rot
  BY <1>5, RotInv
<1>6. CASE UNCHANGED vars
  <2>1. \A j : Indices(j)' = Indices(j)
    BY <1>6, SameIndices DEF vars, hashes, filter
  <2> QED
    BY <1>6, <2>1 DEF vars, hashes, filter, disk, IInv, TypeOK, ArrayFits, StoredFits,
                      StoredExact, NoFalseNegatives, might_contain, ReloadAccepted, byte_size
<1> QED
  BY <1>1, <1>2, <1>3, <1>4, <1>5, <1>6 DEF Next

-----------------------------------------------------------------------------
(* Theorems. *)

\* The invariant holds in every reachable state.
THEOREM Invariant == Spec => []IInv
BY InitInv, NextInv, PTL DEF Spec

\* A filter has at least one bit and one hash, and its set bits lie in its
\* array, whatever buffer it was loaded from (lines 286-318).
THEOREM TypeCorrect == Spec => []TypeOK
<1>1. IInv => TypeOK
  BY DEF IInv
<1> QED
  BY <1>1, Invariant, PTL

\* set_bit and get_bit stay inside bits_ (lines 171-184), also in a filter
\* loaded from a buffer whose counts were damaged, unless num_bits + 7 wraps.
THEOREM BoundsCorrect == Spec => []InBounds
<1>1. IInv => InBounds
  BY InsideArray DEF IInv, InBounds
<1> QED
  BY <1>1, Invariant, PTL

\* might_contain() never denies a key that was added (lines 213-254), before,
\* across or after storing and loading the filter.
THEOREM MembershipCorrect == Spec => []NoFalseNegatives
<1>1. IInv => NoFalseNegatives
  BY DEF IInv
<1> QED
  BY <1>1, Invariant, PTL

\* Deserialize never throws on what serialize() wrote (lines 256-318).
THEOREM ReloadCorrect == Spec => []ReloadAccepted
<1>1. IInv => ReloadAccepted
  BY DEF IInv
<1> QED
  BY <1>1, Invariant, PTL

-----------------------------------------------------------------------------
(* How the positions spread. *)

Divides(m, x) == \E q \in Int : x = q * m

\* Division with remainder.
LEMMA Remainder ==
    ASSUME NEW a \in Nat, NEW m \in Nat \ {0}
    PROVE  a % m \in Nat /\ \E q \in Int : a = q * m + (a % m)
<1>1. a % m \in Nat /\ a \div m \in Int
  OBVIOUS
<1>2. a = (a \div m) * m + (a % m)
  OBVIOUS
<1> QED
  BY <1>1, <1>2

\* A number below m that m divides is 0.
LEMMA SmallMultiple ==
    ASSUME NEW m \in Nat \ {0}, NEW d \in Nat, d < m, Divides(m, d)
    PROVE  d = 0
<1>1. PICK q \in Int : d = q * m
  BY DEF Divides
<1>2. q * m < m /\ -m < q * m
  BY <1>1
<1>3. q = 0
  BY <1>2
<1> QED
  BY <1>1, <1>3

LEMMA EvenOrOdd ==
    \A d \in Int : \E c \in Int : d = 2 * c \/ d = 2 * c + 1
<1> TAKE d \in Int
<1>1. d \div 2 \in Int /\ (d = 2 * (d \div 2) \/ d = 2 * (d \div 2) + 1)
  OBVIOUS
<1> QED
  BY <1>1

\* An odd factor can be cancelled from a multiple of a power of two.
LEMMA OddCancels ==
    ASSUME NEW t \in Int
    PROVE  \A e \in 0 .. WordBits : \A d \in Int :
               Divides(Pow2[e], d * (2 * t + 1)) => Divides(Pow2[e], d)
<1> DEFINE s == 2 * t + 1
           S == {e \in Nat : e <= WordBits =>
                    \A d \in Int : Divides(Pow2[e], d * s) => Divides(Pow2[e], d)}
<1>0. WordBits \in Nat
  BY BloomAssumption
<1>1. 0 \in S
  <2>1. ASSUME NEW d \in Int
        PROVE  Divides(Pow2[0], d)
    <3>1. d = d * Pow2[0]
      BY PowFacts
    <3> QED
      BY <3>1 DEF Divides
  <2> QED
    BY <2>1
<1>2. ASSUME NEW e \in Nat, e \in S
      PROVE  e + 1 \in S
  <2> SUFFICES ASSUME e + 1 <= WordBits, NEW d \in Int, Divides(Pow2[e + 1], d * s)
               PROVE  Divides(Pow2[e + 1], d)
    OBVIOUS
  <2>1. e \in 0 .. WordBits /\ e + 1 \in 1 .. WordBits /\ (e + 1) - 1 = e
    BY <1>0
  <2>2. PICK P \in Nat : P = Pow2[e]
    BY <2>1, PowFacts
  <2>3. Pow2[e + 1] = 2 * P
    BY <2>1, <2>2, PowFacts
  <2>4. PICK q \in Int : d * s = q * (2 * P)
    BY <2>3 DEF Divides
  <2>5. PICK c \in Int : d = 2 * c \/ d = 2 * c + 1
    BY EvenOrOdd
  <2>6. d = 2 * c
    <3> SUFFICES ASSUME d = 2 * c + 1
                 PROVE  FALSE
      BY <2>5
    <3>1. q * P \in Int /\ q * (2 * P) = 2 * (q * P)
      OBVIOUS
    <3>2. \A x \in Int : (2 * c + 1) * (2 * t + 1) # 2 * x
      OBVIOUS
    <3> QED
      BY <2>4, <3>1, <3>2
  <2>7. c * s = q * P
    <3>1. (2 * c) * s = 2 * (c * s) /\ q * (2 * P) = 2 * (q * P)
      OBVIOUS
    <3>2. c * s \in Int /\ q * P \in Int
      OBVIOUS
    <3>3. 2 * (c * s) = 2 * (q * P)
      BY <2>4, <2>6, <3>1
    <3> QED
      BY <3>2, <3>3
  <2>8. Divides(Pow2[e], c)
    <3>1. Divides(Pow2[e], c * s)
      BY <2>2, <2>7 DEF Divides
    <3> HIDE DEF s
    <3> QED
      BY <1>2, <2>1, <3>1
  <2>9. PICK p \in Int : c = p * P
    BY <2>2, <2>8 DEF Divides
  <2>10. d = p * (2 * P)
    BY <2>6, <2>9
  <2> QED
    BY <2>3, <2>10 DEF Divides
<1>3. \A e \in Nat : e \in S
  <2> HIDE DEF S
  <2> QED
    BY <1>1, <1>2, NatInduct
<1> QED
  BY <1>0, <1>3

\* The size of a word is a multiple of every smaller power of two.
LEMMA WordMultiple ==
    \A e \in 0 .. WordBits : Divides(Pow2[e], Word)
<1> DEFINE S == {c \in Nat : c <= WordBits => Divides(Pow2[WordBits - c], Word)}
<1>0. WordBits \in Nat
  BY BloomAssumption
<1>1. 0 \in S
  <2>1. WordBits - 0 = WordBits /\ Word = 1 * Word
    BY <1>0, PowFacts
  <2> QED
    BY <2>1 DEF Divides, Word
<1>2. ASSUME NEW c \in Nat, c \in S
      PROVE  c + 1 \in S
  <2> SUFFICES ASSUME c + 1 <= WordBits
               PROVE  Divides(Pow2[WordBits - (c + 1)], Word)
    OBVIOUS
  <2>1. /\ WordBits - c \in 1 .. WordBits /\ WordBits - (c + 1) \in 0 .. WordBits
        /\ (WordBits - c) - 1 = WordBits - (c + 1) /\ c <= WordBits
    BY <1>0
  <2>2. PICK P \in Nat : P = Pow2[WordBits - (c + 1)]
    BY <2>1, PowFacts
  <2>3. Pow2[WordBits - c] = 2 * P
    BY <2>1, <2>2, PowFacts
  <2>4. PICK q \in Int : Word = q * (2 * P)
    BY <1>2, <2>1, <2>3 DEF Divides
  <2>5. Word = (2 * q) * P /\ 2 * q \in Int
    BY <2>4
  <2> QED
    BY <2>2, <2>5 DEF Divides
<1>3. \A c \in Nat : c \in S
  <2> HIDE DEF S
  <2> QED
    BY <1>1, <1>2, NatInduct
<1>4. ASSUME NEW e \in 0 .. WordBits
      PROVE  Divides(Pow2[e], Word)
  <2>1. WordBits - e \in S /\ WordBits - e <= WordBits /\ WordBits - (WordBits - e) = e
    BY <1>0, <1>3
  <2> QED
    BY <2>1
<1> QED
  BY <1>4

\* The step is odd, although 2 * h2 wraps.
LEMMA StepOdd ==
    ASSUME TypeOK, NEW k \in Key
    PROVE  \E t \in Int : step(k) = 2 * t + 1
<1>1. h2[k] \in Nat /\ Word \in Nat \ {0}
  BY PositionsFacts, PowFacts
<1>2. PICK w \in Nat : Word = 2 * w
  <2>1. WordBits \in 1 .. WordBits /\ WordBits - 1 \in 0 .. WordBits
    BY BloomAssumption
  <2> QED
    BY <2>1, PowFacts DEF Word
<1>3. PICK q \in Int : 2 * h2[k] = q * Word + ((2 * h2[k]) % Word)
  <2>1. 2 * h2[k] \in Nat
    BY <1>1
  <2> QED
    BY <1>1, <2>1, Remainder
<1>4. PICK h \in Nat, r \in Nat : h = h2[k] /\ r = (2 * h2[k]) % Word
  BY <1>1, Remainder
<1>5. r = 2 * (h - q * w)
  <2>1. 2 * h = q * (2 * w) + r
    BY <1>2, <1>3, <1>4
  <2> QED
    BY <2>1
<1>6. step(k) = r + 1
  BY <1>4 DEF step
<1>7. h - q * w \in Int
  OBVIOUS
<1> QED
  BY <1>5, <1>6, <1>7

\* Up to multiples of the number of bits, the n-th position is n steps away.
LEMMA WalkCongruent ==
    ASSUME NEW a \in Nat, NEW s \in Nat, NEW m \in Nat \ {0}, NEW c \in Nat, NEW f,
           Walk(f, a, s, m, c), Divides(m, Word),
           \A n \in 0 .. c - 1 : f[n] \in Nat
    PROVE  \A n \in 0 .. c - 1 : Divides(m, f[n] - (a + n * s))
<1> DEFINE S == {n \in Nat : n < c => Divides(m, f[n] - (a + n * s))}
<1>0. Word \in Nat \ {0}
  BY PowFacts
<1>1. 0 \in S
  <2> SUFFICES ASSUME 0 < c
               PROVE  Divides(m, f[0] - (a + 0 * s))
    OBVIOUS
  <2>1. f[0] = a % m
    BY DEF Walk
  <2>2. PICK q \in Int : a = q * m + (a % m)
    BY Remainder
  <2>3. a % m \in Nat
    BY Remainder
  <2>4. (a % m) - (a + 0 * s) = (-q) * m /\ -q \in Int
    BY <2>2, <2>3
  <2> QED
    BY <2>1, <2>4 DEF Divides
<1>2. ASSUME NEW n \in Nat, n \in S
      PROVE  n + 1 \in S
  <2> SUFFICES ASSUME n + 1 < c
               PROVE  Divides(m, f[n + 1] - (a + (n + 1) * s))
    OBVIOUS
  <2>1. n \in 0 .. c - 1 /\ n + 1 \in 0 .. c - 1 /\ n + 1 # 0 /\ (n + 1) - 1 = n
    OBVIOUS
  <2>2. PICK x \in Nat : x = f[n]
    BY <2>1
  <2>3. PICK y \in Nat, q \in Int : y = (x + s) % Word /\ x + s = q * Word + y
    <3>1. x + s \in Nat
      OBVIOUS
    <3> QED
      BY <1>0, <3>1, Remainder
  <2>4. PICK z \in Nat, r \in Int : z = y % m /\ y = r * m + z
    BY Remainder
  <2>5. f[n + 1] = z
    BY <2>1, <2>2, <2>3, <2>4 DEF Walk
  <2>6. PICK u \in Int : Word = u * m
    BY DEF Divides
  <2>7. PICK p \in Int : x - (a + n * s) = p * m
    BY <1>2, <2>1, <2>2 DEF Divides
  <2>8. z - (a + (n + 1) * s) = (p - q * u - r) * m
    <3>1. (n + 1) * s = n * s + s /\ n * s \in Int
      OBVIOUS
    <3>2. /\ (p - q * u - r) * m = p * m - q * (u * m) - r * m
          /\ p * m \in Int /\ q * (u * m) \in Int /\ r * m \in Int
      OBVIOUS
    <3>3. x + s = q * (u * m) + (r * m + z)
      BY <2>3, <2>4, <2>6
    <3> QED
      BY <2>7, <3>1, <3>2, <3>3
  <2>9. p - q * u - r \in Int
    OBVIOUS
  <2> QED
    BY <2>5, <2>8, <2>9 DEF Divides
<1>3. \A n \in Nat : n \in S
  <2> HIDE DEF S
  <2> QED
    BY <1>1, <1>2, NatInduct
<1> QED
  BY <1>3

\* The positions of a key are all different when the number of bits is a power
\* of two that is not below the number of hashes.
LEMMA Spread ==
    ASSUME TypeOK, NEW k \in Key, NEW e \in 0 .. WordBits - 1,
           num_bits = Pow2[e], num_hashes <= num_bits
    PROVE  Cardinality(Indices(k)) = num_hashes
<1> DEFINE f == positions(k)
           D == 0 .. num_hashes - 1
<1>1. /\ h1[k] \in Nat /\ step(k) \in Nat /\ num_bits \in Nat \ {0} /\ num_hashes \in Nat
      /\ Walk(f, h1[k], step(k), num_bits, num_hashes)
      /\ DOMAIN f = D /\ \A n \in D : f[n] \in Nat
  BY PositionsFacts
<1>2. e \in 0 .. WordBits
  BY BloomAssumption
<1>3. \A n \in D : Divides(num_bits, f[n] - (h1[k] + n * step(k)))
  <2>1. Divides(num_bits, Word)
    BY <1>2, WordMultiple
  <2> HIDE DEF f
  <2> QED
    BY <1>1, <2>1, WalkCongruent
<1>4. PICK t \in Int : step(k) = 2 * t + 1
  BY StepOdd
<1>5. ASSUME NEW i \in D, NEW j \in D, i < j
      PROVE  f[i] # f[j]
  <2> SUFFICES ASSUME f[i] = f[j]
               PROVE  FALSE
    OBVIOUS
  <2>1. PICK m \in Nat \ {0}, a \in Nat, s \in Nat, x \in Nat :
           m = num_bits /\ a = h1[k] /\ s = step(k) /\ x = f[i] /\ x = f[j]
    BY <1>1
  <2>2. PICK p \in Int : x - (a + i * s) = p * m
    BY <1>3, <2>1 DEF Divides
  <2>3. PICK q \in Int : x - (a + j * s) = q * m
    BY <1>3, <2>1 DEF Divides
  <2>4. i \in Nat /\ j \in Nat /\ j - i \in Nat /\ j - i # 0 /\ j - i < m
    BY <1>1, <1>5, <2>1
  <2>5. (j - i) * s = (p - q) * m
    <3>1. (j - i) * s = j * s - i * s /\ j * s \in Int /\ i * s \in Int
      BY <2>4
    <3>2. (p - q) * m = p * m - q * m /\ p * m \in Int /\ q * m \in Int
      OBVIOUS
    <3> QED
      BY <2>2, <2>3, <3>1, <3>2
  <2>6. Divides(m, (j - i) * s)
    <3>1. p - q \in Int
      OBVIOUS
    <3> QED
      BY <2>5, <3>1 DEF Divides
  <2>7. Divides(m, j - i)
    <3>1. j - i \in Int
      BY <2>4
    <3>2. Divides(Pow2[e], (j - i) * (2 * t + 1))
      BY <1>4, <2>1, <2>6
    <3> QED
      BY <1>2, <2>1, <3>1, <3>2, OddCancels
  <2> QED
    BY <2>4, <2>7, SmallMultiple
<1>6. \A i, j \in D : f[i] = f[j] => i = j
  <2> TAKE i, j \in D
  <2>1. i < j \/ j < i \/ i = j
    BY <1>1
  <2> QED
    BY <1>5, <2>1
<1>7. Indices(k) = {f[n] : n \in D}
  BY <1>1 DEF Indices
<1>8. f = [n \in D |-> f[n]]
  BY <1>1 DEF Walk
<1> HIDE DEF f, D
<1>9. f \in Bijection(D, Indices(k))
  BY <1>6, <1>7, <1>8 DEF Bijection, Injection, Surjection, IsInjective
<1>10. ExistsBijection(D, Indices(k))
  BY <1>9 DEF ExistsBijection
<1>11. IsFiniteSet(D) /\ Cardinality(D) = num_hashes
  <2>1. 0 \in Int /\ num_hashes - 1 \in Int
    BY <1>1
  <2>2. /\ IsFiniteSet(0 .. num_hashes - 1)
        /\ Cardinality(0 .. num_hashes - 1) =
              IF 0 > num_hashes - 1 THEN 0 ELSE (num_hashes - 1) - 0 + 1
    BY <2>1, FS_Interval
  <2> QED
    BY <1>1, <2>2 DEF D
<1> QED
  BY <1>10, <1>11, FS_Bijection

\* Every key has num_hashes different positions when num_bits is a power of two
\* that is large enough, whatever the hashes are and however their sum wraps
\* (lines 194-206).
THEOREM SpreadCorrect == Spec => []PositionsSpread
<1>1. ASSUME IInv
      PROVE  PositionsSpread
  <2>1. TypeOK
    BY <1>1 DEF IInv
  <2> QED
    BY <2>1, Spread DEF PositionsSpread
<1> QED
  BY <1>1, Invariant, PTL
=============================================================================
