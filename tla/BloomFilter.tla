---------------------------- MODULE BloomFilter -----------------------------
(***************************************************************************)
(* The Bloom filter, src/src/common/bloom_filter.cpp, stored and loaded    *)
(* again.                                                                  *)
(*                                                                         *)
(* Hash64 is any function of the key: the two seeds give two functions,    *)
(* fixed from the start.  The floating-point sizing is reduced to what it  *)
(* guarantees, at least one bit and one hash.  Machine words have WordBits *)
(* bits and wrap; bytes have eight.  The bit array is the set of the       *)
(* indices of its 1 bits together with its length in bytes.                *)
(***************************************************************************)
EXTENDS Integers, FiniteSets

CONSTANTS Key,         \* keys
          WordBits,    \* width of std::uint64_t and std::size_t
          HashValue,   \* values Hash64 may take
          BitCounts,   \* results of the floating-point formula for m
          HashCounts,  \* results of the floating-point formula for k
          MaxDamage    \* bound on the damaged fields of a stored filter

\* Powers of two, in a form the proofs can unfold.
Pow2[e \in 0 .. WordBits] == IF e = 0 THEN 1 ELSE 2 * Pow2[e - 1]

Word == Pow2[WordBits]

ASSUME BloomAssumption ==
    /\ WordBits \in Nat /\ WordBits >= 4
    /\ HashValue \subseteq 0 .. Word - 1
    \* The array of a filter that was built fits in memory.
    /\ BitCounts \subseteq 0 .. Word - 8
    /\ HashCounts \subseteq Nat
    /\ MaxDamage \in Nat

VARIABLES h1, h2,                \* Hash64 with the two seeds
          num_bits, num_hashes,
          bits,                  \* bits_: indices of the bits that are set
          bytes,                 \* bits_.size()
          stored,                \* the last serialized buffer
          storedOK,              \* history: it is what serialize() returned
          storedKeys,            \* history: the keys added before serialize()
          damage,                \* history: number of damaged fields
          added,                 \* history: the keys in the filter
          intact,                \* history: the filter was built or loaded undamaged
          outcome                \* of the last Deserialize: "none", "accepted", "threw"

hashes == <<h1, h2>>
filter == <<num_bits, num_hashes, bits, bytes>>
disk == <<stored, storedOK, storedKeys, damage>>
vars == <<hashes, filter, disk, added, intact, outcome>>

-----------------------------------------------------------------------------
(* Construction. *)

Hash64 == [Key -> HashValue]

AtLeastOne(S) == {IF v = 0 THEN 1 ELSE v : v \in S}
OptimalNumBits == AtLeastOne(BitCounts)
OptimalNumHashes == AtLeastOne(HashCounts)

\* Mutant: the last, partial byte is forgotten.
byte_sizeDown(m) == m \div 8

byte_size(m) == ((m + 7) % Word) \div 8

HeaderSize == 24
NoBuffer == [size |-> 0, header |-> FALSE, num_bits |-> 0, num_hashes |-> 0, bits |-> {}]

Init == /\ h1 \in Hash64 /\ h2 \in Hash64
        /\ num_bits \in OptimalNumBits /\ num_hashes \in OptimalNumHashes
        /\ bits = {} /\ bytes = byte_size(num_bits)
        /\ stored = NoBuffer /\ storedOK = FALSE /\ storedKeys = {} /\ damage = 0
        /\ added = {} /\ intact = TRUE /\ outcome = "none"

-----------------------------------------------------------------------------
(* Positions. *)

\* Mutant: the step is not forced odd.
stepEven(k) == (2 * h2[k]) % Word

\* (h2 << 1) | 1
step(k) == ((2 * h2[k]) % Word) + 1

\* The sum wraps in its word before it is reduced.
positions(k) ==
    LET pos[n \in 0 .. num_hashes - 1] ==
            IF n = 0 THEN h1[k] % num_bits
                     ELSE ((pos[n - 1] + step(k)) % Word) % num_bits
    IN  pos

Indices(k) == {positions(k)[n] : n \in DOMAIN positions(k)}

\* Every position of k lies in bits_; outside it set_bit and get_bit are
\* undefined.
Inside(k) == \A b \in Indices(k) : b \div 8 < bytes

\* Mutant: the loop starts at 1 and leaves out position 0.
SetBitsShort(k) == {positions(k)[n] : n \in 1 .. num_hashes - 1}

SetBits(k) == Indices(k)

add(k) == /\ Inside(k)
          /\ bits' = IF num_bits = 0 THEN bits ELSE bits \cup SetBits(k)
          /\ added' = added \cup {k}
          /\ UNCHANGED <<hashes, num_bits, num_hashes, bytes, disk, intact, outcome>>

might_contain(k) == num_bits # 0 /\ Indices(k) \subseteq bits

-----------------------------------------------------------------------------
(* Storing and loading. *)

serialize == /\ stored' = [size |-> HeaderSize + bytes, header |-> TRUE,
                           num_bits |-> num_bits, num_hashes |-> num_hashes,
                           bits |-> bits]
             /\ storedOK' = intact
             /\ storedKeys' = added
             /\ outcome' = "none"
             /\ UNCHANGED <<hashes, filter, damage, added, intact>>

\* One field of the buffer changes on disk, or its end is lost.
Damage(new) == /\ damage < MaxDamage /\ new # stored
               /\ stored' = new
               /\ storedOK' = FALSE
               /\ damage' = damage + 1
               /\ UNCHANGED <<hashes, filter, storedKeys, added, intact, outcome>>

DamagedHeader == {[stored EXCEPT !.header = FALSE]}
DamagedBits == {[stored EXCEPT !.bits = @ \ {b}] : b \in stored.bits}
DamagedNumBits == {[stored EXCEPT !.num_bits = m] : m \in 0 .. Word - 1}
DamagedNumHashes == {[stored EXCEPT !.num_hashes = n] : n \in 0 .. 3}
Truncated == {[stored EXCEPT !.size = n, !.bits = {b \in @ : HeaderSize + b \div 8 < n}] :
                 n \in HeaderSize - 1 .. stored.size - 1}

\* Mutant: the bytes needed are not rounded up like the constructor's.
NeededPlusOne(m) == m \div 8 + 1

Needed(m) == ((m + 7) % Word) \div 8

\* Mutant: the header's counts are not tested for zero.
RefusedNotZero == \/ stored.size < HeaderSize
                  \/ ~stored.header
                  \/ stored.size # HeaderSize + Needed(stored.num_bits)

\* Deserialize throws: truncated header, bad magic or version, invalid
\* parameters, size mismatch.
Refused == \/ stored.size < HeaderSize
           \/ ~stored.header
           \/ stored.num_bits = 0 \/ stored.num_hashes = 0
           \/ stored.size # HeaderSize + Needed(stored.num_bits)

DeserializeThrows == /\ Refused
                     /\ outcome' = "threw"
                     /\ UNCHANGED <<hashes, filter, disk, added, intact>>

Deserialize == /\ ~Refused
               /\ num_bits' = stored.num_bits
               /\ num_hashes' = stored.num_hashes
               /\ bytes' = Needed(stored.num_bits)
               /\ bits' = stored.bits
               /\ added' = storedKeys
               /\ intact' = storedOK
               /\ outcome' = "accepted"
               /\ UNCHANGED <<hashes, disk>>

-----------------------------------------------------------------------------
Rot == \/ \E b \in DamagedHeader : Damage(b)
       \/ \E b \in DamagedBits : Damage(b)
       \/ \E b \in DamagedNumBits : Damage(b)
       \/ \E b \in DamagedNumHashes : Damage(b)
       \/ \E b \in Truncated : Damage(b)

Next == \/ \E k \in Key : add(k)
        \/ serialize \/ Deserialize \/ DeserializeThrows
        \/ stored # NoBuffer /\ Rot

Spec == Init /\ [][Next]_vars
-----------------------------------------------------------------------------
(* Properties. *)

\* Type invariant.  A filter has at least one bit and one hash, whatever buffer
\* it was loaded from.
TypeOK ==
    /\ h1 \in Hash64 /\ h2 \in Hash64
    /\ num_bits \in 1 .. Word - 1 /\ num_hashes \in Nat \ {0}
    /\ bytes \in Nat /\ bits \subseteq 0 .. 8 * bytes - 1
    /\ added \subseteq Key /\ storedKeys \subseteq Key
    /\ damage \in 0 .. MaxDamage
    /\ outcome \in {"none", "accepted", "threw"}

\* No access leaves the bit array, in a filter that was built or in one that
\* was loaded from a buffer with damaged counts (lines 157, 171-184, 310-313), as long
\* as num_bits + 7 does not wrap in Deserialize.
InBounds == num_bits <= Word - 8 => \A k \in Key : Inside(k)

\* "Membership test with no false negatives" (line 241), for a filter under
\* construction, for one loaded from its buffer, and for keys added after that.
NoFalseNegatives == intact => \A k \in added : might_contain(k)

\* Deserialize takes back every buffer that serialize() wrote.
ReloadAccepted == outcome = "threw" => ~storedOK

\* The odd step does what the comment in lines 194-197 wants when the number
\* of bits is a power of two: the positions of a key are all different as long
\* as there are enough bits, although the sum wraps.
PositionsSpread ==
    \A k \in Key : num_bits \in {Pow2[e] : e \in 0 .. WordBits - 1} /\ num_hashes <= num_bits
                      => Cardinality(Indices(k)) = num_hashes

=============================================================================
