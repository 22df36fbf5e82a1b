-------------------------- MODULE DataBlockProofs ---------------------------
(***************************************************************************)
(* Proofs about the data block, for every set of keys and values, every    *)
(* restart_interval and any damage.                                        *)
(*                                                                         *)
(* Get() is right because of what the builder leaves behind and what the   *)
(* two loops keep.  The builder leaves entries that lie one after the      *)
(* other (Placed), with their fields, keys and values in the cells of the  *)
(* buffer (Laid), restart offsets that lead to entries with a full key and *)
(* deltas that extend the key before them (Compressed), and keys in order  *)
(* (Sorted).  While nothing but bytes of values has rotted, the reader     *)
(* finds all this in the stored block (IntactEntry).  The binary search    *)
(* and the scan keep the last entry of the key ahead of them (Searching),  *)
(* and the scan has the key before its position in hand (Scanning).        *)
(***************************************************************************)
EXTENDS DataBlock, SequenceTheorems, WellOrder

Bytes == Seq(Cell)

Entry == [key : Key, value : Value, off : Nat, shared : Nat]

\* Header, key and value of the largest entry of a block.
Unit == 3 + CHOOSE m \in 0 .. Word : /\ \A k \in Key, v \in Value : Len(k) + Len(v) <= m
                                     /\ MaxEntries * (m + 4) + 8 < Word

\* Where the n-th entry starts, the length of its value, and the offset behind it.
Off(n) == added[n].off
ValueLen(n) == Len(added[n].value)
End(n) == ValueAt(n) + ValueLen(n)

\* The size of the entries.
Area == IF Len(added) = 0 THEN 0 ELSE End(Len(added))

\* Types, and how far the phases of the block have got.
Typed ==
    /\ buffer \in Seq(Cell) /\ block \in Seq(Cell) /\ restarts \in Seq(Cell)
    /\ added \in Seq(Entry) /\ Len(added) <= MaxEntries
    /\ Len(restarts) \in 1 .. Len(added) + 1
    /\ last_key \in Key \cup {<<>>} /\ counter \in Nat /\ finished \in BOOLEAN
    /\ restart_interval \in Int /\ damage \in 0 .. MaxDamage
    /\ pc \in {"build", "open", "refused", "bsearch", "scan", "done", "faulted"}
    /\ pc # "build" => finished
    /\ pc \in {"open", "bsearch", "scan", "done", "faulted"} => TrailerFits
    /\ key \in Key \cup {<<>>} /\ lo \in Nat /\ hi \in Int
    /\ pc = "bsearch" => lo \in 1 .. num_restarts /\ hi \in lo .. num_restarts
    /\ pc = "scan" => lo \in 1 .. num_restarts /\ hi = lo
    /\ off \in Nat /\ prev_key \in Bytes /\ outside \in BOOLEAN
    /\ result \in [ret : BOOLEAN, val : Seq(Cell)]

\* The entries lie one after the other from 0 to Area, the trailer behind them.
Placed ==
    /\ Area \in Nat /\ Area <= Len(added) * Unit
    /\ Len(buffer) = IF finished THEN Area + Len(restarts) + 1 ELSE Area
    /\ Len(block) <= Len(buffer)
    /\ Len(added) > 0 => Off(1) = 0
    /\ \A n \in Entries : added[n].shared <= Len(KeyOf(n)) /\ End(n) <= Area
    /\ \A m, n \in Entries : m < n => End(m) <= Off(n)
    /\ \A n \in Entries : n + 1 \in Entries => Off(n + 1) = End(n)

\* What the cells of the n-th entry hold.
LaidEntry(n) ==
    /\ buffer[Off(n) + 1] = added[n].shared
    /\ buffer[Off(n) + 2] = Len(KeyOf(n)) - added[n].shared
    /\ buffer[Off(n) + 3] = ValueLen(n)
    /\ \A i \in 1 .. Len(KeyOf(n)) - added[n].shared :
           buffer[Off(n) + 3 + i] = KeyOf(n)[added[n].shared + i]
    /\ \A i \in 1 .. ValueLen(n) : buffer[ValueAt(n) + i] = added[n].value[i]

\* What the cells of the buffer hold.
Laid ==
    /\ \A n \in Entries : LaidEntry(n)
    /\ finished => /\ buffer[Len(buffer)] = Len(restarts)
                   /\ \A r \in 1 .. Len(restarts) : buffer[Area + r] = restarts[r]

\* A restart offset leads to a full key, and every other delta extends the key
\* before it.
Compressed ==
    /\ restarts[1] = 0
    /\ \A r \in 1 .. Len(restarts) : Len(added) > 0 =>
           \E n \in Entries : restarts[r] = Off(n) /\ added[n].shared = 0
    /\ \A n \in Entries :
           \/ added[n].shared = 0
           \/ /\ n > 1 /\ added[n].shared <= Len(KeyOf(n - 1))
              /\ \A j \in 1 .. added[n].shared : KeyOf(n - 1)[j] = KeyOf(n)[j]

\* Keys are in order.  Only the empty key may come more than once.
Sorted ==
    /\ last_key = IF Len(added) = 0 THEN <<>> ELSE KeyOf(Len(added))
    /\ \A m, n \in Entries : m < n => \/ Less(KeyOf(m), KeyOf(n))
                                      \/ KeyOf(m) = <<>> /\ KeyOf(n) = <<>>

\* The last entry with the key that Get() looks for.
Sought(n) == KeyOf(n) = key /\ \A m \in Entries : n < m => KeyOf(m) # key

\* It is ahead of the search and of the scan.
Searching ==
    pc \in {"bsearch", "scan"} /\ KeysIntact =>
        \A n \in Entries : Sought(n) =>
            /\ Restart(lo) <= Off(n)
            /\ hi < num_restarts => Off(n) < Restart(hi + 1)
            /\ pc = "scan" => off <= Off(n)

\* The scan has the key before its position in hand.
Scanning ==
    /\ KeysRebuilt
    /\ pc = "scan" => /\ Restart(lo) <= off
                      /\ off = Restart(lo) => prev_key = <<>>

\* The inductive invariant.
IInv == /\ Typed
        /\ Placed
        /\ Laid
        /\ Compressed
        /\ Sorted
        /\ Searching
        /\ Scanning
        /\ ReadsInside
        /\ GetExact

-----------------------------------------------------------------------------
(* Byte strings. *)

\* Bytes are integers, and strings have a length.
LEMMA ByteFacts ==
    ASSUME NEW a \in Bytes
    PROVE  /\ Len(a) \in Nat
           /\ \A n \in 1 .. Len(a) : a[n] \in Nat
           /\ Len(a) = 0 <=> a = <<>>
           /\ \A n \in 1 .. Len(a) : a[n] \in Cell
<1>1. a \in Seq(Cell)
  BY DEF Bytes
<1>2. Len(a) \in Nat /\ \A n \in 1 .. Len(a) : a[n] \in Cell
  BY <1>1, LenProperties, ElementOfSeq
<1>3. Len(a) = 0 <=> a = <<>>
  BY <1>1, EmptySeq
<1>4. Cell \subseteq Nat
  BY BlockAssumption DEF Cell
<1> QED
  BY <1>2, <1>3, <1>4, Zenon

\* Keys are strings, which operator< orders.
LEMMA BytesAreStrings == Bytes \subseteq Strings
<1>1. Cell \subseteq Nat
  BY BlockAssumption DEF Cell
<1> QED
  BY <1>1, SeqMonotonic DEF Bytes, Strings

\* SharedPrefix counts bytes that the two strings have in common.
LEMMA SharedPrefixFacts ==
    ASSUME NEW a \in Bytes, NEW b \in Bytes
    PROVE  /\ SharedPrefix(a, b) \in Nat
           /\ SharedPrefix(a, b) <= Len(a) /\ SharedPrefix(a, b) <= Len(b)
           /\ \A j \in 1 .. SharedPrefix(a, b) : a[j] = b[j]
<1> DEFINE Min == IF Len(a) <= Len(b) THEN Len(a) ELSE Len(b)
           Common == {m \in 0 .. Min : \A j \in 1 .. m : a[j] = b[j]}
           P(m) == /\ \A j \in 1 .. m : a[j] = b[j]
                   /\ m < Min => a[m + 1] # b[m + 1]
<1>1. Min \in Nat /\ Min <= Len(a) /\ Min <= Len(b)
  BY ByteFacts
<1> HIDE DEF Min
<1>2. PICK m \in Common : \A n \in Common : n <= m
  <2>1. Common \subseteq Nat /\ 0 \in Common /\ \A n \in Common : n <= Min
    BY <1>1
  <2> HIDE DEF Common
  <2> QED
    BY <1>1, <2>1, NatMax
<1>3. m \in 0 .. Min /\ P(m)
  <2>1. m \in 0 .. Min /\ \A j \in 1 .. m : a[j] = b[j]
    BY <1>2
  <2>2. ASSUME m < Min, a[m + 1] = b[m + 1]
        PROVE  FALSE
    <3>1. m + 1 \in Common
      BY <1>1, <2>1, <2>2
    <3> QED
      BY <1>1, <1>2, <2>1, <3>1
  <2> QED
    BY <2>1, <2>2
<1>4. SharedPrefix(a, b) = CHOOSE n \in 0 .. Min : P(n)
  BY DEF SharedPrefix, Min
<1> HIDE DEF P
<1>5. SharedPrefix(a, b) \in 0 .. Min /\ P(SharedPrefix(a, b))
  BY <1>3, <1>4
<1> QED
  BY <1>1, <1>5 DEF P

\* What prefix compression takes away, the previous key gives back.
LEMMA Rebuild ==
    ASSUME NEW a \in Bytes, NEW b \in Bytes, NEW m \in Nat, m <= Len(a), m <= Len(b),
           \A j \in 1 .. m : a[j] = b[j]
    PROVE  /\ SubSeq(b, m + 1, Len(b)) \in Bytes
           /\ SubSeq(a, 1, m) \in Bytes
           /\ Len(SubSeq(b, m + 1, Len(b))) = Len(b) - m
           /\ SubSeq(a, 1, m) \o SubSeq(b, m + 1, Len(b)) = b
<1> DEFINE p == SubSeq(a, 1, m)
           d == SubSeq(b, m + 1, Len(b))
<1>1. p \in Bytes /\ Len(p) = m /\ \A i \in 1 .. m : p[i] = a[i]
  <2>1. \A i \in 1 .. m : a[i] \in Cell
    BY ByteFacts
  <2>2. /\ p \in Seq(Cell)
        /\ Len(p) = IF 1 <= m THEN m - 1 + 1 ELSE 0
        /\ \A i \in 1 .. m - 1 + 1 : p[i] = a[1 + i - 1]
    <3> HIDE DEF p
    <3> QED
      BY <2>1, SubSeqProperties DEF p
  <2> QED
    BY <2>2 DEF Bytes
<1>2. d \in Bytes /\ Len(d) = Len(b) - m /\ \A i \in 1 .. Len(b) - m : d[i] = b[m + i]
  <2>1. Len(b) \in Nat /\ \A i \in m + 1 .. Len(b) : b[i] \in Cell
    BY ByteFacts
  <2>2. /\ d \in Seq(Cell)
        /\ Len(d) = IF m + 1 <= Len(b) THEN Len(b) - (m + 1) + 1 ELSE 0
        /\ \A i \in 1 .. Len(b) - (m + 1) + 1 : d[i] = b[m + 1 + i - 1]
    BY <2>1, SubSeqProperties
  <2>3. \A i \in 1 .. Len(b) - m : d[i] = b[m + i]
    <3> HIDE DEF d
    <3> TAKE i \in 1 .. Len(b) - m
    <3>1. i \in 1 .. Len(b) - (m + 1) + 1 /\ m + 1 + i - 1 = m + i
      BY <2>1
    <3> QED
      BY <2>2, <3>1
  <2> HIDE DEF d
  <2> QED
    BY <2>1, <2>2, <2>3 DEF Bytes
<1> HIDE DEF p, d
<1>3. /\ p \o d \in Bytes /\ Len(p \o d) = Len(b)
      /\ \A i \in 1 .. Len(b) : (p \o d)[i] = IF i <= m THEN p[i] ELSE d[i - m]
  BY <1>1, <1>2, ConcatProperties, ByteFacts DEF Bytes
<1>4. \A i \in 1 .. Len(b) : (p \o d)[i] = b[i]
  <2> TAKE i \in 1 .. Len(b)
  <2>1. CASE i <= m
    BY <1>1, <1>3, <2>1
  <2>2. CASE m < i
    <3>1. i - m \in 1 .. Len(b) - m /\ m + (i - m) = i /\ ~(i <= m)
      BY <2>2, ByteFacts
    <3> QED
      BY <1>2, <1>3, <3>1
  <2>3. Len(b) \in Nat
    BY ByteFacts
  <2>4. i \in Nat
    BY <2>3
  <2>5. i <= m \/ m < i
    BY <2>4
  <2> QED
    BY <2>1, <2>2, <2>5, Zenon
<1>5. p \o d = b
  BY <1>3, <1>4, SeqEqual DEF Bytes
<1> QED
  BY <1>1, <1>2, <1>5 DEF p, d

-----------------------------------------------------------------------------
\* A slice of a string.
LEMMA CutFacts ==
    ASSUME NEW a \in Seq(Cell), NEW m \in Nat, NEW n \in Nat, m <= n, n <= Len(a)
    PROVE  /\ SubSeq(a, m + 1, n) \in Seq(Cell)
           /\ Len(SubSeq(a, m + 1, n)) = n - m
           /\ \A i \in 1 .. n - m : SubSeq(a, m + 1, n)[i] = a[m + i]
<1> DEFINE d == SubSeq(a, m + 1, n)
<1>1. Len(a) \in Nat /\ \A i \in m + 1 .. n : a[i] \in Cell
  BY ByteFacts DEF Bytes
<1>2. /\ d \in Seq(Cell)
      /\ Len(d) = IF m + 1 <= n THEN n - (m + 1) + 1 ELSE 0
      /\ \A i \in 1 .. n - (m + 1) + 1 : d[i] = a[m + 1 + i - 1]
  BY <1>1, SubSeqProperties
<1> HIDE DEF d
<1>3. \A i \in 1 .. n - m : d[i] = a[m + i]
  <2> TAKE i \in 1 .. n - m
  <2>1. i \in 1 .. n - (m + 1) + 1 /\ m + 1 + i - 1 = m + i
    OBVIOUS
  <2> QED
    BY <1>2, <2>1
<1> QED
  BY <1>2, <1>3 DEF d

-----------------------------------------------------------------------------
(* The constants and the block. *)

LEMMA Constants ==
    /\ HeaderSize = 3 /\ MaxEntries \in Nat /\ MaxDamage \in Nat /\ Word \in Nat
    /\ Unit \in Nat /\ MaxEntries * (Unit + 1) + 8 < Word
    /\ \A k \in Key, v \in Value : 3 + Len(k) + Len(v) <= Unit
    /\ Key \subseteq Bytes /\ Value \subseteq Bytes /\ <<>> \in Bytes
    /\ Intervals \subseteq Int /\ Rot \subseteq Cell /\ Cell \subseteq Nat
<1> DEFINE P(m) == /\ \A k \in Key, v \in Value : Len(k) + Len(v) <= m
                   /\ MaxEntries * (m + 4) + 8 < Word
           M == CHOOSE m \in 0 .. Word : P(m)
<1>1. /\ Word \in Nat /\ MaxEntries \in Nat /\ MaxDamage \in Nat /\ Intervals \subseteq Int
      /\ Rot \subseteq Cell
  BY BlockAssumption
<1>2. \E m \in 0 .. Word : P(m)
  BY BlockAssumption
<1>3. M \in 0 .. Word /\ P(M)
  <2> HIDE DEF P
  <2> QED
    BY <1>2
<1>4. Unit = 3 + M
  BY DEF Unit
<1> HIDE DEF M
<1>5. Key \subseteq Bytes /\ Value \subseteq Bytes /\ <<>> \in Bytes
  BY BlockAssumption, EmptySeq DEF Bytes
<1>6. \A k \in Key, v \in Value : 3 + Len(k) + Len(v) <= Unit
  <2> TAKE k \in Key, v \in Value
  <2>1. Len(k) \in Nat /\ Len(v) \in Nat
    BY <1>5, ByteFacts
  <2> QED
    BY <1>1, <1>3, <1>4, <2>1
<1>7. Unit \in Nat /\ MaxEntries * (Unit + 1) + 8 < Word
  BY <1>1, <1>3, <1>4
<1>8. Cell \subseteq Nat
  BY <1>1 DEF Cell
<1> QED
  BY <1>1, <1>5, <1>6, <1>7, <1>8 DEF HeaderSize

\* The lengths of the builder's tables, and what they hold.
LEMMA TableFacts ==
    ASSUME Typed
    PROVE  /\ Len(added) \in Nat /\ Len(buffer) \in Nat /\ Len(block) \in Nat
           /\ Len(restarts) \in Nat /\ Len(restarts) >= 1 /\ Len(restarts) <= Len(added) + 1
           /\ \A r \in 1 .. Len(restarts) : restarts[r] \in Cell /\ restarts[r] \in Nat
           /\ \A p \in 1 .. Len(block) : block[p] \in Cell /\ block[p] \in Nat
<1>1. /\ buffer \in Seq(Cell) /\ block \in Seq(Cell) /\ restarts \in Seq(Cell)
      /\ added \in Seq(Entry) /\ Len(restarts) \in 1 .. Len(added) + 1
  BY DEF Typed
<1>2. /\ Len(added) \in Nat /\ Len(restarts) \in Nat /\ Len(buffer) \in Nat
      /\ Len(block) \in Nat
  BY <1>1, LenProperties
<1>3. /\ \A r \in 1 .. Len(restarts) : restarts[r] \in Cell
      /\ \A p \in 1 .. Len(block) : block[p] \in Cell
  BY <1>1, ElementOfSeq
<1>4. Cell \subseteq Nat
  BY Constants
<1>5. Len(restarts) >= 1 /\ Len(restarts) <= Len(added) + 1
  BY <1>1, <1>2
<1> QED
  BY <1>2, <1>3, <1>4, <1>5

\* The key, the value and the place of an entry.
LEMMA EntryFacts ==
    ASSUME Typed, Placed, NEW n \in Entries
    PROVE  /\ n \in Nat /\ n >= 1 /\ n <= Len(added) /\ Len(added) > 0
           /\ KeyOf(n) \in Key /\ KeyOf(n) \in Bytes /\ Len(KeyOf(n)) \in Nat
           /\ added[n].value \in Bytes /\ ValueLen(n) \in Nat
           /\ added[n].shared \in Nat /\ added[n].shared <= Len(KeyOf(n))
           /\ Off(n) \in Nat /\ ValueAt(n) \in Nat /\ End(n) \in Nat
           /\ ValueAt(n) = Off(n) + 3 + (Len(KeyOf(n)) - added[n].shared)
           /\ Off(n) + 3 <= ValueAt(n) /\ ValueAt(n) <= End(n)
           /\ End(n) <= Area /\ Area \in Nat
<1>1. added \in Seq(Entry) /\ Len(added) \in Nat
  BY TableFacts DEF Typed
<1>2. n \in Nat /\ n >= 1 /\ n <= Len(added)
  BY <1>1 DEF Entries
<1>3. added[n] \in Entry
  BY <1>1, ElementOfSeq DEF Entries
<1>4. /\ KeyOf(n) \in Key /\ added[n].value \in Value
      /\ Off(n) \in Nat /\ added[n].shared \in Nat
  BY <1>3 DEF KeyOf, Off, Entry
<1>5. KeyOf(n) \in Bytes /\ added[n].value \in Bytes
  BY <1>4, Constants
<1>6. Len(KeyOf(n)) \in Nat /\ ValueLen(n) \in Nat
  BY <1>5, ByteFacts DEF ValueLen
<1>7. added[n].shared <= Len(KeyOf(n)) /\ End(n) <= Area /\ Area \in Nat
  BY DEF Placed
<1>8. PICK o, k, s \in Nat : o = Off(n) /\ k = Len(KeyOf(n)) /\ s = added[n].shared
  BY <1>4, <1>6
<1>9. ValueAt(n) = o + 3 + k - s
  BY <1>8, Constants DEF ValueAt, Off
<1>10. /\ ValueAt(n) \in Nat /\ ValueAt(n) = o + 3 + (k - s) /\ o + 3 <= ValueAt(n)
  BY <1>7, <1>8, <1>9
<1>11. End(n) \in Nat /\ ValueAt(n) <= End(n)
  BY <1>6, <1>10 DEF End
<1> QED
  BY <1>1, <1>2, <1>4, <1>5, <1>6, <1>7, <1>8, <1>10, <1>11

\* A block is smaller than the word its offsets are stored in.
LEMMA BlockBelowWord ==
    ASSUME Typed, Placed
    PROVE  /\ Area \in Nat /\ Area + Len(restarts) + 6 < Word
           /\ Len(block) + 5 < Word
<1>1. /\ Len(added) \in Nat /\ Len(added) <= MaxEntries
      /\ Area \in Nat /\ Area <= Len(added) * Unit
      /\ Len(restarts) \in Nat /\ Len(restarts) <= Len(added) + 1
  BY TableFacts DEF Typed, Placed
<1>2. Len(added) * Unit + Len(added) <= MaxEntries * (Unit + 1)
  <2>1. \A a, b, c \in Nat : a <= b => a * c + a <= b * (c + 1)
    OBVIOUS
  <2> QED
    BY <1>1, <2>1, Constants
<1>3. Len(added) * Unit \in Nat /\ MaxEntries * (Unit + 1) \in Nat
  BY <1>1, Constants
<1>4. Area + Len(restarts) + 6 < Word
  BY <1>1, <1>2, <1>3, Constants
<1>5. Len(block) <= Area + Len(restarts) + 1 /\ Len(block) \in Nat
  BY <1>1, TableFacts DEF Placed
<1> QED
  BY <1>1, <1>4, <1>5, Constants

\* Offsets tell entries apart.
LEMMA OffsetFacts ==
    ASSUME Typed, Placed, NEW m \in Entries, NEW n \in Entries
    PROVE  /\ Off(m) = Off(n) => m = n
           /\ Off(m) <= Off(n) => m <= n
           /\ m <= n => Off(m) <= Off(n)
           /\ m < n => Off(m) < Off(n)
<1>1. /\ m \in Nat /\ n \in Nat /\ Off(m) \in Nat /\ Off(n) \in Nat
      /\ Off(m) < End(m) /\ Off(n) < End(n) /\ End(m) \in Nat /\ End(n) \in Nat
  BY EntryFacts
<1>2. m < n => End(m) <= Off(n)
  BY DEF Placed
<1>3. n < m => End(n) <= Off(m)
  BY DEF Placed
<1> QED
  BY <1>1, <1>2, <1>3

\* A 32-bit sum that does not wrap.
LEMMA SumBelowWord ==
    ASSUME NEW a \in Nat, a < Word
    PROVE  a % Word = a
BY Constants

-----------------------------------------------------------------------------
(* A stored block that lost no more than bytes of values. *)

\* The trailer and the headers and keys of the entries are as they were written.
LEMMA IntactCells ==
    ASSUME Typed, Placed, KeysIntact
    PROVE  /\ \A p \in 1 .. Len(buffer) : p > Area => block[p] = buffer[p]
           /\ \A n \in Entries : \A p \in Off(n) + 1 .. ValueAt(n) :
                  p \in 1 .. Len(buffer) => block[p] = buffer[p]
<1>1. ASSUME NEW p \in 1 .. Len(buffer), p > Area, block[p] # buffer[p]
      PROVE  FALSE
  <2>1. PICK n \in Entries : p \in ValueAt(n) + 1 .. ValueAt(n) + Len(added[n].value)
    BY <1>1 DEF KeysIntact
  <2>2. p <= End(n)
    BY <2>1, EntryFacts DEF End, ValueLen
  <2>3. End(n) <= Area /\ End(n) \in Nat /\ Area \in Nat /\ p \in Nat
    BY EntryFacts, TableFacts
  <2> QED
    BY <1>1, <2>2, <2>3
<1>2. ASSUME NEW n \in Entries, NEW p \in Off(n) + 1 .. ValueAt(n), p \in 1 .. Len(buffer),
             block[p] # buffer[p]
      PROVE  FALSE
  <2>1. PICK m \in Entries : p \in ValueAt(m) + 1 .. ValueAt(m) + Len(added[m].value)
    BY <1>2 DEF KeysIntact
  <2>2. /\ ValueAt(m) \in Nat /\ End(m) \in Nat /\ Off(m) \in Nat /\ m \in Nat
        /\ Off(m) + 3 <= ValueAt(m) /\ End(m) = ValueAt(m) + Len(added[m].value)
    BY EntryFacts DEF End, ValueLen
  <2>3. /\ ValueAt(n) \in Nat /\ End(n) \in Nat /\ Off(n) \in Nat /\ n \in Nat
        /\ ValueAt(n) <= End(n)
    BY EntryFacts
  <2>5. p \in ValueAt(m) + 1 .. End(m)
    BY <2>1, <2>2
  <2>4. /\ m < n => End(m) <= Off(n)
        /\ n < m => End(n) <= Off(m)
    BY DEF Placed
  <2> QED
    <3>1. /\ ValueAt(m) < p /\ p <= End(m) /\ Off(n) < p /\ p <= ValueAt(n) /\ p \in Nat
      BY <1>2, <2>2, <2>3, <2>5
    <3>2. ~(m < n)
      BY <2>2, <2>3, <2>4, <3>1
    <3>3. ~(n < m)
      BY <2>2, <2>3, <2>4, <3>1
    <3>4. m = n
      BY <2>2, <2>3, <3>2, <3>3
    <3> QED
      BY <2>3, <3>1, <3>4
<1> QED
  BY <1>1, <1>2

\* The constructor finds the restart table that Finish() wrote (lines 117-136).
LEMMA IntactTrailer ==
    ASSUME Typed, Placed, Laid, finished, KeysIntact
    PROVE  /\ TrailerFits /\ num_restarts = Len(restarts) /\ entries_size = Area
           /\ \A r \in 1 .. Len(restarts) : Restart(r) = restarts[r]
<1>1. PICK A \in Nat, R \in Nat : A = Area /\ R = Len(restarts) /\ R >= 1
  BY TableFacts DEF Placed
<1>2. Len(block) = A + R + 1 /\ Len(buffer) = A + R + 1
  BY <1>1 DEF KeysIntact, Placed
<1>3. \A p \in 1 .. A + R + 1 : p > A => block[p] = buffer[p]
  BY <1>1, <1>2, IntactCells
<1>4. block[A + R + 1] = R
  <2>1. buffer[A + R + 1] = R
    BY <1>1, <1>2 DEF Laid
  <2> QED
    BY <1>1, <1>3, <2>1
<1>5. num_restarts = R
  BY <1>2, <1>4 DEF num_restarts
<1>6. entries_size = A
  BY <1>1, <1>2, <1>5 DEF entries_size
<1>7. TrailerFits
  BY <1>1, <1>2, <1>5 DEF TrailerFits
<1>8. ASSUME NEW r \in 1 .. R
      PROVE  Restart(r) = restarts[r]
  <2>1. buffer[A + r] = restarts[r]
    BY <1>1 DEF Laid
  <2>2. A + r \in 1 .. A + R + 1 /\ A + r > A
    BY <1>1
  <2> QED
    BY <1>3, <1>6, <2>1, <2>2 DEF Restart
<1> QED
  BY <1>1, <1>5, <1>6, <1>7, <1>8

\* Every entry can be read where Add() put it (lines 205-214).
LEMMA IntactEntry ==
    ASSUME Typed, Placed, Laid, finished, KeysIntact, NEW n \in Entries
    PROVE  /\ shared(Off(n)) = added[n].shared
           /\ nonshared(Off(n)) = Len(KeyOf(n)) - added[n].shared
           /\ Off(n) + need(Off(n)) = End(n)
           /\ Off(n) + HeaderSize + nonshared(Off(n)) = ValueAt(n)
           /\ HeaderFits(Off(n)) /\ ~Wraps(Off(n)) /\ NeedFits(Off(n))
           /\ Delta(Off(n)) = SubSeq(KeyOf(n), added[n].shared + 1, Len(KeyOf(n)))
<1>1. PICK o \in Nat, K \in Nat, s \in Nat, V \in Nat :
          o = Off(n) /\ K = Len(KeyOf(n)) /\ s = added[n].shared /\ V = ValueLen(n)
  BY EntryFacts
<1>2. /\ s <= K /\ ValueAt(n) = o + 3 + (K - s) /\ End(n) = o + 3 + (K - s) + V
      /\ End(n) <= Area /\ Area \in Nat
  BY <1>1, EntryFacts DEF End
<1>3. entries_size = Area /\ Len(buffer) = Area + Len(restarts) + 1 /\ Len(restarts) \in Nat
  BY IntactTrailer, TableFacts DEF Placed
<1>4. \A p \in o + 1 .. o + 3 + (K - s) : block[p] = buffer[p]
  <2> TAKE p \in o + 1 .. o + 3 + (K - s)
  <2>1. p \in 1 .. Len(buffer)
    BY <1>2, <1>3
  <2> QED
    BY <1>1, <1>2, <2>1, IntactCells
<1>5. LaidEntry(n)
  BY DEF Laid
<1>6. shared(o) = s /\ nonshared(o) = K - s /\ vlen(o) = V
  <2>1. o + 1 \in o + 1 .. o + 3 + (K - s) /\ o + 2 \in o + 1 .. o + 3 + (K - s)
        /\ o + 3 \in o + 1 .. o + 3 + (K - s)
    BY <1>2
  <2>2. buffer[o + 1] = s /\ buffer[o + 2] = K - s /\ buffer[o + 3] = V
    BY <1>1, <1>5 DEF LaidEntry
  <2> QED
    BY <1>4, <2>1, <2>2 DEF shared, nonshared, vlen
<1>7. need(o) = 3 + (K - s) + V
  BY <1>6, Constants DEF need
<1>8. o + need(o) = End(n) /\ o + HeaderSize + nonshared(o) = ValueAt(n)
  <2>1. \A x, y \in Nat : x + (3 + (K - s) + y) = x + 3 + (K - s) + y
    BY <1>2
  <2> QED
    BY <1>2, <1>6, <1>7, <2>1, Constants
<1>9. o + 3 <= Area /\ o + 3 < Word /\ o + 3 \in Nat
  <2>1. Area + Len(restarts) + 6 < Word /\ Len(restarts) \in Nat /\ Word \in Nat
    BY BlockBelowWord, TableFacts, Constants
  <2> QED
    BY <1>2, <2>1
<1>10. HeaderFits(o) /\ ~Wraps(o) /\ NeedFits(o)
  <2>1. (o + HeaderSize) % Word = o + 3
    BY <1>9, SumBelowWord, Constants
  <2>2. HeaderFits(o)
    BY <1>3, <1>9, <2>1 DEF HeaderFits
  <2>3. ~Wraps(o)
    BY <1>9, Constants DEF Wraps
  <2>4. NeedFits(o)
    BY <1>2, <1>3, <1>8 DEF NeedFits
  <2> QED
    BY <2>2, <2>3, <2>4
<1>11. Delta(o) = SubSeq(KeyOf(n), s + 1, K)
  <2> DEFINE a == SubSeq(block, o + 3 + 1, o + 3 + (K - s))
             b == SubSeq(KeyOf(n), s + 1, K)
  <2>1. /\ b \in Seq(Cell) /\ Len(b) = K - s
        /\ \A i \in 1 .. K - s : b[i] = KeyOf(n)[s + i]
    <3>1. KeyOf(n) \in Seq(Cell) /\ K <= Len(KeyOf(n))
      BY <1>1, EntryFacts DEF Bytes
    <3> QED
      BY <1>2, <3>1, CutFacts
  <2>2. /\ a \in Seq(Cell) /\ Len(a) = K - s
        /\ \A i \in 1 .. K - s : a[i] = block[o + 3 + i]
    <3>1. PICK u \in Nat, w \in Nat : u = o + 3 /\ w = o + 3 + (K - s)
      BY <1>2
    <3>2. u <= w /\ w <= Len(block) /\ w - u = K - s
      BY <1>2, <1>3, <3>1 DEF KeysIntact
    <3>3. block \in Seq(Cell) /\ a = SubSeq(block, u + 1, w)
      BY <3>1 DEF Typed
    <3> HIDE DEF a
    <3>4. /\ a \in Seq(Cell) /\ Len(a) = w - u
          /\ \A i \in 1 .. w - u : a[i] = block[u + i]
      BY <3>2, <3>3, CutFacts
    <3> QED
      BY <3>1, <3>2, <3>4
  <2>3. \A i \in 1 .. K - s : a[i] = b[i]
    <3> TAKE i \in 1 .. K - s
    <3>1. o + 3 + i \in o + 1 .. o + 3 + (K - s)
      BY <1>2
    <3>2. buffer[o + 3 + i] = KeyOf(n)[s + i]
      BY <1>1, <1>5 DEF LaidEntry
    <3> HIDE DEF a, b
    <3> QED
      BY <1>4, <2>1, <2>2, <3>1, <3>2
  <2>4. a = b
    <3> HIDE DEF a, b
    <3> QED
      BY <2>1, <2>2, <2>3, SeqEqual
  <2>5. Delta(o) = a
    BY <1>6, Constants DEF Delta
  <2> QED
    BY <2>4, <2>5
<1> QED
  BY <1>1, <1>6, <1>8, <1>10, <1>11


-----------------------------------------------------------------------------
(* The first state. *)

LEMMA InitInv == Init => IInv
<1> SUFFICES ASSUME Init
             PROVE  IInv
  OBVIOUS
<1>1. /\ buffer = <<>> /\ added = <<>> /\ restarts = <<0>> /\ block = <<>> /\ damage = 0
      /\ finished = FALSE /\ last_key = <<>> /\ pc = "build"
  BY DEF Init
<1>2. /\ <<>> \in Seq(Entry) /\ <<>> \in Seq(Cell) /\ Len(<<>>) = 0
  BY EmptySeq
<1>3. <<0>> \in Seq(Cell) /\ Len(<<0>>) = 1 /\ <<0>>[1] = 0
  <2>1. 0 \in Cell
    <3>1. Word \in Nat /\ Unit \in Nat /\ MaxEntries \in Nat /\ MaxEntries * (Unit + 1) + 8 < Word
      BY Constants
    <3>2. MaxEntries * (Unit + 1) \in Nat
      BY <3>1
    <3>3. 0 < Word
      BY <3>1, <3>2
    <3> QED
      BY <3>1, <3>3 DEF Cell
  <2> QED
    BY <2>1
<1>4. Len(buffer) = 0 /\ Len(block) = 0 /\ Len(added) = 0 /\ Len(restarts) = 1 /\ Entries = {}
      /\ restarts[1] = 0
  BY <1>1, <1>2, <1>3 DEF Entries
<1>5. Area = 0
  BY <1>4 DEF Area
<1>6. Typed
  <2>1. buffer \in Seq(Cell) /\ block \in Seq(Cell) /\ restarts \in Seq(Cell) /\ added \in Seq(Entry)
    BY <1>1, <1>2, <1>3
  <2>2. Len(added) <= MaxEntries /\ Len(restarts) \in 1 .. Len(added) + 1
    BY <1>4, Constants
  <2>3. restart_interval \in Int /\ damage \in 0 .. MaxDamage
    BY Constants DEF Init
  <2>4. /\ last_key \in Key \cup {<<>>} /\ counter \in Nat /\ finished \in BOOLEAN
        /\ key \in Key \cup {<<>>} /\ lo = 1 /\ hi = 1
        /\ off \in Nat /\ outside \in BOOLEAN /\ prev_key = <<>>
    BY DEF Init
  <2>5. result \in [ret : BOOLEAN, val : Seq(Cell)]
    BY <1>2 DEF Init, NoResult
  <2>6. lo \in Nat /\ hi \in Int /\ prev_key \in Bytes
    BY <2>4, <1>2 DEF Bytes
  <2> QED
    BY <1>1, <2>1, <2>2, <2>3, <2>4, <2>5, <2>6 DEF Typed
<1>7. Placed
  BY <1>1, <1>4, <1>5, Constants DEF Placed
<1>8. Laid /\ Compressed /\ Sorted
  BY <1>1, <1>4 DEF Laid, Compressed, Sorted
<1>9. Searching /\ Scanning /\ ReadsInside /\ GetExact
  BY <1>1 DEF Searching, Scanning, KeysRebuilt, ReadsInside, GetExact
<1> QED
  BY <1>6, <1>7, <1>8, <1>9 DEF IInv

-----------------------------------------------------------------------------
(* The reader. *)

\* A lookup changes nothing in the block.
LEMMA BlockKept ==
    ASSUME IInv, UNCHANGED <<builder, stored>>
    PROVE  /\ Placed' /\ Laid' /\ Compressed' /\ Sorted'
           /\ Entries' = Entries /\ added' = added /\ block' = block /\ buffer' = buffer
           /\ \A n : KeyOf(n)' = KeyOf(n) /\ Off(n)' = Off(n) /\ ValueAt(n)' = ValueAt(n)
           /\ KeysIntact' <=> KeysIntact
           /\ num_restarts' = num_restarts /\ entries_size' = entries_size
           /\ TrailerFits' <=> TrailerFits
           /\ \A r : Restart(r)' = Restart(r)
<1>1. UNCHANGED <<buffer, restarts, last_key, counter, finished, restart_interval, added,
                  block, damage>>
  BY DEF builder, stored
<1>2. Entries' = Entries /\ Area' = Area
  BY <1>1 DEF Entries, Area, End, ValueAt, ValueLen, KeyOf
<1>3. \A n : /\ KeyOf(n)' = KeyOf(n) /\ Off(n)' = Off(n) /\ ValueAt(n)' = ValueAt(n)
             /\ ValueLen(n)' = ValueLen(n) /\ End(n)' = End(n)
  BY <1>1 DEF End, ValueAt, ValueLen, KeyOf, Off
<1>4. Placed'
  BY <1>1, <1>2, <1>3 DEF IInv, Placed
<1>5. Laid'
  BY <1>1, <1>2, <1>3 DEF IInv, Laid, LaidEntry
<1>6. Compressed'
  BY <1>1, <1>2, <1>3 DEF IInv, Compressed
<1>7. Sorted'
  BY <1>1, <1>2, <1>3 DEF IInv, Sorted
<1>8. KeysIntact' <=> KeysIntact
  BY <1>1, <1>2, <1>3 DEF KeysIntact
<1>9. num_restarts' = num_restarts /\ entries_size' = entries_size
  BY <1>1 DEF num_restarts, entries_size
<1>10. TrailerFits' <=> TrailerFits
  BY <1>1, <1>9 DEF TrailerFits
<1>11. \A r : Restart(r)' = Restart(r)
  BY <1>1, <1>9 DEF Restart
<1> QED
  BY <1>1, <1>2, <1>3, <1>4, <1>5, <1>6, <1>7, <1>8, <1>9, <1>10, <1>11

\* The types of a lookup's state.
LEMMA LookupTyped ==
    ASSUME IInv, UNCHANGED <<builder, stored>>, finished, TrailerFits,
           pc' \in {"open", "bsearch", "scan", "done", "faulted"},
           key' \in Key \cup {<<>>}, lo' \in Nat, hi' \in Int,
           pc' = "bsearch" => lo' \in 1 .. num_restarts /\ hi' \in lo' .. num_restarts,
           pc' = "scan" => lo' \in 1 .. num_restarts /\ hi' = lo',
           off' \in Nat, prev_key' \in Bytes, outside' \in BOOLEAN,
           result' \in [ret : BOOLEAN, val : Seq(Cell)]
    PROVE  Typed'
<1>1. UNCHANGED <<buffer, restarts, last_key, counter, finished, restart_interval, added,
                  block, damage>>
  BY DEF builder, stored
<1>2. Typed
  BY DEF IInv
<1>3. TrailerFits' /\ num_restarts' = num_restarts
  BY BlockKept
<1> QED
  BY <1>1, <1>2, <1>3 DEF Typed

\* What a running lookup may rely on: the trailer fits, and is the one that was
\* written if the keys are intact.
LEMMA RunFacts ==
    ASSUME IInv, pc \in {"open", "bsearch", "scan", "done"}
    PROVE  /\ finished /\ TrailerFits
           /\ num_restarts \in Nat /\ entries_size \in Nat /\ Len(block) \in Nat
           /\ entries_size + num_restarts + 1 = Len(block)
           /\ \A r \in 1 .. num_restarts : Restart(r) \in Nat /\ Restart(r) < Word
           /\ Len(block) + 5 < Word
<1>1. finished /\ TrailerFits
  BY DEF IInv, Typed
<1>2. Len(block) \in Nat /\ Len(block) >= 1
  BY <1>1, TableFacts DEF IInv, TrailerFits
<1>3. num_restarts \in Nat
  BY <1>2, TableFacts DEF IInv, num_restarts
<1>4. /\ entries_size \in Nat /\ entries_size + num_restarts + 1 = Len(block)
  BY <1>1, <1>2, <1>3 DEF TrailerFits, entries_size
<1>5. ASSUME NEW r \in 1 .. num_restarts
      PROVE  Restart(r) \in Nat /\ Restart(r) < Word
  <2>1. entries_size + r \in 1 .. Len(block)
    BY <1>2, <1>3, <1>4
  <2>2. block[entries_size + r] \in Cell /\ block[entries_size + r] \in Nat
    BY <2>1, TableFacts DEF IInv
  <2> QED
    BY <2>2, Constants DEF Restart, Cell
<1>6. Len(block) + 5 < Word
  BY BlockBelowWord DEF IInv
<1> QED
  BY <1>1, <1>2, <1>3, <1>4, <1>5, <1>6

\* A value is a run of cells of the entries.
Inside(val) == \E p \in 0 .. entries_size :
                   /\ p + Len(val) <= entries_size
                   /\ val = SubSeq(block, p + 1, p + Len(val))

\* An answer is right, but for bytes of the value that rotted.
Answers(ret, val) ==
    /\ ret <=> \E n \in Entries : KeyOf(n) = key
    /\ ret => \E n \in Entries :
                  /\ KeyOf(n) = key
                  /\ Len(val) = Len(added[n].value)
                  /\ \A i \in 1 .. Len(val) :
                       \/ val[i] = added[n].value[i]
                       \/ block[ValueAt(n) + i] # buffer[ValueAt(n) + i]

\* Get() returns.
LEMMA Returned ==
    ASSUME IInv, pc \in {"open", "bsearch", "scan", "done"},
           UNCHANGED <<builder, stored>>, key' \in Key \cup {<<>>},
           NEW ret \in BOOLEAN, NEW val \in Seq(Cell), Returns(ret, val),
           outside' \in BOOLEAN,
           ret => Inside(val),
           KeysIntact => key' = key /\ Answers(ret, val)
    PROVE  IInv'
<1>1. /\ pc' = "done" /\ result' = [ret |-> ret, val |-> val]
      /\ lo' = 1 /\ hi' = 1 /\ off' = 0 /\ prev_key' = <<>>
  BY DEF Returns
<1>2. result'.ret = ret /\ result'.val = val
  BY <1>1
<1>3. Typed'
  <2>1. <<>> \in Bytes /\ 1 \in Nat /\ 1 \in Int /\ 0 \in Nat
    BY Constants
  <2>2. result' \in [ret : BOOLEAN, val : Seq(Cell)]
    BY <1>1
  <2>3. finished /\ TrailerFits
    BY RunFacts
  <2> QED
    BY <1>1, <2>1, <2>2, <2>3, LookupTyped
<1>4. Searching' /\ Scanning'
  BY <1>1 DEF Searching, Scanning, KeysRebuilt
<1>5. ReadsInside'
  <2>1. ret => \E p \in 0 .. entries_size' :
                   /\ p + Len(val) <= entries_size'
                   /\ val = SubSeq(block', p + 1, p + Len(val))
    BY BlockKept DEF Inside
  <2> QED
    BY <1>1, <1>2, <2>1 DEF ReadsInside
<1>6. GetExact'
  <2> SUFFICES ASSUME KeysIntact'
               PROVE  /\ ret = \E n \in Entries' : KeyOf(n)' = key'
                      /\ ret =>
                           \E n \in Entries' :
                             /\ KeyOf(n)' = key'
                             /\ Len(val) = Len(added'[n].value)
                             /\ \A i \in 1 .. Len(val) :
                                  \/ val[i] = added'[n].value[i]
                                  \/ block'[ValueAt(n)' + i] # buffer'[ValueAt(n)' + i]
    BY <1>1, <1>2 DEF GetExact
  <2>1. /\ Entries' = Entries /\ added' = added /\ block' = block /\ buffer' = buffer
        /\ \A n : KeyOf(n)' = KeyOf(n) /\ ValueAt(n)' = ValueAt(n)
        /\ key' = key /\ Answers(ret, val)
    BY BlockKept
  <2>2. ret <=> \E n \in Entries' : KeyOf(n)' = key'
    BY <2>1 DEF Answers
  <2>3. ret = \E n \in Entries' : KeyOf(n)' = key'
    BY <2>2, Zenon
  <2> QED
    BY <2>1, <2>3 DEF Answers
<1> QED
  BY <1>3, <1>4, <1>5, <1>6, BlockKept DEF IInv

\* The constructor of the reader (lines 109-138).
LEMMA OpenInv ==
    ASSUME IInv, Open
    PROVE  IInv'
<1>1. /\ UNCHANGED <<builder, stored>> /\ pc = "build" /\ finished
      /\ pc' = IF TrailerFits THEN "open" ELSE "refused"
      /\ UNCHANGED <<key, lo, hi, off, prev_key, outside, result>>
  BY DEF Open, search
<1>2. /\ UNCHANGED <<buffer, restarts, last_key, counter, finished, restart_interval, added,
                     block, damage>>
  BY <1>1 DEF builder, stored
<1>3. TrailerFits' <=> TrailerFits
  BY <1>1, BlockKept
<1>4. Typed'
  BY <1>1, <1>2, <1>3 DEF IInv, Typed
<1>5. Searching' /\ Scanning' /\ ReadsInside'
  BY <1>1 DEF Searching, Scanning, KeysRebuilt, ReadsInside
<1>6. GetExact'
  <2>1. KeysIntact' => TrailerFits
    BY <1>1, BlockKept, IntactTrailer DEF IInv
  <2> QED
    BY <1>1, <2>1 DEF GetExact
<1> QED
  BY <1>1, <1>4, <1>5, <1>6, BlockKept DEF IInv

\* A Get() starts (lines 156, 178-179).
LEMMA GetInv ==
    ASSUME IInv, NEW k \in Key, Get(k)
    PROVE  IInv'
<1>1. /\ UNCHANGED <<builder, stored>> /\ pc \in {"open", "done"} /\ pc' = "bsearch"
      /\ num_restarts > 0
      /\ key' = k /\ lo' = 1 /\ hi' = num_restarts /\ outside' = FALSE
      /\ result' = NoResult /\ UNCHANGED <<off, prev_key>>
  BY DEF Get
<1>2. finished /\ TrailerFits /\ num_restarts \in Nat
  BY <1>1, RunFacts
<1>3. Typed'
  <2>1. off \in Nat /\ prev_key \in Bytes
    BY DEF IInv, Typed
  <2>2. result' \in [ret : BOOLEAN, val : Seq(Cell)]
    BY <1>1, EmptySeq DEF NoResult
  <2>3. /\ lo' \in Nat /\ hi' \in Int /\ lo' \in 1 .. num_restarts
        /\ hi' \in lo' .. num_restarts
    BY <1>1, <1>2
  <2> QED
    BY <1>1, <1>2, <2>1, <2>2, <2>3, LookupTyped
<1>4. Searching'
  <2> SUFFICES ASSUME KeysIntact', NEW n \in Entries'
               PROVE  /\ Restart(1)' <= Off(n)'
                      /\ ~(hi' < num_restarts')
    BY <1>1 DEF Searching
  <2>1. KeysIntact /\ n \in Entries /\ Restart(1)' = Restart(1) /\ Off(n)' = Off(n)
        /\ num_restarts' = num_restarts
    BY <1>1, BlockKept
  <2>2. Restart(1) = 0
    BY <1>2, <2>1, IntactTrailer, TableFacts DEF IInv, Compressed
  <2>3. Off(n) \in Nat
    BY <2>1, EntryFacts DEF IInv
  <2> QED
    BY <1>1, <1>2, <2>1, <2>2, <2>3
<1>5. Scanning' /\ ReadsInside' /\ GetExact'
  BY <1>1 DEF Scanning, KeysRebuilt, ReadsInside, GetExact
<1> QED
  BY <1>1, <1>3, <1>4, <1>5, BlockKept DEF IInv

\* A block without restarts is a damaged one.
LEMMA GetEmptyInv ==
    ASSUME IInv, NEW k \in Key, GetEmpty(k)
    PROVE  IInv'
<1>1. /\ UNCHANGED <<builder, stored>> /\ pc \in {"open", "done"} /\ num_restarts = 0
      /\ key' = k /\ outside' = FALSE /\ Returns(FALSE, <<>>)
  BY DEF GetEmpty
<1>2. ~KeysIntact
  BY <1>1, RunFacts, IntactTrailer, TableFacts DEF IInv
<1>3. <<>> \in Seq(Cell)
  BY EmptySeq
<1> QED
  BY <1>1, <1>2, <1>3, Returned

\* How the order of keys and the order of entries go together.
LEMMA KeyOrder ==
    ASSUME Typed, Placed, Sorted, NEW m \in Entries, NEW n \in Entries
    PROVE  /\ Less(KeyOf(m), KeyOf(n)) => m < n
           /\ Sought(n) /\ ~Less(key, KeyOf(m)) => m <= n
<1>1. m \in Nat /\ n \in Nat /\ KeyOf(m) \in Bytes /\ KeyOf(n) \in Bytes
  BY EntryFacts
<1>2. ASSUME Less(KeyOf(m), KeyOf(n)), ~(m < n)
      PROVE  FALSE
  <2>1. m # n
    BY <1>1, <1>2, LessIrreflexive, BytesAreStrings
  <2>2. n < m
    BY <1>1, <1>2, <2>1
  <2>3. Less(KeyOf(n), KeyOf(m)) \/ (KeyOf(n) = <<>> /\ KeyOf(m) = <<>>)
    BY <2>2 DEF Sorted
  <2>4. ~Less(KeyOf(n), KeyOf(m))
    BY <1>1, <1>2, LessTransitive, LessIrreflexive, BytesAreStrings
  <2> QED
    BY <1>1, <1>2, <2>3, <2>4, LessIrreflexive, BytesAreStrings
<1>3. ASSUME Sought(n), ~Less(key, KeyOf(m)), ~(m <= n)
      PROVE  FALSE
  <2>1. n < m /\ KeyOf(n) = key /\ KeyOf(m) # key
    BY <1>1, <1>3 DEF Sought
  <2> QED
    BY <1>3, <2>1 DEF Sorted
<1> QED
  BY <1>2, <1>3

\* A key that was added has a last entry.
LEMMA SoughtExists ==
    ASSUME Typed, Placed, \E n \in Entries : KeyOf(n) = key
    PROVE  \E n \in Entries : Sought(n)
<1> DEFINE S == {n \in Entries : KeyOf(n) = key}
<1>1. S \subseteq Nat /\ S # {} /\ Len(added) \in Nat /\ \A n \in S : n <= Len(added)
  BY EntryFacts, TableFacts
<1>2. PICK n \in S : \A m \in S : m <= n
  <2> HIDE DEF S
  <2> QED
    BY <1>1, NatMax
<1>3. \A m \in Entries : n < m => KeyOf(m) # key
  <2> SUFFICES ASSUME NEW m \in Entries, n < m, KeyOf(m) = key
               PROVE  FALSE
    OBVIOUS
  <2>1. m <= n /\ m \in Nat /\ n \in Nat
    BY <1>2, EntryFacts
  <2> QED
    BY <2>1
<1> QED
  BY <1>2, <1>3 DEF Sought

\* The midpoint is above lo and not above hi (line 182).
LEMMA MidFacts ==
    ASSUME IInv, pc = "bsearch", lo < hi
    PROVE  /\ lo \in Nat /\ hi \in Nat /\ mid \in Nat
           /\ 1 <= lo /\ lo < mid /\ mid <= hi /\ hi <= num_restarts
           /\ mid \in 1 .. num_restarts
           /\ KeysIntact => Len(added) > 0
<1>1. lo \in 1 .. num_restarts /\ hi \in lo .. num_restarts /\ finished
  BY DEF IInv, Typed
<1>2. num_restarts \in Nat
  BY RunFacts
<1>3. lo \in Nat /\ hi \in Nat /\ 1 <= lo /\ hi <= num_restarts
  BY <1>1, <1>2
<1>4. mid \in Nat /\ lo < mid /\ mid <= hi
  BY <1>3 DEF mid
<1>5. KeysIntact => num_restarts <= Len(added) + 1 /\ Len(added) \in Nat
  BY <1>1, IntactTrailer, TableFacts DEF IInv
<1> QED
  BY <1>2, <1>3, <1>4, <1>5

\* While the keys are intact a restart offset can be read, and has a full key.
LEMMA RestartFacts ==
    ASSUME IInv, finished, KeysIntact, Len(added) > 0, NEW r \in 1 .. num_restarts
    PROVE  \E m \in Entries : /\ Restart(r) = Off(m) /\ added[m].shared = 0
                              /\ shared(Restart(r)) = 0
                              /\ HeaderFits(Restart(r)) /\ ~Wraps(Restart(r))
                              /\ NeedFits(Restart(r))
                              /\ Delta(Restart(r)) = KeyOf(m)
<1>1. r \in 1 .. Len(restarts) /\ Restart(r) = restarts[r]
  BY IntactTrailer DEF IInv
<1>2. PICK m \in Entries : restarts[r] = Off(m) /\ added[m].shared = 0
  BY <1>1 DEF IInv, Compressed
<1>3. /\ shared(Off(m)) = 0 /\ HeaderFits(Off(m)) /\ ~Wraps(Off(m)) /\ NeedFits(Off(m))
      /\ Delta(Off(m)) = SubSeq(KeyOf(m), 0 + 1, Len(KeyOf(m)))
  BY <1>2, IntactEntry DEF IInv
<1>4. SubSeq(KeyOf(m), 0 + 1, Len(KeyOf(m))) = KeyOf(m)
  <2>1. KeyOf(m) \in Seq(Cell)
    BY EntryFacts DEF IInv, Bytes
  <2> QED
    BY <2>1, SubSeqFull
<1> QED
  BY <1>1, <1>2, <1>3, <1>4

\* A restart offset near 2^32 is read outside the block.
LEMMA BSearchOutsideInv ==
    ASSUME IInv, BSearchOutside
    PROVE  IInv'
<1>1. /\ pc = "bsearch" /\ lo < hi /\ Wraps(Restart(mid)) /\ outside' = TRUE
      /\ UNCHANGED <<builder, stored>> /\ key' = key
  BY DEF BSearchOutside
<1>2. ~KeysIntact
  BY <1>1, MidFacts, RunFacts, RestartFacts
<1>3. /\ <<>> \in Seq(Cell) /\ key \in Key \cup {<<>>}
  BY EmptySeq DEF IInv, Typed
<1>4. CASE Returns(FALSE, <<>>)
  BY <1>1, <1>2, <1>3, <1>4, Returned
<1>5. CASE pc' = "faulted" /\ UNCHANGED <<lo, hi, off, prev_key, result>>
  <2>1. Typed'
    <3>1. /\ finished /\ TrailerFits /\ lo \in Nat /\ hi \in Int /\ off \in Nat
          /\ prev_key \in Bytes /\ result \in [ret : BOOLEAN, val : Seq(Cell)]
      BY <1>1, RunFacts DEF IInv, Typed
    <3> QED
      BY <1>1, <1>3, <1>5, <3>1, LookupTyped
  <2>2. Searching' /\ Scanning' /\ ReadsInside'
    BY <1>5 DEF Searching, Scanning, KeysRebuilt, ReadsInside
  <2>3. GetExact'
    BY <1>1, <1>2, BlockKept DEF GetExact
  <2> QED
    BY <1>1, <2>1, <2>2, <2>3, BlockKept DEF IInv
<1> QED
  BY <1>4, <1>5 DEF BSearchOutside

LEMMA BSearchFailsInv ==
    ASSUME IInv, BSearchFails
    PROVE  IInv'
<1>1. /\ pc = "bsearch" /\ lo < hi /\ ~RestartReadable /\ Returns(FALSE, <<>>)
      /\ UNCHANGED <<builder, stored>> /\ UNCHANGED <<key, outside>>
  BY DEF BSearchFails
<1>2. ~KeysIntact
  BY <1>1, MidFacts, RunFacts, RestartFacts DEF RestartReadable
<1>3. /\ <<>> \in Seq(Cell) /\ key \in Key \cup {<<>>} /\ outside \in BOOLEAN
  BY EmptySeq DEF IInv, Typed
<1> QED
  BY <1>1, <1>2, <1>3, Returned

\* An iteration of the binary search keeps the key's run (lines 181-193).
LEMMA BSearchInv ==
    ASSUME IInv, BSearch
    PROVE  IInv'
<1>1. /\ pc = "bsearch" /\ lo < hi /\ pc' = "bsearch" /\ key' = key
      /\ UNCHANGED <<builder, stored>>
      /\ UNCHANGED <<off, prev_key, outside, result>>
      /\ IF RestartReached THEN lo' = mid /\ hi' = hi ELSE lo' = lo /\ hi' = mid - 1
  BY DEF BSearch
<1>2. finished /\ TrailerFits /\ num_restarts \in Nat
  BY <1>1, RunFacts
<1>3. Typed'
  <2>1. /\ lo' \in 1 .. num_restarts /\ hi' \in Int /\ hi' \in lo' .. num_restarts /\ lo' \in Nat
    BY <1>1, <1>2, MidFacts
  <2>2. /\ key \in Key \cup {<<>>} /\ off \in Nat /\ prev_key \in Bytes
        /\ outside \in BOOLEAN /\ result \in [ret : BOOLEAN, val : Seq(Cell)]
    BY DEF IInv, Typed
  <2> QED
    BY <1>1, <1>2, <2>1, <2>2, LookupTyped
<1>4. Searching'
  <2> SUFFICES ASSUME KeysIntact', NEW n \in Entries', Sought(n)'
               PROVE  /\ Restart(lo)' <= Off(n)'
                      /\ hi' < num_restarts' => Off(n)' < Restart(hi + 1)'
    BY <1>1 DEF Searching
  <2>1. /\ KeysIntact /\ n \in Entries /\ num_restarts' = num_restarts /\ Off(n)' = Off(n)
        /\ block' = block /\ entries_size' = entries_size
    BY <1>1, BlockKept
  <2>2. Restart(lo)' = Restart(lo') /\ Restart(hi + 1)' = Restart(hi' + 1)
    BY <2>1 DEF Restart
  <2>3. Sought(n)
    BY <1>1, <2>1, BlockKept DEF Sought
  <2>4. /\ Restart(lo) <= Off(n)
        /\ hi < num_restarts => Off(n) < Restart(hi + 1)
    BY <1>1, <2>1, <2>3 DEF IInv, Searching
  <2>5. PICK m \in Entries : Restart(mid) = Off(m) /\ Delta(Restart(mid)) = KeyOf(m)
    BY <1>1, <1>2, <2>1, MidFacts, RestartFacts
  <2>6. RestartReached <=> ~Less(key, KeyOf(m))
    BY <2>5 DEF RestartReached
  <2>7. CASE RestartReached
    <3>1. m <= n
      BY <2>1, <2>3, <2>6, <2>7, KeyOrder DEF IInv
    <3>2. Off(m) <= Off(n)
      BY <3>1, <2>1, OffsetFacts DEF IInv
    <3> QED
      BY <1>1, <2>1, <2>2, <2>4, <2>5, <2>7, <3>2
  <2>8. CASE ~RestartReached
    <3>1. n < m
      BY <2>1, <2>3, <2>6, <2>8, KeyOrder DEF IInv, Sought
    <3>2. Off(n) < Off(m)
      BY <3>1, <2>1, OffsetFacts DEF IInv
    <3>3. hi' + 1 = mid /\ lo' = lo
      BY <1>1, <2>8, MidFacts
    <3> QED
      BY <2>1, <2>2, <2>4, <2>5, <3>2, <3>3
  <2> QED
    BY <2>7, <2>8
<1>5. Scanning' /\ ReadsInside' /\ GetExact'
  BY <1>1 DEF IInv, Scanning, KeysRebuilt, ReadsInside, GetExact
<1> QED
  BY <1>1, <1>3, <1>4, <1>5, BlockKept DEF IInv

\* The search ends: the scan starts at the restart offset it found.
LEMMA BSearchEndInv ==
    ASSUME IInv, BSearchEnd
    PROVE  IInv'
<1>1. /\ pc = "bsearch" /\ lo >= hi /\ pc' = "scan" /\ off' = Restart(lo)
      /\ prev_key' = <<>> /\ UNCHANGED <<builder, stored>>
      /\ UNCHANGED <<key, lo, hi, outside, result>>
  BY DEF BSearchEnd
<1>2. /\ finished /\ TrailerFits /\ num_restarts \in Nat
  BY <1>1, RunFacts
<1>3. lo \in 1 .. num_restarts /\ hi = lo /\ lo \in Nat /\ hi \in Int
  BY <1>1, <1>2 DEF IInv, Typed
<1>4. Restart(lo) \in Nat
  BY <1>1, <1>3, RunFacts
<1>5. /\ num_restarts' = num_restarts /\ entries_size' = entries_size /\ Entries' = Entries
      /\ Restart(lo)' = Restart(lo) /\ Restart(lo + 1)' = Restart(lo + 1)
      /\ Restart(hi + 1)' = Restart(hi + 1)
      /\ (KeysIntact' <=> KeysIntact) /\ \A n : KeyOf(n)' = KeyOf(n) /\ Off(n)' = Off(n)
  <2>1. block' = block /\ entries_size' = entries_size
    BY <1>1, BlockKept
  <2>2. /\ Restart(lo)' = Restart(lo) /\ Restart(lo + 1)' = Restart(lo + 1)
        /\ Restart(hi + 1)' = Restart(hi + 1)
    BY <1>1, <2>1 DEF Restart
  <2> QED
    BY <1>1, <2>1, <2>2, BlockKept
<1>6. Typed'
  <2>1. /\ key \in Key \cup {<<>>} /\ outside \in BOOLEAN
        /\ result \in [ret : BOOLEAN, val : Seq(Cell)] /\ <<>> \in Bytes
    BY Constants DEF IInv, Typed
  <2> QED
    BY <1>1, <1>2, <1>3, <1>4, <2>1, LookupTyped
<1>7. Searching'
  <2> SUFFICES ASSUME KeysIntact', NEW n \in Entries', Sought(n)'
               PROVE  /\ Restart(lo)' <= Off(n)'
                      /\ hi' < num_restarts' => Off(n)' < Restart(hi + 1)'
                      /\ off' <= Off(n)'
    BY DEF Searching
  <2>1. Sought(n) /\ KeysIntact /\ n \in Entries
    BY <1>1, <1>5 DEF Sought
  <2>2. /\ Restart(lo) <= Off(n)
        /\ hi < num_restarts => Off(n) < Restart(hi + 1)
    BY <1>1, <2>1 DEF IInv, Searching
  <2> QED
    BY <1>1, <1>5, <2>2
<1>8. Scanning'
  <2>1. ASSUME KeysIntact
        PROVE  \/ off' = entries_size
               \/ \E n \in Entries : Off(n) = off'
    <3>1. CASE Len(added) > 0
      BY <1>1, <1>2, <1>3, <2>1, <3>1, RestartFacts
    <3>2. CASE Len(added) = 0
      <4>0. Len(restarts) = 1
        <5>1. Len(restarts) \in Nat /\ Len(restarts) >= 1 /\ Len(restarts) <= 0 + 1
          BY <3>2, TableFacts DEF IInv
        <5> QED
          BY <5>1
      <4>1. Len(restarts) = 1 /\ restarts[1] = 0 /\ Area = 0
        BY <3>2, <4>0 DEF IInv, Compressed, Area
      <4>2. num_restarts = 1 /\ Restart(1) = 0 /\ entries_size = 0
        BY <1>2, <2>1, <4>1, IntactTrailer DEF IInv
      <4>3. lo = 1
        BY <1>3, <4>2
      <4> QED
        BY <1>1, <4>2, <4>3
    <3>3. Len(added) = 0 \/ Len(added) > 0
      BY TableFacts DEF IInv
    <3> QED
      BY <3>1, <3>2, <3>3
  <2>2. off' = Restart(lo)' /\ (\A n : added[n].off = Off(n)) /\ \A n : added'[n].off = Off(n)'
    BY <1>1, <1>5 DEF Off
  <2>3. KeysRebuilt'
    BY <1>5, <2>1, <2>2 DEF KeysRebuilt
  <2> QED
    BY <1>1, <1>4, <2>2, <2>3 DEF Scanning
<1>9. ReadsInside' /\ GetExact'
  BY <1>1, <1>5 DEF ReadsInside, GetExact
<1> QED
  BY <1>1, <1>6, <1>7, <1>8, <1>9, BlockKept DEF IInv

\* What a scan may rely on at an entry that passes the checks (lines 198-214),
\* in a damaged block too: all it reads is inside the entries.
FoundValue == SubSeq(block, off + HeaderSize + nonshared(off) + 1, off + need(off))

LEMMA ScanFacts ==
    ASSUME IInv, pc = "scan", ~RunEnds, ~Overlong
    PROVE  /\ off \in Nat /\ need(off) \in Nat /\ need(off) >= 3
           /\ nonshared(off) \in Nat /\ vlen(off) \in Nat
           /\ off + need(off) <= entries_size
           /\ cur_key \in Bytes
           /\ FoundValue \in Seq(Cell) /\ Len(FoundValue) = vlen(off) /\ Inside(FoundValue)
           /\ \A i \in 1 .. vlen(off) :
                  FoundValue[i] = block[off + HeaderSize + nonshared(off) + i]
<1>1. /\ entries_size \in Nat /\ Len(block) \in Nat /\ entries_size < Len(block)
      /\ Len(block) + 5 < Word /\ Word \in Nat
  BY RunFacts, Constants
<1>2. off \in Nat /\ prev_key \in Bytes /\ Len(prev_key) \in Nat /\ block \in Seq(Cell)
  BY ByteFacts DEF IInv, Typed
<1>3. off < entries_size
  BY <1>1, <1>2 DEF RunEnds
<1>4. off + 3 <= entries_size
  <2>1. off + 3 < Word /\ off + 3 \in Nat
    BY <1>1, <1>2, <1>3
  <2>2. (off + HeaderSize) % Word = off + 3
    BY <2>1, SumBelowWord, Constants
  <2> QED
    BY <2>2 DEF Overlong, HeaderFits
<1>5. shared(off) \in Nat /\ nonshared(off) \in Nat /\ vlen(off) \in Nat
  <2>1. off + 1 \in 1 .. Len(block) /\ off + 2 \in 1 .. Len(block) /\ off + 3 \in 1 .. Len(block)
    BY <1>1, <1>2, <1>4
  <2> QED
    BY <2>1, TableFacts DEF IInv, shared, nonshared, vlen
<1>6. PICK o \in Nat, d \in Nat, w \in Nat, e \in Nat :
          o = off /\ d = nonshared(off) /\ w = vlen(off) /\ e = entries_size
  BY <1>1, <1>2, <1>5
<1>7. need(off) = 3 + d + w
  BY <1>6, Constants DEF need
<1>8. o + (3 + d + w) <= e
  BY <1>6, <1>7 DEF Overlong, NeedFits
<1>9. PICK a \in Nat, b \in Nat : a = o + 3 + d /\ b = o + (3 + d + w)
  OBVIOUS
<1>10. a <= b /\ b <= Len(block) /\ b - a = w /\ a <= e /\ o + 3 <= a
  <2>1. a <= b /\ b <= e /\ b - a = w /\ o + 3 <= a
    BY <1>8, <1>9
  <2> QED
    BY <1>1, <1>6, <2>1
<1>11. cur_key \in Bytes
  <2>1. shared(off) <= Len(prev_key)
    <3>1. ~(shared(off) > Len(prev_key))
      BY DEF Overlong
    <3> QED
      BY <1>2, <1>5, <3>1
  <2>2. SubSeq(prev_key, 0 + 1, shared(off)) \in Seq(Cell)
    BY <1>2, <1>5, <2>1, CutFacts DEF Bytes
  <2>3. SubSeq(prev_key, 1, shared(off)) \in Seq(Cell)
    BY <2>2
  <2>4. SubSeq(block, o + 3 + 1, a) \in Seq(Cell)
    <3>1. PICK u \in Nat : u = o + 3
      OBVIOUS
    <3>2. SubSeq(block, u + 1, a) \in Seq(Cell)
      BY <1>1, <1>2, <1>10, <3>1, CutFacts
    <3> QED
      BY <3>1, <3>2
  <2>5. Delta(off) = SubSeq(block, o + 3 + 1, a)
    BY <1>6, <1>9, Constants DEF Delta
  <2> QED
    BY <2>3, <2>4, <2>5, ConcatProperties DEF cur_key, Bytes
<1>12. FoundValue = SubSeq(block, a + 1, b)
  BY <1>6, <1>7, <1>9, Constants DEF FoundValue
<1>13. /\ FoundValue \in Seq(Cell) /\ Len(FoundValue) = w
       /\ \A i \in 1 .. w : FoundValue[i] = block[a + i]
  <2>1. /\ SubSeq(block, a + 1, b) \in Seq(Cell) /\ Len(SubSeq(block, a + 1, b)) = b - a
        /\ \A i \in 1 .. b - a : SubSeq(block, a + 1, b)[i] = block[a + i]
    BY <1>2, <1>10, CutFacts
  <2> QED
    BY <1>10, <1>12, <2>1
<1>14. Inside(FoundValue)
  <2>1. a \in 0 .. e /\ a + w <= e /\ a + w = b
    BY <1>8, <1>9, <1>10
  <2>2. FoundValue = SubSeq(block, a + 1, a + Len(FoundValue))
    BY <1>12, <1>13, <2>1
  <2> QED
    BY <1>6, <1>13, <2>1, <2>2 DEF Inside
<1>15. off + HeaderSize + nonshared(off) = a
  BY <1>6, <1>9, Constants
<1>16. /\ need(off) \in Nat /\ need(off) >= 3 /\ off + need(off) <= entries_size
  <2>1. 3 + d + w \in Nat /\ 3 + d + w >= 3
    OBVIOUS
  <2> QED
    BY <1>6, <1>7, <1>8, <2>1
<1> QED
  BY <1>2, <1>5, <1>6, <1>11, <1>13, <1>14, <1>15, <1>16

\* While the keys are intact, the scan stands at an entry that passes the checks
\* and gives back the key that was added (lines 203-225).
LEMMA IntactScan ==
    ASSUME IInv, pc = "scan", ~RunEnds, KeysIntact
    PROVE  \E n \in Entries : Off(n) = off /\ ~Overlong /\ cur_key = KeyOf(n)
<1>1. /\ finished /\ entries_size \in Nat /\ lo \in 1 .. num_restarts /\ off \in Nat
  BY RunFacts DEF IInv, Typed
<1>2. off # entries_size
  BY <1>1 DEF RunEnds
<1>3. PICK n \in Entries : /\ Off(n) = off
                           /\ off # Restart(lo) => n > 1 /\ prev_key = KeyOf(n - 1)
  BY <1>2 DEF IInv, Scanning, KeysRebuilt, Off
<1>4. /\ added[n].shared \in Nat /\ added[n].shared <= Len(KeyOf(n)) /\ n \in Nat /\ n >= 1
      /\ KeyOf(n) \in Bytes /\ Len(KeyOf(n)) \in Nat /\ n <= Len(added) /\ Len(added) > 0
  BY EntryFacts DEF IInv
<1>5. /\ shared(off) = added[n].shared /\ HeaderFits(off) /\ NeedFits(off)
      /\ Delta(off) = SubSeq(KeyOf(n), added[n].shared + 1, Len(KeyOf(n)))
  BY <1>1, <1>3, IntactEntry DEF IInv
<1>6. prev_key \in Bytes /\ Len(prev_key) \in Nat
  BY ByteFacts DEF IInv, Typed
<1>7. ASSUME added[n].shared <= Len(prev_key),
             \A j \in 1 .. added[n].shared : prev_key[j] = KeyOf(n)[j]
      PROVE  ~Overlong /\ cur_key = KeyOf(n)
  <2>1. SubSeq(prev_key, 1, added[n].shared)
            \o SubSeq(KeyOf(n), added[n].shared + 1, Len(KeyOf(n))) = KeyOf(n)
    BY <1>4, <1>6, <1>7, Rebuild
  <2>2. cur_key = KeyOf(n)
    BY <1>5, <2>1 DEF cur_key
  <2>3. ~Overlong
    BY <1>4, <1>5, <1>6, <1>7 DEF Overlong
  <2> QED
    BY <2>2, <2>3
<1>8. CASE added[n].shared = 0
  BY <1>3, <1>4, <1>6, <1>7, <1>8
<1>9. CASE added[n].shared # 0
  <2>1. off # Restart(lo)
    <3> SUFFICES ASSUME off = Restart(lo)
                 PROVE  FALSE
      OBVIOUS
    <3>1. PICK m \in Entries : Restart(lo) = Off(m) /\ added[m].shared = 0
      BY <1>1, <1>4, RestartFacts
    <3>2. m = n
      BY <1>3, <3>1, OffsetFacts DEF IInv
    <3> QED
      BY <1>9, <3>1, <3>2
  <2>2. n > 1 /\ prev_key = KeyOf(n - 1)
    BY <1>3, <2>1
  <2>3. /\ added[n].shared <= Len(KeyOf(n - 1))
        /\ \A j \in 1 .. added[n].shared : KeyOf(n - 1)[j] = KeyOf(n)[j]
    BY <1>9 DEF IInv, Compressed
  <2> QED
    BY <1>3, <1>7, <2>2, <2>3
<1> QED
  BY <1>8, <1>9

\* What Get() returns keeps its type.
LEMMA ReturnTypes ==
    ASSUME IInv
    PROVE  /\ <<>> \in Seq(Cell) /\ key \in Key \cup {<<>>} /\ outside \in BOOLEAN
BY EmptySeq DEF IInv, Typed

LEMMA ScanEndInv ==
    ASSUME IInv, ScanEnd
    PROVE  IInv'
<1>1. /\ pc = "scan" /\ RunEnds /\ Returns(FALSE, <<>>)
      /\ UNCHANGED <<builder, stored>> /\ UNCHANGED <<key, outside>>
  BY DEF ScanEnd
<1>2. ASSUME KeysIntact, \E n \in Entries : KeyOf(n) = key
      PROVE  FALSE
  <2>1. PICK n \in Entries : Sought(n)
    BY <1>2, SoughtExists DEF IInv
  <2>2. /\ off <= Off(n)
        /\ hi < num_restarts => Off(n) < Restart(hi + 1)
    BY <1>1, <1>2, <2>1 DEF IInv, Searching
  <2>3. /\ Off(n) \in Nat /\ End(n) \in Nat /\ Off(n) < End(n) /\ End(n) <= Area
    BY EntryFacts DEF IInv
  <2>4. /\ entries_size = Area /\ entries_size \in Nat /\ off \in Nat /\ hi = lo
        /\ lo \in 1 .. num_restarts /\ num_restarts \in Nat
    BY <1>1, <1>2, RunFacts, IntactTrailer DEF IInv, Typed
  <2>5. ~(off >= entries_size)
    BY <2>2, <2>3, <2>4
  <2>6. lo < num_restarts /\ off >= Restart(lo + 1) /\ Off(n) < Restart(lo + 1)
    BY <1>1, <2>2, <2>4, <2>5 DEF RunEnds
  <2>7. Restart(lo + 1) \in Nat
    <3>1. lo + 1 \in 1 .. num_restarts
      BY <2>4, <2>6
    <3> QED
      BY <1>1, <3>1, RunFacts
  <2> QED
    BY <2>2, <2>3, <2>4, <2>6, <2>7
<1>3. KeysIntact => Answers(FALSE, <<>>)
  BY <1>2 DEF Answers
<1> QED
  BY <1>1, <1>3, ReturnTypes, Returned

LEMMA ScanFailsInv ==
    ASSUME IInv, ScanFails
    PROVE  IInv'
<1>1. /\ pc = "scan" /\ ~RunEnds /\ Overlong /\ Returns(FALSE, <<>>)
      /\ UNCHANGED <<builder, stored>> /\ UNCHANGED <<key, outside>>
  BY DEF ScanFails
<1>2. ~KeysIntact
  BY <1>1, IntactScan
<1> QED
  BY <1>1, <1>2, ReturnTypes, Returned

LEMMA ScanFoundInv ==
    ASSUME IInv, ScanFound
    PROVE  IInv'
<1>1. /\ pc = "scan" /\ ~RunEnds /\ ~Overlong /\ cur_key = key
      /\ Returns(TRUE, FoundValue)
      /\ UNCHANGED <<builder, stored>> /\ UNCHANGED <<key, outside>>
  BY DEF ScanFound, FoundValue
<1>2. FoundValue \in Seq(Cell) /\ Inside(FoundValue)
  BY <1>1, ScanFacts
<1>3. ASSUME KeysIntact
      PROVE  Answers(TRUE, FoundValue)
  <2>1. PICK n \in Entries : Off(n) = off /\ cur_key = KeyOf(n)
    BY <1>1, <1>3, IntactScan
  <2>2. finished
    BY <1>1, RunFacts
  <2>3. /\ off + HeaderSize + nonshared(off) = ValueAt(n) /\ off + need(off) = End(n)
    BY <1>3, <2>1, <2>2, IntactEntry DEF IInv
  <2>4. /\ Len(FoundValue) = vlen(off) /\ vlen(off) \in Nat
        /\ \A i \in 1 .. vlen(off) : FoundValue[i] = block[ValueAt(n) + i]
    BY <1>1, <2>3, ScanFacts
  <2>5. ValueLen(n) \in Nat /\ ValueAt(n) \in Nat /\ Off(n) \in Nat /\ End(n) = ValueAt(n) + ValueLen(n)
    BY EntryFacts DEF IInv, End
  <2>6. vlen(off) = ValueLen(n)
    <3>1. nonshared(off) \in Nat /\ off \in Nat
      BY <1>1, ScanFacts
    <3>2. PICK o \in Nat, d \in Nat, w \in Nat, x \in Nat, y \in Nat :
              /\ o = off /\ d = nonshared(off) /\ w = vlen(off) /\ x = ValueLen(n) /\ y = ValueAt(n)
      BY <2>4, <2>5, <3>1
    <3>3. o + 3 + d = y /\ o + (3 + d + w) = y + x
      BY <2>3, <2>5, <3>2, Constants DEF need
    <3> QED
      BY <3>2, <3>3
  <2>7. \A i \in 1 .. ValueLen(n) : buffer[ValueAt(n) + i] = added[n].value[i]
    BY DEF IInv, Laid, LaidEntry
  <2>8. ValueLen(n) = Len(added[n].value)
    BY DEF ValueLen
  <2>9. \A i \in 1 .. Len(FoundValue) :
            \/ FoundValue[i] = added[n].value[i]
            \/ block[ValueAt(n) + i] # buffer[ValueAt(n) + i]
    BY <2>4, <2>6, <2>7
  <2> QED
    BY <1>1, <2>1, <2>4, <2>6, <2>8, <2>9 DEF Answers
<1> QED
  BY <1>1, <1>2, <1>3, ReturnTypes, Returned

LEMMA ScanPassedInv ==
    ASSUME IInv, ScanPassed
    PROVE  IInv'
<1>1. /\ pc = "scan" /\ ~RunEnds /\ Less(key, cur_key) /\ Returns(FALSE, <<>>)
      /\ UNCHANGED <<builder, stored>> /\ UNCHANGED <<key, outside>>
  BY DEF ScanPassed
<1>2. ASSUME KeysIntact, \E n \in Entries : KeyOf(n) = key
      PROVE  FALSE
  <2>1. PICK n \in Entries : Sought(n)
    BY <1>2, SoughtExists DEF IInv
  <2>2. PICK m \in Entries : Off(m) = off /\ cur_key = KeyOf(m)
    BY <1>1, <1>2, IntactScan
  <2>3. off <= Off(n)
    BY <1>1, <1>2, <2>1 DEF IInv, Searching
  <2>4. m <= n /\ m \in Nat /\ n \in Nat
    BY <2>2, <2>3, OffsetFacts, EntryFacts DEF IInv
  <2>5. n < m
    BY <1>1, <2>1, <2>2, KeyOrder DEF IInv, Sought
  <2> QED
    BY <2>4, <2>5
<1>3. KeysIntact => Answers(FALSE, <<>>)
  BY <1>2 DEF Answers
<1> QED
  BY <1>1, <1>3, ReturnTypes, Returned

\* The scan moves to the next entry, with this one's key in hand, and does not
\* step over the key it looks for (lines 227-240).
LEMMA ScanOnInv ==
    ASSUME IInv, ScanOn
    PROVE  IInv'
<1>1. /\ pc = "scan" /\ ~RunEnds /\ ~Overlong /\ Less(cur_key, key) /\ pc' = "scan"
      /\ prev_key' = cur_key /\ off' = off + need(off)
      /\ UNCHANGED <<builder, stored>> /\ UNCHANGED <<key, lo, hi, outside, result>>
  BY DEF ScanOn
<1>2. /\ off \in Nat /\ need(off) \in Nat /\ need(off) >= 3 /\ off + need(off) <= entries_size
      /\ cur_key \in Bytes
  BY <1>1, ScanFacts
<1>3. /\ finished /\ TrailerFits /\ lo \in 1 .. num_restarts /\ hi = lo /\ lo \in Nat /\ hi \in Int
      /\ Restart(lo) \in Nat
  <2>1. /\ finished /\ TrailerFits /\ num_restarts \in Nat /\ lo \in 1 .. num_restarts /\ hi = lo
    BY <1>1, RunFacts DEF IInv, Typed
  <2> QED
    BY <1>1, <2>1, RunFacts
<1>4. off' \in Nat /\ off' > off
  BY <1>1, <1>2
<1>5. /\ num_restarts' = num_restarts /\ entries_size' = entries_size /\ Entries' = Entries
      /\ Restart(lo)' = Restart(lo) /\ Restart(hi + 1)' = Restart(hi + 1)
      /\ (KeysIntact' <=> KeysIntact) /\ \A n : KeyOf(n)' = KeyOf(n) /\ Off(n)' = Off(n)
  <2>1. block' = block /\ entries_size' = entries_size
    BY <1>1, BlockKept
  <2>2. Restart(lo)' = Restart(lo) /\ Restart(hi + 1)' = Restart(hi + 1)
    BY <1>1, <2>1 DEF Restart
  <2> QED
    BY <1>1, <2>1, <2>2, BlockKept
<1>6. Typed'
  <2>1. key \in Key \cup {<<>>} /\ outside \in BOOLEAN /\ result \in [ret : BOOLEAN, val : Seq(Cell)]
    BY DEF IInv, Typed
  <2> QED
    BY <1>1, <1>2, <1>3, <1>4, <2>1, LookupTyped
<1>7. ASSUME KeysIntact
      PROVE  \E n \in Entries :
                 /\ Off(n) = off /\ cur_key = KeyOf(n) /\ off' = End(n) /\ n \in Nat /\ n >= 1
                 /\ \/ off' = entries_size
                    \/ n + 1 \in Entries /\ off' = Off(n + 1)
  <2>1. PICK n \in Entries : Off(n) = off /\ cur_key = KeyOf(n)
    BY <1>1, <1>7, IntactScan
  <2>2. off' = End(n)
    BY <1>1, <1>3, <1>7, <2>1, IntactEntry DEF IInv
  <2>3. n \in Nat /\ n >= 1 /\ n <= Len(added) /\ Len(added) \in Nat /\ Len(added) > 0
    BY EntryFacts, TableFacts DEF IInv
  <2>4. CASE n = Len(added)
    <3>1. Area = End(n) /\ entries_size = Area
      BY <1>3, <1>7, <2>3, <2>4, IntactTrailer DEF IInv, Area
    <3> QED
      BY <2>1, <2>2, <2>3, <3>1
  <2>5. CASE n < Len(added)
    <3>1. n + 1 \in Entries
      BY <2>3, <2>5 DEF Entries
    <3>2. Off(n + 1) = End(n)
      BY <3>1 DEF IInv, Placed
    <3> QED
      BY <2>1, <2>2, <2>3, <3>1, <3>2
  <2> QED
    BY <2>3, <2>4, <2>5
<1>8. Searching'
  <2> SUFFICES ASSUME KeysIntact', NEW k \in Entries', Sought(k)'
               PROVE  /\ Restart(lo)' <= Off(k)'
                      /\ hi' < num_restarts' => Off(k)' < Restart(hi + 1)'
                      /\ off' <= Off(k)'
    BY DEF Searching
  <2>1. Sought(k) /\ KeysIntact /\ k \in Entries /\ KeyOf(k) = key
    BY <1>1, <1>5 DEF Sought
  <2>2. /\ Restart(lo) <= Off(k)
        /\ hi < num_restarts => Off(k) < Restart(hi + 1)
    BY <1>1, <2>1 DEF IInv, Searching
  <2>3. PICK n \in Entries : cur_key = KeyOf(n) /\ off' = End(n)
    BY <1>7, <2>1
  <2>4. n < k
    BY <1>1, <2>1, <2>3, KeyOrder DEF IInv
  <2>5. End(n) <= Off(k)
    BY <2>1, <2>4 DEF IInv, Placed
  <2> QED
    BY <1>1, <1>5, <2>2, <2>3, <2>5
<1>9. Scanning'
  <2>1. \A n : added'[n].off = Off(n)'
    BY DEF Off
  <2>2. KeysRebuilt'
    <3> SUFFICES ASSUME KeysIntact, off' # entries_size
                 PROVE  \E m \in Entries : /\ Off(m) = off'
                                           /\ m > 1 /\ cur_key = KeyOf(m - 1)
      BY <1>1, <1>5, <2>1 DEF KeysRebuilt
    <3>1. PICK n \in Entries : /\ cur_key = KeyOf(n) /\ n \in Nat /\ n >= 1
                               /\ n + 1 \in Entries /\ off' = Off(n + 1)
      BY <1>7
    <3>2. n + 1 > 1 /\ (n + 1) - 1 = n
      BY <3>1
    <3> QED
      BY <3>1, <3>2
  <2>3. Restart(lo)' <= off' /\ off' # Restart(lo)'
    <3>1. Restart(lo) <= off
      BY <1>1 DEF IInv, Scanning
    <3> QED
      BY <1>2, <1>3, <1>4, <1>5, <3>1
  <2> QED
    BY <1>1, <2>2, <2>3 DEF Scanning
<1>10. ReadsInside' /\ GetExact'
  BY <1>1, <1>2, <1>5 DEF ReadsInside, GetExact
<1> QED
  BY <1>1, <1>6, <1>8, <1>9, <1>10, BlockKept DEF IInv

-----------------------------------------------------------------------------
(* The builder. *)

\* While a block is built, no lookup runs.
LEMMA BuildKept ==
    ASSUME pc = "build", UNCHANGED <<pc, key, search, result>>
    PROVE  Searching' /\ Scanning' /\ ReadsInside' /\ GetExact'
BY DEF Searching, Scanning, KeysRebuilt, ReadsInside, GetExact

\* Finish() puts the trailer behind the entries (lines 174-187 of the builder).
LEMMA FinishInv ==
    ASSUME IInv, Finish
    PROVE  IInv'
<1>1. /\ pc = "build" /\ ~finished /\ buffer' = Append(buffer \o restarts, Len(restarts))
      /\ finished' = TRUE /\ block' = buffer'
      /\ UNCHANGED <<restarts, last_key, counter, restart_interval, added, damage>>
      /\ UNCHANGED <<pc, key, search, result>>
  BY DEF Finish
<1>2. /\ buffer \in Seq(Cell) /\ restarts \in Seq(Cell)
  BY DEF IInv, Typed
<1>3. PICK A \in Nat, R \in Nat : A = Area /\ R = Len(restarts) /\ R >= 1
  BY TableFacts DEF IInv, Placed
<1>4. Len(buffer) = A
  BY <1>1, <1>3 DEF IInv, Placed
<1>5. R \in Cell
  <2>1. A + R + 6 < Word /\ Word \in Nat
    BY <1>3, BlockBelowWord, Constants DEF IInv
  <2> QED
    BY <2>1 DEF Cell
<1>6. PICK c : c = buffer \o restarts
  OBVIOUS
<1>7. /\ c \in Seq(Cell) /\ Len(c) = A + R
      /\ \A i \in 1 .. A : c[i] = buffer[i]
      /\ \A i \in 1 .. R : c[A + i] = restarts[i]
  <2>1. Len(restarts) = R
    BY <1>3
  <2>2. c \in Seq(Cell) /\ Len(c) = A + R
    BY <1>2, <1>4, <1>6, <2>1, ConcatProperties
  <2>3. \A i \in 1 .. A : c[i] = buffer[i]
    BY <1>2, <1>4, <1>6, <2>1, ConcatProperties
  <2>4. ASSUME NEW i \in 1 .. R
        PROVE  c[A + i] = restarts[i]
    <3>1. \A j \in 1 .. A + R : c[j] = IF j <= A THEN buffer[j] ELSE restarts[j - A]
      BY <1>2, <1>4, <1>6, <2>1, ConcatProperties
    <3>2. A + i \in 1 .. A + R /\ ~(A + i <= A) /\ (A + i) - A = i
      OBVIOUS
    <3> QED
      BY <3>1, <3>2
  <2> QED
    BY <2>2, <2>3, <2>4
<1>8. /\ buffer' \in Seq(Cell) /\ Len(buffer') = A + R + 1 /\ buffer'[A + R + 1] = R
      /\ \A i \in 1 .. A + R : buffer'[i] = c[i]
  <2>1. buffer' = Append(c, R)
    BY <1>1, <1>3, <1>6
  <2>2. PICK L \in Nat : L = A + R
    OBVIOUS
  <2>3. Len(c) = L
    BY <1>7, <2>2
  <2>4. /\ Append(c, R) \in Seq(Cell) /\ Len(Append(c, R)) = L + 1
        /\ \A i \in 1 .. L : Append(c, R)[i] = c[i]
        /\ Append(c, R)[L + 1] = R
    BY <1>5, <1>7, <2>3, AppendProperties
  <2> QED
    BY <2>1, <2>2, <2>4
<1>9. \A i \in 1 .. A : buffer'[i] = buffer[i]
  BY <1>7, <1>8
<1>10. \A r \in 1 .. R : buffer'[A + r] = restarts[r]
  <2> TAKE r \in 1 .. R
  <2>1. A + r \in 1 .. A + R
    OBVIOUS
  <2> QED
    BY <1>7, <1>8, <2>1
<1>11. /\ Entries' = Entries /\ Area' = Area
       /\ \A n : /\ KeyOf(n)' = KeyOf(n) /\ Off(n)' = Off(n) /\ ValueAt(n)' = ValueAt(n)
                 /\ ValueLen(n)' = ValueLen(n) /\ End(n)' = End(n)
  BY <1>1 DEF Entries, Area, End, ValueAt, ValueLen, KeyOf, Off
<1>12. Typed'
  <2>1. block' \in Seq(Cell)
    BY <1>1, <1>8
  <2>2. UNCHANGED <<lo, hi, off, prev_key, outside>>
    BY <1>1 DEF search
  <2> QED
    BY <1>1, <1>8, <2>1, <2>2 DEF IInv, Typed
<1>13. Placed'
  <2>1. Len(buffer') = Area' + Len(restarts') + 1 /\ Len(block') <= Len(buffer')
    BY <1>1, <1>3, <1>8, <1>11
  <2> QED
    BY <1>1, <1>11, <2>1 DEF IInv, Placed
<1>14. Laid'
  <2>1. ASSUME NEW n \in Entries
        PROVE  LaidEntry(n)'
    <3>1. LaidEntry(n)
      BY DEF IInv, Laid
    <3>2. PICK o \in Nat, d \in Nat, w \in Nat, x \in Nat :
              /\ o = Off(n) /\ d = Len(KeyOf(n)) - added[n].shared /\ w = ValueLen(n)
              /\ x = ValueAt(n)
      <4>1. /\ Off(n) \in Nat /\ ValueLen(n) \in Nat /\ ValueAt(n) \in Nat
            /\ Len(KeyOf(n)) \in Nat /\ added[n].shared \in Nat
            /\ added[n].shared <= Len(KeyOf(n))
        BY EntryFacts DEF IInv
      <4>2. Len(KeyOf(n)) - added[n].shared \in Nat
        BY <4>1
      <4> QED
        BY <4>1, <4>2
    <3>3. x = o + 3 + d /\ x + w <= A
      BY <1>3, <3>2, EntryFacts DEF IInv, End
    <3>4. /\ o + 1 \in 1 .. A /\ o + 2 \in 1 .. A /\ o + 3 \in 1 .. A
          /\ \A i \in 1 .. d : o + 3 + i \in 1 .. A
          /\ \A i \in 1 .. w : x + i \in 1 .. A
      BY <3>3
    <3>5. /\ buffer[o + 1] = added[n].shared /\ buffer[o + 2] = d /\ buffer[o + 3] = w
          /\ \A i \in 1 .. d : buffer[o + 3 + i] = KeyOf(n)[added[n].shared + i]
          /\ \A i \in 1 .. w : buffer[x + i] = added[n].value[i]
      BY <3>1, <3>2 DEF LaidEntry
    <3>6. /\ buffer'[o + 1] = added[n].shared /\ buffer'[o + 2] = d /\ buffer'[o + 3] = w
          /\ \A i \in 1 .. d : buffer'[o + 3 + i] = KeyOf(n)[added[n].shared + i]
          /\ \A i \in 1 .. w : buffer'[x + i] = added[n].value[i]
      BY <1>9, <3>4, <3>5
    <3> QED
      BY <1>1, <1>11, <3>2, <3>6 DEF LaidEntry
  <2> QED
    BY <1>1, <1>3, <1>8, <1>10, <1>11, <2>1 DEF Laid
<1>15. Compressed' /\ Sorted'
  BY <1>1, <1>11 DEF IInv, Compressed, Sorted
<1> QED
  BY <1>1, <1>12, <1>13, <1>14, <1>15, BuildKept DEF IInv

-----------------------------------------------------------------------------
(* Damage. *)

\* Only the stored copy changes, and does not grow.
LEMMA DamagedInv ==
    ASSUME IInv, pc = "build", finished, damage < MaxDamage, damage' = damage + 1,
           UNCHANGED <<builder, pc, key, search, result>>,
           block' \in Seq(Cell), Len(block') <= Len(block)
    PROVE  IInv'
<1>1. /\ UNCHANGED <<buffer, restarts, last_key, counter, finished, restart_interval, added>>
      /\ UNCHANGED <<lo, hi, off, prev_key, outside>>
  BY DEF builder, search
<1>2. Typed'
  <2>1. damage' \in 0 .. MaxDamage
    BY Constants DEF IInv, Typed
  <2> QED
    BY <1>1, <2>1 DEF IInv, Typed
<1>3. /\ Entries' = Entries /\ Area' = Area
      /\ \A n : /\ KeyOf(n)' = KeyOf(n) /\ Off(n)' = Off(n) /\ ValueAt(n)' = ValueAt(n)
                /\ ValueLen(n)' = ValueLen(n) /\ End(n)' = End(n)
  BY <1>1 DEF Entries, Area, End, ValueAt, ValueLen, KeyOf, Off
<1>4. Placed'
  <2>1. Len(block') <= Len(buffer')
    <3>1. /\ Len(block') \in Nat /\ Len(block) \in Nat /\ Len(buffer) \in Nat
          /\ Len(block) <= Len(buffer)
      BY TableFacts, LenProperties DEF IInv, Placed
    <3> QED
      BY <1>1, <3>1
  <2> QED
    BY <1>1, <1>3, <2>1 DEF IInv, Placed
<1>5. Laid'
  BY <1>1, <1>3 DEF IInv, Laid, LaidEntry
<1>6. Compressed' /\ Sorted'
  BY <1>1, <1>3 DEF IInv, Compressed, Sorted
<1> QED
  BY <1>2, <1>4, <1>5, <1>6, BuildKept DEF IInv

LEMMA DamageInv ==
    ASSUME IInv, NEW p \in 1 .. Len(block), NEW x \in Rot, Damage(p, x)
    PROVE  IInv'
<1>1. /\ pc = "build" /\ finished /\ damage < MaxDamage /\ damage' = damage + 1
      /\ block' = [block EXCEPT ![p] = x] /\ UNCHANGED <<builder, pc, key, search, result>>
  BY DEF Damage
<1>2. block \in Seq(Cell) /\ x \in Cell /\ Len(block) \in Nat
  BY Constants, TableFacts DEF IInv, Typed
<1>3. block' \in Seq(Cell) /\ Len(block') = Len(block)
  BY <1>1, <1>2, ExceptSeq
<1> QED
  BY <1>1, <1>2, <1>3, DamagedInv

LEMMA TruncateInv ==
    ASSUME IInv, NEW n \in 0 .. Len(block) - 1, Truncate(n)
    PROVE  IInv'
<1>1. /\ pc = "build" /\ finished /\ damage < MaxDamage /\ damage' = damage + 1
      /\ block' = SubSeq(block, 0 + 1, n) /\ UNCHANGED <<builder, pc, key, search, result>>
  BY DEF Truncate
<1>2. block \in Seq(Cell) /\ Len(block) \in Nat
  BY TableFacts DEF IInv, Typed
<1>3. n \in Nat /\ 0 <= n /\ n <= Len(block)
  BY <1>2
<1>4. block' \in Seq(Cell) /\ Len(block') = n - 0
  BY <1>1, <1>2, <1>3, CutFacts
<1>5. Len(block') <= Len(block)
  BY <1>3, <1>4
<1> QED
  BY <1>1, <1>4, <1>5, DamagedInv

-----------------------------------------------------------------------------
(* Add. *)

\* What Add() writes for a key (lines 139-160 of the builder): the bytes that
\* it leaves out are the ones the previous key begins with.
LEMMA EncodedFacts ==
    ASSUME IInv, Len(added) < MaxEntries, NEW k \in Key, NEW v \in Value
    PROVE  LET s == Shared(k)
               d == Len(k) - s
               e == Encoded(k, v)
           IN  /\ s \in Nat /\ s <= Len(k) /\ s <= Len(last_key)
               /\ StartsRun => s = 0
               /\ \A j \in 1 .. s : last_key[j] = k[j]
               /\ e \in Seq(Cell) /\ Len(e) = 3 + d + Len(v) /\ 3 + d + Len(v) <= Unit
               /\ e[1] = s /\ e[2] = d /\ e[3] = Len(v)
               /\ \A i \in 1 .. d : e[3 + i] = k[s + i]
               /\ \A i \in 1 .. Len(v) : e[3 + d + i] = v[i]
<1>1. /\ k \in Bytes /\ v \in Bytes /\ last_key \in Bytes
      /\ Len(k) \in Nat /\ Len(v) \in Nat /\ Len(last_key) \in Nat
  BY Constants, ByteFacts DEF IInv, Typed
<1>2. PICK s : s = Shared(k)
  OBVIOUS
<1>3. /\ s \in Nat /\ s <= Len(last_key) /\ s <= Len(k) /\ (StartsRun => s = 0)
      /\ \A j \in 1 .. s : last_key[j] = k[j]
  <2>1. CASE StartsRun
    BY <1>1, <1>2, <2>1 DEF Shared
  <2>2. CASE ~StartsRun
    BY <1>1, <1>2, <2>2, SharedPrefixFacts DEF Shared
  <2> QED
    BY <2>1, <2>2
<1>4. PICK d \in Nat, K \in Nat, w \in Nat : K = Len(k) /\ d = K - s /\ w = Len(v)
  <2>1. PICK K \in Nat, w \in Nat : K = Len(k) /\ w = Len(v)
    BY <1>1
  <2>2. s \in Nat /\ s <= K
    BY <1>3, <2>1
  <2>3. K - s \in Nat
    BY <2>2
  <2> QED
    BY <2>1, <2>3
<1>5. s \in Nat /\ s + d = K
  BY <1>3, <1>4
<1>6. 3 + d + w <= Unit
  <2>1. 3 + K + w <= Unit /\ Unit \in Nat
    BY <1>4, Constants
  <2> QED
    BY <1>5, <2>1
<1>7. Unit < Word
  <2>1. Len(added) \in Nat /\ Unit \in Nat /\ MaxEntries \in Nat /\ Word \in Nat
    BY TableFacts, Constants DEF IInv
  <2>2. \A a, b \in Nat : a >= 1 => a * b >= b
    OBVIOUS
  <2>3. MaxEntries * (Unit + 1) >= Unit + 1 /\ MaxEntries * (Unit + 1) \in Nat
    BY <2>1, <2>2
  <2> QED
    BY <2>1, <2>3, Constants
<1>8. s \in Cell /\ d \in Cell /\ w \in Cell
  <2>1. s + 3 + w <= Unit /\ Unit \in Nat /\ Word \in Nat
    <3>1. 3 + K + w <= Unit /\ Unit \in Nat
      BY <1>4, Constants
    <3> QED
      BY <1>5, <3>1, Constants
  <2> QED
    BY <1>5, <1>6, <1>7, <2>1 DEF Cell
<1>9. PICK h : h = <<s, d, w>>
  OBVIOUS
<1>10. h \in Seq(Cell) /\ Len(h) = 3 /\ h[1] = s /\ h[2] = d /\ h[3] = w
  BY <1>8, <1>9
<1>11. PICK t : t = SubSeq(k, s + 1, K)
  OBVIOUS
<1>12. t \in Seq(Cell) /\ Len(t) = d /\ \A i \in 1 .. d : t[i] = k[s + i]
  <2>1. k \in Seq(Cell) /\ s <= K /\ K <= Len(k) /\ K - s = d
    BY <1>1, <1>4, <1>5 DEF Bytes
  <2>2. /\ SubSeq(k, s + 1, K) \in Seq(Cell) /\ Len(SubSeq(k, s + 1, K)) = K - s
        /\ \A i \in 1 .. K - s : SubSeq(k, s + 1, K)[i] = k[s + i]
    BY <1>5, <2>1, CutFacts
  <2> QED
    BY <1>11, <2>1, <2>2
<1>13. PICK g : g = h \o t
  OBVIOUS
<1>14. /\ g \in Seq(Cell) /\ Len(g) = 3 + d
       /\ \A j \in 1 .. 3 + d : g[j] = IF j <= 3 THEN h[j] ELSE t[j - 3]
  <2>1. PICK a \in Nat : a = 3
    OBVIOUS
  <2>2. h \in Seq(Cell) /\ t \in Seq(Cell) /\ Len(h) = a /\ Len(t) = d
    BY <1>10, <1>12, <2>1
  <2>3. /\ g \in Seq(Cell) /\ Len(g) = a + d
    BY <1>13, <2>2, ConcatProperties
  <2>4. \A j \in 1 .. a + d : g[j] = IF j <= a THEN h[j] ELSE t[j - a]
    BY <1>13, <2>2, ConcatProperties
  <2> QED
    BY <2>1, <2>3, <2>4
<1>15. \A j \in 1 .. 3 + d : g[j] = IF j <= 3 THEN h[j] ELSE t[j - 3]
  BY <1>14
<1>16. PICK G \in Nat : G = 3 + d
  OBVIOUS
<1>17. v \in Seq(Cell) /\ Len(v) = w /\ Len(g) = G
  BY <1>1, <1>4, <1>14, <1>16 DEF Bytes
<1>18. PICK e : e = g \o v
  OBVIOUS
<1>19. e \in Seq(Cell) /\ Len(e) = G + w
  BY <1>14, <1>17, <1>18, ConcatProperties
<1>20. \A j \in 1 .. G + w : e[j] = IF j <= G THEN g[j] ELSE v[j - G]
  BY <1>14, <1>17, <1>18, ConcatProperties
<1>21. e = Encoded(k, v)
  BY <1>2, <1>4, <1>9, <1>11, <1>13, <1>18 DEF Encoded
<1>22. e[1] = s /\ e[2] = d /\ e[3] = w
  <2>1. /\ 1 \in 1 .. G + w /\ 2 \in 1 .. G + w /\ 3 \in 1 .. G + w
        /\ 1 <= G /\ 2 <= G /\ 3 <= G /\ 1 \in 1 .. 3 + d /\ 2 \in 1 .. 3 + d /\ 3 \in 1 .. 3 + d
    BY <1>16
  <2> QED
    BY <1>10, <1>15, <1>20, <2>1
<1>23. ASSUME NEW i \in 1 .. d
       PROVE  e[3 + i] = k[s + i]
  <2>1. /\ 3 + i \in 1 .. G + w /\ 3 + i <= G /\ 3 + i \in 1 .. 3 + d
        /\ ~(3 + i <= 3) /\ (3 + i) - 3 = i
    BY <1>16
  <2> QED
    BY <1>12, <1>15, <1>20, <2>1
<1>24. ASSUME NEW i \in 1 .. w
       PROVE  e[3 + d + i] = v[i]
  <2>1. G + i \in 1 .. G + w /\ ~(G + i <= G) /\ (G + i) - G = i
    OBVIOUS
  <2> QED
    BY <1>16, <1>20, <2>1
<1>25. Len(e) = 3 + d + w
  BY <1>16, <1>19
<1>26. d = Len(k) - s /\ w = Len(v)
  BY <1>4
<1> HIDE DEF Shared, Encoded
<1> QED
  <2>1. /\ s \in Nat /\ s <= Len(k) /\ s <= Len(last_key)
        /\ StartsRun => s = 0
        /\ \A j \in 1 .. s : last_key[j] = k[j]
        /\ e \in Seq(Cell) /\ Len(e) = 3 + d + w /\ 3 + d + w <= Unit
        /\ e[1] = s /\ e[2] = d /\ e[3] = w
        /\ \A i \in 1 .. d : e[3 + i] = k[s + i]
        /\ \A i \in 1 .. w : e[3 + d + i] = v[i]
    BY <1>3, <1>6, <1>19, <1>22, <1>23, <1>24, <1>25
  <2> QED
    BY <1>2, <1>21, <1>26, <2>1, Zenon

\* The block after Add().
LEMMA AddFacts ==
    ASSUME IInv, NEW k \in Key, NEW v \in Value, Add(k, v)
    PROVE  \E N \in Nat, b \in Nat, s \in Nat, d \in Nat, w \in Nat :
               /\ N = Len(added) /\ N < MaxEntries /\ Entries = 1 .. N
               /\ b = Len(buffer) /\ b = Area /\ s = Shared(k)
               /\ d = Len(k) - s /\ s <= Len(k) /\ w = Len(v)
               /\ ~finished /\ finished' = FALSE
               /\ added' \in Seq(Entry) /\ Len(added') = N + 1
               /\ \A m \in 1 .. N : added'[m] = added[m]
               /\ added'[N + 1] = [key |-> k, value |-> v, off |-> b, shared |-> s]
               /\ buffer' \in Seq(Cell) /\ Len(buffer') = b + (3 + d + w)
               /\ \A i \in 1 .. b : buffer'[i] = buffer[i]
               /\ \A i \in 1 .. 3 + d + w : buffer'[b + i] = Encoded(k, v)[i]
               /\ Entries' = 1 .. N + 1
<1>1. /\ pc = "build" /\ Len(added) < MaxEntries /\ ~Rejects(k)
      /\ buffer' = buffer \o Encoded(k, v) /\ finished' = finished
      /\ added' = Append(added, [key |-> k, value |-> v, off |-> Len(buffer), shared |-> Shared(k)])
  BY DEF Add
<1>2. ~finished /\ finished \in BOOLEAN
  BY <1>1 DEF Rejects, IInv, Typed
<1>3. Len(buffer) = Area /\ Area \in Nat
  BY <1>2 DEF IInv, Placed
<1>4. PICK N \in Nat, b \in Nat : N = Len(added) /\ b = Area
  BY <1>3, TableFacts DEF IInv
<1>5. PICK s, e : s = Shared(k) /\ e = Encoded(k, v)
  OBVIOUS
<1>6. /\ s \in Nat /\ s <= Len(k) /\ e \in Seq(Cell) /\ Len(e) = 3 + (Len(k) - s) + Len(v)
  BY <1>1, <1>5, EncodedFacts
<1>7. PICK d \in Nat, w \in Nat : d = Len(k) - s /\ w = Len(v)
  <2>1. PICK K \in Nat, w \in Nat : K = Len(k) /\ w = Len(v)
    BY Constants, ByteFacts
  <2>2. s \in Nat /\ s <= K
    BY <1>6, <2>1
  <2>3. K - s \in Nat
    BY <2>2
  <2> QED
    BY <2>1, <2>3
<1>8. PICK r : r = [key |-> k, value |-> v, off |-> b, shared |-> s]
  OBVIOUS
<1>9. r \in Entry
  BY <1>6, <1>8 DEF Entry
<1>10. added \in Seq(Entry) /\ Len(added) = N /\ added' = Append(added, r)
  BY <1>1, <1>3, <1>4, <1>5, <1>8 DEF IInv, Typed
<1>11. /\ added' \in Seq(Entry) /\ Len(added') = N + 1
       /\ \A m \in 1 .. N : added'[m] = added[m]
       /\ added'[N + 1] = r
  BY <1>9, <1>10, AppendProperties
<1>12. PICK E \in Nat : E = 3 + d + w
  OBVIOUS
<1>13. /\ buffer \in Seq(Cell) /\ Len(buffer) = b /\ Len(e) = E /\ buffer' = buffer \o e
  BY <1>1, <1>3, <1>4, <1>5, <1>6, <1>7, <1>12 DEF IInv, Typed
<1>21. e \in Seq(Cell)
  BY <1>6
<1>14. /\ buffer' \in Seq(Cell) /\ Len(buffer') = b + E
  BY <1>13, <1>21, ConcatProperties
<1>15. \A j \in 1 .. b + E : buffer'[j] = IF j <= b THEN buffer[j] ELSE e[j - b]
  BY <1>13, <1>21, ConcatProperties
<1>16. \A i \in 1 .. b : buffer'[i] = buffer[i]
  BY <1>15
<1>17. ASSUME NEW i \in 1 .. E
       PROVE  buffer'[b + i] = e[i]
  <2>1. b + i \in 1 .. b + E /\ ~(b + i <= b) /\ (b + i) - b = i
    OBVIOUS
  <2> QED
    BY <1>15, <2>1
<1>18. Entries = 1 .. N /\ Entries' = 1 .. N + 1
  BY <1>4, <1>11 DEF Entries
<1>19. /\ N = Len(added) /\ N < MaxEntries /\ b = Len(buffer) /\ b = Area /\ s = Shared(k)
       /\ s <= Len(k) /\ s \in Nat /\ ~finished /\ finished' = FALSE
  BY <1>1, <1>2, <1>4, <1>5, <1>6, <1>13
<1>20. /\ Len(buffer') = b + (3 + d + w)
       /\ \A i \in 1 .. 3 + d + w : buffer'[b + i] = Encoded(k, v)[i]
  BY <1>5, <1>12, <1>14, <1>17
<1> HIDE DEF Encoded, Shared
<1> QED
  <2> WITNESS N \in Nat, b \in Nat
  <2>1. s \in Nat
    BY <1>6
  <2> WITNESS s \in Nat
  <2> WITNESS d \in Nat, w \in Nat
  <2> QED
    BY <1>7, <1>8, <1>11, <1>14, <1>16, <1>18, <1>19, <1>20

LEMMA AddInv ==
    ASSUME IInv, NEW k \in Key, NEW v \in Value, Add(k, v)
    PROVE  IInv'
<1>1. PICK N \in Nat, b \in Nat, s \in Nat, d \in Nat, w \in Nat :
          /\ N = Len(added) /\ N < MaxEntries /\ Entries = 1 .. N
          /\ b = Len(buffer) /\ b = Area /\ s = Shared(k)
          /\ d = Len(k) - s /\ s <= Len(k) /\ w = Len(v)
          /\ ~finished /\ finished' = FALSE
          /\ added' \in Seq(Entry) /\ Len(added') = N + 1
          /\ \A m \in 1 .. N : added'[m] = added[m]
          /\ added'[N + 1] = [key |-> k, value |-> v, off |-> b, shared |-> s]
          /\ buffer' \in Seq(Cell) /\ Len(buffer') = b + (3 + d + w)
          /\ \A i \in 1 .. b : buffer'[i] = buffer[i]
          /\ \A i \in 1 .. 3 + d + w : buffer'[b + i] = Encoded(k, v)[i]
          /\ Entries' = 1 .. N + 1
  BY AddFacts
<1> DEFINE E == 1 .. N
<1>2. /\ restarts' = IF StartsRun THEN Append(restarts, b) ELSE restarts
      /\ counter' = IF StartsRun THEN 1 ELSE counter + 1
      /\ last_key' = k /\ ~Rejects(k) /\ pc = "build"
      /\ UNCHANGED <<restart_interval, block, damage, pc, key, search, result>>
  BY <1>1 DEF Add, stored
<1>3. \A m \in E : /\ KeyOf(m)' = KeyOf(m) /\ Off(m)' = Off(m) /\ ValueAt(m)' = ValueAt(m)
                   /\ ValueLen(m)' = ValueLen(m) /\ End(m)' = End(m)
                   /\ added'[m] = added[m]
  BY <1>1 DEF KeyOf, Off, ValueAt, ValueLen, End
<1>4. /\ KeyOf(N + 1)' = k /\ Off(N + 1)' = b /\ added'[N + 1].shared = s
      /\ added'[N + 1].value = v /\ ValueLen(N + 1)' = w
  BY <1>1 DEF KeyOf, Off, ValueLen
<1>5. PICK B \in Nat : B = b + (3 + d + w)
  OBVIOUS
<1>6. ValueAt(N + 1)' = b + 3 + d /\ End(N + 1)' = B
  <2>1. PICK K \in Nat : K = Len(k)
    BY Constants, ByteFacts
  <2>2. ValueAt(N + 1)' = b + 3 + K - s
    <3>1. added'[N + 1].off = b
      BY <1>4 DEF Off
    <3> QED
      BY <1>4, <2>1, <3>1, Constants DEF ValueAt
  <2>3. d = K - s /\ s <= K
    BY <1>1, <2>1
  <2>4. b + 3 + K - s = b + 3 + d /\ b + 3 + d + w = B
    BY <1>5, <2>3
  <2> QED
    BY <1>4, <2>2, <2>4 DEF End
<1>7. Area' = B
  BY <1>1, <1>6 DEF Area
<1>8. \A m \in E : m \in Nat /\ m >= 1 /\ m < N + 1 /\ m \in Entries'
  BY <1>1
<1>9. /\ N + 1 \in Entries' /\ \A m \in Entries' : m \in E \/ m = N + 1
  <2>1. Entries' = 1 .. N + 1
    BY <1>1
  <2> QED
    BY <2>1
<1>10. /\ s <= Len(last_key) /\ (StartsRun => s = 0)
       /\ \A j \in 1 .. s : last_key[j] = k[j]
       /\ 3 + d + w <= Unit
       /\ Encoded(k, v)[1] = s /\ Encoded(k, v)[2] = d /\ Encoded(k, v)[3] = w
       /\ \A i \in 1 .. d : Encoded(k, v)[3 + i] = k[s + i]
       /\ \A i \in 1 .. w : Encoded(k, v)[3 + d + i] = v[i]
  <2>1. Len(added) < MaxEntries
    BY <1>1
  <2>2. s = Shared(k) /\ d = Len(k) - s /\ w = Len(v)
    BY <1>1
  <2> QED
    BY <2>1, <2>2, EncodedFacts, Zenon
<1>11. PICK R \in Nat : R = Len(restarts) /\ R >= 1 /\ R <= N + 1
  BY <1>1, TableFacts DEF IInv
<1>12. b \in Cell
  BY <1>1, BlockBelowWord, TableFacts, Constants DEF IInv, Cell
<1>13. /\ restarts' \in Seq(Cell) /\ Len(restarts') \in R .. R + 1
       /\ \A r \in 1 .. R : restarts'[r] = restarts[r]
       /\ Len(restarts') > R => StartsRun /\ restarts'[R + 1] = b
  <2>0. restarts \in Seq(Cell) /\ Len(restarts) = R
    BY <1>11 DEF IInv, Typed
  <2>1. CASE StartsRun
    <3>1. /\ Append(restarts, b) \in Seq(Cell) /\ Len(Append(restarts, b)) = R + 1
          /\ \A r \in 1 .. R : Append(restarts, b)[r] = restarts[r]
          /\ Append(restarts, b)[R + 1] = b
      BY <1>12, <2>0, AppendProperties
    <3> QED
      BY <1>2, <2>1, <3>1
  <2>2. CASE ~StartsRun
    BY <1>2, <2>0, <2>2
  <2> QED
    BY <2>1, <2>2
<1>14. \A r \in 1 .. Len(restarts') : r \in 1 .. R \/ (r = R + 1 /\ Len(restarts') > R)
  BY <1>13
<1>15. Typed'
  <2>1. UNCHANGED <<lo, hi, off, prev_key, outside>>
    BY <1>2 DEF search
  <2>2. Len(restarts') \in 1 .. Len(added') + 1 /\ Len(added') <= MaxEntries
    <3>1. Len(added') = N + 1 /\ N < MaxEntries /\ MaxEntries \in Nat
      BY <1>1, Constants
    <3>2. PICK x \in Nat : x = Len(restarts') /\ x \in R .. R + 1
      BY <1>13
    <3>3. x \in 1 .. (N + 1) + 1
      BY <1>11, <3>2
    <3>4. N + 1 <= MaxEntries
      BY <3>1
    <3> QED
      BY <3>1, <3>2, <3>3, <3>4
  <2>3. counter' \in Nat
    BY <1>2 DEF IInv, Typed
  <2>4. last_key' \in Key \cup {<<>>} /\ pc' = "build" /\ finished' \in BOOLEAN
    BY <1>1, <1>2
  <2>5. added' \in Seq(Entry) /\ buffer' \in Seq(Cell)
    BY <1>1
  <2> QED
    BY <1>2, <1>13, <2>1, <2>2, <2>3, <2>4, <2>5 DEF IInv, Typed
<1>16. /\ \A m \in E : End(m) \in Nat /\ End(m) <= b /\ added[m].shared <= Len(KeyOf(m))
       /\ b <= B
  <2>1. \A m \in Entries : End(m) \in Nat /\ End(m) <= Area /\ added[m].shared <= Len(KeyOf(m))
    BY EntryFacts DEF IInv
  <2>2. Entries = E /\ Area = b
    BY <1>1
  <2>3. b <= B
    BY <1>5
  <2> HIDE DEF E
  <2> QED
    BY <2>1, <2>2, <2>3
<1>17. Placed'
  <2>1. Area' \in Nat /\ Area' <= Len(added') * Unit
    <3>1. b <= N * Unit /\ Unit \in Nat
      BY <1>1, Constants DEF IInv, Placed
    <3>2. \A n, u, x, y \in Nat : x <= n * u /\ y <= u => x + y <= (n + 1) * u
      OBVIOUS
    <3>3. b + (3 + d + w) <= (N + 1) * Unit
      <4>1. 3 + d + w \in Nat
        OBVIOUS
      <4> QED
        BY <1>10, <3>1, <3>2, <4>1
    <3> QED
      BY <1>1, <1>5, <1>7, <3>3
  <2>2. /\ Len(buffer') = Area' /\ ~finished' /\ Len(block') <= Len(buffer')
    <3>1. Len(buffer') = B /\ Area' = B /\ ~finished'
      BY <1>1, <1>5, <1>7
    <3>2. Len(block) <= b /\ Len(block) \in Nat
      BY <1>1, TableFacts DEF IInv, Placed
    <3>3. Len(block) <= B
      BY <1>16, <3>2
    <3> QED
      BY <1>2, <3>1, <3>3
  <2>3. Off(1)' = 0
    <3>1. CASE N = 0
      <4>1. b = 0
        BY <1>1, <3>1 DEF Area
      <4> QED
        BY <1>4, <3>1, <4>1
    <3>2. CASE N > 0
      <4>1. 1 \in E /\ Off(1) = 0
        BY <1>1, <3>2 DEF IInv, Placed
      <4> QED
        BY <1>3, <4>1
    <3> QED
      BY <3>1, <3>2
  <2>4. ASSUME NEW n \in Entries'
        PROVE  added'[n].shared <= Len(KeyOf(n)') /\ End(n)' <= Area'
    <3>1. CASE n \in E
      BY <1>3, <1>7, <1>16, <3>1
    <3>2. CASE n = N + 1
      <4>1. s <= Len(k)
        BY <1>1
      <4> QED
        BY <1>4, <1>6, <1>7, <3>2, <4>1
    <3> QED
      BY <1>9, <3>1, <3>2
  <2>5. ASSUME NEW m \in Entries', NEW n \in Entries', m < n
        PROVE  End(m)' <= Off(n)'
    <3>1. m \in E
      BY <1>1, <2>5
    <3>2. CASE n \in E
      <4>1. m \in Entries /\ n \in Entries
        BY <1>1, <3>1, <3>2
      <4>2. End(m) <= Off(n)
        BY <2>5, <4>1 DEF IInv, Placed
      <4> QED
        BY <1>3, <3>1, <3>2, <4>2
    <3>3. CASE n = N + 1
      BY <1>3, <1>4, <1>16, <3>1, <3>3
    <3> QED
      BY <1>9, <3>2, <3>3
  <2>6. ASSUME NEW n \in Entries', n + 1 \in Entries'
        PROVE  Off(n + 1)' = End(n)'
    <3>1. n \in E
      BY <1>1, <2>6
    <3>2. CASE n + 1 \in E
      <4>1. n \in Entries /\ n + 1 \in Entries
        BY <1>1, <3>1, <3>2
      <4>2. Off(n + 1) = End(n)
        BY <4>1 DEF IInv, Placed
      <4> QED
        BY <1>3, <3>1, <3>2, <4>2
    <3>3. CASE n + 1 = N + 1
      <4>1. n = N /\ N # 0
        BY <3>1, <3>3
      <4>2. b = End(N)
        BY <1>1, <4>1 DEF Area
      <4> QED
        BY <1>3, <1>4, <3>1, <3>3, <4>1, <4>2
    <3> QED
      BY <1>9, <2>6, <3>2, <3>3
  <2> QED
    BY <2>1, <2>2, <2>3, <2>4, <2>5, <2>6 DEF Placed
<1>18. Laid'
  <2>1. ASSUME NEW n \in E
        PROVE  LaidEntry(n)'
    <3>0. n \in Entries
      BY <1>1
    <3>1. LaidEntry(n)
      BY <3>0 DEF IInv, Laid
    <3>2. PICK o \in Nat, t \in Nat, u \in Nat, x \in Nat :
              /\ o = Off(n) /\ t = Len(KeyOf(n)) - added[n].shared /\ u = ValueLen(n)
              /\ x = ValueAt(n)
      BY <3>0, EntryFacts DEF IInv
    <3>3. x = o + 3 + t /\ x + u <= b
      BY <1>1, <3>0, <3>2, EntryFacts DEF IInv, End
    <3>4. /\ o + 1 \in 1 .. b /\ o + 2 \in 1 .. b /\ o + 3 \in 1 .. b
          /\ \A i \in 1 .. t : o + 3 + i \in 1 .. b
          /\ \A i \in 1 .. u : x + i \in 1 .. b
      BY <3>3
    <3>5. /\ buffer[o + 1] = added[n].shared /\ buffer[o + 2] = t /\ buffer[o + 3] = u
          /\ \A i \in 1 .. t : buffer[o + 3 + i] = KeyOf(n)[added[n].shared + i]
          /\ \A i \in 1 .. u : buffer[x + i] = added[n].value[i]
      BY <3>1, <3>2 DEF LaidEntry
    <3>6. \A i \in 1 .. b : buffer'[i] = buffer[i]
      BY <1>1
    <3>7. /\ buffer'[o + 1] = added[n].shared /\ buffer'[o + 2] = t /\ buffer'[o + 3] = u
          /\ \A i \in 1 .. t : buffer'[o + 3 + i] = KeyOf(n)[added[n].shared + i]
          /\ \A i \in 1 .. u : buffer'[x + i] = added[n].value[i]
      BY <3>4, <3>5, <3>6
    <3> QED
      BY <1>3, <3>2, <3>7 DEF LaidEntry
  <2>2. LaidEntry(N + 1)'
    <3>0. \A i \in 1 .. 3 + d + w : buffer'[b + i] = Encoded(k, v)[i]
      BY <1>1
    <3>1. 1 \in 1 .. 3 + d + w /\ 2 \in 1 .. 3 + d + w /\ 3 \in 1 .. 3 + d + w
      OBVIOUS
    <3>2. buffer'[b + 1] = s /\ buffer'[b + 2] = d /\ buffer'[b + 3] = w
      BY <1>10, <3>0, <3>1
    <3>3. ASSUME NEW i \in 1 .. d
          PROVE  buffer'[b + 3 + i] = k[s + i]
      <4>1. 3 + i \in 1 .. 3 + d + w /\ b + (3 + i) = b + 3 + i
        OBVIOUS
      <4> QED
        BY <1>10, <3>0, <4>1
    <3>4. ASSUME NEW i \in 1 .. w
          PROVE  buffer'[(b + 3 + d) + i] = v[i]
      <4>1. 3 + d + i \in 1 .. 3 + d + w /\ b + (3 + d + i) = (b + 3 + d) + i
        OBVIOUS
      <4> QED
        BY <1>10, <3>0, <4>1
    <3>5. d = Len(k) - s
      BY <1>1
    <3> QED
      BY <1>4, <1>6, <3>2, <3>3, <3>4, <3>5 DEF LaidEntry
  <2>3. \A n \in Entries' : LaidEntry(n)'
    BY <1>9, <2>1, <2>2
  <2>4. ~finished'
    BY <1>1
  <2> QED
    BY <2>3, <2>4 DEF Laid
<1>19. N = 0 => b = 0 /\ s = 0
  <2> SUFFICES ASSUME N = 0
               PROVE  b = 0 /\ s = 0
    OBVIOUS
  <2>1. b = 0 /\ last_key = <<>>
    BY <1>1 DEF IInv, Area, Sorted
  <2>2. Len(last_key) = 0
    BY <2>1, EmptySeq
  <2> QED
    BY <1>10, <2>1, <2>2
<1>20. Compressed'
  <2>1. restarts'[1] = 0
    BY <1>11, <1>13 DEF IInv, Compressed
  <2>2. ASSUME NEW r \in 1 .. Len(restarts')
        PROVE  \E n \in Entries' : restarts'[r] = Off(n)' /\ added'[n].shared = 0
    <3>1. CASE r = R + 1 /\ Len(restarts') > R
      <4>1. restarts'[r] = Off(N + 1)' /\ added'[N + 1].shared = 0
        BY <1>4, <1>10, <1>13, <3>1
      <4> QED
        BY <1>9, <4>1
    <3>2. CASE r \in 1 .. R /\ N > 0
      <4>1. PICK n \in Entries : restarts[r] = Off(n) /\ added[n].shared = 0
        BY <1>1, <1>11, <3>2 DEF IInv, Compressed
      <4>2. n \in E /\ restarts'[r] = restarts[r]
        BY <1>1, <1>13, <3>2
      <4>3. n \in Entries' /\ Off(n)' = Off(n) /\ added'[n].shared = 0
        BY <1>3, <1>8, <4>1, <4>2
      <4> QED
        BY <4>1, <4>2, <4>3
    <3>3. CASE r \in 1 .. R /\ N = 0
      <4>1. r = 1
        BY <1>11, <3>3
      <4>2. restarts'[r] = Off(N + 1)' /\ added'[N + 1].shared = 0
        BY <1>4, <1>19, <2>1, <3>3, <4>1
      <4> QED
        BY <1>9, <4>2
    <3>4. N = 0 \/ N > 0
      OBVIOUS
    <3> QED
      BY <1>14, <3>1, <3>2, <3>3, <3>4
  <2>3. ASSUME NEW n \in Entries'
        PROVE  \/ added'[n].shared = 0
               \/ /\ n > 1 /\ added'[n].shared <= Len(KeyOf(n - 1)')
                  /\ \A j \in 1 .. added'[n].shared : KeyOf(n - 1)'[j] = KeyOf(n)'[j]
    <3>1. CASE n \in E
      <4>0. n \in Entries
        BY <1>1, <3>1
      <4>1. \/ added[n].shared = 0
            \/ /\ n > 1 /\ added[n].shared <= Len(KeyOf(n - 1))
               /\ \A j \in 1 .. added[n].shared : KeyOf(n - 1)[j] = KeyOf(n)[j]
        BY <4>0 DEF IInv, Compressed
      <4>2. n > 1 => n - 1 \in E
        BY <3>1
      <4>3. n > 1 => KeyOf(n - 1)' = KeyOf(n - 1)
        BY <1>3, <4>2
      <4> QED
        BY <1>3, <3>1, <4>1, <4>3
    <3>2. CASE n = N + 1
      <4>1. added'[n].shared = s /\ KeyOf(n)' = k
        BY <1>4, <3>2
      <4>2. CASE N = 0
        BY <1>19, <4>1, <4>2
      <4>3. CASE N > 0
        <5>1. N \in E /\ n - 1 = N /\ n > 1
          BY <3>2, <4>3
        <5>2. KeyOf(n - 1)' = KeyOf(N)
          BY <1>3, <5>1
        <5>3. last_key = KeyOf(N)
          BY <1>1, <4>3 DEF IInv, Sorted
        <5> QED
          BY <1>10, <4>1, <5>1, <5>2, <5>3
      <4> QED
        BY <4>2, <4>3
    <3> QED
      BY <1>9, <3>1, <3>2
  <2> QED
    BY <2>1, <2>2, <2>3 DEF Compressed
<1>21. Sorted'
  <2>1. last_key' = KeyOf(Len(added))' /\ Len(added') # 0
    BY <1>1, <1>2, <1>4 DEF KeyOf
  <2>2. ASSUME NEW m \in E
        PROVE  Less(KeyOf(m), k) \/ (KeyOf(m) = <<>> /\ k = <<>>)
    <3>0. Entries = E
      BY <1>1
    <3>1. N \in Entries /\ N > 0 /\ m \in Nat /\ m <= N /\ m \in Entries
      BY <3>0
    <3>2. last_key = KeyOf(N)
      BY <1>1, <3>1 DEF IInv, Sorted
    <3>3. k \in Bytes /\ KeyOf(m) \in Bytes /\ KeyOf(N) \in Bytes
      BY <3>1, EntryFacts, Constants DEF IInv
    <3>4. m = N \/ Less(KeyOf(m), KeyOf(N)) \/ (KeyOf(m) = <<>> /\ KeyOf(N) = <<>>)
      BY <3>1 DEF IInv, Sorted
    <3>5. CASE KeyOf(N) = <<>>
      <4>1. KeyOf(m) = <<>>
        BY <3>3, <3>4, <3>5, LessEmpty, BytesAreStrings
      <4> QED
        BY <3>3, <4>1, LessEmpty, BytesAreStrings
    <3>6. CASE KeyOf(N) # <<>>
      <4>1. Less(KeyOf(N), k)
        BY <1>2, <3>2, <3>6 DEF Rejects
      <4> QED
        BY <3>3, <3>4, <3>6, <4>1, LessTransitive, BytesAreStrings
    <3> QED
      BY <3>5, <3>6
  <2>3. ASSUME NEW m \in Entries', NEW n \in Entries', m < n
        PROVE  Less(KeyOf(m)', KeyOf(n)') \/ (KeyOf(m)' = <<>> /\ KeyOf(n)' = <<>>)
    <3>1. m \in E
      BY <1>1, <2>3
    <3>2. CASE n \in E
      <4>1. m \in Entries /\ n \in Entries
        BY <1>1, <3>1, <3>2
      <4>2. Less(KeyOf(m), KeyOf(n)) \/ (KeyOf(m) = <<>> /\ KeyOf(n) = <<>>)
        BY <2>3, <4>1 DEF IInv, Sorted
      <4> QED
        BY <1>3, <3>1, <3>2, <4>2
    <3>3. CASE n = N + 1
      BY <1>3, <1>4, <2>2, <3>1, <3>3
    <3> QED
      BY <1>9, <3>2, <3>3
  <2>4. \A m, n \in Entries' : m < n => \/ Less(KeyOf(m), KeyOf(n))'
                                        \/ KeyOf(m)' = <<>> /\ KeyOf(n)' = <<>>
    BY <2>3
  <2> QED
    BY <2>1, <2>4 DEF Sorted
<1> QED
  BY <1>2, <1>15, <1>17, <1>18, <1>20, <1>21, BuildKept DEF IInv

-----------------------------------------------------------------------------
(* Theorems. *)

LEMMA LookupInv ==
    ASSUME IInv, Lookup
    PROVE  IInv'
BY BSearchOutsideInv, BSearchFailsInv, BSearchInv, BSearchEndInv, ScanEndInv,
   ScanFailsInv, ScanFoundInv, ScanPassedInv, ScanOnInv DEF Lookup

LEMMA StutterInv ==
    ASSUME IInv, UNCHANGED vars
    PROVE  IInv'
<1>1. UNCHANGED <<builder, stored>> /\ UNCHANGED <<pc, key, search, result>>
  BY DEF vars
<1>2. /\ UNCHANGED <<lo, hi, off, prev_key, outside>>
      /\ UNCHANGED <<buffer, restarts, added, last_key, counter, finished,
                     restart_interval, block, damage>>
  BY <1>1 DEF search, builder, stored
<1>3. /\ Entries' = Entries /\ num_restarts' = num_restarts /\ entries_size' = entries_size
      /\ (TrailerFits' <=> TrailerFits) /\ (KeysIntact' <=> KeysIntact)
      /\ \A n : KeyOf(n)' = KeyOf(n) /\ Off(n)' = Off(n) /\ ValueAt(n)' = ValueAt(n)
      /\ Restart(lo)' = Restart(lo) /\ Restart(hi + 1)' = Restart(hi + 1)
  BY <1>1, <1>2, BlockKept DEF Restart
<1>4. Typed'
  BY <1>1, <1>2, <1>3 DEF IInv, Typed
<1>5. Searching'
  BY <1>1, <1>2, <1>3 DEF IInv, Searching, Sought
<1>6. Scanning'
  BY <1>1, <1>2, <1>3 DEF IInv, Scanning, KeysRebuilt
<1>7. ReadsInside'
  BY <1>1, <1>2, <1>3 DEF IInv, ReadsInside
<1>8. GetExact'
  BY <1>1, <1>2, <1>3 DEF IInv, GetExact
<1> QED
  BY <1>1, <1>4, <1>5, <1>6, <1>7, <1>8, BlockKept DEF IInv

\* The invariant holds in every reachable state.
THEOREM Invariant == Spec => []IInv
<1>1. IInv /\ [Next]_vars => IInv'
  <2> SUFFICES ASSUME IInv, [Next]_vars
               PROVE  IInv'
    OBVIOUS
  <2>1. ASSUME NEW k \in Key, NEW v \in Value, Add(k, v)
        PROVE  IInv'
    BY <2>1, AddInv
  <2>2. CASE Finish
    BY <2>2, FinishInv
  <2>3. ASSUME NEW p \in 1 .. Len(block), NEW x \in Rot, Damage(p, x)
        PROVE  IInv'
    BY <2>3, DamageInv
  <2>4. ASSUME NEW n \in 0 .. Len(block) - 1, Truncate(n)
        PROVE  IInv'
    BY <2>4, TruncateInv
  <2>5. CASE Open
    BY <2>5, OpenInv
  <2>6. ASSUME NEW k \in Key, Get(k) \/ GetEmpty(k)
        PROVE  IInv'
    BY <2>6, GetInv, GetEmptyInv
  <2>7. CASE Lookup
    BY <2>7, LookupInv
  <2>8. CASE UNCHANGED vars
    BY <2>8, StutterInv
  <2> QED
    BY <2>1, <2>2, <2>3, <2>4, <2>5, <2>6, <2>7, <2>8 DEF Next
<1> QED
  BY InitInv, <1>1, PTL DEF Spec

\* The restart indices of a lookup stay inside restarts_ (lines 109-138, 178-193
\* of the reader), whatever cells of the block rotted.
THEOREM TypeCorrect == Spec => []TypeOK
<1>1. IInv => TypeOK
  <2> SUFFICES ASSUME IInv
               PROVE  TypeOK
    OBVIOUS
  <2>1. pc \in {"bsearch", "scan"} => lo \in 1 .. num_restarts /\ hi \in 1 .. num_restarts
    <3> SUFFICES ASSUME pc \in {"bsearch", "scan"}
                 PROVE  lo \in 1 .. num_restarts /\ hi \in 1 .. num_restarts
      OBVIOUS
    <3>1. num_restarts \in Nat
      BY RunFacts
    <3>2. lo \in 1 .. num_restarts /\ (hi \in lo .. num_restarts \/ hi = lo)
      BY DEF IInv, Typed
    <3> QED
      BY <3>1, <3>2
  <2> QED
    BY <2>1 DEF TypeOK, IInv, Typed, Bytes
<1> QED
  BY <1>1, Invariant, PTL

\* Whatever cells rotted, a scan stays inside the entries and hands out cells
\* of theirs (lines 198-214, 227-239).
THEOREM ReadsCorrect == Spec => []ReadsInside
<1>1. IInv => ReadsInside
  BY DEF IInv
<1> QED
  BY <1>1, Invariant, PTL

\* Neither loop of Get() drops the entry of the key (lines 181-242).
THEOREM SearchCorrect == Spec => []KeyStillAhead
<1>1. IInv => KeyStillAhead
  BY SoughtExists DEF IInv, Searching, Sought, KeyStillAhead, Off
<1> QED
  BY <1>1, Invariant, PTL

\* The key in hand is the key that was added before the entry (lines 216-237).
THEOREM RebuildCorrect == Spec => []KeysRebuilt
<1>1. IInv => KeysRebuilt
  BY DEF IInv, Scanning
<1> QED
  BY <1>1, Invariant, PTL

\* Get() answers what was added, in every block the builder can write and for
\* every restart_interval, and where bytes of values rotted they alone are
\* wrong (the whole of Get(), lines 155-243).
THEOREM GetCorrect == Spec => []GetExact
<1>1. IInv => GetExact
  BY DEF IInv
<1> QED
  BY <1>1, Invariant, PTL

=============================================================================
