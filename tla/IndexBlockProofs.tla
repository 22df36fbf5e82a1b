-------------------------- MODULE IndexBlockProofs --------------------------
(***************************************************************************)
(* Proofs about the index block, for every set of dividers and handles,    *)
(* every mix of Add() and Finish() calls and any damage.                   *)
(*                                                                         *)
(* Find() is right because of three facts that hold together: the entries  *)
(* lie in the buffer one after the other, in key order (Built, Sorted), a  *)
(* stored block that nothing damaged holds them where its table of offsets *)
(* says (Kept), and the binary search keeps the last divider that is not   *)
(* above the key between lo and hi (Bracket).                              *)
(***************************************************************************)
EXTENDS IndexBlock, WellOrder

Entry == [key : Divider, handle : Handle, off : Nat]

\* Where the n-th entry starts and ends, and the length of its key.
Off(n) == added[n].off
KeyLen(n) == Len(KeyOf(n))
End(n) == Off(n) + KeyLen(n) + 3

\* Types, and how far the phases of the block have got.
Typed ==
    /\ buffer \in Seq(Cell) /\ Len(buffer) < Word /\ offsets \in Seq(Cell)
    /\ added \in Seq(Entry) /\ Len(offsets) = Len(added)
    /\ last_key \in Divider \cup {<<>>} /\ finishes \in 0 .. MaxFinishes
    /\ block \in Seq(Cell) /\ listed \in 0 .. Len(added) /\ damage \in 0 .. MaxDamage
    /\ pc \in {"build", "open", "refused", "bsearch", "fetch", "done"}
    /\ pc # "build" => finishes > 0
    /\ pc \in {"open", "bsearch", "fetch", "done"} => TableFits /\ OffsetsValid
    /\ search_key \in Divider \cup {<<>>}
    /\ pc \in {"bsearch", "fetch"} => /\ lo \in 1 .. num /\ hi \in lo .. num
                                      /\ pc = "fetch" => lo = hi
    /\ handle_out \in Seq(Cell) /\ Len(handle_out) = 2
    /\ result \in BOOLEAN

\* The cells of b, in front of `size`, hold the n-th entry.
Holds(b, size, n) ==
    /\ End(n) <= size
    /\ b[Off(n) + 1] = KeyLen(n)
    /\ \A i \in 1 .. KeyLen(n) : b[Off(n) + 1 + i] = KeyOf(n)[i]
    /\ \A i \in 1 .. 2 : b[Off(n) + 1 + KeyLen(n) + i] = added[n].handle[i]

\* The buffer holds the entries, one after the other.
Built ==
    /\ \A n \in 1 .. Len(added) : Holds(buffer, Len(buffer), n) /\ offsets[n] = Off(n)
    /\ \A m, n \in 1 .. Len(added) : m < n => Off(m) < Off(n)

\* Keys are in order.  Only the empty key may come more than once.
Sorted ==
    /\ \A m, n \in 1 .. Len(added) : m < n => ~Less(KeyOf(n), KeyOf(m))
    /\ \A n \in 1 .. Len(added) : ~Less(last_key, KeyOf(n))

\* A stored block that nothing damaged: its table leads to its entries.
Kept ==
    finishes > 0 /\ damage = 0 =>
        /\ Len(block) >= listed + 1 /\ block[Len(block)] = listed
        /\ \A n \in 1 .. listed :
               /\ block[Len(block) - 1 - listed + n] = Off(n)
               /\ Holds(block, Len(block) - 1 - listed, n)

\* The divider Find() looks for lies between lo and hi.
Bracket ==
    pc \in {"bsearch", "fetch"} /\ damage = 0 =>
        /\ lo > 1 => ~Less(search_key, KeyOf(lo))
        /\ hi < num => Less(search_key, KeyOf(hi + 1))

\* The inductive invariant.
IInv == /\ Typed
        /\ Built
        /\ Sorted
        /\ Kept
        /\ Bracket
        /\ FindExact

-----------------------------------------------------------------------------
(* The constants and the block. *)

LEMMA Constants ==
    /\ kEncodedLength = 2 /\ MaxDamage \in Nat /\ MaxFinishes \in Nat
    /\ Word \in Nat /\ Cont \in Nat /\ 1 <= Cont /\ Cont <= Word
    /\ Cell \subseteq Nat /\ Rot \subseteq Cell /\ 0 \in Cell
    /\ Divider \subseteq Seq(Cell) /\ Handle \subseteq Seq(Cell) /\ <<>> \in Seq(Cell)
    /\ Seq(Cell) \subseteq Strings
    /\ \A k \in Divider : Len(k) \in Nat /\ Len(k) < Cont
    /\ \A h \in Handle : Len(h) = 2
<1>1. /\ Word \in Nat /\ Cont \in 1 .. Word /\ Rot \subseteq Cell
      /\ Divider \subseteq Seq(Cell) /\ Handle \subseteq Seq(Cell)
      /\ MaxFinishes \in Nat /\ MaxDamage \in Nat
  BY IndexAssumption
<1>2. Cell \subseteq Nat /\ 0 \in Cell
  BY <1>1 DEF Cell
<1>3. Seq(Cell) \subseteq Strings
  <2>1. \A s \in Seq(Cell) : s \in Seq(Nat)
    BY <1>2, SeqMonotonic
  <2> QED
    BY <2>1 DEF Strings
<1>4. \A k \in Divider : Len(k) \in Nat /\ Len(k) < Cont
  BY <1>1, IndexAssumption, LenProperties
<1>5. \A h \in Handle : Len(h) = 2
  BY IndexAssumption DEF kEncodedLength
<1>6. <<>> \in Seq(Cell)
  BY EmptySeq
<1>7. Cont \in Nat /\ 1 <= Cont /\ Cont <= Word
  BY <1>1
<1> QED
  BY <1>1, <1>2, <1>3, <1>4, <1>5, <1>6, <1>7 DEF kEncodedLength

\* A slice of a string.
LEMMA CutFacts ==
    ASSUME NEW a \in Seq(Cell), NEW m \in Nat, NEW n \in Nat, m <= n, n <= Len(a)
    PROVE  /\ SubSeq(a, m + 1, n) \in Seq(Cell)
           /\ Len(SubSeq(a, m + 1, n)) = n - m
           /\ \A i \in 1 .. n - m : SubSeq(a, m + 1, n)[i] = a[m + i]
<1> DEFINE d == SubSeq(a, m + 1, n)
<1>1. Len(a) \in Nat /\ \A i \in m + 1 .. n : a[i] \in Cell
  BY LenProperties, ElementOfSeq
<1>2. /\ d \in Seq(Cell)
      /\ Len(d) = IF m + 1 <= n THEN n - (m + 1) + 1 ELSE 0
      /\ \A i \in 1 .. n - (m + 1) + 1 : d[i] = a[m + 1 + i - 1]
  BY <1>1, SubSeqProperties
<1> HIDE DEF d
<1>3. \A i \in 1 .. n - m : d[i] = a[m + i]
  <2> TAKE i \in 1 .. n - m
  <2>1. i \in 1 .. n - (m + 1) + 1 /\ m + 1 + i - 1 = m + i
    OBVIOUS
  <2> QED
    BY <1>2, <2>1
<1> QED
  BY <1>2, <1>3 DEF d

\* ~Less is a total preorder: "not above".
LEMMA NotAbove ==
    ASSUME NEW a \in Seq(Cell), NEW b \in Seq(Cell), NEW c \in Seq(Cell)
    PROVE  /\ ~Less(a, a)
           /\ ~Less(b, a) /\ ~Less(c, b) => ~Less(c, a)
           /\ Less(a, b) => ~Less(b, a)
           /\ ~Less(b, a) /\ Less(b, c) => Less(a, c)
           /\ ~Less(a, <<>>)
<1>1. a \in Strings /\ b \in Strings /\ c \in Strings
  BY Constants
<1>2. ~Less(a, a) /\ ~Less(a, <<>>)
  BY <1>1, LessIrreflexive, LessEmpty
<1>3. Less(a, b) => ~Less(b, a)
  BY <1>1, <1>2, LessTransitive
<1>4. ~Less(b, a) => a = b \/ Less(a, b)
  BY <1>1, LessTotal
<1>5. ~Less(c, b) => b = c \/ Less(b, c)
  BY <1>1, LessTotal
<1>6. Less(a, b) /\ Less(b, c) => Less(a, c)
  BY <1>1, LessTransitive
<1>7. Less(a, c) => ~Less(c, a)
  BY <1>1, LessTransitive, LessIrreflexive
<1>8. ~Less(c, c)
  BY <1>1, LessIrreflexive
<1> QED
  BY <1>2, <1>3, <1>4, <1>5, <1>6, <1>7, <1>8

\* The key, the handle and the place of an entry.
LEMMA EntryFacts ==
    ASSUME Typed, NEW n \in 1 .. Len(added)
    PROVE  /\ n \in Nat /\ Len(added) \in Nat
           /\ KeyOf(n) \in Divider /\ KeyOf(n) \in Seq(Cell)
           /\ KeyLen(n) \in Nat /\ KeyLen(n) < Cont
           /\ added[n].handle \in Seq(Cell) /\ Len(added[n].handle) = 2
           /\ Off(n) \in Nat /\ End(n) \in Nat
<1>1. added \in Seq(Entry)
  BY DEF Typed
<1>2. added[n] \in Entry /\ Len(added) \in Nat
  BY <1>1, ElementOfSeq, LenProperties
<1>3. KeyOf(n) \in Divider /\ added[n].handle \in Handle /\ Off(n) \in Nat
  BY <1>2 DEF KeyOf, Off, Entry
<1>4. KeyLen(n) \in Nat /\ KeyLen(n) < Cont
  BY <1>3, Constants DEF KeyLen
<1> QED
  BY <1>2, <1>3, <1>4, Constants DEF End

\* The lengths of the tables, and the cells of the block.
LEMMA TableFacts ==
    ASSUME Typed
    PROVE  /\ Len(added) \in Nat /\ Len(buffer) \in Nat /\ Len(block) \in Nat
           /\ listed \in Nat /\ listed <= Len(added)
           /\ \A p \in 1 .. Len(block) : block[p] \in Cell /\ block[p] \in Nat
           /\ \A n \in 1 .. listed : n \in 1 .. Len(added)
<1>1. /\ buffer \in Seq(Cell) /\ block \in Seq(Cell) /\ added \in Seq(Entry)
      /\ listed \in 0 .. Len(added)
  BY DEF Typed
<1>2. Len(added) \in Nat /\ Len(buffer) \in Nat /\ Len(block) \in Nat
  BY <1>1, LenProperties
<1>3. \A p \in 1 .. Len(block) : block[p] \in Cell
  BY <1>1, ElementOfSeq
<1>4. listed \in Nat /\ listed <= Len(added)
  BY <1>1, <1>2
<1>5. \A n \in 1 .. listed : n \in 1 .. Len(added)
  BY <1>2, <1>4
<1> QED
  BY <1>2, <1>3, <1>4, <1>5, Constants

\* A block that passed the checks of the constructor.
LEMMA OpenFacts ==
    ASSUME Typed, TableFits
    PROVE  /\ num \in Nat /\ entries_size \in Nat /\ Len(block) \in Nat
           /\ Len(block) = entries_size + num + 1
           /\ \A n \in 1 .. num : Offset(n) \in Nat
<1>1. PICK B \in Nat : B = Len(block)
  BY TableFacts
<1>2. B >= 1 /\ num = block[B]
  BY <1>1 DEF TableFits, num
<1>3. PICK c \in Nat : c = num
  BY <1>1, <1>2, TableFacts
<1>4. B >= 1 + c /\ entries_size = B - 1 - c
  BY <1>1, <1>3 DEF TableFits, entries_size
<1>5. ASSUME NEW n \in 1 .. c
      PROVE  Offset(n) \in Nat
  <2>1. B - 1 - c + n \in 1 .. B
    BY <1>4
  <2> QED
    BY <1>1, <1>4, <2>1, TableFacts DEF Offset
<1> QED
  BY <1>1, <1>3, <1>4, <1>5

-----------------------------------------------------------------------------
(* A stored block that nothing damaged. *)

\* The constructor finds the table that Finish() wrote (lines 263-305).
LEMMA KeptTable ==
    ASSUME Typed, Built, Kept, finishes > 0, damage = 0
    PROVE  /\ TableFits /\ num = listed /\ entries_size = Len(block) - 1 - listed
           /\ \A n \in 1 .. listed : Offset(n) = Off(n)
           /\ OffsetsValid
<1>1. PICK B \in Nat, c \in Nat : B = Len(block) /\ c = listed
  BY TableFacts
<1>2. B >= c + 1 /\ block[B] = c
  BY <1>1 DEF Kept
<1>3. num = c
  BY <1>1, <1>2 DEF num
<1>4. entries_size = B - 1 - c
  BY <1>1, <1>3 DEF entries_size
<1>5. TableFits
  BY <1>1, <1>2, <1>3 DEF TableFits
<1>6. \A n \in 1 .. c : /\ Offset(n) = Off(n) /\ End(n) <= B - 1 - c
                        /\ n \in 1 .. Len(added)
  BY <1>1, <1>4, TableFacts DEF Kept, Offset, Holds
<1>7. \A n \in 1 .. c : Off(n) <= B - 1 - c
  <2> TAKE n \in 1 .. c
  <2>1. n \in 1 .. Len(added) /\ End(n) <= B - 1 - c
    BY <1>6
  <2>2. End(n) = Off(n) + KeyLen(n) + 3 /\ Off(n) \in Nat /\ KeyLen(n) \in Nat
    BY <2>1, EntryFacts DEF End
  <2> QED
    BY <2>1, <2>2
<1>8. \A n \in 2 .. c : Off(n - 1) <= Off(n)
  <2> TAKE n \in 2 .. c
  <2>1. n \in 1 .. c /\ n - 1 \in 1 .. c /\ n - 1 < n
    OBVIOUS
  <2>2. n \in 1 .. Len(added) /\ n - 1 \in 1 .. Len(added)
    BY <1>6, <2>1
  <2>3. Off(n - 1) < Off(n) /\ Off(n - 1) \in Nat /\ Off(n) \in Nat
    BY <2>1, <2>2, EntryFacts DEF Built
  <2> QED
    BY <2>3
<1>9. \A n \in 2 .. c : n \in 1 .. c /\ n - 1 \in 1 .. c
  OBVIOUS
<1>10. OffsetsValid
  <2>1. \A n \in 2 .. num : Offset(n - 1) <= Offset(n)
    BY <1>3, <1>6, <1>8, <1>9
  <2>2. \A n \in 1 .. num : Offset(n) <= entries_size
    BY <1>3, <1>4, <1>6, <1>7
  <2> QED
    BY <2>1, <2>2 DEF OffsetsValid
<1> QED
  BY <1>1, <1>3, <1>4, <1>5, <1>6, <1>10

\* The length of a key is read back from one byte (lines 76-94, 327-331).
LEMMA OneByte ==
    ASSUME NEW o \in Nat, NEW K \in Nat, K < Cont, o + 1 <= entries_size, block[o + 1] = K
    PROVE  ~VarintFails(o) /\ varint_size(o) = 1 /\ klen(o) = K
<1>1. VarintEnds(o, 1)
  BY DEF VarintEnds
<1>2. \A n \in 1 .. 5 : VarintEnds(o, n) => n = 1
  <2> SUFFICES ASSUME NEW n \in 1 .. 5, VarintEnds(o, n), n # 1
               PROVE  FALSE
    OBVIOUS
  <2>1. 1 \in 1 .. n - 1
    OBVIOUS
  <2>2. block[o + 1] >= Cont
    BY <2>1 DEF VarintEnds
  <2> QED
    BY <2>2, Constants
<1>3. varint_size(o) = 1 /\ ~VarintFails(o)
  <2>1. 1 \in 1 .. 5
    OBVIOUS
  <2>2. \E n \in 1 .. 5 : VarintEnds(o, n)
    BY <1>1, <2>1
  <2> QED
    BY <1>1, <1>2, <2>1, <2>2 DEF varint_size, VarintFails
<1>4. Group(o, 1) = K
  <2>1. K % Cont = K
    BY Constants
  <2> QED
    BY <1>3, <2>1 DEF Group
<1>5. /\ Group(o, 2) = 0 /\ Group(o, 3) = 0 /\ Group(o, 4) = 0 /\ Group(o, 5) = 0
  BY <1>3 DEF Group
<1>6. klen(o) = (K + Cont * (0 + Cont * (0 + Cont * (0 + Cont * 0)))) % Word
  BY <1>4, <1>5 DEF klen
<1>7. K + Cont * (0 + Cont * (0 + Cont * (0 + Cont * 0))) = K
  BY Constants
<1>8. K % Word = K
  BY Constants
<1> QED
  BY <1>3, <1>6, <1>7, <1>8

\* Every entry can be read where Add() put it (lines 322-344).
LEMMA KeptEntry ==
    ASSUME Typed, Built, Kept, finishes > 0, damage = 0, NEW n \in 1 .. listed
    PROVE  Readable(n) /\ KeyAt(n) = KeyOf(n) /\ HandleAt(n) = added[n].handle
<1>1. PICK o \in Nat, K \in Nat, E \in Nat : o = Off(n) /\ K = KeyLen(n) /\ E = entries_size
  <2>1. n \in 1 .. Len(added)
    BY TableFacts
  <2> QED
    BY <2>1, EntryFacts, KeptTable, OpenFacts
<1>2. /\ n \in 1 .. Len(added) /\ K < Cont /\ K = Len(KeyOf(n)) /\ KeyOf(n) \in Seq(Cell)
      /\ added[n].handle \in Seq(Cell) /\ Len(added[n].handle) = 2
  BY <1>1, EntryFacts, TableFacts DEF KeyLen
<1>3. Offset(n) = o /\ E = Len(block) - 1 - listed
  BY <1>1, KeptTable
<1>4. Holds(block, E, n)
  BY <1>3 DEF Kept
<1>5. o + K + 3 <= E
  BY <1>1, <1>4 DEF Holds, End
<1>6. block[o + 1] = K
  BY <1>1, <1>4 DEF Holds
<1>7. ~VarintFails(o) /\ varint_size(o) = 1 /\ klen(o) = K
  BY <1>1, <1>2, <1>5, <1>6, OneByte
<1>8. KeyStart(n) = o + 1 /\ HandleStart(n) = o + 1 + K
  BY <1>3, <1>7 DEF KeyStart, HandleStart
<1>9. Readable(n)
  BY <1>1, <1>3, <1>5, <1>7, <1>8, Constants DEF Readable
<1>10. PICK p \in Nat, q \in Nat, r \in Nat : p = o + 1 /\ q = o + 1 + K /\ r = o + 1 + K + 2
  OBVIOUS
<1>11. p <= q /\ q <= r /\ r <= Len(block) /\ q - p = K /\ r - q = 2
  <2>1. E <= Len(block)
    BY <1>3, TableFacts
  <2> QED
    BY <1>5, <1>10, <2>1, TableFacts
<1>12. KeyAt(n) = SubSeq(block, p + 1, q) /\ HandleAt(n) = SubSeq(block, q + 1, r)
  BY <1>8, <1>10, Constants DEF KeyAt, HandleAt
<1>13. block \in Seq(Cell)
  BY DEF Typed
<1>14. KeyAt(n) = KeyOf(n)
  <2>1. q <= Len(block)
    BY <1>11, TableFacts
  <2>2. /\ KeyAt(n) \in Seq(Cell) /\ Len(KeyAt(n)) = K
        /\ \A i \in 1 .. K : KeyAt(n)[i] = block[p + i]
    BY <1>11, <1>12, <1>13, <2>1, CutFacts
  <2>3. \A i \in 1 .. K : block[p + i] = KeyOf(n)[i]
    BY <1>1, <1>4, <1>10 DEF Holds
  <2> QED
    BY <1>2, <2>2, <2>3, SeqEqual
<1>15. HandleAt(n) = added[n].handle
  <2>1. PICK T \in Nat : T = 2
    OBVIOUS
  <2>2. r - q = T /\ Len(added[n].handle) = T
    BY <1>2, <1>11, <2>1
  <2>3. \A i \in 1 .. T : block[q + i] = added[n].handle[i]
    BY <1>1, <1>4, <1>10, <2>1 DEF Holds
  <2>4. /\ HandleAt(n) \in Seq(Cell) /\ Len(HandleAt(n)) = T
        /\ \A i \in 1 .. T : HandleAt(n)[i] = block[q + i]
    <3>1. q <= r /\ r <= Len(block)
      BY <1>11
    <3> QED
      BY <1>12, <1>13, <2>2, <3>1, CutFacts
  <2>5. \A i \in 1 .. T : HandleAt(n)[i] = added[n].handle[i]
    BY <2>3, <2>4
  <2> QED
    BY <1>2, <2>2, <2>4, <2>5, SeqEqual
<1> QED
  BY <1>9, <1>14, <1>15

-----------------------------------------------------------------------------
(* One lemma per action. *)

LEMMA InitInv == Init => IInv
<1> SUFFICES ASSUME Init
             PROVE  IInv
  OBVIOUS
<1>1. /\ buffer = <<>> /\ offsets = <<>> /\ last_key = <<>> /\ added = <<>>
      /\ finishes = 0 /\ block = <<>> /\ listed = 0 /\ damage = 0 /\ pc = "build"
      /\ search_key = <<>> /\ result = FALSE /\ handle_out = NoHandle
  BY DEF Init
<1>2. /\ Len(<<>>) = 0 /\ <<>> \in Seq(Cell) /\ <<>> \in Seq(Entry)
      /\ NoHandle \in Seq(Cell) /\ Len(NoHandle) = 2
  <2>1. NoHandle \in Seq(Cell) /\ Len(NoHandle) = 2
    BY Constants DEF NoHandle
  <2> QED
    BY <2>1, EmptySeq
<1>3. Typed
  <2>1. 0 < Word /\ 0 \in 0 .. MaxFinishes /\ 0 \in 0 .. MaxDamage /\ 0 \in 0 .. 0
    BY Constants
  <2>2. /\ buffer \in Seq(Cell) /\ Len(buffer) < Word /\ offsets \in Seq(Cell)
        /\ added \in Seq(Entry) /\ Len(offsets) = Len(added) /\ block \in Seq(Cell)
    BY <1>1, <1>2, <2>1
  <2>3. finishes \in 0 .. MaxFinishes /\ listed \in 0 .. Len(added) /\ damage \in 0 .. MaxDamage
    BY <1>1, <1>2, <2>1
  <2> QED
    BY <1>1, <1>2, <2>2, <2>3 DEF Typed
<1>4. Built /\ Sorted
  BY <1>1, <1>2 DEF Built, Sorted
<1> QED
  BY <1>1, <1>3, <1>4 DEF IInv, Kept, Bracket, FindExact

\* What a step that leaves the builder and the stored block alone keeps.
LEMMA BlockKept ==
    ASSUME IInv, UNCHANGED <<builder, stored>>
    PROVE  /\ Built' /\ Sorted' /\ Kept'
           /\ TableFits' = TableFits /\ OffsetsValid' = OffsetsValid
           /\ num' = num /\ entries_size' = entries_size /\ Entries' = Entries
           /\ \A n : KeyOf(n)' = KeyOf(n) /\ Offset(n)' = Offset(n)
           /\ UNCHANGED <<buffer, offsets, last_key, added, finishes, block, listed, damage>>
<1>1. UNCHANGED <<buffer, offsets, last_key, added, finishes, block, listed, damage>>
  BY DEF builder, stored
<1>2. num' = num /\ entries_size' = entries_size /\ Entries' = Entries
  BY <1>1 DEF num, entries_size, Entries
<1>3. \A n : /\ KeyOf(n)' = KeyOf(n) /\ Offset(n)' = Offset(n) /\ Off(n)' = Off(n)
             /\ KeyLen(n)' = KeyLen(n) /\ End(n)' = End(n)
  BY <1>1, <1>2 DEF KeyOf, Offset, Off, KeyLen, End
<1>4. TableFits' = TableFits /\ OffsetsValid' = OffsetsValid
  BY <1>1, <1>2, <1>3 DEF TableFits, OffsetsValid
<1>5. \A b, z, n : Holds(b, z, n)' = Holds(b, z, n)
  BY <1>1, <1>3 DEF Holds
<1>6. Built'
  BY <1>1, <1>3, <1>5 DEF IInv, Built
<1>7. Sorted'
  BY <1>1, <1>3 DEF IInv, Sorted
<1>8. Kept'
  BY <1>1, <1>3, <1>5 DEF IInv, Kept
<1> QED
  BY <1>1, <1>2, <1>3, <1>4, <1>6, <1>7, <1>8

\* What such a step has to say of the lookup.
LEMMA LookupTyped ==
    ASSUME IInv, UNCHANGED <<builder, stored>>,
           pc' \in {"build", "open", "refused", "bsearch", "fetch", "done"},
           pc' # "build" => finishes > 0,
           pc' \in {"open", "bsearch", "fetch", "done"} => TableFits /\ OffsetsValid,
           search_key' \in Divider \cup {<<>>},
           pc' \in {"bsearch", "fetch"} => /\ lo' \in 1 .. num /\ hi' \in lo' .. num
                                           /\ pc' = "fetch" => lo' = hi',
           handle_out' \in Seq(Cell), Len(handle_out') = 2, result' \in BOOLEAN
    PROVE  Typed'
<1>1. UNCHANGED <<buffer, offsets, last_key, added, finishes, block, listed, damage>>
  BY BlockKept
<1>2. TableFits' = TableFits /\ OffsetsValid' = OffsetsValid /\ num' = num
  BY BlockKept
<1>3. Typed
  BY DEF IInv
<1> QED
  BY <1>1, <1>2, <1>3 DEF Typed

LEMMA OpenInv ==
    ASSUME IInv, Open
    PROVE  IInv'
<1>1. /\ pc = "build" /\ finishes > 0 /\ UNCHANGED <<builder, stored>>
      /\ UNCHANGED <<search_key, lo, hi, handle_out, result>>
      /\ pc' = IF TableFits /\ OffsetsValid THEN "open" ELSE "refused"
  BY DEF Open
<1>2. Typed'
  BY <1>1, LookupTyped DEF IInv, Typed
<1>3. Built' /\ Sorted' /\ Kept' /\ damage' = damage
  BY <1>1, BlockKept
<1>4. Bracket'
  BY <1>1 DEF Bracket
<1>5. FindExact'
  <2>1. damage = 0 => TableFits /\ OffsetsValid
    BY <1>1, KeptTable DEF IInv
  <2>2. pc' # "done" /\ (damage' = 0 => pc' # "refused")
    BY <1>1, <1>3, <2>1
  <2> QED
    BY <2>2 DEF FindExact
<1> QED
  BY <1>2, <1>3, <1>4, <1>5 DEF IInv

LEMMA FindInv ==
    ASSUME IInv, NEW k \in Divider, Find(k)
    PROVE  IInv'
<1>1. /\ pc \in {"open", "done"} /\ pc' = "bsearch" /\ num > 0 /\ UNCHANGED <<builder, stored>>
      /\ search_key' = k /\ lo' = 1 /\ hi' = num /\ handle_out' = NoHandle /\ result' = FALSE
  BY DEF Find
<1>2. TableFits /\ OffsetsValid /\ finishes > 0 /\ num \in Nat
  BY <1>1, OpenFacts DEF IInv, Typed
<1>3. NoHandle \in Seq(Cell) /\ Len(NoHandle) = 2
  BY Constants DEF NoHandle
<1>4. lo' \in 1 .. num /\ hi' \in lo' .. num
  BY <1>1, <1>2
<1>5. Typed'
  BY <1>1, <1>2, <1>3, <1>4, LookupTyped
<1>6. Built' /\ Sorted' /\ Kept' /\ num' = num
  BY <1>1, BlockKept
<1>7. ~(lo' > 1) /\ ~(hi' < num')
  BY <1>1, <1>2, <1>6
<1>8. Bracket'
  BY <1>7 DEF Bracket
<1>9. FindExact'
  BY <1>1 DEF FindExact
<1> QED
  BY <1>5, <1>6, <1>8, <1>9 DEF IInv

\* Nothing is listed, and nothing is found.
LEMMA FindEmptyInv ==
    ASSUME IInv, NEW k \in Divider, FindEmpty(k)
    PROVE  IInv'
<1>1. /\ pc \in {"open", "done"} /\ pc' = "done" /\ num = 0 /\ UNCHANGED <<builder, stored>>
      /\ search_key' = k /\ handle_out' = NoHandle /\ result' = FALSE
  BY DEF FindEmpty, Returns
<1>2. TableFits /\ OffsetsValid /\ finishes > 0
  BY <1>1 DEF IInv, Typed
<1>3. NoHandle \in Seq(Cell) /\ Len(NoHandle) = 2
  BY Constants DEF NoHandle
<1>4. Typed'
  BY <1>1, <1>2, <1>3, LookupTyped
<1>5. Built' /\ Sorted' /\ Kept' /\ damage' = damage /\ Entries' = Entries
  BY <1>1, BlockKept
<1>6. Bracket'
  BY <1>1 DEF Bracket
<1>7. FindExact'
  <2>1. damage = 0 => Entries = {}
    <3>1. damage = 0 => listed = 0
      BY <1>1, <1>2, KeptTable DEF IInv
    <3> QED
      BY <3>1 DEF Entries
  <2> QED
    BY <1>1, <1>5, <2>1 DEF FindExact
<1> QED
  BY <1>4, <1>5, <1>6, <1>7 DEF IInv

\* The midpoint lies above lo and not above hi.
LEMMA Midpoint ==
    ASSUME IInv, pc \in {"bsearch", "fetch"}
    PROVE  /\ TableFits /\ OffsetsValid /\ finishes > 0
           /\ num \in Nat /\ lo \in Nat /\ hi \in Nat /\ 1 <= lo /\ lo <= hi /\ hi <= num
           /\ pc = "fetch" => lo = hi
           /\ lo < hi => /\ mid \in Nat /\ lo < mid /\ mid <= hi
<1>1. TableFits /\ OffsetsValid /\ finishes > 0 /\ lo \in 1 .. num /\ hi \in lo .. num
      /\ (pc = "fetch" => lo = hi)
  BY DEF IInv, Typed
<1>2. num \in Nat
  BY <1>1, OpenFacts DEF IInv
<1>3. lo \in Nat /\ hi \in Nat /\ 1 <= lo /\ lo <= hi /\ hi <= num
  BY <1>1, <1>2
<1>4. lo < hi => mid \in Nat /\ lo < mid /\ mid <= hi
  BY <1>3 DEF mid
<1> QED
  BY <1>1, <1>2, <1>3, <1>4

\* key_at never fails in a block that nothing damaged.
LEMMA FailsInv ==
    ASSUME IInv, BSearchFails \/ FetchFails
    PROVE  IInv'
<1>1. /\ pc \in {"bsearch", "fetch"} /\ pc' = "done" /\ result' = FALSE
      /\ UNCHANGED <<builder, stored, search_key, handle_out>>
  BY DEF BSearchFails, FetchFails, Returns
<1>2. UNCHANGED <<builder, stored>>
  BY <1>1
<1>3. TableFits /\ OffsetsValid /\ finishes > 0
  BY <1>1, Midpoint
<1>4. Typed'
  BY <1>1, <1>2, <1>3, LookupTyped DEF IInv, Typed
<1>5. Built' /\ Sorted' /\ Kept' /\ damage' = damage
  BY <1>2, BlockKept
<1>6. damage # 0
  <2> SUFFICES ASSUME damage = 0
               PROVE  FALSE
    OBVIOUS
  <2>1. num = listed /\ \A n \in 1 .. listed : Readable(n)
    BY <1>3, KeptTable, KeptEntry DEF IInv
  <2>2. CASE BSearchFails
    <3>1. lo < hi /\ pc = "bsearch" /\ ~Readable(mid)
      BY <2>2 DEF BSearchFails
    <3>2. mid \in 1 .. num
      BY <3>1, Midpoint
    <3> QED
      BY <2>1, <3>1, <3>2
  <2>3. CASE FetchFails
    <3>1. ~Readable(lo) /\ lo \in 1 .. num
      BY <1>1, <2>3, Midpoint DEF FetchFails
    <3> QED
      BY <2>1, <3>1
  <2> QED
    BY <2>2, <2>3
<1>7. Bracket' /\ FindExact'
  BY <1>1, <1>5, <1>6 DEF Bracket, FindExact
<1> QED
  BY <1>4, <1>5, <1>7 DEF IInv

\* One iteration of the binary search keeps the divider between lo and hi.
LEMMA BSearchInv ==
    ASSUME IInv, BSearch
    PROVE  IInv'
<1>1. /\ pc = "bsearch" /\ pc' = "bsearch" /\ lo < hi
      /\ UNCHANGED <<builder, stored>> /\ UNCHANGED <<search_key, handle_out, result>>
      /\ \/ Reached /\ lo' = mid /\ hi' = hi
         \/ ~Reached /\ lo' = lo /\ hi' = mid - 1
  BY DEF BSearch
<1>2. /\ TableFits /\ OffsetsValid /\ finishes > 0
      /\ num \in Nat /\ lo \in Nat /\ hi \in Nat /\ 1 <= lo /\ lo <= hi /\ hi <= num
      /\ mid \in Nat /\ lo < mid /\ mid <= hi
  BY <1>1, Midpoint
<1>3. lo' \in 1 .. num /\ hi' \in lo' .. num
  BY <1>1, <1>2
<1>4. Typed'
  BY <1>1, <1>2, <1>3, LookupTyped DEF IInv, Typed
<1>5. /\ Built' /\ Sorted' /\ Kept' /\ damage' = damage /\ num' = num
      /\ \A n : KeyOf(n)' = KeyOf(n)
  BY <1>1, BlockKept
<1>6. ASSUME damage = 0
      PROVE  /\ lo' > 1 => ~Less(search_key, KeyOf(lo'))
             /\ hi' < num => Less(search_key, KeyOf(hi' + 1))
  <2>1. KeyAt(mid) = KeyOf(mid)
    <3>1. mid \in 1 .. listed
      BY <1>2, <1>6, KeptTable DEF IInv
    <3> QED
      BY <1>2, <1>6, <3>1, KeptEntry DEF IInv
  <2>2. Reached <=> ~Less(search_key, KeyOf(mid))
    BY <2>1 DEF Reached
  <2>3. /\ lo > 1 => ~Less(search_key, KeyOf(lo))
        /\ hi < num => Less(search_key, KeyOf(hi + 1))
    BY <1>1, <1>6 DEF IInv, Bracket
  <2>4. CASE Reached /\ lo' = mid /\ hi' = hi
    BY <2>2, <2>3, <2>4
  <2>5. CASE ~Reached /\ lo' = lo /\ hi' = mid - 1
    <3>1. hi' + 1 = mid
      BY <1>2, <2>5
    <3> QED
      BY <2>2, <2>3, <2>5, <3>1
  <2> QED
    BY <1>1, <2>4, <2>5
<1>7. Bracket'
  BY <1>1, <1>5, <1>6 DEF Bracket
<1>8. FindExact'
  BY <1>1 DEF FindExact
<1> QED
  BY <1>4, <1>5, <1>7, <1>8 DEF IInv

LEMMA BSearchEndInv ==
    ASSUME IInv, BSearchEnd
    PROVE  IInv'
<1>1. /\ pc = "bsearch" /\ pc' = "fetch" /\ lo >= hi
      /\ UNCHANGED <<builder, stored>>
      /\ UNCHANGED <<search_key, lo, hi, handle_out, result>>
  BY DEF BSearchEnd
<1>2. /\ TableFits /\ OffsetsValid /\ finishes > 0 /\ lo = hi
      /\ lo \in 1 .. num /\ hi \in lo .. num
  BY <1>1, Midpoint
<1>3. Typed'
  BY <1>1, <1>2, LookupTyped DEF IInv, Typed
<1>4. /\ Built' /\ Sorted' /\ Kept' /\ damage' = damage /\ num' = num
      /\ \A n : KeyOf(n)' = KeyOf(n)
  BY <1>1, BlockKept
<1>5. Bracket'
  BY <1>1, <1>4 DEF IInv, Bracket
<1>6. FindExact'
  BY <1>1 DEF FindExact
<1> QED
  BY <1>3, <1>4, <1>5, <1>6 DEF IInv

\* A handle that was read is a pair of cells.
LEMMA HandleTyped ==
    ASSUME IInv, pc = "fetch", Readable(lo)
    PROVE  HandleAt(lo) \in Seq(Cell) /\ Len(HandleAt(lo)) = 2
<1>1. /\ TableFits /\ lo \in 1 .. num /\ Typed
  BY Midpoint DEF IInv
<1>2. PICK E \in Nat, o \in Nat, B \in Nat :
          E = entries_size /\ o = Offset(lo) /\ B = Len(block) /\ E <= B
  BY <1>1, OpenFacts
<1>3. PICK v \in 1 .. 5 : v = varint_size(o)
  <2>1. \E n \in 1 .. 5 : VarintEnds(o, n)
    BY <1>2 DEF Readable, VarintFails
  <2> QED
    BY <2>1 DEF varint_size
<1>4. klen(o) \in Nat
  <2>1. VarintEnds(o, v)
    <3>1. \E n \in 1 .. 5 : VarintEnds(o, n)
      BY <1>2 DEF Readable, VarintFails
    <3> QED
      BY <1>3, <3>1 DEF varint_size
  <2>2. \A n \in 1 .. 5 : Group(o, n) \in Nat
    <3> TAKE n \in 1 .. 5
    <3>1. CASE n <= v
      <4>1. o + n \in 1 .. B
        BY <1>2, <2>1, <3>1 DEF VarintEnds
      <4>2. block[o + n] \in Nat
        BY <1>1, <1>2, <4>1, TableFacts
      <4>3. block[o + n] % Cont \in Nat
        BY <4>2, Constants
      <4> QED
        BY <1>3, <3>1, <4>3 DEF Group
    <3>2. CASE ~(n <= v)
      BY <1>3, <3>2 DEF Group
    <3> QED
      BY <3>1, <3>2
  <2>3. PICK a \in Nat, b \in Nat, c \in Nat, d \in Nat, e \in Nat :
            /\ a = Group(o, 1) /\ b = Group(o, 2) /\ c = Group(o, 3)
            /\ d = Group(o, 4) /\ e = Group(o, 5)
    BY <2>2
  <2>4. PICK s \in Nat : s = a + Cont * (b + Cont * (c + Cont * (d + Cont * e)))
    <3>1. \A x, y \in Nat : x + Cont * y \in Nat
      BY Constants
    <3>2. d + Cont * e \in Nat
      BY <3>1
    <3>3. c + Cont * (d + Cont * e) \in Nat
      BY <3>1, <3>2
    <3>4. b + Cont * (c + Cont * (d + Cont * e)) \in Nat
      BY <3>1, <3>3
    <3> QED
      BY <3>1, <3>4
  <2>5. klen(o) = s % Word
    BY <2>3, <2>4 DEF klen
  <2>6. s % Word \in Nat
    <3>1. Word \in Nat /\ Word > 0
      BY Constants
    <3> QED
      BY <3>1
  <2> QED
    BY <2>5, <2>6
<1>5. PICK h \in Nat, t \in Nat : h = HandleStart(lo) /\ t = h + 2
  BY <1>2, <1>3, <1>4 DEF HandleStart, KeyStart
<1>6. t <= E
  BY <1>2, <1>5, Constants DEF Readable
<1>7. h <= t /\ t <= Len(block) /\ t - h = 2
  BY <1>2, <1>5, <1>6
<1>8. HandleAt(lo) = SubSeq(block, h + 1, t)
  BY <1>5, Constants DEF HandleAt
<1>9. block \in Seq(Cell)
  BY <1>1 DEF Typed
<1> QED
  BY <1>7, <1>8, <1>9, CutFacts

\* The search ends on the last divider that is not above the key, or on the
\* first one, which the final comparison tells apart.
LEMMA FetchInv ==
    ASSUME IInv, Fetch
    PROVE  IInv'
<1>1. /\ pc = "fetch" /\ pc' = "done" /\ Readable(lo)
      /\ UNCHANGED <<builder, stored>> /\ search_key' = search_key
      /\ handle_out' = HandleAt(lo)
      /\ result' = ~Less(search_key, KeyAt(lo))
  BY DEF Fetch, Returns
<1>2. /\ TableFits /\ OffsetsValid /\ finishes > 0 /\ lo = hi /\ num \in Nat
      /\ lo \in Nat /\ 1 <= lo /\ lo <= num
  BY <1>1, Midpoint
<1>3. HandleAt(lo) \in Seq(Cell) /\ Len(HandleAt(lo)) = 2
  BY <1>1, HandleTyped
<1>4. result' \in BOOLEAN
  BY <1>1
<1>5. search_key \in Divider \cup {<<>>}
  BY DEF IInv, Typed
<1>6. Typed'
  BY <1>1, <1>2, <1>3, <1>4, <1>5, LookupTyped
<1>7. /\ Built' /\ Sorted' /\ Kept' /\ damage' = damage /\ num' = num
      /\ Entries' = Entries /\ \A n : KeyOf(n)' = KeyOf(n)
      /\ added' = added
  BY <1>1, BlockKept
<1>8. Bracket'
  BY <1>1 DEF Bracket
<1> DEFINE below == {n \in Entries : ~Less(search_key, KeyOf(n))}
<1>9. ASSUME damage = 0
      PROVE  /\ result' = (below # {})
             /\ result' => \E n \in below : /\ \A m \in below : m <= n
                                            /\ handle_out' = added[n].handle
  <2>1. /\ num = listed /\ lo \in 1 .. listed /\ Entries = 1 .. num
        /\ KeyAt(lo) = KeyOf(lo) /\ HandleAt(lo) = added[lo].handle
    <3>1. num = listed
      BY <1>2, <1>9, KeptTable DEF IInv
    <3>2. lo \in 1 .. listed
      BY <1>2, <3>1
    <3> QED
      BY <1>2, <1>9, <3>1, <3>2, KeptEntry DEF IInv, Entries
  <2>2. search_key \in Seq(Cell) /\ \A n \in Entries : KeyOf(n) \in Seq(Cell) /\ n \in Nat
    <3>1. search_key \in Seq(Cell)
      BY <1>5, Constants
    <3>2. \A n \in Entries : n \in 1 .. Len(added)
      BY TableFacts DEF IInv, Entries
    <3> QED
      BY <3>1, <3>2, EntryFacts DEF IInv
  <2>3. /\ lo > 1 => ~Less(search_key, KeyOf(lo))
        /\ lo < num => Less(search_key, KeyOf(lo + 1))
    BY <1>1, <1>2, <1>9 DEF IInv, Bracket
  <2>4. \A m, n \in Entries : m < n => ~Less(KeyOf(n), KeyOf(m))
    <3>1. \A n \in Entries : n \in 1 .. Len(added)
      BY TableFacts DEF IInv, Entries
    <3> QED
      BY <3>1 DEF IInv, Sorted
  <2>5. \A m \in below : m <= lo
    <3> SUFFICES ASSUME NEW m \in Entries, ~(m <= lo)
                 PROVE  Less(search_key, KeyOf(m))
      OBVIOUS
    <3>1. m \in Nat /\ lo < m /\ m <= num /\ lo < num /\ lo + 1 \in Entries
      BY <1>2, <2>1
    <3>2. Less(search_key, KeyOf(lo + 1))
      BY <2>3, <3>1
    <3>3. m = lo + 1 \/ lo + 1 < m
      BY <1>2, <3>1
    <3>4. CASE lo + 1 < m
      <4>1. ~Less(KeyOf(m), KeyOf(lo + 1))
        BY <2>4, <3>1, <3>4
      <4>2. KeyOf(m) \in Seq(Cell) /\ KeyOf(lo + 1) \in Seq(Cell)
        BY <2>2, <3>1
      <4>3. ~Less(KeyOf(m), KeyOf(lo + 1)) /\ ~Less(search_key, KeyOf(m))
                => ~Less(search_key, KeyOf(lo + 1))
        BY <2>2, <4>2, NotAbove
      <4> QED
        BY <3>2, <4>1, <4>3
    <3> QED
      BY <3>2, <3>3, <3>4
  <2>6. lo \in Entries
    BY <2>1
  <2>7. CASE Less(search_key, KeyOf(lo))
    <3>1. lo = 1
      BY <1>2, <2>3, <2>7
    <3>2. below = {}
      <4> SUFFICES ASSUME NEW m \in below
                   PROVE  FALSE
        OBVIOUS
      <4>1. m <= 1 /\ m \in Entries /\ ~Less(search_key, KeyOf(m))
        BY <2>5, <3>1
      <4>2. m = lo
        BY <1>2, <2>1, <3>1, <4>1
      <4> QED
        BY <2>7, <4>1, <4>2
    <3>3. result' = FALSE
      BY <1>1, <2>1, <2>7
    <3> QED
      BY <3>2, <3>3
  <2>8. CASE ~Less(search_key, KeyOf(lo))
    <3>1. lo \in below
      BY <2>6, <2>8
    <3>2. result' = TRUE /\ handle_out' = added[lo].handle
      BY <1>1, <2>1, <2>8
    <3> HIDE DEF below
    <3> QED
      BY <3>1, <3>2, <2>5
  <2> QED
    BY <2>7, <2>8
<1>10. FindExact'
  BY <1>1, <1>7, <1>9 DEF FindExact
<1> QED
  BY <1>6, <1>7, <1>8, <1>10 DEF IInv

-----------------------------------------------------------------------------
(* The builder. *)

\* Two strings, one behind the other.
LEMMA Joined ==
    ASSUME NEW a \in Seq(Cell), NEW b \in Seq(Cell)
    PROVE  /\ a \o b \in Seq(Cell) /\ Len(a \o b) = Len(a) + Len(b)
           /\ \A j \in 1 .. Len(a) : (a \o b)[j] = a[j]
           /\ \A j \in 1 .. Len(b) : (a \o b)[Len(a) + j] = b[j]
<1>0. PICK c : c = a \o b
  OBVIOUS
<1>1. PICK m \in Nat, n \in Nat : m = Len(a) /\ n = Len(b)
  BY LenProperties
<1>2. c \in Seq(Cell) /\ Len(c) = m + n
  BY <1>0, <1>1, ConcatProperties
<1>3. \A j \in 1 .. m + n : c[j] = IF j <= m THEN a[j] ELSE b[j - m]
  BY <1>0, <1>1, ConcatProperties
<1>4. \A j \in 1 .. m : j \in 1 .. m + n /\ j <= m
  OBVIOUS
<1>5. \A j \in 1 .. n : m + j \in 1 .. m + n /\ ~(m + j <= m) /\ (m + j) - m = j
  OBVIOUS
<1>6. \A j \in 1 .. m : c[j] = a[j]
  BY <1>3, <1>4
<1>7. ASSUME NEW j \in 1 .. n
      PROVE  c[m + j] = b[j]
  BY <1>3, <1>5
<1> QED
  BY <1>0, <1>1, <1>2, <1>6, <1>7

\* The cells that Add() appends.
LEMMA AppendedCells ==
    ASSUME NEW a \in Seq(Cell), NEW k \in Seq(Cell), NEW h \in Seq(Cell), NEW c \in Cell,
           NEW b, b = Append(a, c) \o k \o h
    PROVE  /\ b \in Seq(Cell) /\ Len(b) = Len(a) + 1 + Len(k) + Len(h)
           /\ \A j \in 1 .. Len(a) : b[j] = a[j]
           /\ b[Len(a) + 1] = c
           /\ \A i \in 1 .. Len(k) : b[Len(a) + 1 + i] = k[i]
           /\ \A i \in 1 .. Len(h) : b[Len(a) + 1 + Len(k) + i] = h[i]
<1>0. PICK L \in Nat, K \in Nat, T \in Nat : L = Len(a) /\ K = Len(k) /\ T = Len(h)
  BY LenProperties
<1>1. PICK x : x = Append(a, c)
  OBVIOUS
<1>2. /\ x \in Seq(Cell) /\ Len(x) = L + 1
      /\ \A j \in 1 .. L : x[j] = a[j]
      /\ x[L + 1] = c
  BY <1>0, <1>1, AppendProperties
<1>3. PICK y : y = x \o k
  OBVIOUS
<1>4. PICK P \in Nat, Q \in Nat : P = L + 1 /\ Q = L + 1 + K
  OBVIOUS
<1>5. x \in Seq(Cell) /\ Len(x) = P
  BY <1>2, <1>4
<1>6. /\ y \in Seq(Cell) /\ Len(y) = P + K
      /\ \A j \in 1 .. P : y[j] = x[j]
      /\ \A j \in 1 .. K : y[P + j] = k[j]
  BY <1>0, <1>3, <1>5, Joined, Zenon
<1>7. PICK z : z = y \o h
  OBVIOUS
<1>8. y \in Seq(Cell) /\ Len(y) = Q
  BY <1>4, <1>6
<1>9. /\ z \in Seq(Cell) /\ Len(z) = Q + T
      /\ \A j \in 1 .. Q : z[j] = y[j]
      /\ \A j \in 1 .. T : z[Q + j] = h[j]
  BY <1>0, <1>7, <1>8, Joined, Zenon
<1>10. \A j \in 1 .. P : j \in 1 .. Q
  BY <1>4
<1>11. \A j \in 1 .. L : j \in 1 .. P
  BY <1>4
<1>12. \A j \in 1 .. K : P + j \in 1 .. Q
  BY <1>4
<1>13. P \in 1 .. P
  BY <1>4
<1>14. /\ z \in Seq(Cell) /\ Len(z) = L + 1 + K + T
       /\ \A j \in 1 .. L : z[j] = a[j]
       /\ z[L + 1] = c
       /\ \A i \in 1 .. K : z[L + 1 + i] = k[i]
       /\ \A i \in 1 .. T : z[L + 1 + K + i] = h[i]
  BY <1>2, <1>4, <1>6, <1>9, <1>10, <1>11, <1>12, <1>13
<1>15. z = b
  BY <1>1, <1>3, <1>7
<1> QED
  BY <1>0, <1>14, <1>15, Zenon

LEMMA AddInv ==
    ASSUME IInv, NEW k \in Divider, NEW h \in Handle, Add(k, h)
    PROVE  IInv'
<1> DEFINE e == [key |-> k, handle |-> h, off |-> Len(buffer)]
<1>1. /\ pc = "build" /\ ~Rejects(k) /\ Len(buffer') < Word
      /\ offsets' = Append(offsets, Len(buffer))
      /\ buffer' = Append(buffer, Len(k)) \o k \o h
      /\ last_key' = k /\ added' = Append(added, e)
      /\ UNCHANGED <<finishes, block, listed, damage>>
      /\ UNCHANGED <<pc, search_key, lo, hi, handle_out, result>>
  BY DEF Add, Fits, stored
<1>2. PICK L \in Nat, N \in Nat, K \in Nat, T \in Nat :
          /\ L = Len(buffer) /\ N = Len(added) /\ K = Len(k) /\ T = 2
  BY TableFacts, Constants DEF IInv
<1>3. /\ buffer \in Seq(Cell) /\ offsets \in Seq(Cell) /\ added \in Seq(Entry)
      /\ Len(offsets) = N /\ L < Word /\ listed \in 0 .. N
      /\ last_key \in Divider \cup {<<>>}
  BY <1>2 DEF IInv, Typed
<1>4. L \in Cell /\ K \in Cell /\ k \in Seq(Cell) /\ h \in Seq(Cell) /\ Len(h) = T
  <2>1. L \in Cell
    BY <1>2, <1>3, Constants DEF Cell
  <2>2. K < Cont /\ Cont <= Word
    BY <1>2, Constants
  <2>3. K \in Cell
    BY <1>2, <2>2, Constants DEF Cell
  <2> QED
    BY <1>2, <2>1, <2>3, Constants
<1>5. /\ buffer' \in Seq(Cell) /\ Len(buffer') = L + 1 + K + T
      /\ \A j \in 1 .. L : buffer'[j] = buffer[j]
      /\ buffer'[L + 1] = K
      /\ \A i \in 1 .. K : buffer'[L + 1 + i] = k[i]
      /\ \A i \in 1 .. T : buffer'[L + 1 + K + i] = h[i]
  <2>1. PICK b : b = Append(buffer, K) \o k \o h /\ b = buffer'
    BY <1>1, <1>2
  <2>2. /\ b \in Seq(Cell) /\ Len(b) = L + 1 + K + T
        /\ \A j \in 1 .. L : b[j] = buffer[j]
        /\ b[L + 1] = K
        /\ \A i \in 1 .. K : b[L + 1 + i] = k[i]
        /\ \A i \in 1 .. T : b[L + 1 + K + i] = h[i]
    <3>1. buffer \in Seq(Cell) /\ Len(buffer) = L /\ Len(k) = K /\ Len(h) = T
      BY <1>2, <1>3, <1>4
    <3>2. buffer \in Seq(Cell) /\ k \in Seq(Cell) /\ h \in Seq(Cell) /\ K \in Cell
      BY <1>3, <1>4
    <3>3. b = Append(buffer, K) \o k \o h
      BY <2>1
    <3>4. b \in Seq(Cell) /\ Len(b) = Len(buffer) + 1 + Len(k) + Len(h)
      BY <3>2, <3>3, AppendedCells
    <3>5. \A j \in 1 .. Len(buffer) : b[j] = buffer[j]
      BY <3>2, <3>3, AppendedCells
    <3>6. b[Len(buffer) + 1] = K
      BY <3>2, <3>3, AppendedCells
    <3>7. \A i \in 1 .. Len(k) : b[Len(buffer) + 1 + i] = k[i]
      BY <3>2, <3>3, AppendedCells
    <3>8. \A i \in 1 .. Len(h) : b[Len(buffer) + 1 + Len(k) + i] = h[i]
      BY <3>2, <3>3, AppendedCells
    <3> QED
      BY <3>1, <3>4, <3>5, <3>6, <3>7, <3>8, Zenon
  <2> QED
    BY <2>1, <2>2
<1>6. /\ offsets' \in Seq(Cell) /\ Len(offsets') = N + 1
      /\ \A n \in 1 .. N : offsets'[n] = offsets[n]
      /\ offsets'[N + 1] = L
  BY <1>1, <1>2, <1>3, <1>4, AppendProperties
<1>7. e \in Entry /\ e.key = k /\ e.handle = h /\ e.off = L
  BY <1>2 DEF Entry
<1> HIDE DEF e
<1>8. /\ added' \in Seq(Entry) /\ Len(added') = N + 1
      /\ \A n \in 1 .. N : added'[n] = added[n]
      /\ added'[N + 1] = e
  BY <1>1, <1>2, <1>3, <1>7, AppendProperties
<1>9. \A n \in 1 .. N : /\ KeyOf(n)' = KeyOf(n) /\ Off(n)' = Off(n) /\ KeyLen(n)' = KeyLen(n)
                        /\ End(n)' = End(n) /\ n \in 1 .. Len(added)
  BY <1>2, <1>8 DEF KeyOf, Off, KeyLen, End
<1>10. /\ KeyOf(N + 1)' = k /\ Off(N + 1)' = L /\ KeyLen(N + 1)' = K
       /\ End(N + 1)' = L + K + 3
  BY <1>2, <1>7, <1>8 DEF KeyOf, Off, KeyLen, End
<1>11. \A n \in 1 .. N + 1 : n \in 1 .. N \/ n = N + 1
  OBVIOUS
<1>12. \A n \in 1 .. N : /\ Off(n) \in Nat /\ KeyLen(n) \in Nat /\ End(n) <= L
                         /\ End(n) = Off(n) + KeyLen(n) + 3
  BY <1>2, <1>9, EntryFacts DEF IInv, Built, Holds, End
<1>13. Built'
  <2>1. ASSUME NEW n \in 1 .. N
        PROVE  Holds(buffer, Len(buffer), n)' /\ offsets'[n] = Off(n)'
    <3>1. Holds(buffer, L, n) /\ offsets[n] = Off(n)
      BY <1>2, <1>9 DEF IInv, Built
    <3>2. PICK o \in Nat, c \in Nat : o = Off(n) /\ c = KeyLen(n) /\ o + c + 3 <= L
      BY <1>12
    <3>3. \A j \in 1 .. c + 3 : buffer'[o + j] = buffer[o + j]
      <4> TAKE j \in 1 .. c + 3
      <4>1. o + j \in 1 .. L
        BY <3>2
      <4> QED
        BY <1>5, <4>1
    <3>4. buffer'[o + 1] = c
      <4>1. 1 \in 1 .. c + 3
        OBVIOUS
      <4>2. buffer[o + 1] = c
        BY <3>1, <3>2 DEF Holds
      <4> QED
        BY <3>3, <4>1, <4>2
    <3>5. \A i \in 1 .. c : buffer'[o + 1 + i] = KeyOf(n)[i]
      <4> TAKE i \in 1 .. c
      <4>1. 1 + i \in 1 .. c + 3 /\ o + (1 + i) = o + 1 + i
        OBVIOUS
      <4>2. buffer[o + 1 + i] = KeyOf(n)[i]
        BY <3>1, <3>2 DEF Holds
      <4> QED
        BY <3>3, <4>1, <4>2
    <3>6. \A i \in 1 .. 2 : buffer'[o + 1 + c + i] = added[n].handle[i]
      <4> TAKE i \in 1 .. 2
      <4>1. 1 + c + i \in 1 .. c + 3 /\ o + (1 + c + i) = o + 1 + c + i
        OBVIOUS
      <4>2. buffer[o + 1 + c + i] = added[n].handle[i]
        BY <3>1, <3>2 DEF Holds
      <4> QED
        BY <3>3, <4>1, <4>2
    <3>7. Off(n)' = o /\ KeyLen(n)' = c /\ KeyOf(n)' = KeyOf(n) /\ added'[n] = added[n]
      BY <1>8, <1>9, <3>2
    <3>8. End(n)' <= Len(buffer')
      <4>1. End(n)' = o + c + 3
        BY <1>9, <1>12, <3>2
      <4>2. Len(buffer') = L + 1 + K + T
        BY <1>5
      <4> QED
        BY <3>2, <4>1, <4>2
    <3> QED
      BY <1>6, <3>1, <3>2, <3>4, <3>5, <3>6, <3>7, <3>8 DEF Holds
  <2>2. Holds(buffer, Len(buffer), N + 1)' /\ offsets'[N + 1] = Off(N + 1)'
    <3>1. End(N + 1)' <= Len(buffer')
      BY <1>2, <1>5, <1>10
    <3>2. added'[N + 1].handle = h
      BY <1>7, <1>8
    <3> QED
      BY <1>2, <1>5, <1>6, <1>10, <3>1, <3>2 DEF Holds
  <2>3. \A m, n \in 1 .. N + 1 : m < n => Off(m)' < Off(n)'
    <3> SUFFICES ASSUME NEW m \in 1 .. N + 1, NEW n \in 1 .. N + 1, m < n
                 PROVE  Off(m)' < Off(n)'
      OBVIOUS
    <3>1. m \in 1 .. N
      OBVIOUS
    <3>2. CASE n \in 1 .. N
      <4>1. Off(m) < Off(n)
        BY <1>9, <3>1, <3>2 DEF IInv, Built
      <4> QED
        BY <1>9, <3>1, <3>2, <4>1
    <3>3. CASE n = N + 1
      <4>1. Off(m) < L
        BY <1>12, <3>1
      <4> QED
        BY <1>9, <1>10, <3>1, <3>3, <4>1
    <3> QED
      BY <1>11, <3>2, <3>3
  <2>4. \A n \in 1 .. N + 1 : Holds(buffer, Len(buffer), n)' /\ offsets'[n] = Off(n)'
    BY <1>11, <2>1, <2>2
  <2> QED
    BY <1>8, <2>3, <2>4 DEF Built
<1>14. Sorted'
  <2>1. \A n \in 1 .. N : ~Less(k, KeyOf(n))
    <3> TAKE n \in 1 .. N
    <3>1. KeyOf(n) \in Seq(Cell) /\ last_key \in Seq(Cell) /\ k \in Seq(Cell)
      BY <1>3, <1>4, <1>9, EntryFacts, Constants DEF IInv
    <3>2. ~Less(last_key, KeyOf(n))
      BY <1>9 DEF IInv, Sorted
    <3>3. ~Less(k, last_key)
      <4>1. CASE last_key = <<>>
        BY <3>1, <4>1, NotAbove
      <4>2. CASE last_key # <<>>
        <5>1. Less(last_key, k)
          BY <1>1, <4>2 DEF Rejects
        <5> QED
          BY <3>1, <5>1, NotAbove
      <4> QED
        BY <4>1, <4>2
    <3>4. ~Less(last_key, KeyOf(n)) /\ ~Less(k, last_key) => ~Less(k, KeyOf(n))
      BY <3>1, NotAbove
    <3> QED
      BY <3>2, <3>3, <3>4
  <2>2. ~Less(k, k)
    BY <1>4, NotAbove
  <2>3. \A n \in 1 .. N + 1 : ~Less(k, KeyOf(n)')
    BY <1>9, <1>10, <1>11, <2>1, <2>2
  <2>4. ASSUME NEW m \in 1 .. N + 1, NEW n \in 1 .. N + 1, m < n
        PROVE  ~Less(KeyOf(n)', KeyOf(m)')
    <3>1. m \in 1 .. N
      BY <2>4
    <3>2. CASE n \in 1 .. N
      <4>1. ~Less(KeyOf(n), KeyOf(m))
        BY <1>9, <2>4, <3>1, <3>2 DEF IInv, Sorted
      <4> QED
        BY <1>9, <3>1, <3>2, <4>1
    <3>3. CASE n = N + 1
      BY <1>10, <2>3, <3>3
    <3> QED
      BY <1>11, <3>2, <3>3
  <2> QED
    BY <1>1, <1>8, <2>3, <2>4 DEF Sorted
<1>15. \A n \in 1 .. listed : n \in 1 .. N
  BY <1>3
<1>16. Kept'
  <2>2. \A n \in 1 .. listed : Off(n)' = Off(n)
    BY <1>9, <1>15
  <2>3. finishes' = finishes /\ damage' = damage /\ block' = block /\ listed' = listed
    BY <1>1
  <2> SUFFICES ASSUME finishes > 0, damage = 0
               PROVE  /\ Len(block) >= listed + 1 /\ block[Len(block)] = listed
                      /\ \A n \in 1 .. listed :
                            /\ block[Len(block) - 1 - listed + n] = Off(n)'
                            /\ Holds(block, Len(block) - 1 - listed, n)'
    BY <2>3 DEF Kept
  <2>4. /\ Len(block) >= listed + 1 /\ block[Len(block)] = listed
        /\ \A n \in 1 .. listed :
              /\ block[Len(block) - 1 - listed + n] = Off(n)
              /\ Holds(block, Len(block) - 1 - listed, n)
    BY DEF IInv, Kept
  <2>5. ASSUME NEW n \in 1 .. listed
        PROVE  Holds(block, Len(block) - 1 - listed, n)'
    <3>1. n \in 1 .. N /\ Holds(block, Len(block) - 1 - listed, n)
      BY <1>15, <2>4
    <3>2. /\ KeyOf(n)' = KeyOf(n) /\ Off(n)' = Off(n) /\ KeyLen(n)' = KeyLen(n)
          /\ End(n)' = End(n) /\ added'[n] = added[n]
      BY <1>8, <1>9, <3>1
    <3> QED
      BY <2>3, <3>1, <3>2 DEF Holds
  <2> QED
    BY <2>2, <2>4, <2>5
<1>17. Typed'
  <2>1. num' = num /\ entries_size' = entries_size
    BY <1>1 DEF num, entries_size
  <2>2. listed' \in 0 .. Len(added') /\ Len(offsets') = Len(added')
    BY <1>1, <1>3, <1>6, <1>8
  <2>3. last_key' \in Divider \cup {<<>>}
    BY <1>1
  <2> QED
    BY <1>1, <1>5, <1>6, <1>8, <2>2, <2>3 DEF IInv, Typed
<1>18. Bracket' /\ FindExact'
  BY <1>1 DEF Bracket, FindExact
<1> QED
  BY <1>13, <1>14, <1>16, <1>17, <1>18 DEF IInv

\* The table is written behind the entries, and lists them all.
LEMMA FinishInv ==
    ASSUME IInv, Finish
    PROVE  IInv'
<1>1. /\ pc = "build" /\ finishes < MaxFinishes /\ finishes' = finishes + 1
      /\ Len(buffer') < Word
      /\ buffer' = Append(buffer \o offsets, Len(offsets))
      /\ block' = buffer' /\ listed' = Len(added) /\ damage' = 0
      /\ UNCHANGED <<offsets, last_key, added>>
      /\ UNCHANGED <<pc, search_key, lo, hi, handle_out, result>>
  BY DEF Finish, Fits
<1>2. PICK L \in Nat, N \in Nat : L = Len(buffer) /\ N = Len(added)
  BY TableFacts DEF IInv
<1>3. /\ buffer \in Seq(Cell) /\ offsets \in Seq(Cell) /\ added \in Seq(Entry)
      /\ Len(offsets) = N
  BY <1>2 DEF IInv, Typed
<1>0. PICK c : c = buffer \o offsets
  OBVIOUS
<1>4. /\ c \in Seq(Cell) /\ Len(c) = L + N
      /\ \A j \in 1 .. L : c[j] = buffer[j]
      /\ \A j \in 1 .. N : c[L + j] = offsets[j]
  <2>1. Len(buffer) = L
    BY <1>2
  <2> QED
    BY <1>0, <1>3, <2>1, Joined, Zenon
<1>5. buffer' = Append(c, N)
  BY <1>0, <1>1, <1>3
<1>6. PICK S \in Nat : S = L + N /\ Len(c) = S
  BY <1>4
<1>7. Len(buffer') = S + 1 /\ buffer'[S + 1] = N /\ \A j \in 1 .. S : buffer'[j] = c[j]
  <2>1. c \in Seq(Cell)
    BY <1>4
  <2>2. c \in Seq(Nat)
    BY <2>1, Constants, SeqMonotonic
  <2> QED
    BY <1>5, <1>6, <2>2, AppendProperties
<1>8. N \in Cell
  <2>1. N < Word
    BY <1>1, <1>6, <1>7, Constants
  <2> QED
    BY <2>1, Constants DEF Cell
<1>9. buffer' \in Seq(Cell)
  <2>1. c \in Seq(Cell)
    BY <1>4
  <2> QED
    BY <1>5, <1>8, <2>1, AppendProperties
<1>10. \A j \in 1 .. L : buffer'[j] = buffer[j]
  <2> TAKE j \in 1 .. L
  <2>1. j \in 1 .. S
    BY <1>6
  <2> QED
    BY <1>4, <1>7, <2>1
<1>11. \A n \in 1 .. N : buffer'[L + n] = offsets[n]
  <2> TAKE n \in 1 .. N
  <2>1. L + n \in 1 .. S
    BY <1>6
  <2> QED
    BY <1>4, <1>7, <2>1
<1>12. \A n : /\ KeyOf(n)' = KeyOf(n) /\ Off(n)' = Off(n) /\ KeyLen(n)' = KeyLen(n)
              /\ End(n)' = End(n)
  BY <1>1 DEF KeyOf, Off, KeyLen, End
<1>13. ASSUME NEW n \in 1 .. N, NEW z \in Nat, L <= z
       PROVE  /\ End(n)' <= z
              /\ buffer'[Off(n)' + 1] = KeyLen(n)'
              /\ \A i \in 1 .. KeyLen(n)' : buffer'[Off(n)' + 1 + i] = KeyOf(n)'[i]
              /\ \A i \in 1 .. 2 : buffer'[Off(n)' + 1 + KeyLen(n)' + i] = added'[n].handle[i]
  <2>1. Holds(buffer, L, n) /\ n \in 1 .. Len(added)
    BY <1>2 DEF IInv, Built
  <2>2. PICK o \in Nat, d \in Nat : o = Off(n) /\ d = KeyLen(n)
    BY <2>1, EntryFacts DEF IInv
  <2>3. o + d + 3 <= L /\ End(n) = o + d + 3
    BY <2>1, <2>2 DEF Holds, End
  <2>4. \A j \in 1 .. d + 3 : buffer'[o + j] = buffer[o + j]
    <3> TAKE j \in 1 .. d + 3
    <3>1. o + j \in 1 .. L
      BY <2>3
    <3> QED
      BY <1>10, <3>1
  <2>5. buffer'[o + 1] = d
    <3>1. 1 \in 1 .. d + 3
      OBVIOUS
    <3>2. buffer[o + 1] = d
      BY <2>1, <2>2 DEF Holds
    <3> QED
      BY <2>4, <3>1, <3>2
  <2>6. \A i \in 1 .. d : buffer'[o + 1 + i] = KeyOf(n)[i]
    <3> TAKE i \in 1 .. d
    <3>1. 1 + i \in 1 .. d + 3 /\ o + (1 + i) = o + 1 + i
      OBVIOUS
    <3>2. buffer[o + 1 + i] = KeyOf(n)[i]
      BY <2>1, <2>2 DEF Holds
    <3> QED
      BY <2>4, <3>1, <3>2
  <2>7. \A i \in 1 .. 2 : buffer'[o + 1 + d + i] = added[n].handle[i]
    <3> TAKE i \in 1 .. 2
    <3>1. 1 + d + i \in 1 .. d + 3 /\ o + (1 + d + i) = o + 1 + d + i
      OBVIOUS
    <3>2. buffer[o + 1 + d + i] = added[n].handle[i]
      BY <2>1, <2>2 DEF Holds
    <3> QED
      BY <2>4, <3>1, <3>2
  <2>8. End(n)' <= z
    <3>1. o + d + 3 <= z
      BY <1>13, <2>3
    <3> QED
      BY <1>12, <2>3, <3>1
  <2>9. /\ KeyOf(n)' = KeyOf(n) /\ Off(n)' = o /\ KeyLen(n)' = d /\ added'[n] = added[n]
    BY <1>1, <1>12, <2>2
  <2> QED
    BY <2>5, <2>6, <2>7, <2>8, <2>9
<1>14. Built'
  <2>1. L <= Len(buffer') /\ Len(buffer') \in Nat
    BY <1>6, <1>7
  <2>2. \A n \in 1 .. N : Holds(buffer, Len(buffer), n)'
    BY <1>13, <2>1 DEF Holds
  <2>3. \A n \in 1 .. N : offsets'[n] = Off(n)'
    BY <1>1, <1>2, <1>12 DEF IInv, Built
  <2>4. \A m, n \in 1 .. N : m < n => Off(m)' < Off(n)'
    BY <1>2, <1>12 DEF IInv, Built
  <2> QED
    BY <1>1, <1>2, <2>2, <2>3, <2>4 DEF Built
<1>15. Sorted'
  BY <1>1, <1>12 DEF IInv, Sorted
<1>16. Kept'
  <2>1. PICK B \in Nat : B = Len(block') /\ B = L + N + 1
    BY <1>1, <1>6, <1>7
  <2>2. block'[B] = N /\ B - 1 - N = L
    BY <1>1, <1>6, <1>7, <2>1
  <2>3. \A n \in 1 .. N : block'[L + n] = Off(n)'
    BY <1>1, <1>2, <1>11, <1>12 DEF IInv, Built
  <2>5. listed' = N
    BY <1>1, <1>2
  <2>4. \A n \in 1 .. N : Holds(block, Len(block) - 1 - listed, n)'
    <3>1. Len(block') - 1 - listed' = L /\ L <= L /\ block' = buffer'
      BY <1>1, <2>1, <2>2, <2>5
    <3> QED
      BY <1>13, <3>1 DEF Holds
  <2>6. /\ Len(block') >= listed' + 1 /\ block'[Len(block')] = listed'
        /\ \A n \in 1 .. listed' : block'[Len(block') - 1 - listed' + n] = Off(n)'
    BY <2>1, <2>2, <2>3, <2>5
  <2> QED
    BY <2>4, <2>5, <2>6 DEF Kept
<1>17. Typed'
  <2>1. finishes' \in 0 .. MaxFinishes /\ finishes' > 0 /\ damage' \in 0 .. MaxDamage
    BY <1>1, Constants DEF IInv, Typed
  <2>2. listed' \in 0 .. Len(added')
    BY <1>1, <1>2
  <2>3. block' \in Seq(Cell) /\ buffer' \in Seq(Cell) /\ Len(buffer') < Word
    BY <1>1, <1>9
  <2> QED
    BY <1>1, <2>1, <2>2, <2>3 DEF IInv, Typed
<1>18. Bracket' /\ FindExact'
  BY <1>1 DEF Bracket, FindExact
<1> QED
  BY <1>14, <1>15, <1>16, <1>17, <1>18 DEF IInv

-----------------------------------------------------------------------------
(* The stored block. *)

LEMMA DamagedInv ==
    ASSUME IInv, pc = "build", block' \in Seq(Cell), damage' = damage + 1,
           damage < MaxDamage, UNCHANGED <<builder, listed>>,
           UNCHANGED <<pc, search_key, lo, hi, handle_out, result>>
    PROVE  IInv'
<1>1. UNCHANGED <<buffer, offsets, last_key, added, finishes>>
  BY DEF builder
<1>2. damage' \in 0 .. MaxDamage /\ damage' # 0
  BY Constants DEF IInv, Typed
<1>3. \A n : /\ KeyOf(n)' = KeyOf(n) /\ Off(n)' = Off(n) /\ KeyLen(n)' = KeyLen(n)
             /\ End(n)' = End(n)
  BY <1>1 DEF KeyOf, Off, KeyLen, End
<1>4. \A n : Holds(buffer, Len(buffer), n)' = Holds(buffer, Len(buffer), n)
  BY <1>1, <1>3 DEF Holds
<1>5. Typed'
  BY <1>1, <1>2 DEF IInv, Typed
<1>6. Built' /\ Sorted'
  BY <1>1, <1>3, <1>4 DEF IInv, Built, Sorted
<1>7. Kept' /\ Bracket' /\ FindExact'
  BY <1>2 DEF Kept, Bracket, FindExact
<1> QED
  BY <1>5, <1>6, <1>7 DEF IInv

LEMMA DamageInv ==
    ASSUME IInv, NEW p \in 1 .. Len(block), NEW x \in Rot, Damage(p, x)
    PROVE  IInv'
<1>1. block \in Seq(Cell) /\ x \in Cell
  BY Constants DEF IInv, Typed
<1>2. block' \in Seq(Cell)
  BY <1>1, ExceptSeq DEF Damage
<1> QED
  BY <1>2, DamagedInv DEF Damage

LEMMA TruncateInv ==
    ASSUME IInv, NEW n \in 0 .. Len(block) - 1, Truncate(n)
    PROVE  IInv'
<1>1. block \in Seq(Cell) /\ Len(block) \in Nat
  BY TableFacts DEF IInv, Typed
<1>2. n \in Nat /\ 0 <= n /\ n <= Len(block)
  BY <1>1
<1>3. block' \in Seq(Cell)
  <2>1. SubSeq(block, 0 + 1, n) \in Seq(Cell)
    BY <1>1, <1>2, CutFacts
  <2> QED
    BY <2>1 DEF Truncate
<1> QED
  BY <1>3, DamagedInv DEF Truncate

LEMMA StutterInv ==
    ASSUME IInv, UNCHANGED vars
    PROVE  IInv'
<1>1. /\ UNCHANGED <<builder, stored>>
      /\ UNCHANGED <<pc, search_key, lo, hi, handle_out, result>>
  BY DEF vars
<1>2. /\ Built' /\ Sorted' /\ Kept' /\ num' = num /\ Entries' = Entries
      /\ damage' = damage /\ added' = added /\ \A n : KeyOf(n)' = KeyOf(n)
  BY <1>1, BlockKept
<1>3. Typed'
  BY <1>1, LookupTyped DEF IInv, Typed
<1>4. Bracket'
  BY <1>1, <1>2 DEF IInv, Bracket
<1>5. FindExact'
  BY <1>1, <1>2 DEF IInv, FindExact
<1> QED
  BY <1>2, <1>3, <1>4, <1>5 DEF IInv

-----------------------------------------------------------------------------
(* Theorems. *)

\* The invariant holds in every reachable state.
THEOREM Invariant == Spec => []IInv
<1>1. ASSUME IInv, [Next]_vars
      PROVE  IInv'
  <2>1. ASSUME NEW k \in Divider, NEW h \in Handle, Add(k, h)
        PROVE  IInv'
    BY <1>1, <2>1, AddInv
  <2>2. CASE Finish
    BY <1>1, <2>2, FinishInv
  <2>3. ASSUME NEW p \in 1 .. Len(block), NEW x \in Rot, Damage(p, x)
        PROVE  IInv'
    BY <1>1, <2>3, DamageInv
  <2>4. ASSUME NEW n \in 0 .. Len(block) - 1, Truncate(n)
        PROVE  IInv'
    BY <1>1, <2>4, TruncateInv
  <2>5. CASE Open
    BY <1>1, <2>5, OpenInv
  <2>6. ASSUME NEW k \in Divider, FindEmpty(k) \/ Find(k)
        PROVE  IInv'
    BY <1>1, <2>6, FindEmptyInv, FindInv
  <2>7. CASE Lookup
    BY <1>1, <2>7, FailsInv, BSearchInv, BSearchEndInv, FetchInv DEF Lookup
  <2>8. CASE UNCHANGED vars
    BY <1>1, <2>8, StutterInv
  <2> QED
    BY <1>1, <2>1, <2>2, <2>3, <2>4, <2>5, <2>6, <2>7, <2>8 DEF Next
<1> QED
  BY <1>1, InitInv, PTL DEF Spec

\* The indices of a lookup stay inside offsets_ and its offsets inside the
\* entries (lines 263-305, 348-375 of the reader), whatever cells rotted.
THEOREM TypeCorrect == Spec => []TypeOK
<1>1. ASSUME IInv
      PROVE  TypeOK
  <2>1. Typed
    BY <1>1 DEF IInv
  <2>2. ASSUME pc \in {"bsearch", "fetch"}
        PROVE  /\ lo \in 1 .. num /\ hi \in 1 .. num /\ Offset(lo) \in 0 .. entries_size
    <3>1. /\ TableFits /\ OffsetsValid /\ lo \in 1 .. num /\ hi \in 1 .. num
      BY <1>1, <2>2, Midpoint
    <3>2. Offset(lo) <= entries_size
      BY <3>1 DEF OffsetsValid
    <3>3. Offset(lo) \in Nat /\ entries_size \in Nat
      BY <2>1, <3>1, OpenFacts
    <3> QED
      BY <3>1, <3>2, <3>3
  <2> QED
    BY <2>1, <2>2, Constants DEF Typed, TypeOK
<1> QED
  BY <1>1, Invariant, PTL

\* Find() routes every key to the last divider that is not above it, in every
\* block the builder can write, and no such block is refused.
THEOREM FindCorrect == Spec => []FindExact
<1>1. IInv => FindExact
  BY DEF IInv
<1> QED
  BY <1>1, Invariant, PTL
=============================================================================
