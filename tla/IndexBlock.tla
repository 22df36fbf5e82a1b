----------------------------- MODULE IndexBlock -----------------------------
(***************************************************************************)
(* The SSTable index block: IndexBlockBuilder                              *)
(* (src/src/io/sstable_builder.cpp) and IndexBlockReader                   *)
(* (src/src/io/sstable_reader.cpp).                                        *)
(*                                                                         *)
(* A block is a sequence of cells, each a number below Word.  A byte of a  *)
(* key or of a varint takes one cell; so does a fixed32 field and each     *)
(* fixed64 half of a BlockHandle, which take four and eight bytes in the   *)
(* code.  Finish() appends the offset table to the same buffer every time  *)
(* it is called, and Add() may follow it: earlier tables stay between the  *)
(* entries.  The reader works on the stored copy of what the last Finish() *)
(* returned, whose cells may rot.  Offsets are 0-based, as in the code;    *)
(* entries are counted from 1.                                             *)
(***************************************************************************)
EXTENDS ByteStrings

CONSTANTS Divider,     \* divider keys: sequences of bytes
          Handle,      \* encoded BlockHandles: offset and size
          MaxEntries,  \* bound on the entries of a block
          MaxFinishes, \* bound on the calls of Finish()
          Rot,         \* what a damaged cell may hold
          MaxDamage,   \* bound on the damaged cells of a stored block
          Cont,        \* 0x80, the continuation bit of a varint (scaled down in runs)
          Word         \* number of values of a uint32_t (scaled down in runs)

Cell == 0 .. Word - 1
kEncodedLength == 2

ASSUME IndexAssumption ==
    /\ Word \in Nat /\ Cont \in 1 .. Word /\ Rot \subseteq Cell
    /\ Divider \subseteq Seq(Cell)
    /\ \A k \in Divider : Len(k) < Cont   \* its varint32 takes one byte
    /\ Handle \subseteq Seq(Cell) /\ \A h \in Handle : Len(h) = kEncodedLength
    /\ MaxEntries \in Nat /\ MaxFinishes \in Nat /\ MaxDamage \in Nat

VARIABLES buffer,      \* buffer_ of the builder
          offsets,     \* offsets_ of the builder
          last_key,
          added,       \* history: the entries Add() accepted
          finishes,    \* history: calls of Finish()
          block,       \* the stored block, as the reader gets it
          listed,      \* history: number of entries in the block
          damage,      \* history: number of cells of the block that rotted
          pc,          \* "build", "open", "refused", "bsearch", "fetch", "done"
          search_key,  \* argument of the running Find()
          lo, hi,      \* Find(): bounds of the binary search
          handle_out,  \* Find(): the caller's handle
          result       \* Find(): what it returned

builder == <<buffer, offsets, last_key, added, finishes>>
stored == <<block, listed, damage>>
vars == <<builder, stored, pc, search_key, lo, hi, handle_out, result>>

-----------------------------------------------------------------------------
(* The builder. *)

NoHandle == <<0, 0>>

Init == /\ buffer = <<>> /\ offsets = <<>> /\ last_key = <<>>
        /\ added = <<>> /\ finishes = 0
        /\ block = <<>> /\ listed = 0 /\ damage = 0
        /\ pc = "build"
        /\ search_key = <<>> /\ lo = 1 /\ hi = 0
        /\ handle_out = NoHandle /\ result = FALSE

\* Add() throws: the key is out of order.
Rejects(k) == last_key # <<>> /\ ~Less(last_key, k)

\* A block is smaller than the word its offsets are cut to.
Fits == Len(buffer') < Word

Add(k, h) == /\ pc = "build" /\ Len(added) < MaxEntries
             /\ ~Rejects(k)
             /\ offsets' = Append(offsets, Len(buffer))
             /\ buffer' = Append(buffer, Len(k)) \o k \o h
             /\ Fits
             /\ last_key' = k
             /\ added' = Append(added, [key |-> k, handle |-> h, off |-> Len(buffer)])
             /\ UNCHANGED <<finishes, stored, pc, search_key, lo, hi, handle_out, result>>

\* Mutant: only the offsets added since the last Finish() are written.
FinishTail == /\ pc = "build" /\ finishes < MaxFinishes
              /\ buffer' = IF finishes = 0 THEN Append(buffer \o offsets, Len(offsets))
                                           ELSE Append(buffer, 0)
              /\ Fits
              /\ finishes' = finishes + 1
              /\ block' = buffer' /\ listed' = Len(added) /\ damage' = 0
              /\ UNCHANGED <<offsets, last_key, added, pc, search_key, lo, hi, handle_out, result>>

Finish == /\ pc = "build" /\ finishes < MaxFinishes
          /\ buffer' = Append(buffer \o offsets, Len(offsets))
          /\ Fits
          /\ finishes' = finishes + 1
          /\ block' = buffer' /\ listed' = Len(added) /\ damage' = 0
          /\ UNCHANGED <<offsets, last_key, added, pc, search_key, lo, hi, handle_out, result>>

-----------------------------------------------------------------------------
(* The stored block: any of its cells may rot, or its tail be missing. *)

Damage(p, x) == /\ pc = "build" /\ finishes > 0 /\ damage < MaxDamage
                /\ block[p] # x
                /\ block' = [block EXCEPT ![p] = x]
                /\ damage' = damage + 1
                /\ UNCHANGED <<builder, listed, pc, search_key, lo, hi, handle_out, result>>

Truncate(n) == /\ pc = "build" /\ finishes > 0 /\ damage < MaxDamage
               /\ block' = SubSeq(block, 1, n)
               /\ damage' = damage + 1
               /\ UNCHANGED <<builder, listed, pc, search_key, lo, hi, handle_out, result>>

-----------------------------------------------------------------------------
(* The reader. *)

num == block[Len(block)]

\* The constructor's checks: the table of offsets fits in the block ...
TableFits == /\ Len(block) >= 1
             /\ num <= Len(block)
             /\ Len(block) >= 1 + num

entries_size == Len(block) - 1 - num
Offset(n) == block[entries_size + n]

\* Mutant: the range of an offset is not checked.
OffsetsSortedOnly == \A n \in 2 .. num : Offset(n - 1) <= Offset(n)

\* ... and its offsets rise and lie inside the entries.
OffsetsValid == /\ \A n \in 2 .. num : Offset(n - 1) <= Offset(n)
                /\ \A n \in 1 .. num : Offset(n) <= entries_size

\* IndexBlockReader(block) accepts the block or throws.
Open == /\ pc = "build" /\ finishes > 0
        /\ pc' = IF TableFits /\ OffsetsValid THEN "open" ELSE "refused"
        /\ UNCHANGED <<builder, stored, search_key, lo, hi, handle_out, result>>

\* Find() returns and its locals go out of scope.
Returns(ret) == /\ pc' = "done" /\ result' = ret
                /\ lo' = 1 /\ hi' = 0

FindEmpty(k) == /\ pc \in {"open", "done"} /\ num = 0
                /\ search_key' = k /\ handle_out' = NoHandle
                /\ Returns(FALSE)
                /\ UNCHANGED <<builder, stored>>

Find(k) == /\ pc \in {"open", "done"} /\ num > 0
           /\ pc' = "bsearch"
           /\ search_key' = k
           /\ lo' = 1 /\ hi' = num
           /\ handle_out' = NoHandle /\ result' = FALSE
           /\ UNCHANGED <<builder, stored>>

\* The byte at offset o + n - 1 ends a varint that starts at offset o.
VarintEnds(o, n) == /\ o + n <= entries_size
                    /\ block[o + n] < Cont
                    /\ \A m \in 1 .. n - 1 : block[o + m] >= Cont

\* GetVarint32 fails: the varint leaves the entries, or is longer than 5 bytes.
VarintFails(o) == \A n \in 1 .. 5 : ~VarintEnds(o, n)
varint_size(o) == CHOOSE n \in 1 .. 5 : VarintEnds(o, n)

\* Its groups of 7 bits, the lowest first, in 32 bits.
Group(o, n) == IF n <= varint_size(o) THEN block[o + n] % Cont ELSE 0
klen(o) == (Group(o, 1) + Cont * (Group(o, 2) + Cont * (Group(o, 3)
                + Cont * (Group(o, 4) + Cont * Group(o, 5))))) % Word

\* Where the key and the handle of the n-th entry start.
KeyStart(n) == Offset(n) + varint_size(Offset(n))
HandleStart(n) == KeyStart(n) + klen(Offset(n))

\* key_at(n) succeeds: key length, key and handle lie inside the entries.
Readable(n) == /\ ~VarintFails(Offset(n))
               /\ HandleStart(n) + kEncodedLength <= entries_size

KeyAt(n) == SubSeq(block, KeyStart(n) + 1, HandleStart(n))
HandleAt(n) == SubSeq(block, HandleStart(n) + 1, HandleStart(n) + kEncodedLength)

\* Mutant: the midpoint rounds down, so the search can stop moving.
midDown == (lo + hi) \div 2

mid == (lo + hi + 1) \div 2

BSearchFails == /\ pc = "bsearch" /\ lo < hi /\ ~Readable(mid)
                /\ Returns(FALSE)
                /\ UNCHANGED <<builder, stored, search_key, handle_out>>

\* mid_key <= search_key
Reached == ~Less(search_key, KeyAt(mid))

BSearch == /\ pc = "bsearch" /\ lo < hi /\ Readable(mid)
           /\ IF Reached THEN lo' = mid /\ hi' = hi
                         ELSE lo' = lo /\ hi' = mid - 1
           /\ UNCHANGED <<builder, stored, pc, search_key, handle_out, result>>

BSearchEnd == /\ pc = "bsearch" /\ lo >= hi
              /\ pc' = "fetch"
              /\ UNCHANGED <<builder, stored, search_key, lo, hi, handle_out, result>>

FetchFails == /\ pc = "fetch" /\ ~Readable(lo)
              /\ Returns(FALSE)
              /\ UNCHANGED <<builder, stored, search_key, handle_out>>

\* The handle is stored before the key is compared.
Fetch == /\ pc = "fetch" /\ Readable(lo)
         /\ handle_out' = HandleAt(lo)
         /\ Returns(~Less(search_key, KeyAt(lo)))
         /\ UNCHANGED <<builder, stored, search_key>>

-----------------------------------------------------------------------------
\* What a running lookup does next.
Lookup == BSearchFails \/ BSearch \/ BSearchEnd \/ FetchFails \/ Fetch

Next == \/ \E k \in Divider, h \in Handle : Add(k, h)
        \/ Finish
        \/ \E p \in 1 .. Len(block), x \in Rot : Damage(p, x)
        \/ \E n \in 0 .. Len(block) - 1 : Truncate(n)
        \/ Open
        \/ \E k \in Divider : FindEmpty(k) \/ Find(k)
        \/ Lookup

Spec == Init /\ [][Next]_vars

\* A running Find() keeps running.
FairSpec == Spec /\ WF_vars(Lookup)
-----------------------------------------------------------------------------
(* Properties. *)

Entries == 1 .. listed
KeyOf(n) == added[n].key

\* Type invariant.  The indices of a lookup stay inside offsets_, and the offset
\* it ends on inside the entries (lines 263-305), whatever cell rotted: substr()
\* in key_at never throws.
TypeOK ==
    /\ buffer \in Seq(Cell) /\ block \in Seq(Cell)
    /\ Len(offsets) = Len(added) /\ listed \in 0 .. Len(added)
    /\ finishes \in 0 .. MaxFinishes /\ damage \in 0 .. MaxDamage
    /\ last_key \in Divider \cup {<<>>} /\ search_key \in Divider \cup {<<>>}
    /\ pc \in {"build", "open", "refused", "bsearch", "fetch", "done"}
    /\ pc \in {"bsearch", "fetch"} => /\ lo \in 1 .. num /\ hi \in 1 .. num
                                      /\ Offset(lo) \in 0 .. entries_size
    /\ handle_out \in Seq(Cell) /\ Len(handle_out) = kEncodedLength
    /\ result \in BOOLEAN

\* Find() routes a key to the last divider that is not above it, and to
\* nothing below the first, in a block built by any mix of Add() and Finish()
\* calls: the tables an earlier Finish() left in the buffer never get in the
\* way, because offsets are absolute (lines 209-239 of the builder, 348-375 of
\* the reader).  A block as Finish() wrote it is never refused.
FindExact ==
    damage = 0 =>
        /\ pc # "refused"
        /\ pc = "done" =>
             LET below == {n \in Entries : ~Less(search_key, KeyOf(n))}
             IN  /\ result = (below # {})
                 /\ result => \E n \in below : /\ \A m \in below : m <= n
                                               /\ handle_out = added[n].handle

\* Every Find() returns, in a damaged block too.
FindReturns == pc \in {"bsearch", "fetch"} ~> pc = "done"
=============================================================================
