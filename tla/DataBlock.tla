----------------------------- MODULE DataBlock ------------------------------
(***************************************************************************)
(* The SSTable data block: DataBlockBuilder (src/src/io/sstable_builder.cpp)*)
(* and DataBlockReader (src/src/io/sstable_reader.cpp).                    *)
(*                                                                         *)
(* A block is a sequence of cells, each a number below Word.  A byte of a  *)
(* key or a value takes one cell, and so does a fixed32 field, which takes *)
(* four bytes in the code: a header is 3 cells here and 12 bytes there.    *)
(* The reader works on the stored copy of the builder's buffer, whose      *)
(* cells may rot.  A lookup takes one step per iteration of its two loops. *)
(* Offsets are 0-based, as in the code; restarts are counted from 1.       *)
(***************************************************************************)
EXTENDS ByteStrings

CONSTANTS Key,         \* keys: sequences of bytes
          Value,       \* values: sequences of bytes
          Intervals,   \* values of the constructor argument restart_interval
          MaxEntries,  \* bound on the entries of a block
          Rot,         \* what a damaged cell may hold
          MaxDamage,   \* bound on the damaged cells of a stored block
          Word         \* number of values of a uint32_t (scaled down in runs)

Cell == 0 .. Word - 1

ASSUME BlockAssumption ==
    /\ Word \in Nat /\ Rot \subseteq Cell
    /\ Key \subseteq Seq(Cell) /\ Value \subseteq Seq(Cell)
    /\ Intervals \subseteq Int
    /\ MaxEntries \in Nat /\ MaxDamage \in Nat
    \* The offsets of a block are 32 bits wide: a block of MaxEntries entries,
    \* each with its header and a restart, has fewer than Word cells.
    /\ \E m \in 0 .. Word : /\ \A k \in Key, v \in Value : Len(k) + Len(v) <= m
                            /\ MaxEntries * (m + 4) + 8 < Word

VARIABLES buffer,            \* buffer_ of the builder
          restarts,          \* restarts_ of the builder
          last_key, counter, finished,
          restart_interval,
          added,             \* history: the entries Add() accepted
          block,             \* the stored block, as the reader gets it
          damage,            \* history: number of cells that rotted
          pc,                \* "build", "open", "refused", "bsearch", "scan", "done", "faulted"
          key,               \* argument of the running Get()
          lo, hi,            \* Get(): bounds of the binary search
          off, prev_key,     \* Get(): scan position, last reconstructed key
          outside,           \* history: Get() read a header outside the block
          result             \* what Get() returned

builder == <<buffer, restarts, last_key, counter, finished, restart_interval, added>>
stored == <<block, damage>>
search == <<lo, hi, off, prev_key, outside>>
vars == <<builder, stored, pc, key, search, result>>

-----------------------------------------------------------------------------
(* Byte strings. *)

\* Mutant: the comparison stops one byte early.
SharedPrefixShort(a, b) ==
    LET n == IF Len(a) <= Len(b) THEN Len(a) ELSE Len(b)
    IN  CHOOSE m \in 0 .. n : /\ \A j \in 1 .. m - 1 : a[j] = b[j]
                              /\ m < n => m > 0 /\ a[m] # b[m]

SharedPrefix(a, b) ==
    LET n == IF Len(a) <= Len(b) THEN Len(a) ELSE Len(b)
    IN  CHOOSE m \in 0 .. n : /\ \A j \in 1 .. m : a[j] = b[j]
                              /\ m < n => a[m + 1] # b[m + 1]

-----------------------------------------------------------------------------
(* The builder. *)

NoResult == [ret |-> FALSE, val |-> <<>>]

Init == /\ buffer = <<>> /\ restarts = <<0>>
        /\ last_key = <<>> /\ counter = 0 /\ finished = FALSE
        /\ restart_interval \in Intervals
        /\ added = <<>> /\ block = <<>> /\ damage = 0
        /\ pc = "build"
        /\ key = <<>> /\ lo = 1 /\ hi = 1 /\ off = 0 /\ prev_key = <<>>
        /\ outside = FALSE /\ result = NoResult

HeaderSize == 3

\* Add() throws: the block is finished, or the key is out of order.
Rejects(k) == finished \/ (last_key # <<>> /\ ~Less(last_key, k))

\* counter_ has reached restart_interval_.
StartsRun == counter >= restart_interval

\* Mutant: the first key of a run is still compressed.
SharedAcrossRuns(k) == SharedPrefix(last_key, k)

\* Bytes of k that are not stored: none for the first key of a run.
Shared(k) == IF StartsRun THEN 0 ELSE SharedPrefix(last_key, k)

Encoded(k, v) == <<Shared(k), Len(k) - Shared(k), Len(v)>>
                     \o SubSeq(k, Shared(k) + 1, Len(k)) \o v

Add(k, v) == /\ pc = "build" /\ Len(added) < MaxEntries
             /\ ~Rejects(k)
             /\ restarts' = IF StartsRun THEN Append(restarts, Len(buffer)) ELSE restarts
             /\ counter' = IF StartsRun THEN 1 ELSE counter + 1
             /\ buffer' = buffer \o Encoded(k, v)
             /\ last_key' = k
             /\ added' = Append(added, [key |-> k, value |-> v,
                                        off |-> Len(buffer), shared |-> Shared(k)])
             /\ UNCHANGED <<finished, restart_interval, stored, pc, key, search, result>>

\* The trailer is appended once; a second Finish() returns the same buffer.
Finish == /\ pc = "build" /\ ~finished
          /\ buffer' = Append(buffer \o restarts, Len(restarts))
          /\ finished' = TRUE
          /\ block' = buffer'
          /\ UNCHANGED <<restarts, last_key, counter, restart_interval, added, damage,
                         pc, key, search, result>>

CurrentSize == Len(buffer) + Len(restarts) + 1

-----------------------------------------------------------------------------
(* The stored block: any of its cells may rot, or its tail be missing. *)

Damage(p, x) == /\ pc = "build" /\ finished /\ damage < MaxDamage
                /\ block[p] # x
                /\ block' = [block EXCEPT ![p] = x]
                /\ damage' = damage + 1
                /\ UNCHANGED <<builder, pc, key, search, result>>

Truncate(n) == /\ pc = "build" /\ finished /\ damage < MaxDamage
               /\ block' = SubSeq(block, 1, n)
               /\ damage' = damage + 1
               /\ UNCHANGED <<builder, pc, key, search, result>>

-----------------------------------------------------------------------------
(* The reader. *)

num_restarts == block[Len(block)]

\* The constructor's checks: the trailer fits in the block.
TrailerFits == /\ Len(block) >= 1
               /\ num_restarts <= Len(block)
               /\ Len(block) >= 1 + num_restarts

\* DataBlockReader(block) accepts the block or throws.
Open == /\ pc = "build" /\ finished
        /\ pc' = IF TrailerFits THEN "open" ELSE "refused"
        /\ UNCHANGED <<builder, stored, key, search, result>>

entries_size == Len(block) - 1 - num_restarts
Restart(r) == block[entries_size + r]

\* The fields of a header at offset o, and the key bytes behind it.
shared(o) == block[o + 1]
nonshared(o) == block[o + 2]
vlen(o) == block[o + 3]
Delta(o) == SubSeq(block, o + HeaderSize + 1, o + HeaderSize + nonshared(o))
need(o) == HeaderSize + nonshared(o) + vlen(o)

\* off + 12 <= entries_.size(), where the sum is 32 bits wide.
HeaderFits(o) == (o + HeaderSize) % Word <= entries_size

\* Mutant: the payload may take one cell more than there is.
NeedFitsPlus(o) == o + need(o) <= entries_size + 1

\* off + need <= entries_.size(), where the sum is 64 bits wide.
NeedFits(o) == o + need(o) <= entries_size

\* Get() returns and its locals go out of scope.
Returns(ret, val) == /\ pc' = "done"
                     /\ result' = [ret |-> ret, val |-> val]
                     /\ lo' = 1 /\ hi' = 1 /\ off' = 0 /\ prev_key' = <<>>

\* Mutant: the upper bound is the number of restarts.
GetPastEnd(k) == /\ pc \in {"open", "done"} /\ num_restarts > 0
                 /\ pc' = "bsearch"
                 /\ key' = k
                 /\ lo' = 1 /\ hi' = num_restarts + 1
                 /\ outside' = FALSE /\ result' = NoResult
                 /\ UNCHANGED <<builder, stored, off, prev_key>>

Get(k) == /\ pc \in {"open", "done"} /\ num_restarts > 0
          /\ pc' = "bsearch"
          /\ key' = k
          /\ lo' = 1 /\ hi' = num_restarts
          /\ outside' = FALSE /\ result' = NoResult
          /\ UNCHANGED <<builder, stored, off, prev_key>>

\* restarts_ is empty.
GetEmpty(k) == /\ pc \in {"open", "done"} /\ num_restarts = 0
               /\ key' = k
               /\ outside' = FALSE
               /\ Returns(FALSE, <<>>)
               /\ UNCHANGED <<builder, stored>>

\* Mutant: the midpoint rounds down, so the search can stop moving.
midDown == (lo + hi) \div 2

mid == (lo + hi + 1) \div 2

\* The header check passes because the sum wrapped.
Wraps(o) == o + HeaderSize >= Word /\ HeaderFits(o)

\* key_at_offset reads a header some 2^32 bytes behind the block: the process
\* may fault.  Otherwise key_at_offset fails, on a shared length or on off +
\* need, which is at least 2^32.
BSearchOutside == /\ pc = "bsearch" /\ lo < hi /\ Wraps(Restart(mid))
                  /\ outside' = TRUE
                  /\ \/ Returns(FALSE, <<>>)
                     \/ pc' = "faulted" /\ UNCHANGED <<lo, hi, off, prev_key, result>>
                  /\ UNCHANGED <<builder, stored, key>>

\* key_at_offset succeeds: a full key starts at the restart point.
RestartReadable == /\ HeaderFits(Restart(mid))
                   /\ shared(Restart(mid)) = 0
                   /\ NeedFits(Restart(mid))

BSearchFails == /\ pc = "bsearch" /\ lo < hi
                /\ ~Wraps(Restart(mid)) /\ ~RestartReadable
                /\ Returns(FALSE, <<>>)
                /\ UNCHANGED <<builder, stored, key, outside>>

\* Mutant: a run that starts with the key itself is skipped.
RestartBelow == Less(Delta(Restart(mid)), key)

\* restart_key <= key
RestartReached == ~Less(key, Delta(Restart(mid)))

BSearch == /\ pc = "bsearch" /\ lo < hi
           /\ ~Wraps(Restart(mid)) /\ RestartReadable
           /\ IF RestartReached THEN lo' = mid /\ hi' = hi
                                ELSE lo' = lo /\ hi' = mid - 1
           /\ UNCHANGED <<builder, stored, pc, key, off, prev_key, outside, result>>

BSearchEnd == /\ pc = "bsearch" /\ lo >= hi
              /\ pc' = "scan"
              /\ off' = Restart(lo)
              /\ prev_key' = <<>>
              /\ UNCHANGED <<builder, stored, key, lo, hi, outside, result>>

\* The scan has left the entries, or reached the next restart point.
RunEnds == off >= entries_size \/ (lo < num_restarts /\ off >= Restart(lo + 1))

ScanEnd == /\ pc = "scan" /\ RunEnds
           /\ Returns(FALSE, <<>>)
           /\ UNCHANGED <<builder, stored, key, outside>>

\* The entry leaves the region, or shares more bytes than the previous key has.
Overlong == \/ ~HeaderFits(off)
            \/ ~NeedFits(off)
            \/ shared(off) > Len(prev_key)

ScanFails == /\ pc = "scan" /\ ~RunEnds
             /\ Overlong
             /\ Returns(FALSE, <<>>)
             /\ UNCHANGED <<builder, stored, key, outside>>

cur_key == SubSeq(prev_key, 1, shared(off)) \o Delta(off)

ScanFound == /\ pc = "scan" /\ ~RunEnds /\ ~Overlong
             /\ cur_key = key
             /\ Returns(TRUE, SubSeq(block, off + HeaderSize + nonshared(off) + 1, off + need(off)))
             /\ UNCHANGED <<builder, stored, key, outside>>

ScanPassed == /\ pc = "scan" /\ ~RunEnds /\ ~Overlong
              /\ Less(key, cur_key)
              /\ Returns(FALSE, <<>>)
              /\ UNCHANGED <<builder, stored, key, outside>>

ScanOn == /\ pc = "scan" /\ ~RunEnds /\ ~Overlong
          /\ Less(cur_key, key)
          /\ prev_key' = cur_key
          /\ off' = off + need(off)
          /\ UNCHANGED <<builder, stored, pc, key, lo, hi, outside, result>>

-----------------------------------------------------------------------------
\* What a running lookup does next.
Lookup == \/ BSearchOutside \/ BSearchFails \/ BSearch \/ BSearchEnd
          \/ ScanEnd \/ ScanFails \/ ScanFound \/ ScanPassed \/ ScanOn

Next == \/ \E k \in Key, v \in Value : Add(k, v)
        \/ Finish
        \/ \E p \in 1 .. Len(block), x \in Rot : Damage(p, x)
        \/ \E n \in 0 .. Len(block) - 1 : Truncate(n)
        \/ Open
        \/ \E k \in Key : Get(k) \/ GetEmpty(k)
        \/ Lookup

Spec == Init /\ [][Next]_vars

\* A running Get() keeps running.
FairSpec == Spec /\ WF_vars(Lookup)
-----------------------------------------------------------------------------
(* Properties. *)

Entries == 1 .. Len(added)
KeyOf(n) == added[n].key
ValueAt(n) == added[n].off + HeaderSize + Len(KeyOf(n)) - added[n].shared

\* Nothing rotted but bytes of values.
KeysIntact ==
    /\ Len(block) = Len(buffer)
    /\ \A p \in 1 .. Len(buffer) : block[p] # buffer[p] =>
           \E n \in Entries : p \in ValueAt(n) + 1 .. ValueAt(n) + Len(added[n].value)

\* Type invariant.  The restart indices of a lookup stay inside restarts_,
\* whatever the trailer says.
TypeOK ==
    /\ buffer \in Seq(Cell) /\ block \in Seq(Cell)
    /\ counter \in Nat /\ damage \in 0 .. MaxDamage
    /\ finished \in BOOLEAN /\ outside \in BOOLEAN
    /\ last_key \in Key \cup {<<>>} /\ key \in Key \cup {<<>>}
    /\ pc \in {"build", "open", "refused", "bsearch", "scan", "done", "faulted"}
    /\ pc \in {"bsearch", "scan"} => lo \in 1 .. num_restarts /\ hi \in 1 .. num_restarts
    /\ prev_key \in Seq(Cell) /\ off \in Nat
    /\ result \in [ret : BOOLEAN, val : Seq(Cell)]

\* Whatever cells rot, a scan that has begun inside the entries stays inside
\* them, and a value that Get() hands out is a run of their cells, never of the
\* trailer (lines 198-214, 227-239).  Such a value may be wrong: there is no
\* checksum, and a header may be read from the middle of a payload.
ReadsInside ==
    /\ pc = "scan" /\ off # Restart(lo) => off <= entries_size
    /\ pc = "done" /\ result.ret =>
           \E p \in 0 .. entries_size :
               /\ p + Len(result.val) <= entries_size
               /\ result.val = SubSeq(block, p + 1, p + Len(result.val))

\* The binary search never drops the run that holds the key, and the scan
\* never steps over its entry (lines 181-193, 198-242).
KeyStillAhead ==
    pc \in {"bsearch", "scan"} /\ KeysIntact /\ (\E n \in Entries : KeyOf(n) = key)
      => \E n \in Entries :
             /\ KeyOf(n) = key
             /\ Restart(lo) <= added[n].off
             /\ hi < num_restarts => added[n].off < Restart(hi + 1)
             /\ pc = "scan" => off <= added[n].off

\* Prefix compression loses nothing: the scan stands at the start of an entry or
\* at the end of them all, and the key it has in hand is the one that was added
\* just before (lines 139-148 of the builder, 216-225 of the reader).
KeysRebuilt ==
    pc = "scan" /\ KeysIntact =>
        \/ off = entries_size
        \/ \E n \in Entries : /\ added[n].off = off
                              /\ off # Restart(lo) => n > 1 /\ prev_key = KeyOf(n - 1)

\* What Get() answers is what was added, for every restart_interval the
\* constructor accepts, and bytes of values that rot spoil nothing but
\* themselves: every key is still found or not as it was, and a byte of the value
\* is wrong only where that byte rotted.  The constructor accepts 0 and negative
\* intervals, although the comment of its declaration says that they are
\* refused (sstable_blocks.h:85); the blocks it then builds, with a first
\* restart that is listed twice, answer right too.
GetExact ==
    KeysIntact =>
        /\ pc \notin {"refused", "faulted"}
        /\ pc = "done" =>
             /\ result.ret = \E n \in Entries : KeyOf(n) = key
             /\ result.ret =>
                  \E n \in Entries :
                    /\ KeyOf(n) = key
                    /\ Len(result.val) = Len(added[n].value)
                    /\ \A i \in 1 .. Len(result.val) :
                         \/ result.val[i] = added[n].value[i]
                         \/ block[ValueAt(n) + i] # buffer[ValueAt(n) + i]

\* "Validates entry bounds at each step (header size and payload length)"
\* (sstable_reader.cpp:152): no header is read outside the block.
BoundsValidated == ~outside

\* Every Get() returns or faults, in a damaged block too.
GetReturns == pc \in {"bsearch", "scan"} ~> pc \in {"done", "faulted"}

\* "Keys added to a DataBlockBuilder or IndexBlockBuilder must be **strictly
\* increasing** ... (implementations throw)" (sstable_blocks.h:43-44): what Add()
\* lets in.
KeysIncrease == \A m, n \in Entries : m < n => Less(KeyOf(m), KeyOf(n))
=============================================================================
