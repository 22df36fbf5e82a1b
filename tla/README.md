# VrootKV: specifications, model checking and proofs

TLA+ modules for the storage primitives of VrootKV, the TLC configurations that
check them on small instances, and TLAPS proofs of their safety properties for
every size. Paths such as `src/src/io/...` are relative to the directory that
holds this one.
`PROJECT.json` lists the components, runs, mutants, theorems, hazards and
findings, and maps every definition to the lines it models.

## 1. Inventory

VrootKV is planned as an LSM key-value store. At this commit the repository has
its building blocks; nothing composes them into a running store yet, and only
the file manager and the CRC table can be touched by two threads at once.

| Component | State | Operations | Hard behaviour | What makes it correct |
|---|---|---|---|---|
| Memtable, `memtable/skip_list.h` | sentinel, towers of links, `level_`, `size_`, random generator | Insert, Put, Erase, Get, Contains, Seek, Begin, iteration, Clear, destructor | long sequences of calls that corrupt a link; iterators held across calls; `new` throwing half-way; loops over links | every link leads to the next node of its level; answers are those of an ordered map; every node is deleted once; calls return |
| Data block, `io/sstable_builder.cpp`, `io/sstable_reader.cpp` | buffer, restart offsets, last key, run counter, finished flag | Add, Finish, CurrentSize; opening, Get | prefix compression across runs, binary search at its edges, any restart interval, damaged bytes | Get returns what was added; a scan of a damaged block stays inside it; lookups end |
| Index block, same files | buffer, offsets, last key | Add, Finish; opening, Find | Finish called again, Add after Finish, damaged bytes | Find routes to the last divider not above the key |
| Write-ahead log format, `wal/wal_format.h` | the CRC table, filled by the first call | SerializeFrame, ParseFrame, ParsePayload, varints, CRC32 | torn and zero-filled tails after a crash; first calls of two threads | a replay is a prefix of the log with every synced record |
| File manager, `io/file_manager.cpp`, POSIX and Win32 | descriptors or handles | NewWritableFile, Write, Flush, Sync, Close, NewReadableFile, Read, DeleteFile, RenameFile | partial writes, EINTR, errors reported as end of file, directory durability, reuse of a descriptor, opens that overlap, an object that cannot be allocated after the open | what was synced survives; an object only touches the file it was opened on |
| Handles and footer, `io/sstable_format.h` | none | EncodeTo, DecodeFrom | magic not compared, fixed 64-bit fields | every key of a complete table is found through footer, index and data block; what one block loses spoils no other |
| Bloom filter, `common/bloom_filter.cpp` | bit array, bit count, number of hashes | add, might_contain, serialize, Deserialize | arithmetic near 2^64, positions for every bit count | no false negatives, also after Deserialize |
| Transaction manager, persistent radix tree, compactor, garbage collector | - | - | - | named in `src/README.md`, no code at this commit |

Interactions. The repository's classes meet only in tests: a log is written and
read through the file manager's files; an SSTable would be data blocks, an index
block of `BlockHandle`s and a footer in one file, found through the index; the
memtable would be flushed in iteration order into a `DataBlockBuilder`, whose
order check relies on the memtable's order. The skip list and the blocks have no
locks and are single-threaded by contract, so the models have no second thread
inside a call; a client's iterator does live across calls.

## 2. Modules and how they correspond to the code

**`Memtable`** is the abstract specification: an ordered map, a request and its
answer, and a cursor. A failed allocation leaves the map as it was.

**`SkipList`** is `skip_list.h`. `next[n][l]` is `n->next_[l - 1]`, `height[n]`
the size of `next_` (0 for memory that is not allocated), `level` and `size` are
`level_` and `size_`. A call is `Call(r)`, then one `Advance` or `Descend` per
iteration of the search loop (`findGreaterOrEqual` and its mutating twin, which
also records `update`), then one action per outcome of the operation. `Erase`
goes on with one `Shrink` per iteration of its level loop, `Clear` and the
destructor with one `ClearStep` per deleted node. `new` picks any free address,
so addresses are reused, and may throw after `level_` was raised
(`InsertNoMemory`); so may the assignment of an overwriting Put (`PutNoMemory`),
which leaves the node its old value, as std::string does. `randomLevel` is the set of levels the draws of `dist_` can
lead to. The client's iterator may be moved and read while its node is there;
`itValid` turns FALSE when the node is deleted, after which using it would be the
client's error. Keys are integers, since only their order matters.

**`DataBlock`** is builder and reader of a data block. A block is a sequence of
cells: a byte of a key or a value takes one, since prefix compression looks inside
them, and so does a fixed32 field, which takes four bytes in the code. A header is
thus 3 cells instead of 12 bytes, a restart offset 1 instead of 4; every comparison
of the code is between sums of such sizes and carries over cell for byte, except
that a restart offset or a length cannot point into the middle of a field. The
reader works on a stored copy of which any cell may change to any value (`Damage`:
header fields, key and value bytes, restart offsets, the restart count) and any tail
may be missing (`Truncate`). It decodes whatever cells it meets, so a wrong offset or
length makes it take payload for a header, as the code does. A lookup takes one
step per iteration of its binary search and of its scan. A restart offset within a
header of the word size makes `off + 12`, 32 bits wide, wrap; a header is then read
outside the block (`BSearchOutside`), after which the process has faulted or the
lookup returns false. Get() returns false for a malformed entry as for an absent key,
and so does the model.

**`IndexBlock`** is builder and reader of an index block, in cells as well: a byte of
a key or of a varint, a fixed32 offset, half a BlockHandle. The builder's Finish
appends its table to the live buffer, so tables are left between entries; `block` is
the stored copy of what the last call returned, with the same damage as a data
block. Varints are decoded group by group (`klen`), up to five cells long. Find()
too returns false for a malformed entry as for a key below the first divider.
`ByteStrings` has the order of std::string, which both blocks use.

**`Wal`** is the log frame through the file manager and a power failure. A file
is a sequence of cells: length, checksum, one or two payload cells. `Write` loops
over write(2) with any split, and may fail at any point; `Sync` makes a prefix
durable or fails; `Crash` keeps the synced prefix, any later length, and any
subset of the cells after it, the others reading as zeros. Recovery reads with any
split, meets the end of the file or an error (both are 0 from Read()), and parses
frames until the input is empty or ParseFrame() throws. CRC32 is ideal, with one
exception that the format really has: the CRC of no bytes is 0, so a zeroed
header passes the checksum and only the payload's minimal size stops it. The
repository has no log writer or recovery loop; the loop is the one of
`src/tests/wal/test_wal.cpp`, and the writer stops after a failure.

**`BloomFilter`** is the filter in memory and its stored form. Hash64 with its two
seeds is any pair of functions of the key; the floating-point sizing is any result
of at least one bit and one hash. Words wrap at `2^WordBits`. The bit array is the
set of its 1 bits with its length in bytes. A stored filter may have a field or a
bit damaged or its end cut off before it is loaded. Where a position lies outside
the array, set_bit is undefined and the model has no `add`; `InBounds` says that
this does not arise while `num_bits + 7` stays below the word size.

**`FileManager`** is the file manager under several threads, each with one file
object, over a shared table of descriptors, a directory and files that live as
long as a name or a descriptor refers to them. A step is a system call: an open
(POSIX: the lowest free descriptor, truncating under other objects; Win32: refused
by the share modes), a partial write, a read, a close. `NewReadableFile` is two
steps, as FileExists() and open are two calls. Replacing an object closes the old
descriptor after the new one was opened. Between open and object `make_unique` may
throw: the descriptor then stays open with no object (`Leak`, in
`NewWritableThrows` and `OpenReadableThrows`), the caller keeps its old object, and
a file opened to write has been emptied all the same. `os` is the build; `Released` says whether
an interrupted close(2) has released the descriptor, which POSIX leaves open and
Linux and macOS do. A cell remembers the object that wrote it; `own`, `sole`,
`wrote`, `got` and `leaked` are history variables for the properties.

**`SSTable`** composes the formats: data blocks, index and footer in one file,
written through a file that may fail, a power failure with the same freedom as in
`Wal`, reading until Read() returns 0, and lookups through footer, index and data
block. Intact blocks answer by the contracts that `DataBlock` and `IndexBlock`
establish (`GetExact`, `FindExact`). A cell is an entry, a trailer, or one of two
parts of the footer; a power failure, a failed write and a failed read may also
leave part of a cell (`TORN`). Zeroed blocks answer what the readers compute from
zeros (no restarts, empty keys, the handle {0, 0}). A block of which only some
entries or part of one is there, or a footer that is cut or shifted, has any answer
(`AnyAnswer`): found with the right or a wrong value, absent, or an exception, since
the scan follows whatever bytes it meets and nothing has a checksum. The properties
hold with all of these answers. The sequence of calls is the one of
`src/tests/io/test_sstable_end_to_end.cpp`; the repository has no table class.

**`CrcTable`** is the static table of Crc32 and its flag, used by several threads.
Both are plain variables, so stores reach memory in any order; a thread sees its own.

`MCDataBlock` and `MCIndexBlock` give TLC the key sets. `SkipListProofs`,
`DataBlockProofs`, `IndexBlockProofs`, `WalProofs`, `BloomFilterProofs`,
`FileManagerProofs` and `SSTableProofs` extend the module they are named after with
its inductive invariant and theorems; `WellOrder` has the induction principle and the
facts on byte strings they share.

## 3. Runs

| Run | Result | Properties |
|---|---|---|
| `skiplist` | holds | `TypeOK`, `LinksExact` (each link is the next node of its level), `KeysUnique`, `SearchExact` (the search only touches allocated nodes and leaves exact predecessors), `LevelExact`, `SizeExact`, `ClearExact` (each node deleted once, none lost), `IteratorAlive`, `ImplementsMemtable` (refinement), and `CallsReturn` |
| `datablock` | holds | `TypeOK`, `ReadsInside` (whatever cells rot, the scan stays inside the entries and a value is a run of their cells), `KeyStillAhead` (loop invariant of search and scan), `KeysRebuilt` (compression loses nothing), `GetExact` (damaged values spoil nothing but themselves), `GetReturns` (damaged blocks too) |
| `datablock_order` | violated | `KeysIncrease` |
| `datablock_bounds` | violated | `BoundsValidated` |
| `indexblock` | holds | `TypeOK`, `FindExact`, `FindReturns` |
| `wal` | holds | `TypeOK` (nothing made up is replayed), `ReplayIsPrefix`, `SyncedReplayed`, `WrittenReplayed`, `RecoveryEnds` |
| `bloom` | holds | `TypeOK`, `InBounds`, `NoFalseNegatives` (also through storing and loading), `ReloadAccepted`, `PositionsSpread` |
| `filemanager` | holds | `TypeOK`, `DescriptorsOwned` (no descriptor shared or pointing to another file, and none lost but where `make_unique` threw), `WrittenInOrder`, `ReadsInOrder`, `ExclusiveOnWindows`, `WritesOwnFile` (action property) |
| `filemanager_close` | violated | `WritesOwnFile`, where an interrupted close(2) releases the descriptor |
| `sstable` | holds | `TypeOK`, `LookupExact`, `SyncedSurvives`, `LossIsLocal` (what one data block lost shows in no other) |
| `sstable_torn` | violated | `TornRefused` |
| `crc_table` | violated | `CrcExact` |

**Bounds.** `skiplist`: three keys, three addresses, two values, towers of up to
two levels. Three nodes give a first, a middle and a last node, and erasing and
inserting again reuses addresses. The lists themselves are not bounded in time: every
sequence of calls is explored. There is no symmetry, because the run also checks
liveness. A level that is neither base nor top, and an Erase that lowers `level_` by
more than one, need three levels; the proofs cover any number. `datablock`: up to
three entries over four keys (the empty one, keys that share a prefix, keys that
differ in the first and in the last byte), two values, restart intervals 0, 1 and 2:
one to four restart points, runs of one and two entries. One cell changes, to 0, 1,
2, 3, 6 or 30, or the tail is missing: small values are lengths and offsets that lead
to another header, into a payload or behind the entries, and 30 of a word of 32 is
the offset that wraps. `Word` is 32, more than the cells of any block there. A
negative interval behaves as 0, as `counter_` is never negative. `datablock_bounds`
and `datablock_order` are the same model with less freedom. `indexblock`: three
entries, four keys with the empty one and one that is a prefix of another, two calls
of Finish, one changed cell (0, 2 or 9; with the continuation bit at 8 the last one
starts a longer varint) or a missing tail.
`wal`: two records of three types, so that the first is
synced, unsynced or torn while the second is in any of these states. `bloom`: words
of five bits, filters of 1, 3, 8 and 12 bits (less than, exactly and more than one
byte), one or three hashes, and hash values whose sum with the step wraps; one
damaged field, the bit count taking every value of a word. `filemanager`: two
writers and a reader, so that a descriptor can be handed to a second thread and a
third can look on; two names, two files and two descriptors, so that names are
renamed over each other, files outlive their names and the descriptor table is
full; two cells an object, so that a write can be split. The interrupted close
keeps its descriptor in this run; `filemanager_close` has the other case.
`sstable`: two keys in one or two blocks, up to nine cells, every subset of which
a power failure may zero, while it tears at most one; any number in the proofs.
`crc_table`: two threads,
three entries, payloads of two bytes.

**Fairness.** Weak fairness of the steps of a call, lookup or recovery that has
begun, and nothing else: a thread that runs is scheduled. No client has to make a
call. Each of these steps is deterministic control flow, except that a read or
an allocation has several outcomes, all of which move on. EINTR is a stuttering
step; an endless series of it is not considered.

**Deadlock** is checked in `filemanager` and `sstable`, where some call can always
be made. Elsewhere it is not: a destroyed list, a block that was refused when it
was opened and a finished recovery are legitimate ends, and the builders stop at
their bounds.

Each property of a run that holds has a mutant of the model (listed in
`PROJECT.json`), a plausible slip in the code under which TLC finds it violated.

### Findings

- **`datablock_order`**: the order check is skipped while the last key is empty,
  so the empty key can be added repeatedly. The index builder has the same check
  (`sstable_builder.cpp:210`).
- **`datablock_bounds`**: the bounds check of the binary search adds 12 to a 32-bit
  offset. The sum wraps for a restart offset of 2^32 - 12 or more, which only damage
  can bring about, the check passes, and a header is read some 4 GiB behind the
  block, against `sstable_reader.cpp:152` and line 59. If that does not fault, the
  second check, in 64 bits, fails and Get() returns false.
- **`filemanager_close`**: Close() repeats close(2) after EINTR. Where the first
  call released the descriptor, the second may close a file another thread has
  just opened, and that thread's next Write() lands in a third file.
- **`sstable_torn`**: zeroed blocks are not refused, where the comments promise an
  exception for malformed input: no restarts, no entries, or empty keys read as
  "not found". Comparing the footer's magic, which the code does not do, would not
  detect it either, since footer and block reach the device independently.
- **`crc_table`**: the flag can become visible before the entries, and a second
  thread's first checksum is computed from zeros.

Disagreements met while modelling that need no model checker to see:

- `dist_` is built in the initializer list from the argument, before the body
  replaces pathological arguments: with `p_denominator = 1` every draw promotes,
  where the comment (`skip_list.h:118`) promises a fallback to 1/4.
- `restart_interval` "Must be >= 1. (Validated in the implementation.)" according to
  `sstable_blocks.h:85`; the constructor (`sstable_builder.cpp:112-118`) validates
  nothing. With 0 or a negative value every entry starts a run and the first restart
  is listed twice. `GetExact` holds for such blocks, so nothing but the comment is
  contradicted.
- `Get()` and `Find()` return false, as for an absent key, when they notice a
  malformed entry, where `sstable_reader.cpp:153` says they throw.
- A descriptor is lost when `make_unique` throws after the open
  (`file_manager.cpp:379, 386, 415, 421`). The model has the loss, and
  `DescriptorsOwned` says that no descriptor is lost in any other way.
- The index builder has no finished flag: Add() and Finish() are accepted after
  Finish(), against `sstable_builder.cpp:31`.
- The stored Bloom filter has no checksum over its bits; one that lost a bit is
  accepted, against `bloom_filter.cpp:288`.
- At the end of a file the Win32 Read() clears `*result`, the POSIX one leaves it.

`GetExact` and `FindExact` hold in spite of the empty key and the unfinished builder: a repeated
empty key is found with one of its values, and the blocks returned by repeated
Finish() calls are each readable. Two arithmetic edges are recorded as hazards: the
comment on `positions` promises full residue coverage from an odd step, which holds
only when the number of bits is a power of two (`PositionsSpread`), and the size
check of Deserialize wraps for bit counts within 7 of 2^64 (the premise of
`InBounds`).

## 4. Proofs

Every invariant and every action property that a passing run checks is also a
theorem, for all values of the constants: any sets of keys, values, addresses,
threads, names and descriptors, any number of entries, blocks and records, any
amount of damage. The bounds named `Max...` are arbitrary numbers in the proofs.

| Module | Theorems (property) | Inductive invariant, and why it is needed |
|---|---|---|
| `SkipListProofs` | `TypeCorrect`, `LinksCorrect` (`LinksExact`), `KeysCorrect`, `SearchCorrect`, `LevelCorrect`, `SizeCorrect`, `ClearCorrect`, `IteratorCorrect`, `Refinement` (`ImplementsMemtable`) | The conjunction of the properties. A splice keeps the links exact because the search left exact predecessors; the search does that because links are exact, keys unique and `level_` at least every tower; `size_ - 1` is a natural number because `size_` counts the nodes |
| `DataBlockProofs` | `TypeCorrect`, `ReadsCorrect` (`ReadsInside`), `SearchCorrect` (`KeyStillAhead`), `RebuildCorrect` (`KeysRebuilt`), `GetCorrect` (`GetExact`) | The builder leaves entries one after the other (`Placed`), their fields in the cells of the buffer (`Laid`), restart offsets that lead to full keys and deltas that extend the key before them (`Compressed`) and keys in order, the empty one possibly repeated (`Sorted`); while nothing but bytes of values rotted, the loops keep the last entry of the key ahead (`Searching`) and have the key before their position in hand (`Scanning`). `ReadsInside` needs only the types and the reader's own checks |
| `IndexBlockProofs` | `TypeCorrect`, `FindCorrect` (`FindExact`) | The buffer holds the entries at rising offsets, across the tables that repeated Finish() calls leave in it (`Built`), with keys in order (`Sorted`); the table of an undamaged block leads to its entries (`Kept`); the search brackets the answer (`Bracket`) |
| `WalProofs` | `TypeCorrect`, `ReplayCorrect` (`ReplayIsPrefix`), `SyncCorrect` (`SyncedReplayed`), `WriteCorrect` (`WrittenReplayed`) | There is an offset for every frame such that each cell of the file is the one that belongs there or a hole behind the synced part, the writer is at the end of its frame and recovery at the start of one (`Placed`) |
| `BloomFilterProofs` | `TypeCorrect`, `BoundsCorrect` (`InBounds`), `MembershipCorrect` (`NoFalseNegatives`), `ReloadCorrect` (`ReloadAccepted`), `SpreadCorrect` (`PositionsSpread`) | An undamaged buffer still describes the filter in memory and has the bits of the keys added before it was written (`StoredFits`, `StoredExact`). `PositionsSpread` is number theory: the word size is a multiple of the number of bits, so the wrap does not matter, and an odd factor can be cancelled modulo a power of two |
| `FileManagerProofs` | `TypeCorrect`, `ExclusiveCorrect`, `OwnershipCorrect` (`DescriptorsOwned`), `WritesCorrect` (`WrittenInOrder`), `ReadsCorrect` (`ReadsInOrder`), `WritesOwnCorrect` (`WritesOwnFile`) | Every open descriptor has one owner, an object or a running Close(), or is one of those that `make_unique` lost (`Owned`); an object's offset is what it wrote or read, and a file with a sole writer has no other (`InOrder`) |
| `SSTableProofs` | `TypeCorrect`, `LookupCorrect` (`LookupExact`), `SyncCorrect` (`SyncedSurvives`), `LossCorrect` (`LossIsLocal`) | What is written so far is the buffers one after the other at the offsets of their handles (`Laid`, `Progress`, `Complete`); keys rise from block to block, so only the block with the last divider not above a key can hold it (`Ordered`); an answer is one the reader computes from its contents (`Reading`) |

Each module proves `Init => IInv`, a lemma per action that it preserves `IInv`, with
a step per conjunct the action can disturb, and `Spec => []IInv`; the theorems
follow.
`Refinement` shows that an initial state of `SkipList` is an empty map and that each
step is a step of `Memtable` or leaves map, request, answer and cursor alone (the
steps of the searches and of the level and deletion loops). It needs the invariants
above and no more.

**Assumptions.** Each is an `ASSUME` that TLC evaluates on the constants of the runs.

- `SkipList`: keys and constructor arguments are integers; `p_denominator >= 1`,
  without which building `dist_` is undefined; sentinel, null and nodes are different
  addresses, and the markers are no keys, values or requests.
- `DataBlock`: keys and values are byte strings, and a block of `MaxEntries` entries
  has fewer cells than the 32-bit offsets can count. The code does not check this:
  a larger block would be written with offsets that wrap.
- `IndexBlock`: a divider has fewer than `Cont` (128) bytes, so that its length takes
  one byte, and a block fewer than 2^32 (the guard `Fits`). The code checks neither:
  a longer key is written with a longer varint, which the model's reader decodes and
  its builder does not write, and a larger block with offsets that wrap.
- `BloomFilter`: words have at least four bits, hashes fit in one, and the array of
  a filter that is built fits in memory.
- `FileManager`, `Wal`: markers are not names, descriptors or records.
- `SSTable`: the bounds are natural numbers.

The theorems on ownership and order in `FileManagerProofs` have the premise
`CloseKeeps`: an interrupted close(2) leaves its descriptor open, or the build is the
Windows one, whose Close() is not repeated. It is the premise of the code's retry
loop, and `filemanager_close` shows what happens on the platforms where it fails.
`ExclusiveCorrect` and `TypeCorrect` do without it.

**Induction over data.** What a recursive definition (`OffsetOf`, `Pow2`,
`positions`) computes is proved by induction on a set of numbers instead of a
predicate (`NatInduct` in `WellOrder`, from the well-foundedness of the natural
numbers): a function that solves the recursion exists, so the recursive definition
solves it, and its values follow. For this the domains of the recursive functions
are intervals.

**Only model-checked.** The liveness properties `CallsReturn`, `GetReturns`,
`FindReturns` and `RecoveryEnds`: the prover has no rules for fairness. `KeysIncrease`,
`BoundsValidated`, `TornRefused`, `CrcExact` and, without `CloseKeeps`, `WritesOwnFile` are violated, so
there is nothing to prove. That `SSTable` may replace the lookups of intact blocks by
`GetExact` and `FindExact` is an argument about two models, made in the text of section
2 and not a theorem.

## 5. Not modelled

- The UTF-16 conversion of names on Windows, and reads of 2^32 bytes or more there,
  whose count is cut to 32 bits.
- What a directory keeps of new and renamed files after a power failure: the code
  never syncs a directory, and nothing in it relies on a name after a crash.
- Payloads of 2^32 bytes or more in a log frame, whose length field is cut.
- The bytes inside a fixed-width field and the CRC polynomial: the models use what
  the parsers tell apart. Words of a fixed width are in `BloomFilter`, `DataBlock` and
  `IndexBlock`, and the decoding of varints in `IndexBlock`. Since a field is one cell, an
  offset that points between the bytes of a field is represented by one that points
  to another field or into a payload.
- Answers of a lookup in an SSTable that lost some entries of a block or part of one:
  `SSTable` allows any. `DataBlock` has these lookups cell by cell for the damage it has.
- A Bloom filter loaded with more than 64 hashes, for which add() and
  might_contain() use a vector (`bloom_filter.cpp:229-232, 250-253`). For a damaged count
  close to 2^32 its resize may throw, before anything is changed; damaged counts are 0 to 3
  here.
- Memory that runs out in Read(): result->assign (`file_manager.cpp:328`) may throw after
  read(2) has moved the offset, and the bytes are lost to the caller.
- The Bloom filter's false positive rate, which is a matter of probability.
- Allocation failure in the skip list before a call has any effect (the search's
  local `update` vector) or in Get()'s copy of the value: the list is as if the call had not
  been made.
- Components that have no code.

## 6. Plan

The parts that have code are modelled, and their safety properties are proved. What
is left:

1. The loops' variants as action properties (the binary searches narrow, the scans
   advance, the recovery consumes input), which is the provable part of the liveness
   properties.
2. That `Get` and `Find` of `SSTable` are what `DataBlock` and `IndexBlock` promise
   of the same entries, with the contracts stated once.
