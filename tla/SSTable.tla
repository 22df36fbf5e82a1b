------------------------------- MODULE SSTable ------------------------------
(***************************************************************************)
(* A whole table: data blocks, index block and footer                      *)
(* (src/include/VrootKV/io/sstable_format.h) laid out in a file, written    *)
(* through PosixWritableFile, read back and asked for keys.  The           *)
(* repository has no table writer or reader class yet; the order of the    *)
(* calls is the one of tests/io/test_sstable_end_to_end.cpp and            *)
(* tests/io/test_sstable.cpp.                                              *)
(*                                                                         *)
(* The blocks themselves are modules DataBlock and IndexBlock.  Here a     *)
(* block is one cell per entry and a trailer cell, the footer two cells,   *)
(* and a lookup does what GetExact and FindExact say, or, when part of the *)
(* block is missing, what the readers compute from the bytes that are      *)
(* there.  ZERO is space the file system added to the file and did not     *)
(* fill before the crash; of a TORN cell some bytes are missing or zero.   *)
(* A lookup has a set of answers: where the outcome depends on the bytes   *)
(* of keys and values it is any answer, a wrong value included.            *)
(*                                                                         *)
(* Keys are natural numbers above 0; the value of a key is the key.        *)
(* Offsets are 0-based, as in the code.                                    *)
(***************************************************************************)
EXTENDS Integers, Sequences, FiniteSets

CONSTANTS MaxKey,     \* keys are 1 .. MaxKey
          MaxBlocks,  \* bound on the data blocks of a table
          MaxTorn     \* bound on the cells a power failure tears

ASSUME TableAssumption == MaxKey \in Nat /\ MaxBlocks \in Nat /\ MaxTorn \in Nat

VARIABLES blocks,    \* the data blocks: each the keys it holds
          pc,        \* "build", "write", "failed", "written", "down", "read", "answered"
          rest,      \* the buffers still to write
          file,      \* contents of the file
          synced,    \* number of cells that are on the device
          acked,     \* history: Sync() returned true
          intact,    \* history: no write failed, no power failure took cells
          contents,  \* file_contents of the reader
          key,       \* the key asked for
          result     \* what the lookup returned, or "throws"

history == <<acked, intact>>
vars == <<blocks, pc, rest, file, synced, history, contents, key, result>>

-----------------------------------------------------------------------------
(* The layout. *)

Key == 1 .. MaxKey
ZERO == <<"zero">>
TORN == <<"torn">>

\* Outcomes of a lookup.  Found(0) is a value that no key has.
Found(v) == <<"found", v>>
ABSENT == <<"absent">>
THROWS == <<"throws">>
NoAnswer == <<"none">>

\* What bytes of keys and values can lead to once part of them is lost.
AnyAnswer == {ABSENT, THROWS} \cup {Found(v) : v \in 0 .. MaxKey}

Keys == UNION {blocks[b] : b \in DOMAIN blocks}

Least(S) == CHOOSE k \in S : \A j \in S : k <= j
Greatest(S) == CHOOSE k \in S : \A j \in S : j <= k

\* The keys of a block in order.
Nth(S, n) == CHOOSE k \in S : Cardinality({j \in S : j < k}) = n - 1

\* DataBlockBuilder::Finish()
DataBuffer(S) == Append([n \in 1 .. Cardinality(S) |-> <<"entry", Nth(S, n)>>],
                        <<"restarts", Cardinality(S)>>)

\* file.size() before block b is appended.
OffsetOf[b \in 0 .. Len(blocks)] ==
    IF b = 0 THEN 0 ELSE OffsetOf[b - 1] + Cardinality(blocks[b]) + 1

\* Mutant: the handles keep the offset 0 they had before the layout was known.
HandleUnfixed(b) == [offset |-> 0, size |-> Cardinality(blocks[b]) + 1]

\* The handle of data block b in the final layout.
HandleOf(b) == [offset |-> OffsetOf[b - 1], size |-> Cardinality(blocks[b]) + 1]

\* Mutant: a block is filed under its last key.
DividerLast(b) == Greatest(blocks[b])

\* "Divider is typically the smallest key in the target data block."
Divider(b) == Least(blocks[b])

\* IndexBlockBuilder::Finish()
IndexBuffer == Append([b \in DOMAIN blocks |-> <<"divider", Divider(b), HandleOf(b)>>],
                      <<"offsets", Len(blocks)>>)

IndexHandle == [offset |-> OffsetOf[Len(blocks)], size |-> Len(blocks) + 1]

\* SSTableFooter::EncodeTo; the filter handle is {0, 0}.
FooterBuffer == <<<<"handles", IndexHandle>>, <<"magic">>>>
FooterLength == 2

\* Cells of the whole table.
TableLength == OffsetOf[Len(blocks)] + Len(blocks) + 1 + FooterLength

\* What is passed to Write(), in this order.
Buffers == [b \in DOMAIN blocks |-> DataBuffer(blocks[b])] \o <<IndexBuffer, FooterBuffer>>

-----------------------------------------------------------------------------
(* Building and writing. *)

Init == /\ blocks = <<>> /\ pc = "build" /\ rest = <<>>
        /\ file = <<>> /\ synced = 0 /\ acked = FALSE /\ intact = TRUE
        /\ contents = <<>> /\ key = 0 /\ result = NoAnswer

\* The next key goes to the last block, or to a new one.
Add(k) == /\ pc = "build" /\ Len(blocks) > 0 /\ \A j \in Keys : j < k
          /\ blocks' = [blocks EXCEPT ![Len(blocks)] = @ \cup {k}]
          /\ UNCHANGED <<pc, rest, file, synced, history, contents, key, result>>

AddToNew(k) == /\ pc = "build" /\ Len(blocks) < MaxBlocks /\ \A j \in Keys : j < k
               /\ blocks' = Append(blocks, {k})
               /\ UNCHANGED <<pc, rest, file, synced, history, contents, key, result>>

\* NewWritableFile(); the buffers are ready.
Layout == /\ pc = "build" /\ Len(blocks) > 0
          /\ pc' = "write"
          /\ rest' = Buffers
          /\ UNCHANGED <<blocks, file, synced, history, contents, key, result>>

\* Write() takes the whole buffer.
WriteBuffer == /\ pc = "write" /\ rest # <<>>
               /\ file' = file \o Head(rest)
               /\ rest' = Tail(rest)
               /\ UNCHANGED <<blocks, pc, synced, history, contents, key, result>>

\* The first bytes of s: n whole cells, and part of the next one.
Cut(s, n, part) == SubSeq(s, 1, n) \o (IF part THEN <<TORN>> ELSE <<>>)

\* Write() returns false: some bytes stay in the file, the caller stops.
WriteFails(c, part) == /\ pc = "write" /\ rest # <<>> /\ c < Len(Head(rest))
                       /\ file' = file \o Cut(Head(rest), c, part)
                       /\ pc' = "failed"
                       /\ intact' = FALSE
                       /\ UNCHANGED <<blocks, rest, synced, acked, contents, key, result>>

\* Mutant: Sync() only does what Flush() does.
SyncIsFlush == synced

\* What fsync(2) leaves on the device.
SyncedCells == Len(file)

\* Sync() returns true for the complete table.
Sync == /\ pc = "write" /\ rest = <<>>
        /\ synced' = SyncedCells
        /\ acked' = TRUE
        /\ pc' = "written"
        /\ UNCHANGED <<blocks, rest, file, intact, contents, key, result>>

\* Close() without Sync(), as in the test.
Close == /\ pc = "write" /\ rest = <<>>
         /\ pc' = "written"
         /\ UNCHANGED <<blocks, rest, file, synced, history, contents, key, result>>

\* Power fails.  The file keeps what was synced; of the rest it keeps the first
\* `size` cells, and of those the ones in `kept` reached the device, the ones in
\* `torn` in part.
Crash(size, kept, torn) ==
    /\ pc \in {"write", "failed", "written"}
    /\ file' = [p \in 1 .. size |-> IF p <= synced \/ p \in kept THEN file[p]
                                   ELSE IF p \in torn \/ file[p] = TORN THEN TORN
                                   ELSE ZERO]
    /\ pc' = "down"
    /\ intact' = (intact /\ rest = <<>> /\ file' = file)
    /\ UNCHANGED <<blocks, rest, synced, acked, contents, key, result>>

-----------------------------------------------------------------------------
(* Reading. *)

\* Mutant: the last chunk is appended with the buffer's full size.
ReadPadded(n, part) == /\ pc \in {"failed", "written", "down"}
                       /\ part => n < Len(file)
                       /\ contents' = Append(Cut(file, n, part), ZERO)
                       /\ pc' = "read"
                       /\ UNCHANGED <<blocks, rest, file, synced, history, key, result>>

\* Read(1024) until it returns 0: the whole file, or the first bytes of it after
\* an error, which Read() does not tell from the end of the file.
ReadFile(n, part) == /\ pc \in {"failed", "written", "down"}
                     /\ part => n < Len(file)
                     /\ contents' = Cut(file, n, part)
                     /\ pc' = "read"
                     /\ UNCHANGED <<blocks, rest, file, synced, history, key, result>>

\* BlockHandle::DecodeFrom on zeros.
NullHandle == [offset |-> 0, size |-> 0]

\* file_contents.substr(h.offset, h.size): clamped at the end.
InRange(h) == h.offset <= Len(contents)
Slice(h) == SubSeq(contents, h.offset + 1,
                   IF h.offset + h.size <= Len(contents) THEN h.offset + h.size
                                                         ELSE Len(contents))

Body(s) == {s[p] : p \in 1 .. Len(s) - 1}
Trailer(s) == s[Len(s)]
OfKind(kind, S) == \A c \in S : c[1] = kind

\* Get() in a block that is there.
GetEntry(s, k) == IF <<"entry", k>> \in Body(s) THEN Found(k) ELSE ABSENT

\* DataBlockReader(s) and Get(k).  No restarts: nothing is found.  Zeroed
\* entries read as empty keys, which are below k, up to the end of the block.
\* With some entries or part of one lost the scan follows the bytes it meets.
Get(s, k) == CASE s = <<>> -> {THROWS}
               [] s # <<>> /\ Trailer(s) = ZERO -> {ABSENT}
               [] s # <<>> /\ Trailer(s) = <<"restarts", Len(s) - 1>> ->
                    IF OfKind("entry", Body(s)) THEN {GetEntry(s, k)}
                    ELSE IF Body(s) = {ZERO} THEN {ABSENT} ELSE AnyAnswer
               [] OTHER -> AnyAnswer

GetAt(h, k) == IF InRange(h) THEN Get(Slice(h), k) ELSE {THROWS}

\* Find() in an index that is there, then the data block it names.
FindEntry(s, k) == LET below == {c \in Body(s) : c[2] <= k}
                       last == CHOOSE c \in below : \A d \in below : d[2] <= c[2]
                   IN  IF below = {} THEN {ABSENT} ELSE GetAt(last[3], k)

\* IndexBlockReader(s) and Find(k).  A zeroed entry is an empty key with the
\* handle {0, 0}.
Find(s, k) == CASE s = <<>> -> {THROWS}
                [] s # <<>> /\ Trailer(s) = ZERO -> {ABSENT}
                [] s # <<>> /\ Trailer(s) = <<"offsets", Len(s) - 1>> ->
                     IF OfKind("divider", Body(s)) THEN FindEntry(s, k)
                     ELSE IF Body(s) = {ZERO} THEN GetAt(NullHandle, k) ELSE AnyAnswer
                [] OTHER -> AnyAnswer

FindAt(h, k) == IF InRange(h) THEN Find(Slice(h), k) ELSE {THROWS}

\* The last bytes are the ones of the footer: no cell is missing, and the last
\* one is not cut.
Aligned == Len(contents) = TableLength /\ Trailer(contents) # TORN

\* SSTableFooter::DecodeFrom on the last bytes.  The magic is copied and not
\* compared, and whatever is at the place of the handles is decoded.  Zeros are
\* an index handle {0, 0}: an empty block.
Ask(k) == LET handles == contents[Len(contents) - 1]
          IN  CASE \A p \in DOMAIN contents : contents[p] = ZERO -> {THROWS}
                [] Aligned /\ handles = ZERO -> FindAt(NullHandle, k)
                [] Aligned /\ handles[1] = "handles" -> FindAt(handles[2], k)
                [] OTHER -> AnyAnswer

Lookup(k) == /\ pc \in {"read", "answered"}
             /\ key' = k
             /\ result' \in Ask(k)
             /\ pc' = "answered"
             /\ UNCHANGED <<blocks, rest, file, synced, history, contents>>

-----------------------------------------------------------------------------
PowerFailure ==
    /\ pc \in {"write", "failed", "written"}
    /\ \E size \in synced .. Len(file) : \E torn \in SUBSET (synced + 1 .. size) :
          /\ Cardinality(torn) <= MaxTorn
          /\ \E kept \in SUBSET ((synced + 1 .. size) \ torn) : Crash(size, kept, torn)

Next == \/ \E k \in Key : Add(k) \/ AddToNew(k)
        \/ Layout \/ WriteBuffer \/ Sync \/ Close
        \/ \E c \in 0 .. MaxKey, part \in BOOLEAN : WriteFails(c, part)
        \/ PowerFailure
        \/ \E n \in 0 .. Len(file), part \in BOOLEAN : ReadFile(n, part)
        \/ \E k \in Key : Lookup(k)

Spec == Init /\ [][Next]_vars
-----------------------------------------------------------------------------
(* Properties. *)

Right == IF key \in Keys THEN Found(key) ELSE ABSENT

\* Type invariant.
TypeOK ==
    /\ blocks \in Seq((SUBSET Key) \ {{}})
    /\ pc \in {"build", "write", "failed", "written", "down", "read", "answered"}
    /\ synced \in 0 .. Len(file) /\ acked \in BOOLEAN /\ intact \in BOOLEAN
    /\ Len(contents) <= Len(file)
    /\ result \in AnyAnswer \cup {NoAnswer}

\* A table that reached the file completely - all writes returned true, and no
\* power failure or one after Sync() - answers every key right: each block is
\* where its handle says, the index routes every key to the only block that can
\* hold it, and the footer is found from the end of the file.
LookupExact == pc = "answered" /\ intact /\ contents = file => result = Right

\* Sync() protects the whole table: after it no power failure changes an answer.
SyncedSurvives == pc = "answered" /\ acked /\ contents = file => result = Right

\* Block b is the last that does not start above k.
Routed(b, k) == /\ Divider(b) <= k
                /\ \A c \in DOMAIN blocks : Divider(c) <= k => Divider(c) <= Divider(b)

\* What a power failure takes of one data block shows in no other: with the
\* footer's handles and the index block there, a lookup that is routed to a
\* block that is there answers right, whatever the rest of the file lost.
LossIsLocal ==
    /\ pc = "answered"
    /\ Aligned /\ contents[TableLength - 1] = <<"handles", IndexHandle>>
    /\ Slice(IndexHandle) = IndexBuffer
    /\ \A b \in DOMAIN blocks :
          Routed(b, key) => Slice(HandleOf(b)) = DataBuffer(blocks[b])
    => result = Right

\* "Readers validate structural integrity; malformed input throws
\* std::runtime_error" (sstable_reader.cpp:33): a lookup in a table that lost
\* cells in a power failure answers right or throws.  Only answers that do not
\* depend on the bytes of keys and values are held against the reader.
TornRefused == pc = "answered" /\ Ask(key) = {result} => result \in {Right, THROWS}
=============================================================================
