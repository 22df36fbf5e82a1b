-------------------------------- MODULE Wal ---------------------------------
(***************************************************************************)
(* A write-ahead log through a crash: the frames of                        *)
(* src/src/wal/wal_format.h, written with PosixWritableFile and read back   *)
(* with PosixReadableFile (src/src/io/file_manager.cpp).                   *)
(*                                                                         *)
(* A file is a sequence of cells.  A frame is a `len` cell, a `crc` cell   *)
(* and a payload of one cell (transaction, type and lengths), or of two    *)
(* when the record has a key.  A cell is <<n, c>>, cell c of the n-th      *)
(* frame, or ZERO: space the file system added to the file and did not     *)
(* fill before the crash.  CRC32 is taken to tell payloads apart, except   *)
(* that the CRC of no bytes is 0, the value a zeroed header holds.         *)
(*                                                                         *)
(* The repository has no log writer or recovery loop yet.  The writer here *)
(* appends records and stops after a failed Write() or Sync(); recovery    *)
(* reads the file until Read() returns 0 and parses frames until the input *)
(* is empty or ParseFrame() throws, the loop of tests/wal/test_wal.cpp.    *)
(***************************************************************************)
EXTENDS Integers, Sequences

CONSTANTS ControlRecord,  \* BEGIN_TX, COMMIT_TX, ABORT_TX: no key, no value
          KeyRecord,      \* PUT, DELETE_
          GARBAGE,        \* what a payload that was never written decodes to
          MaxRecords      \* bound on the records appended

ASSUME WalAssumption == /\ GARBAGE \notin ControlRecord \cup KeyRecord
                        /\ ControlRecord \cap KeyRecord = {}
                        /\ MaxRecords \in Nat

VARIABLES fd,        \* "open", "closed"; "lost" after a crash
          file,      \* contents of the file
          synced,    \* number of cells that are on the device
          rest,      \* Write(): the bytes still to write
          wpc,       \* "idle", "writing", "failed"
          sent,      \* history: records Write() was called with
          written,   \* history: records Write() returned true for
          acked,     \* history: records Sync() returned true for
          rpc,       \* recovery: "no", "read", "replay", "end"
          input,     \* recovery: bytes read and not parsed yet
          pos,       \* recovery: offset of the reader in the file
          readFailed,\* history: read(2) failed
          out        \* recovery: the records replayed

writer == <<fd, synced, rest, wpc, sent, written, acked>>
recovery == <<rpc, input, pos, readFailed, out>>
vars == <<file, writer, recovery>>

-----------------------------------------------------------------------------
(* Frames. *)

Record == ControlRecord \cup KeyRecord
ZERO == <<0, 0>>
HeaderSize == 2

PayloadSize(r) == IF r \in KeyRecord THEN 2 ELSE 1

\* SerializePayload and SerializeFrame, for the n-th record.
SerializeFrame(n, r) == [c \in 1 .. HeaderSize + PayloadSize(r) |-> <<n, c>>]

\* The `len` field in a header cell.
Length(cell) == IF cell = ZERO THEN 0 ELSE PayloadSize(sent[cell[1]])

\* The payload of the n-th frame as it was serialized.
PayloadOf(n) == [c \in 1 .. PayloadSize(sent[n]) |-> <<n, HeaderSize + c>>]

\* ParseFrame throws "truncated header" or "truncated payload".
Truncated(in) == Len(in) < HeaderSize \/ Len(in) - HeaderSize < Length(in[1])

Payload(in) == SubSeq(in, HeaderSize + 1, HeaderSize + Length(in[1]))

\* Mutant: the checksum is not compared.
CrcIgnored(in) == TRUE

\* Crc32(payload) == crc
CrcMatches(in) == Payload(in) = IF in[2] = ZERO THEN <<>> ELSE PayloadOf(in[2][1])

\* Mutant: the size of the payload is not checked.
TooSmallUnchecked(in) == FALSE

\* ParsePayload throws for fewer than 9 bytes, which a record always has.
TooSmall(in) == Payload(in) = <<>>

ParseThrows(in) == Truncated(in) \/ ~CrcMatches(in) \/ TooSmall(in)

\* The fields ParsePayload extracts.
ParsePayload(in) ==
    IF in[1] # ZERO /\ Payload(in) = PayloadOf(in[1][1]) THEN sent[in[1][1]] ELSE GARBAGE

-----------------------------------------------------------------------------
(* Writing: PosixWritableFile, opened by NewWritableFile (truncated). *)

Init == /\ fd = "open" /\ file = <<>> /\ synced = 0
        /\ rest = <<>> /\ wpc = "idle"
        /\ sent = <<>> /\ written = 0 /\ acked = 0
        /\ rpc = "no" /\ input = <<>> /\ pos = 0 /\ readFailed = FALSE /\ out = <<>>

Write(r) == /\ fd = "open" /\ wpc = "idle" /\ Len(sent) < MaxRecords
            /\ sent' = Append(sent, r)
            /\ rest' = SerializeFrame(Len(sent) + 1, r)
            /\ wpc' = "writing"
            /\ UNCHANGED <<file, fd, synced, written, acked, recovery>>

\* Mutant: write(2) is called once and a short count is taken for success.
WriteOnce(n) == /\ fd = "open" /\ wpc = "writing"
                /\ file' = file \o SubSeq(rest, 1, n)
                /\ rest' = <<>>
                /\ UNCHANGED <<fd, synced, wpc, sent, written, acked, recovery>>

\* write(2) takes n bytes.  EINTR changes nothing and the loop goes on.
WriteSome(n) == /\ fd = "open" /\ wpc = "writing"
                /\ file' = file \o SubSeq(rest, 1, n)
                /\ rest' = SubSeq(rest, n + 1, Len(rest))
                /\ UNCHANGED <<fd, synced, wpc, sent, written, acked, recovery>>

\* write(2) fails, or takes nothing: what it took before stays in the file.
WriteFails == /\ fd = "open" /\ wpc = "writing" /\ rest # <<>>
              /\ wpc' = "failed"
              /\ rest' = <<>>
              /\ UNCHANGED <<file, fd, synced, sent, written, acked, recovery>>

WriteReturns == /\ fd = "open" /\ wpc = "writing" /\ rest = <<>>
                /\ wpc' = "idle"
                /\ written' = written + 1
                /\ UNCHANGED <<file, fd, synced, rest, sent, acked, recovery>>

\* Mutant: Sync() only does what Flush() does.
SyncIsFlush == /\ fd = "open" /\ wpc = "idle"
               /\ acked' = written
               /\ UNCHANGED <<file, fd, synced, rest, wpc, sent, written, recovery>>

Sync == /\ fd = "open" /\ wpc = "idle"
        /\ synced' = Len(file)
        /\ acked' = written
        /\ UNCHANGED <<file, fd, rest, wpc, sent, written, recovery>>

\* fsync(2) fails: nothing is known about the cells written since.
SyncFails == /\ fd = "open" /\ wpc = "idle"
             /\ wpc' = "failed"
             /\ UNCHANGED <<file, fd, synced, rest, sent, written, acked, recovery>>

\* Close() and the destructor; the data is left to the operating system.
Close == /\ fd = "open" /\ wpc \in {"idle", "failed"}
         /\ fd' = "closed"
         /\ UNCHANGED <<file, synced, rest, wpc, sent, written, acked, recovery>>

\* Power fails.  The file keeps what was synced; of the rest it keeps the first
\* `size` cells, and of those the ones in `kept` reached the device.
Crash(size, kept) == /\ fd \in {"open", "closed"} /\ rpc = "no"
                     /\ file' = [p \in 1 .. size |->
                                    IF p <= synced \/ p \in kept THEN file[p] ELSE ZERO]
                     /\ fd' = "lost"
                     /\ UNCHANGED <<synced, rest, wpc, sent, written, acked, recovery>>

-----------------------------------------------------------------------------
(* Recovery: PosixReadableFile::Read until it returns 0, then the frames. *)

Recover == /\ fd \in {"closed", "lost"} /\ rpc = "no"
           /\ rpc' = "read"
           /\ UNCHANGED <<file, writer, input, pos, readFailed, out>>

ReadSome(n) == /\ rpc = "read" /\ pos + n <= Len(file)
               /\ input' = input \o SubSeq(file, pos + 1, pos + n)
               /\ pos' = pos + n
               /\ UNCHANGED <<file, writer, rpc, readFailed, out>>

\* Read() returns 0 at the end of the file, and for an error too.
ReadReturnsZero(err) == /\ rpc = "read" /\ (err \/ pos = Len(file))
                        /\ rpc' = "replay"
                        /\ readFailed' = err
                        /\ UNCHANGED <<file, writer, input, pos, out>>

\* The loop parses another frame.
HasFrame == input # <<>> /\ ~ParseThrows(input)

Replay == /\ rpc = "replay" /\ HasFrame
          /\ out' = Append(out, ParsePayload(input))
          /\ input' = SubSeq(input, HeaderSize + Length(input[1]) + 1, Len(input))
          /\ UNCHANGED <<file, writer, rpc, pos, readFailed>>

\* Mutant: the loop catches the exception and tries again.
ReplayEndsWhenEmpty == /\ rpc = "replay" /\ input = <<>>
                       /\ rpc' = "end"
                       /\ UNCHANGED <<file, writer, input, pos, readFailed, out>>

ReplayEnds == /\ rpc = "replay" /\ ~HasFrame
              /\ rpc' = "end"
              /\ UNCHANGED <<file, writer, input, pos, readFailed, out>>

-----------------------------------------------------------------------------
Writing == \/ \E r \in Record : Write(r)
           \/ \E n \in 1 .. Len(rest) : WriteSome(n)
           \/ WriteFails \/ WriteReturns
           \/ Sync \/ SyncFails \/ Close

PowerFailure == \E size \in synced .. Len(file) :
                    \E kept \in SUBSET (synced + 1 .. size) : Crash(size, kept)

Recovering == \/ \E n \in 1 .. Len(file) : ReadSome(n)
              \/ \E err \in BOOLEAN : ReadReturnsZero(err)
              \/ Replay \/ ReplayEnds

Next == Writing \/ PowerFailure \/ Recover \/ Recovering

Spec == Init /\ [][Next]_vars

\* A recovery that has started keeps running.
FairSpec == Spec /\ WF_vars(Recovering)
-----------------------------------------------------------------------------
(* Properties. *)

\* Type invariant.  Every record handed back is a record, never the decoding
\* of bytes nobody wrote.
TypeOK ==
    /\ fd \in {"open", "closed", "lost"}
    /\ synced \in 0 .. Len(file) /\ pos \in 0 .. Len(file)
    /\ wpc \in {"idle", "writing", "failed"}
    /\ sent \in Seq(Record) /\ out \in Seq(Record)
    /\ acked \in 0 .. written /\ written \in 0 .. Len(sent)
    /\ rpc \in {"no", "read", "replay", "end"}
    /\ readFailed \in BOOLEAN

\* Whatever part of the file a crash leaves, in whatever state, and wherever
\* the reads stop, recovery replays the first records of the log in order:
\* none is skipped, repeated or made up (ParseFrame, lines 253-279).
ReplayIsPrefix == Len(out) <= Len(sent) /\ out = SubSeq(sent, 1, Len(out))

\* A record that Write() and a later Sync() returned true for survives every
\* crash and is replayed, although the frame after it may be torn, unless the
\* reader met an I/O error, which Read() reports like the end of the file.
SyncedReplayed == rpc = "end" /\ ~readFailed => Len(out) >= acked

\* Without a crash every record Write() returned true for is replayed, also
\* when the last Write() failed half-way.
WrittenReplayed == rpc = "end" /\ ~readFailed /\ fd = "closed" => Len(out) >= written

\* Recovery terminates on every file a crash can leave.
RecoveryEnds == rpc # "no" ~> rpc = "end"
=============================================================================
