------------------------------ MODULE WalProofs ------------------------------
(***************************************************************************)
(* Proofs about the log, for any number of records of any kind and for     *)
(* every crash and read error.                                             *)
(*                                                                         *)
(* The argument places the frames: start[n] is the offset the n-th frame   *)
(* has in a log that loses nothing.  A cell of the file is the one that    *)
(* belongs there, or a hole that a crash left behind the synced part       *)
(* (Cells); the writer is at the end of its frame (Pending); and what      *)
(* recovery has not parsed yet begins where the next frame begins          *)
(* (Recovered), so the first cell is that frame's or a hole, and a hole in *)
(* the length, in the checksum or in the payload is refused.               *)
(***************************************************************************)
EXTENDS Wal, SequenceTheorems, TLAPS

Cell == Nat \X Nat
Offsets == [Nat -> Nat]

FrameSize(n) == HeaderSize + PayloadSize(sent[n])

\* Types, with those of the contents.
Typed == TypeOK /\ file \in Seq(Cell) /\ rest \in Seq(Cell) /\ input \in Seq(Cell)

\* The offsets of the frames, with that of the next one.
Starts(start) ==
    /\ start[1] = 0
    /\ \A n \in 1 .. Len(sent) : start[n + 1] = start[n] + FrameSize(n)
    /\ \A m, n \in 1 .. Len(sent) + 1 : m <= n => start[m] <= start[n]
    /\ Len(file) <= start[Len(sent) + 1]

\* What is in the file is where it belongs.
Cells(start) ==
    \A n \in 1 .. Len(sent) : \A c \in 1 .. FrameSize(n) :
        start[n] + c <= Len(file) =>
            \/ file[start[n] + c] = <<n, c>>
            \/ fd = "lost" /\ start[n] + c > synced /\ file[start[n] + c] = ZERO

\* The writer: what is left of the running Write(), what the completed ones
\* and the synced ones left in the file.
Pending(start) ==
    /\ fd = "open" /\ wpc = "idle" =>
          rest = <<>> /\ Len(file) = start[Len(sent) + 1] /\ written = Len(sent)
    /\ fd = "open" /\ wpc = "writing" =>
          /\ Len(sent) > 0 /\ written = Len(sent) - 1
          /\ Len(file) + Len(rest) = start[Len(sent) + 1]
          /\ start[Len(sent)] <= Len(file)
          /\ \A j \in 1 .. Len(rest) :
                rest[j] = <<Len(sent), Len(file) - start[Len(sent)] + j>>
    /\ start[acked + 1] <= synced
    /\ fd # "lost" => start[written + 1] <= Len(file)

\* Recovery: the records parsed, and the input that is left.
Recovered(start) ==
    /\ rpc = "no" => pos = 0 /\ input = <<>> /\ out = <<>>
    /\ rpc # "no" => fd # "open"
    /\ Len(out) <= Len(sent) /\ \A n \in 1 .. Len(out) : out[n] = sent[n]
    /\ start[Len(out) + 1] + Len(input) = pos
    /\ \A j \in 1 .. Len(input) : input[j] = file[start[Len(out) + 1] + j]
    /\ rpc \in {"replay", "end"} /\ ~readFailed => pos = Len(file)
    /\ rpc = "end" => ~HasFrame

Placed(start) == Starts(start) /\ Cells(start) /\ Pending(start) /\ Recovered(start)

\* The inductive invariant.
IInv == Typed /\ \E start \in Offsets : Placed(start)

-----------------------------------------------------------------------------
(* Frames. *)

LEMMA SizeFacts ==
    \A r : PayloadSize(r) \in {1, 2} /\ HeaderSize + PayloadSize(r) \in Nat /\ HeaderSize = 2
BY DEF PayloadSize, HeaderSize

\* What Typed says about lengths.
LEMMA Lengths ==
    ASSUME Typed
    PROVE  /\ Len(sent) \in Nat /\ Len(out) \in Nat /\ Len(file) \in Nat
           /\ Len(rest) \in Nat /\ Len(input) \in Nat
           /\ written \in Nat /\ acked \in Nat /\ acked <= written /\ written <= Len(sent)
           /\ synced \in Nat /\ synced <= Len(file) /\ pos \in Nat /\ pos <= Len(file)
<1>1. sent \in Seq(Record) /\ out \in Seq(Record)
  BY DEF Typed, TypeOK
<1>2. /\ file \in Seq(Cell) /\ rest \in Seq(Cell) /\ input \in Seq(Cell)
  BY DEF Typed
<1>3. /\ Len(sent) \in Nat /\ Len(out) \in Nat /\ Len(file) \in Nat
      /\ Len(rest) \in Nat /\ Len(input) \in Nat
  BY <1>1, <1>2, LenProperties
<1> QED
  BY <1>3 DEF Typed, TypeOK

LEMMA OffsetNat ==
    ASSUME NEW start \in Offsets
    PROVE  \A n \in Nat : start[n] \in Nat
BY DEF Offsets

\* The frame that recovery parses next, and where it lies.
LEMMA NextFrame ==
    ASSUME Typed, NEW start \in Offsets, Starts(start), Cells(start), Recovered(start),
           Len(input) >= 1
    PROVE  /\ Len(out) + 1 \in 1 .. Len(sent)
           /\ start[Len(out) + 2] = start[Len(out) + 1] + FrameSize(Len(out) + 1)
           /\ \A c \in 1 .. FrameSize(Len(out) + 1) : c <= Len(input) =>
                 \/ input[c] = <<Len(out) + 1, c>>
                 \/ /\ input[c] = ZERO /\ fd = "lost"
                    /\ start[Len(out) + 1] + c > synced
<1> DEFINE k == Len(out) + 1
<1>1. k \in Nat /\ k >= 1 /\ Len(sent) \in Nat /\ Len(input) \in Nat /\ Len(file) \in Nat
  BY Lengths
<1>2. Len(input) >= 1
  OBVIOUS
<1>3. start[k] + Len(input) = pos /\ pos <= Len(file) /\ Len(file) <= start[Len(sent) + 1]
  BY Lengths DEF Recovered, Starts
<1>4. k <= Len(sent)
  <2> SUFFICES ASSUME k = Len(sent) + 1
               PROVE  FALSE
    <3>1. Len(out) <= Len(sent)
      BY DEF Recovered
    <3> QED
      BY <3>1, Lengths
  <2>1. start[k] \in Nat
    BY <1>1, OffsetNat
  <2> QED
    BY <2>1, <1>1, <1>2, <1>3, Lengths
<1>5. k \in 1 .. Len(sent) /\ k + 1 = Len(out) + 2
  BY <1>1, <1>4, Lengths
<1>6. start[k + 1] = start[k] + FrameSize(k)
  BY <1>5 DEF Starts
<1>7. ASSUME NEW c \in 1 .. FrameSize(k), c <= Len(input)
      PROVE  /\ input[c] = file[start[k] + c]
             /\ start[k] + c <= Len(file)
  <2>1. c \in 1 .. Len(input) /\ start[k] \in Nat /\ c \in Nat
    BY <1>1, <1>7, OffsetNat, SizeFacts DEF FrameSize
  <2>2. input[c] = file[start[k] + c]
    BY <2>1 DEF Recovered
  <2> QED
    BY <2>1, <2>2, <1>1, <1>3, Lengths
<1>8. ASSUME NEW c \in 1 .. FrameSize(k), c <= Len(input)
      PROVE  \/ input[c] = <<k, c>>
             \/ input[c] = ZERO /\ fd = "lost" /\ start[k] + c > synced
  BY <1>5, <1>7, <1>8 DEF Cells
<1> QED
  BY <1>2, <1>5, <1>6, <1>8

LEMMA NotZero ==
    ASSUME NEW n \in Nat, n >= 1, NEW c \in Nat
    PROVE  <<n, c>> # ZERO /\ <<n, c>>[1] = n
BY DEF ZERO

\* The payload of an input of known length.
LEMMA PayloadFacts ==
    ASSUME NEW in \in Seq(Cell), NEW m \in {1, 2}, Length(in[1]) = m, Len(in) >= 2 + m
    PROVE  /\ Payload(in) \in Seq(Cell) /\ Len(Payload(in)) = m
           /\ DOMAIN Payload(in) = 1 .. m
           /\ \A c \in 1 .. m : Payload(in)[c] = in[2 + c]
<1>1. Payload(in) = SubSeq(in, 3, 2 + m)
  BY DEF Payload, HeaderSize
<1>2. Len(in) \in Nat /\ 3 \in Nat /\ 2 + m \in Nat /\ \A j \in 3 .. 2 + m : j \in 1 .. Len(in)
  BY LenProperties
<1>3. \A j \in 3 .. 2 + m : in[j] \in Cell
  BY <1>2, ElementOfSeq
<1>4. /\ SubSeq(in, 3, 2 + m) \in Seq(Cell)
      /\ Len(SubSeq(in, 3, 2 + m)) = IF 3 <= 2 + m THEN 2 + m - 3 + 1 ELSE 0
      /\ \A p \in 1 .. 2 + m - 3 + 1 : SubSeq(in, 3, 2 + m)[p] = in[3 + p - 1]
  BY <1>2, <1>3, SubSeqProperties
<1>5. /\ 2 + m - 3 + 1 = m /\ (IF 3 <= 2 + m THEN 2 + m - 3 + 1 ELSE 0) = m
      /\ \A p \in 1 .. m : 3 + p - 1 = 2 + p
  OBVIOUS
<1>6. Payload(in) \in Seq(Cell) /\ Len(Payload(in)) = m
  BY <1>1, <1>4, <1>5
<1>7. \A c \in 1 .. m : Payload(in)[c] = in[2 + c]
  BY <1>1, <1>4, <1>5
<1> QED
  BY <1>6, <1>7, LenProperties

\* ParseFrame accepts the next frame when all of it is there, and nothing else
\* (lines 253-279).
LEMMA ParseFacts ==
    ASSUME Typed, NEW start \in Offsets, Starts(start), Cells(start), Recovered(start),
           Len(input) >= 1
    PROVE  LET k == Len(out) + 1
           IN  /\ ~ParseThrows(input) => /\ Length(input[1]) = PayloadSize(sent[k])
                                         /\ ParsePayload(input) = sent[k]
                                         /\ FrameSize(k) <= Len(input)
               /\ (fd # "lost" \/ start[k + 1] <= synced) /\ start[k + 1] <= pos
                     => ~ParseThrows(input)
<1> DEFINE k == Len(out) + 1
           m == PayloadSize(sent[k])
<1>0. /\ k \in 1 .. Len(sent) /\ k \in Nat /\ k >= 1 /\ Len(input) \in Nat /\ Len(input) >= 1
      /\ m \in {1, 2} /\ FrameSize(k) = 2 + m /\ input \in Seq(Cell)
      /\ start[k] \in Nat /\ start[k + 1] \in Nat /\ start[k + 1] = start[k] + FrameSize(k)
  <2>1. k \in 1 .. Len(sent) /\ k \in Nat /\ Len(input) \in Nat /\ k + 1 = Len(out) + 2
    BY Lengths, NextFrame
  <2> QED
    BY <2>1, NextFrame, SizeFacts, OffsetNat DEF FrameSize, Typed
<1>1. ASSUME NEW c \in 1 .. 2 + m, c <= Len(input)
      PROVE  \/ input[c] = <<k, c>>
             \/ input[c] = ZERO /\ fd = "lost" /\ start[k] + c > synced
  BY <1>0, <1>1, NextFrame
<1>2. Length(<<k, 1>>) = m
  <2>1. <<k, 1>> # ZERO /\ <<k, 1>>[1] = k
    BY <1>0, NotZero
  <2> QED
    BY <2>1 DEF Length
<1>3. PayloadOf(k) = [c \in 1 .. m |-> <<k, 2 + c>>]
  BY DEF PayloadOf, HeaderSize
<1> HIDE DEF m
<1>4. ASSUME ~ParseThrows(input)
      PROVE  Length(input[1]) = m /\ ParsePayload(input) = sent[k] /\ 2 + m <= Len(input)
  <2>1. ~Truncated(input) /\ CrcMatches(input) /\ ~TooSmall(input)
    BY <1>4 DEF ParseThrows
  <2>2. input[1] = <<k, 1>>
    <3> SUFFICES ASSUME input[1] = ZERO
                 PROVE  FALSE
      BY <1>0, <1>1
    <3>1. Length(input[1]) = 0
      BY DEF Length
    <3>2. Payload(input) = SubSeq(input, 3, 2)
      BY <3>1 DEF Payload, HeaderSize
    <3>3. SubSeq(input, 3, 2) = <<>>
      <4>1. /\ SubSeq(input, 3, 2) \in Seq(Cell)
            /\ Len(SubSeq(input, 3, 2)) = IF 3 <= 2 THEN 2 - 3 + 1 ELSE 0
        BY <1>0, SubSeqProperties
      <4>2. Len(SubSeq(input, 3, 2)) = 0
        BY <4>1
      <4> QED
        BY <4>1, <4>2, EmptySeq
    <3> QED
      BY <2>1, <3>2, <3>3 DEF TooSmall
  <2>3. Length(input[1]) = m /\ Len(input) >= 2 + m
    <3>1. Length(input[1]) = m
      BY <2>2, <1>2
    <3>2. ~(Len(input) < 2) /\ ~(Len(input) - 2 < m)
      BY <2>1, <3>1 DEF Truncated, HeaderSize
    <3> QED
      BY <3>1, <3>2, <1>0
  <2>4. Payload(input) # <<>> /\ DOMAIN Payload(input) = 1 .. m
    BY <2>1, <2>3, <1>0, PayloadFacts DEF TooSmall
  <2>5. input[2] = <<k, 2>>
    <3>1. 2 \in 1 .. 2 + m /\ 2 <= Len(input)
      BY <2>3, <1>0
    <3>2. input[2] # ZERO
      BY <2>1, <2>4 DEF CrcMatches
    <3> QED
      BY <3>1, <3>2, <1>1
  <2>6. <<k, 1>> # ZERO /\ <<k, 1>>[1] = k /\ <<k, 2>> # ZERO /\ <<k, 2>>[1] = k
    BY <1>0, NotZero
  <2>7. Payload(input) = PayloadOf(k)
    BY <2>1, <2>5, <2>6 DEF CrcMatches
  <2>8. ParsePayload(input) = sent[k]
    BY <2>2, <2>6, <2>7 DEF ParsePayload
  <2> QED
    BY <2>3, <2>8
<1>5. ASSUME fd # "lost" \/ start[k + 1] <= synced, start[k + 1] <= pos
      PROVE  ~ParseThrows(input)
  <2>1. 2 + m <= Len(input)
    <3>1. start[k] + Len(input) = pos
      BY DEF Recovered
    <3> QED
      BY <3>1, <1>0, <1>5
  <2>2. ASSUME NEW c \in 1 .. 2 + m
        PROVE  input[c] = <<k, c>>
    <3>1. c <= Len(input)
      BY <2>1, <1>0
    <3>2. synced \in Nat /\ c \in Nat /\ c <= 2 + m /\ start[k + 1] = start[k] + (2 + m)
      BY <1>0, Lengths
    <3>3. \A a, b, n \in Nat : \A j \in {1, 2} :
             n <= 2 + j /\ a + (2 + j) <= b => ~(a + n > b)
      OBVIOUS
    <3>4. start[k + 1] <= synced => ~(start[k] + c > synced)
      <4> HIDE DEF k, m
      <4> QED
        BY <3>2, <3>3, <1>0
    <3>5. ~(fd = "lost" /\ start[k] + c > synced)
      BY <3>4, <1>5, Zenon
    <3> QED
      BY <3>1, <3>5, <1>1
  <2>3. input[1] = <<k, 1>> /\ input[2] = <<k, 2>>
    BY <2>2, <1>0
  <2>4. Length(input[1]) = m /\ Len(input) >= 2 + m
    BY <2>1, <2>3, <1>0, <1>2
  <2>5. ~Truncated(input)
    BY <2>4, <1>0 DEF Truncated, HeaderSize
  <2>6. /\ Payload(input) \in Seq(Cell) /\ Len(Payload(input)) = m
        /\ DOMAIN Payload(input) = 1 .. m
        /\ \A c \in 1 .. m : Payload(input)[c] = input[2 + c]
    BY <2>4, <1>0, PayloadFacts
  <2>7. ~TooSmall(input)
    <3>1. Len(<<>>) = 0
      OBVIOUS
    <3> QED
      BY <3>1, <2>6, <1>0 DEF TooSmall
  <2>8. CrcMatches(input)
    <3>1. <<k, 2>> # ZERO /\ <<k, 2>>[1] = k
      BY <1>0, NotZero
    <3>2. \A c \in 1 .. m : Payload(input)[c] = <<k, 2 + c>>
      <4>1. \A c \in 1 .. m : 2 + c \in 1 .. 2 + m
        BY <1>0
      <4> QED
        BY <4>1, <2>2, <2>6
    <3>3. Payload(input) = [c \in 1 .. m |-> <<k, 2 + c>>]
      <4>1. Payload(input) \in [1 .. m -> Cell]
        BY <2>6, LenProperties
      <4> HIDE DEF k
      <4> QED
        BY <4>1, <3>2
    <3>4. Payload(input) = PayloadOf(k)
      BY <3>3, <1>3
    <3> QED
      BY <3>1, <3>4, <2>3 DEF CrcMatches
  <2> QED
    BY <2>5, <2>7, <2>8 DEF ParseThrows
<1> QED
  BY <1>0, <1>4, <1>5 DEF m

-----------------------------------------------------------------------------
(* Cells. *)

LEMMA SliceFacts ==
    ASSUME NEW s \in Seq(Cell), NEW m \in Nat, NEW n \in Nat, m <= n, n <= Len(s)
    PROVE  /\ SubSeq(s, m + 1, n) \in Seq(Cell) /\ Len(SubSeq(s, m + 1, n)) = n - m
           /\ \A p \in 1 .. n - m : SubSeq(s, m + 1, n)[p] = s[m + p]
<1>1. m + 1 \in Int /\ n \in Int /\ Len(s) \in Nat /\ \A j \in m + 1 .. n : j \in 1 .. Len(s)
  BY LenProperties
<1>2. \A j \in m + 1 .. n : s[j] \in Cell
  BY <1>1, ElementOfSeq
<1>3. /\ SubSeq(s, m + 1, n) \in Seq(Cell)
      /\ Len(SubSeq(s, m + 1, n)) = IF m + 1 <= n THEN n - (m + 1) + 1 ELSE 0
      /\ \A p \in 1 .. n - (m + 1) + 1 : SubSeq(s, m + 1, n)[p] = s[(m + 1) + p - 1]
  BY <1>1, <1>2, SubSeqProperties
<1>4. /\ n - (m + 1) + 1 = n - m
      /\ (IF m + 1 <= n THEN n - (m + 1) + 1 ELSE 0) = n - m
      /\ \A p \in 1 .. n - m : (m + 1) + p - 1 = m + p
  OBVIOUS
<1> QED
  BY <1>3, <1>4

LEMMA JoinFacts ==
    ASSUME NEW s \in Seq(Cell), NEW t \in Seq(Cell)
    PROVE  /\ s \o t \in Seq(Cell) /\ Len(s \o t) = Len(s) + Len(t)
           /\ \A p \in 1 .. Len(s) : (s \o t)[p] = s[p]
           /\ \A p \in 1 .. Len(t) : (s \o t)[Len(s) + p] = t[p]
<1>1. Len(s) \in Nat /\ Len(t) \in Nat
  BY LenProperties
<1>2. /\ s \o t \in Seq(Cell) /\ Len(s \o t) = Len(s) + Len(t)
      /\ \A p \in 1 .. Len(s) + Len(t) :
            (s \o t)[p] = IF p <= Len(s) THEN s[p] ELSE t[p - Len(s)]
  BY ConcatProperties
<1>3. \A p \in 1 .. Len(s) : p \in 1 .. Len(s) + Len(t) /\ p <= Len(s)
  BY <1>1
<1>4. \A p \in 1 .. Len(t) : /\ Len(s) + p \in 1 .. Len(s) + Len(t) /\ ~(Len(s) + p <= Len(s))
                             /\ (Len(s) + p) - Len(s) = p
  BY <1>1
<1>5. \A p \in 1 .. Len(s) : (s \o t)[p] = s[p]
  BY <1>2, <1>3
<1>6. \A p \in 1 .. Len(t) : (s \o t)[Len(s) + p] = t[p]
  BY <1>2, <1>4
<1> QED
  BY <1>2, <1>5, <1>6

-----------------------------------------------------------------------------
(* Steps that move no cell. *)

LEMMA InitInv == Init => IInv
<1> SUFFICES ASSUME Init
             PROVE  IInv
  OBVIOUS
<1> DEFINE start == [n \in Nat |-> 0]
<1>1. Len(<<>>) = 0 /\ <<>> \in Seq(Record) /\ <<>> \in Seq(Cell)
  OBVIOUS
<1>2. Typed
  <2>1. Len(file) = 0 /\ Len(sent) = 0
    BY <1>1 DEF Init
  <2>2. /\ synced \in 0 .. Len(file) /\ pos \in 0 .. Len(file)
        /\ acked \in 0 .. written /\ written \in 0 .. Len(sent)
    BY <2>1 DEF Init
  <2>3. TypeOK
    BY <1>1, <2>2 DEF Init, TypeOK
  <2> QED
    BY <1>1, <2>3 DEF Init, Typed
<1>3. start \in Offsets /\ \A n \in Nat : start[n] = 0
  BY DEF Offsets
<1> HIDE DEF start
<1>4. Starts(start)
  BY <1>1, <1>3 DEF Init, Starts
<1>5. Cells(start) /\ Pending(start)
  BY <1>1, <1>3 DEF Init, Cells, Pending
<1>6. Recovered(start)
  BY <1>1, <1>3 DEF Init, Recovered
<1> QED
  BY <1>2, <1>3, <1>4, <1>5, <1>6 DEF IInv, Placed

LEMMA CellsKept ==
    ASSUME NEW start \in Offsets, Starts(start), Cells(start), UNCHANGED <<sent, file>>,
           fd # "lost" \/ UNCHANGED <<fd, synced>>
    PROVE  Starts(start)' /\ Cells(start)'
BY DEF Starts, Cells, FrameSize

\* Before recovery starts there is nothing to say about it.
LEMMA NotRecovering ==
    ASSUME NEW start \in Offsets, Recovered(start), rpc = "no", UNCHANGED recovery,
           start[1] = 0, Len(sent') \in Nat
    PROVE  Recovered(start)'
<1>1. /\ rpc' = "no" /\ pos' = 0 /\ input' = <<>> /\ out' = <<>>
  BY DEF Recovered, recovery
<1>2. Len(<<>>) = 0
  OBVIOUS
<1> QED
  BY <1>1, <1>2 DEF Recovered

LEMMA LocalPlaced ==
    ASSUME Typed, NEW start \in Offsets, Placed(start),
           WriteFails \/ WriteReturns \/ Sync \/ SyncFails \/ Close
    PROVE  Typed' /\ Placed(start)'
<1>0. /\ fd = "open" /\ rpc = "no" /\ UNCHANGED <<file, sent, recovery>>
      /\ UNCHANGED <<input, pos, out, rpc, readFailed>>
  BY DEF WriteFails, WriteReturns, Sync, SyncFails, Close, Placed, Recovered, recovery
<1>1. Starts(start)' /\ Cells(start)'
  BY <1>0, CellsKept DEF Placed
<1>2. Recovered(start)'
  BY <1>0, NotRecovering, Lengths DEF Placed, Starts
<1>3. CASE WriteFails
  <2>1. Typed'
    BY <1>0, <1>3, EmptySeq DEF WriteFails, Typed, TypeOK
  <2>2. Pending(start)'
    BY <1>0, <1>3 DEF WriteFails, Placed, Pending
  <2> QED
    BY <1>1, <1>2, <2>1, <2>2 DEF Placed
<1>4. CASE WriteReturns
  <2>1. /\ written' = written + 1 /\ written' = Len(sent) /\ Len(file) = start[Len(sent) + 1]
        /\ rest = <<>>
    <3>1. /\ rest = <<>> /\ written' = written + 1 /\ written = Len(sent) - 1
          /\ Len(file) + Len(rest) = start[Len(sent) + 1]
      BY <1>0, <1>4 DEF WriteReturns, Placed, Pending
    <3>2. Len(rest) = 0
      BY <3>1
    <3> QED
      BY <3>1, <3>2, Lengths
  <2>2. Typed'
    BY <1>0, <1>4, <2>1, Lengths DEF WriteReturns, Typed, TypeOK
  <2>3. UNCHANGED <<fd, rest, acked, synced>> /\ wpc' = "idle"
    BY <1>4 DEF WriteReturns
  <2>4. Pending(start)'
    BY <1>0, <2>1, <2>3, Lengths DEF Placed, Pending
  <2> QED
    BY <1>1, <1>2, <2>2, <2>4 DEF Placed
<1>5. CASE Sync
  <2>1. Typed'
    BY <1>0, <1>5, Lengths DEF Sync, Typed, TypeOK
  <2>2. Pending(start)'
    BY <1>0, <1>5 DEF Sync, Placed, Pending
  <2> QED
    BY <1>1, <1>2, <2>1, <2>2 DEF Placed
<1>6. CASE SyncFails \/ Close
  <2>1. Typed'
    BY <1>0, <1>6 DEF SyncFails, Close, Typed, TypeOK
  <2>2. Pending(start)'
    BY <1>0, <1>6 DEF SyncFails, Close, Placed, Pending
  <2> QED
    BY <1>1, <1>2, <2>1, <2>2 DEF Placed
<1> QED
  BY <1>3, <1>4, <1>5, <1>6

LEMMA RecoveryPlaced ==
    ASSUME Typed, NEW start \in Offsets, Placed(start),
           Recover \/ (\E err \in BOOLEAN : ReadReturnsZero(err)) \/ ReplayEnds
    PROVE  Typed' /\ Placed(start)'
<1>0. /\ UNCHANGED <<file, sent, fd, synced, rest, wpc, written, acked, input, pos, out>>
  BY DEF Recover, ReadReturnsZero, ReplayEnds, writer
<1>1. Starts(start)' /\ Cells(start)'
  BY <1>0, CellsKept DEF Placed
<1>2. Pending(start)'
  BY <1>0 DEF Placed, Pending
<1>3. HasFrame' <=> HasFrame
  BY <1>0 DEF HasFrame, ParseThrows, Truncated, CrcMatches, TooSmall, Payload, Length,
              PayloadOf
<1>4. Typed'
  BY <1>0 DEF Recover, ReadReturnsZero, ReplayEnds, Typed, TypeOK
<1>5. Recovered(start)'
  BY <1>0, <1>3 DEF Recover, ReadReturnsZero, ReplayEnds, Placed, Recovered
<1> QED
  BY <1>1, <1>2, <1>4, <1>5 DEF Placed

-----------------------------------------------------------------------------
(* Steps that move cells. *)

\* A new frame begins where the last one ends.
LEMMA WritePlaced ==
    ASSUME Typed, NEW start \in Offsets, Placed(start), NEW r \in Record, Write(r)
    PROVE  IInv'
<1> DEFINE size == HeaderSize + PayloadSize(r)
<1> PICK L \in Nat : L = Len(sent)
  BY Lengths
<1>0. /\ fd = "open" /\ wpc = "idle" /\ rpc = "no" /\ L \in Nat /\ size \in Nat
      /\ start[L + 1] \in Nat /\ Len(file) \in Nat
  BY Lengths, SizeFacts, OffsetNat DEF Write, Placed, Recovered
<1>1. /\ sent' = Append(sent, r) /\ rest' = SerializeFrame(L + 1, r) /\ wpc' = "writing"
      /\ UNCHANGED <<file, fd, synced, written, acked, recovery>>
  BY DEF Write
<1>2. /\ sent' \in Seq(Record) /\ Len(sent') = L + 1 /\ sent'[L + 1] = r
      /\ \A n \in 1 .. L : sent'[n] = sent[n]
  <2>1. sent \in Seq(Record)
    BY DEF Typed, TypeOK
  <2> QED
    BY <1>1, <2>1, AppendProperties
<1>3. /\ rest' \in Seq(Cell) /\ Len(rest') = size
      /\ \A j \in 1 .. size : rest'[j] = <<L + 1, j>>
  <2>1. rest' = [c \in 1 .. size |-> <<L + 1, c>>]
    BY <1>1 DEF SerializeFrame
  <2>2. rest' \in [1 .. size -> Cell]
    <3> HIDE DEF size
    <3> QED
      BY <1>0, <2>1 DEF Cell
  <2> HIDE DEF size
  <2>3. rest' \in Seq(Cell) /\ Len(rest') = size
    BY <1>0, <2>2
  <2> QED
    BY <2>1, <2>3
<1>4. PICK next \in Offsets : /\ next[L + 2] = start[L + 1] + size
                             /\ \A n \in 1 .. L + 1 : next[n] = start[n]
  <2> DEFINE next == [start EXCEPT ![L + 2] = start[L + 1] + size]
  <2>1. L + 2 \in Nat /\ start[L + 1] + size \in Nat /\ \A n \in 1 .. L + 1 : n \in Nat /\ n # L + 2
    BY <1>0
  <2> HIDE DEF size
  <2>2. next \in Offsets /\ next[L + 2] = start[L + 1] + size
    BY <2>1 DEF Offsets
  <2>3. \A n \in 1 .. L + 1 : next[n] = start[n]
    BY <2>1 DEF Offsets
  <2> QED
    BY <2>2, <2>3
<1>5. /\ \A n \in 1 .. L : FrameSize(n)' = FrameSize(n)
      /\ FrameSize(L + 1)' = size
  BY <1>2 DEF FrameSize
<1>6. /\ Starts(start) /\ Cells(start) /\ Pending(start) /\ Recovered(start)
      /\ Len(file) = start[L + 1] /\ written = L
  BY <1>0 DEF Placed, Pending
<1>7. Typed'
  BY <1>0, <1>1, <1>2, <1>3, Lengths DEF Typed, TypeOK, recovery
<1> HIDE DEF size
<1>8. Starts(next)'
  <2>1. next[1] = 0
    BY <1>0, <1>4, <1>6 DEF Starts
  <2>2. ASSUME NEW n \in 1 .. L + 1
        PROVE  next[n + 1] = next[n] + FrameSize(n)'
    <3>1. CASE n = L + 1
      BY <1>0, <3>1, <1>4, <1>5
    <3>2. CASE n # L + 1
      <4>1. n \in 1 .. L /\ n + 1 \in 1 .. L + 1
        BY <1>0, <3>2
      <4>2. start[n + 1] = start[n] + FrameSize(n)
        BY <4>1, <1>6 DEF Starts
      <4> QED
        BY <4>1, <4>2, <1>4, <1>5
    <3> QED
      BY <3>1, <3>2
  <2>3. ASSUME NEW m \in 1 .. L + 2, NEW n \in 1 .. L + 2, m <= n
        PROVE  next[m] <= next[n]
    <3>1. CASE n \in 1 .. L + 1
      <4>1. m \in 1 .. L + 1
        BY <1>0, <3>1, <2>3
      <4>2. start[m] <= start[n]
        BY <4>1, <3>1, <2>3, <1>6 DEF Starts
      <4> QED
        BY <4>1, <4>2, <3>1, <1>4
    <3>2. CASE n = L + 2 /\ m \in 1 .. L + 1
      <4>1. start[m] <= start[L + 1] /\ m \in Nat
        <5>1. L + 1 \in 1 .. L + 1 /\ m <= L + 1
          BY <1>0, <3>2
        <5> QED
          BY <5>1, <3>2, <1>6 DEF Starts
      <4>2. start[m] \in Nat
        BY <4>1, OffsetNat
      <4>3. next[m] = start[m] /\ next[n] = start[L + 1] + size
        BY <3>2, <1>4
      <4> QED
        BY <4>1, <4>2, <4>3, <1>0
    <3>3. CASE n = L + 2 /\ m = L + 2
      <4>1. next[n] \in Nat
        BY <1>0, <3>3, <1>4
      <4> QED
        BY <3>3, <4>1
    <3> QED
      BY <3>1, <3>2, <3>3, <1>0
  <2>4. Len(file) <= next[L + 2]
    BY <1>0, <1>4, <1>6
  <2>5. L + 1 + 1 = L + 2
    BY <1>0
  <2> QED
    BY <1>1, <1>2, <2>1, <2>2, <2>3, <2>4, <2>5 DEF Starts
<1>9. Cells(next)'
  <2> SUFFICES ASSUME NEW n \in 1 .. L + 1, NEW c \in 1 .. FrameSize(n)',
                      next[n] + c <= Len(file)
               PROVE  file[next[n] + c] = <<n, c>>
    BY <1>1, <1>2 DEF Cells
  <2>1. n # L + 1
    <3> SUFFICES ASSUME n = L + 1
                 PROVE  FALSE
      OBVIOUS
    <3>1. next[n] = Len(file) /\ c \in Nat /\ c >= 1
      BY <1>0, <1>4, <1>5, <1>6
    <3> QED
      BY <3>1, <1>0
  <2>2. n \in 1 .. L /\ next[n] = start[n] /\ c \in 1 .. FrameSize(n)
    BY <2>1, <1>0, <1>4, <1>5
  <2> QED
    BY <2>2, <1>0, <1>6 DEF Cells
<1>10. Pending(next)'
  <2>1. \A j \in 1 .. size : rest'[j] = <<L + 1, Len(file) - next[L + 1] + j>>
    <3>1. next[L + 1] = Len(file)
      BY <1>0, <1>4, <1>6
    <3>2. \A j \in 1 .. size : Len(file) - next[L + 1] + j = j
      BY <3>1, <1>0
    <3> QED
      BY <3>2, <1>3
  <2>2. next[L + 1] = Len(file) /\ next[L + 2] = Len(file) + size /\ L + 1 + 1 = L + 2
    BY <1>0, <1>4, <1>6
  <2>3. next[acked + 1] <= synced /\ next[written + 1] <= Len(file)
    <3>1. acked + 1 \in 1 .. L + 1 /\ written + 1 \in 1 .. L + 1
      BY <1>0, Lengths
    <3>2. start[acked + 1] <= synced /\ start[written + 1] <= Len(file)
      BY <1>0, <1>6 DEF Pending
    <3> QED
      BY <3>1, <3>2, <1>4
  <2>4. L + 1 > 0 /\ written = (L + 1) - 1
    BY <1>0, <1>6
  <2>5. next[L + 1] <= Len(file) /\ Len(file) + size = next[L + 2]
    BY <2>2, <1>0
  <2> QED
    BY <1>1, <1>2, <1>3, <2>1, <2>2, <2>3, <2>4, <2>5 DEF Pending
<1>11. Recovered(next)'
  <2>1. /\ rpc' = "no" /\ pos' = 0 /\ input' = <<>> /\ out' = <<>> /\ next[1] = 0
    BY <1>0, <1>1, <1>4, <1>6 DEF Recovered, recovery, Starts
  <2>2. Len(<<>>) = 0
    OBVIOUS
  <2> QED
    BY <1>0, <1>2, <2>1, <2>2 DEF Recovered
<1> QED
  BY <1>4, <1>7, <1>8, <1>9, <1>10, <1>11 DEF IInv, Placed

\* write(2) puts the next cells of the frame behind those that are there.
LEMMA WriteSomePlaced ==
    ASSUME Typed, NEW start \in Offsets, Placed(start), NEW n \in 1 .. Len(rest), WriteSome(n)
    PROVE  Typed' /\ Placed(start)'
<1> DEFINE L == Len(sent)
           F == Len(file)
           R == Len(rest)
           b == start[L]
<1>0. /\ fd = "open" /\ wpc = "writing" /\ rpc = "no"
      /\ F \in Nat /\ R \in Nat /\ L \in Nat /\ n \in Nat /\ n <= R /\ n >= 1
      /\ file \in Seq(Cell) /\ rest \in Seq(Cell)
  BY Lengths DEF WriteSome, Placed, Recovered, Typed
<1>1. /\ Starts(start) /\ Cells(start) /\ Recovered(start) /\ Pending(start)
      /\ L > 0 /\ written = L - 1 /\ F + R = start[L + 1] /\ b <= F
      /\ \A j \in 1 .. R : rest[j] = <<L, F - b + j>>
  BY <1>0 DEF Placed, Pending
<1>2. b \in Nat /\ L > 0 /\ F + R = start[L + 1] /\ b <= F
  BY <1>0, <1>1, OffsetNat
<1>3. /\ file' = file \o SubSeq(rest, 1, n) /\ rest' = SubSeq(rest, n + 1, R)
      /\ UNCHANGED <<fd, synced, wpc, sent, written, acked, recovery>>
  BY DEF WriteSome
<1>4. /\ SubSeq(rest, 1, n) \in Seq(Cell) /\ Len(SubSeq(rest, 1, n)) = n
      /\ \A p \in 1 .. n : SubSeq(rest, 1, n)[p] = rest[p]
  <2>1. /\ SubSeq(rest, 0 + 1, n) \in Seq(Cell) /\ Len(SubSeq(rest, 0 + 1, n)) = n - 0
        /\ \A p \in 1 .. n - 0 : SubSeq(rest, 0 + 1, n)[p] = rest[0 + p]
    BY <1>0, SliceFacts
  <2>2. 0 + 1 = 1 /\ n - 0 = n /\ \A p \in 1 .. n : 0 + p = p
    BY <1>0
  <2> QED
    BY <2>1, <2>2
<1>5. /\ file' \in Seq(Cell) /\ Len(file') = F + n
      /\ \A p \in 1 .. F : file'[p] = file[p]
      /\ \A p \in 1 .. n : file'[F + p] = rest[p]
  BY <1>0, <1>3, <1>4, JoinFacts
<1>6. /\ rest' \in Seq(Cell) /\ Len(rest') = R - n
      /\ \A p \in 1 .. R - n : rest'[p] = rest[n + p]
  BY <1>0, <1>3, SliceFacts
<1>7. Typed'
  BY <1>0, <1>3, <1>5, <1>6, Lengths DEF Typed, TypeOK, recovery
<1>8. Starts(start)'
  <2>1. F + n <= start[L + 1]
    BY <1>0, <1>1
  <2> QED
    BY <2>1, <1>1, <1>3, <1>5 DEF Starts, FrameSize
<1> HIDE DEF L, F, R, b
<1>9. Cells(start)'
  <2> SUFFICES ASSUME NEW m \in 1 .. L, NEW c \in 1 .. FrameSize(m), start[m] + c <= F + n
               PROVE  file'[start[m] + c] = <<m, c>>
    BY <1>3, <1>5 DEF Cells, FrameSize, L
  <2> DEFINE p == start[m] + c
  <2>0. /\ start[m] \in Nat /\ FrameSize(m) \in Nat /\ c \in Nat /\ c >= 1 /\ m \in Nat
        /\ c <= FrameSize(m)
    BY <1>0, OffsetNat, SizeFacts DEF FrameSize
  <2>1. CASE p <= F
    <3>1. file[p] = <<m, c>>
      BY <2>1, <1>0, <1>1 DEF Cells, L, F
    <3>2. p \in 1 .. F
      BY <2>0, <2>1, <1>0
    <3> QED
      BY <3>1, <3>2, <1>5
  <2>2. CASE ~(p <= F)
    <3>1. m = L
      <4> SUFFICES ASSUME m + 1 <= L
                   PROVE  FALSE
        BY <1>0, <2>0
      <4>1. m + 1 \in 1 .. L + 1 /\ L \in 1 .. L + 1
        BY <1>0, <1>1, <2>0
      <4>2. start[m + 1] <= b
        BY <4>1, <1>1 DEF Starts, L, b
      <4>3. start[m + 1] = start[m] + FrameSize(m)
        BY <1>1 DEF Starts, L
      <4> QED
        BY <4>2, <4>3, <2>0, <2>2, <1>0, <1>2
    <3>2. /\ p - F \in 1 .. n /\ p - F \in 1 .. R /\ F + (p - F) = p
          /\ F - b + (p - F) = c
      <4>1. p = b + c /\ p \in Nat /\ p <= F + n
        BY <3>1, <2>0 DEF b
      <4> HIDE DEF p
      <4> QED
        BY <4>1, <2>0, <2>2, <1>0, <1>2
    <3>3. file'[p] = rest[p - F]
      BY <3>2, <1>5
    <3>4. rest[p - F] = <<L, c>>
      BY <3>2, <1>1
    <3> QED
      BY <3>1, <3>3, <3>4
  <2> QED
    BY <2>1, <2>2
<1>10. Pending(start)'
  <2>1. ASSUME NEW j \in 1 .. R - n
        PROVE  rest'[j] = <<L, (F + n) - b + j>>
    <3>1. n + j \in 1 .. R /\ F - b + (n + j) = (F + n) - b + j
      BY <1>0, <1>2
    <3>2. rest[n + j] = <<L, F - b + (n + j)>>
      BY <3>1, <1>1
    <3> QED
      BY <3>1, <3>2, <1>6
  <2>2. (F + n) + (R - n) = start[L + 1] /\ b <= F + n
    BY <1>0, <1>1, <1>2
  <2>3. start[acked + 1] <= synced /\ start[written + 1] <= F + n
    <3>1. start[acked + 1] <= synced /\ start[written + 1] <= F /\ written + 1 = L
      BY <1>0, <1>1 DEF Pending, F
    <3> QED
      BY <3>1, <1>0, <1>2 DEF b
  <2> QED
    BY <1>0, <1>1, <1>3, <1>5, <1>6, <2>1, <2>2, <2>3 DEF Pending, L, F, b
<1>11. Recovered(start)'
  BY <1>0, <1>1, <1>3, NotRecovering DEF Starts, L
<1> QED
  BY <1>7, <1>8, <1>9, <1>10, <1>11 DEF Placed

\* A crash leaves what was synced; behind it there may be holes.
LEMMA CrashPlaced ==
    ASSUME Typed, NEW start \in Offsets, Placed(start), NEW size \in synced .. Len(file),
           NEW kept, Crash(size, kept)
    PROVE  Typed' /\ Placed(start)'
<1>0. /\ fd # "lost" /\ rpc = "no" /\ size \in Nat /\ synced <= size /\ size <= Len(file)
      /\ Len(file) \in Nat /\ Len(sent) \in Nat /\ pos = 0
      /\ Starts(start) /\ Cells(start) /\ Pending(start) /\ Recovered(start)
  BY Lengths DEF Crash, Placed, Recovered
<1>1. /\ file' = [p \in 1 .. size |-> IF p <= synced \/ p \in kept THEN file[p] ELSE ZERO]
      /\ fd' = "lost" /\ UNCHANGED <<synced, rest, wpc, sent, written, acked, recovery>>
  BY DEF Crash
<1>2. \A p \in 1 .. size : file'[p] = file[p] \/ (p > synced /\ file'[p] = ZERO)
  BY <1>0, <1>1, Lengths
<1>3. \A p \in 1 .. size : file[p] \in Cell
  <2>1. \A p \in 1 .. size : p \in 1 .. Len(file)
    BY <1>0
  <2> QED
    BY <2>1, ElementOfSeq DEF Typed
<1>4. file' \in [1 .. size -> Cell]
  <2>1. ZERO \in Cell
    BY DEF ZERO, Cell
  <2> QED
    BY <1>1, <1>3, <2>1
<1>5. file' \in Seq(Cell) /\ Len(file') = size
  BY <1>0, <1>4
<1>6. Typed'
  BY <1>0, <1>1, <1>5, Lengths DEF Typed, TypeOK, recovery
<1>7. Starts(start)'
  <2>1. start[Len(sent) + 1] \in Nat
    BY <1>0, OffsetNat
  <2>2. size <= start[Len(sent) + 1]
    BY <1>0, <2>1 DEF Starts
  <2> QED
    BY <2>2, <1>0, <1>1, <1>5 DEF Starts, FrameSize
<1>8. Cells(start)'
  <2> SUFFICES ASSUME NEW n \in 1 .. Len(sent), NEW c \in 1 .. FrameSize(n),
                      start[n] + c <= size
               PROVE  \/ file'[start[n] + c] = <<n, c>>
                      \/ start[n] + c > synced /\ file'[start[n] + c] = ZERO
    BY <1>1, <1>5 DEF Cells, FrameSize
  <2>1. start[n] \in Nat /\ c \in Nat /\ c >= 1
    BY <1>0, OffsetNat, SizeFacts DEF FrameSize
  <2>2. start[n] + c \in 1 .. size /\ start[n] + c <= Len(file)
    BY <2>1, <1>0
  <2>3. file[start[n] + c] = <<n, c>>
    BY <2>2, <1>0 DEF Cells
  <2> QED
    BY <2>2, <2>3, <1>2
<1>9. Pending(start)'
  BY <1>0, <1>1 DEF Pending
<1>10. Recovered(start)'
  BY <1>0, <1>1, NotRecovering DEF Starts
<1> QED
  BY <1>6, <1>7, <1>8, <1>9, <1>10 DEF Placed

\* read(2) continues the input.
LEMMA ReadSomePlaced ==
    ASSUME Typed, NEW start \in Offsets, Placed(start), NEW n \in 1 .. Len(file), ReadSome(n)
    PROVE  Typed' /\ Placed(start)'
<1> DEFINE N == Len(input)
           b == start[Len(out) + 1]
<1>0. /\ rpc = "read" /\ pos + n <= Len(file) /\ n \in Nat /\ n >= 1 /\ N \in Nat /\ pos \in Nat
      /\ Len(file) \in Nat /\ Len(out) \in Nat /\ b \in Nat
      /\ file \in Seq(Cell) /\ input \in Seq(Cell)
  BY Lengths, OffsetNat DEF ReadSome, Typed
<1>1. /\ Starts(start) /\ Cells(start) /\ Pending(start) /\ Recovered(start)
      /\ b + N = pos /\ \A j \in 1 .. N : input[j] = file[b + j]
  BY DEF Placed, Recovered
<1>2. /\ input' = input \o SubSeq(file, pos + 1, pos + n) /\ pos' = pos + n
      /\ UNCHANGED <<file, fd, synced, rest, wpc, sent, written, acked, rpc, readFailed, out>>
  BY DEF ReadSome, writer
<1>3. /\ SubSeq(file, pos + 1, pos + n) \in Seq(Cell)
      /\ Len(SubSeq(file, pos + 1, pos + n)) = n
      /\ \A p \in 1 .. n : SubSeq(file, pos + 1, pos + n)[p] = file[pos + p]
  <2>1. /\ SubSeq(file, pos + 1, pos + n) \in Seq(Cell)
        /\ Len(SubSeq(file, pos + 1, pos + n)) = pos + n - pos
        /\ \A p \in 1 .. pos + n - pos : SubSeq(file, pos + 1, pos + n)[p] = file[pos + p]
    <3>1. pos + n \in Nat /\ pos <= pos + n
      BY <1>0
    <3> QED
      BY <3>1, <1>0, SliceFacts
  <2>2. pos + n - pos = n
    BY <1>0
  <2> QED
    BY <2>1, <2>2
<1>4. /\ input' \in Seq(Cell) /\ Len(input') = N + n
      /\ \A p \in 1 .. N : input'[p] = input[p]
      /\ \A p \in 1 .. n : input'[N + p] = file[pos + p]
  BY <1>0, <1>2, <1>3, JoinFacts
<1>5. Typed'
  BY <1>0, <1>2, <1>4, Lengths DEF Typed, TypeOK
<1>6. Starts(start)' /\ Cells(start)'
  BY <1>1, <1>2, CellsKept
<1>7. Pending(start)'
  BY <1>1, <1>2 DEF Pending
<1>8. \A j \in 1 .. N + n : input'[j] = file[b + j]
  <2> HIDE DEF N, b
  <2> SUFFICES ASSUME NEW j \in 1 .. N + n
               PROVE  input'[j] = file[b + j]
    OBVIOUS
  <2>1. CASE j <= N
    BY <2>1, <1>0, <1>1, <1>4
  <2>2. CASE ~(j <= N)
    <3>1. j - N \in 1 .. n /\ N + (j - N) = j /\ pos + (j - N) = b + j
      BY <2>2, <1>0, <1>1
    <3>2. input'[N + (j - N)] = file[pos + (j - N)]
      BY <3>1, <1>4
    <3> QED
      BY <3>1, <3>2
  <2> QED
    BY <2>1, <2>2
<1>9. Recovered(start)'
  <2>1. b + (N + n) = pos + n
    BY <1>0, <1>1
  <2>2. /\ Len(out) <= Len(sent) /\ \A i \in 1 .. Len(out) : out[i] = sent[i]
        /\ fd # "open"
    BY <1>0, <1>1 DEF Recovered
  <2> QED
    BY <2>1, <2>2, <1>0, <1>2, <1>4, <1>8 DEF Recovered
<1> QED
  BY <1>1, <1>5, <1>6, <1>7, <1>9 DEF Placed

\* A frame that is accepted is the next one of the log.
LEMMA ReplayPlaced ==
    ASSUME Typed, NEW start \in Offsets, Placed(start), Replay
    PROVE  Typed' /\ Placed(start)'
<1> DEFINE N == Len(input)
           m == PayloadSize(sent[Len(out) + 1])
<1> PICK K \in Nat : K = Len(out)
  BY Lengths
<1>0. /\ rpc = "replay" /\ input # <<>> /\ ~ParseThrows(input)
      /\ Starts(start) /\ Cells(start) /\ Pending(start) /\ Recovered(start)
  BY DEF Replay, HasFrame, Placed
<1>1. input \in Seq(Cell) /\ N \in Nat /\ N >= 1 /\ Len(sent) \in Nat
  <2>1. input \in Seq(Cell)
    BY DEF Typed
  <2>2. N \in Nat \ {0}
    BY <1>0, <2>1, EmptySeq
  <2> QED
    BY <2>1, <2>2, Lengths
<1>2. /\ K + 1 \in 1 .. Len(sent)
      /\ start[K + 2] = start[K + 1] + FrameSize(K + 1)
      /\ Length(input[1]) = m /\ ParsePayload(input) = sent[K + 1]
      /\ FrameSize(K + 1) <= N /\ FrameSize(K + 1) = 2 + m /\ m \in {1, 2}
  BY <1>0, <1>1, NextFrame, ParseFacts, SizeFacts DEF FrameSize
<1>3. start[K + 1] \in Nat /\ start[K + 2] \in Nat
  BY OffsetNat
<1>4. /\ out' = Append(out, sent[K + 1])
      /\ input' = SubSeq(input, (2 + m) + 1, N)
      /\ UNCHANGED <<file, fd, synced, rest, wpc, sent, written, acked, rpc, pos, readFailed>>
  BY <1>2 DEF Replay, writer, HeaderSize
<1> HIDE DEF m
<1>5. /\ input' \in Seq(Cell) /\ Len(input') = N - (2 + m)
      /\ \A p \in 1 .. N - (2 + m) : input'[p] = input[(2 + m) + p]
  <2>1. 2 + m \in Nat /\ 2 + m <= N
    BY <1>2
  <2> QED
    BY <2>1, <1>1, <1>4, SliceFacts
<1>6. /\ out' \in Seq(Record) /\ Len(out') = K + 1 /\ out'[K + 1] = sent[K + 1]
      /\ \A i \in 1 .. K : out'[i] = out[i]
  <2>1. out \in Seq(Record) /\ sent \in Seq(Record)
    BY DEF Typed, TypeOK
  <2>2. sent[K + 1] \in Record
    BY <1>2, <2>1, ElementOfSeq
  <2> QED
    BY <1>4, <2>1, <2>2, AppendProperties
<1>7. Typed'
  BY <1>4, <1>5, <1>6 DEF Typed, TypeOK
<1>8. Starts(start)' /\ Cells(start)' /\ Pending(start)'
  <2>1. Starts(start)' /\ Cells(start)'
    BY <1>0, <1>4, CellsKept
  <2>2. Pending(start)'
    BY <1>0, <1>4 DEF Pending
  <2> QED
    BY <2>1, <2>2
<1>9. Recovered(start)'
  <2>1. /\ start[K + 1] + N = pos /\ \A j \in 1 .. N : input[j] = file[start[K + 1] + j]
        /\ \A i \in 1 .. K : out[i] = sent[i]
        /\ fd # "open" /\ (~readFailed => pos = Len(file))
    BY <1>0 DEF Recovered
  <2>2. (K + 1) + 1 = K + 2 /\ K + 1 <= Len(sent)
    BY <1>1, <1>2
  <2> HIDE DEF N
  <2>3. start[K + 2] + (N - (2 + m)) = pos
    BY <2>1, <1>1, <1>2, <1>3
  <2>4. ASSUME NEW j \in 1 .. N - (2 + m)
        PROVE  input'[j] = file[start[K + 2] + j]
    <3>1. (2 + m) + j \in 1 .. N /\ start[K + 1] + ((2 + m) + j) = start[K + 2] + j
      <4>1. start[K + 2] = start[K + 1] + (2 + m) /\ m \in Nat /\ 2 + m <= N /\ j \in Nat
        BY <1>1, <1>2
      <4>2. (2 + m) + j \in 1 .. N
        BY <4>1, <1>1
      <4> QED
        BY <4>1, <4>2, <1>3
    <3>2. input[(2 + m) + j] = file[start[K + 1] + ((2 + m) + j)]
      BY <3>1, <2>1
    <3> QED
      BY <3>1, <3>2, <1>5
  <2>5. ASSUME NEW i \in 1 .. K + 1
        PROVE  out'[i] = sent[i]
    <3>1. i = K + 1 \/ i \in 1 .. K
      OBVIOUS
    <3> QED
      BY <3>1, <2>1, <1>6
  <2> QED
    BY <2>1, <2>2, <2>3, <2>4, <2>5, <1>0, <1>4, <1>5, <1>6 DEF Recovered
<1> QED
  BY <1>7, <1>8, <1>9 DEF Placed

-----------------------------------------------------------------------------
(* The invariant. *)

LEMMA NextInv == IInv /\ [Next]_vars => IInv'
<1> SUFFICES ASSUME Typed, NEW start \in Offsets, Placed(start), [Next]_vars
             PROVE  IInv'
  BY DEF IInv
<1>1. ASSUME NEW r \in Record, Write(r)
      PROVE  IInv'
  BY <1>1, WritePlaced
<1> SUFFICES ASSUME \A r \in Record : ~Write(r)
             PROVE  Typed' /\ Placed(start)'
  BY <1>1 DEF IInv
<1>2. ASSUME NEW n \in 1 .. Len(rest), WriteSome(n)
      PROVE  Typed' /\ Placed(start)'
  BY <1>2, WriteSomePlaced
<1>3. CASE WriteFails \/ WriteReturns \/ Sync \/ SyncFails \/ Close
  BY <1>3, LocalPlaced
<1>4. CASE PowerFailure
  BY <1>4, CrashPlaced DEF PowerFailure
<1>5. CASE Recover \/ (\E err \in BOOLEAN : ReadReturnsZero(err)) \/ ReplayEnds
  BY <1>5, RecoveryPlaced
<1>6. ASSUME NEW n \in 1 .. Len(file), ReadSome(n)
      PROVE  Typed' /\ Placed(start)'
  BY <1>6, ReadSomePlaced
<1>7. CASE Replay
  BY <1>7, ReplayPlaced
<1>8. CASE UNCHANGED vars
  <2>1. UNCHANGED <<file, fd, synced, rest, wpc, sent, written, acked, rpc, input, pos,
                    readFailed, out>>
    BY <1>8 DEF vars, writer, recovery
  <2>2. Typed'
    BY <2>1 DEF Typed, TypeOK
  <2>3. Starts(start)' /\ Cells(start)' /\ Pending(start)'
    BY <2>1, CellsKept DEF Placed, Pending
  <2>4. HasFrame' <=> HasFrame
    BY <2>1 DEF HasFrame, ParseThrows, Truncated, CrcMatches, TooSmall, Payload, Length,
                PayloadOf
  <2>5. Recovered(start)'
    BY <2>1, <2>4 DEF Placed, Recovered
  <2> QED
    BY <2>2, <2>3, <2>5 DEF Placed
<1> QED
  BY <1>2, <1>3, <1>4, <1>5, <1>6, <1>7, <1>8 DEF Next, Writing, Recovering

\* IInv holds in every reachable state.
THEOREM Invariant == Spec => []IInv
<1>1. Init => IInv
  BY InitInv
<1>2. IInv /\ [Next]_vars => IInv'
  BY NextInv
<1> QED
  BY <1>1, <1>2, PTL DEF Spec

\* Every record that recovery hands back is a record, never what bytes nobody
\* wrote decode to.
THEOREM TypeCorrect == Spec => []TypeOK
<1>1. IInv => TypeOK
  BY DEF IInv, Typed
<1> QED
  BY <1>1, Invariant, PTL

\* Recovery replays the first records of the log, in order (ParseFrame, lines
\* 253-279), after every crash and read error.
THEOREM ReplayCorrect == Spec => []ReplayIsPrefix
<1>1. ASSUME IInv
      PROVE  ReplayIsPrefix
  <2>1. PICK start \in Offsets : Placed(start)
    BY <1>1 DEF IInv
  <2> PICK K \in Nat : K = Len(out)
    BY <1>1, Lengths DEF IInv
  <2>2. /\ out \in Seq(Record) /\ sent \in Seq(Record) /\ K <= Len(sent)
        /\ \A n \in 1 .. K : out[n] = sent[n]
    BY <1>1, <2>1 DEF Placed, Recovered, IInv, Typed, TypeOK
  <2>3. Len(sent) \in Nat /\ \A n \in 1 .. K : n \in 1 .. Len(sent)
    BY <2>2, LenProperties
  <2>4. \A n \in 1 .. K : sent[n] \in Record
    BY <2>2, <2>3, ElementOfSeq
  <2>5. /\ SubSeq(sent, 1, K) \in Seq(Record)
        /\ Len(SubSeq(sent, 1, K)) = IF 1 <= K THEN K - 1 + 1 ELSE 0
        /\ \A n \in 1 .. K - 1 + 1 : SubSeq(sent, 1, K)[n] = sent[1 + n - 1]
    BY <2>4, SubSeqProperties
  <2>6. /\ (IF 1 <= K THEN K - 1 + 1 ELSE 0) = K /\ K - 1 + 1 = K
        /\ \A n \in 1 .. K : 1 + n - 1 = n
    OBVIOUS
  <2>7. /\ Len(SubSeq(sent, 1, K)) = K
        /\ \A n \in 1 .. K : SubSeq(sent, 1, K)[n] = out[n]
    BY <2>2, <2>5, <2>6
  <2>8. out = SubSeq(sent, 1, K)
    BY <2>2, <2>5, <2>7, SeqEqual
  <2> QED
    BY <2>2, <2>8 DEF ReplayIsPrefix
<1> QED
  BY <1>1, Invariant, PTL

\* Recovery does not end in front of a record that the file has in full.
LEMMA EndsBehind ==
    ASSUME Typed, NEW start \in Offsets, Placed(start), rpc = "end", ~readFailed,
           NEW n \in 0 .. Len(sent), start[n + 1] <= Len(file),
           fd # "lost" \/ start[n + 1] <= synced
    PROVE  Len(out) >= n
<1> SUFFICES ASSUME Len(out) + 1 <= n
             PROVE  FALSE
  BY Lengths
<1> PICK K \in Nat : K = Len(out)
  BY Lengths
<1>1. /\ ~HasFrame /\ pos = Len(file) /\ start[K + 1] + Len(input) = pos
      /\ Starts(start) /\ Cells(start) /\ Recovered(start)
  BY DEF Placed, Recovered
<1>2. /\ Len(input) \in Nat /\ Len(sent) \in Nat /\ pos \in Nat /\ synced \in Nat
      /\ start[K + 1] \in Nat /\ start[K + 2] \in Nat /\ start[n + 1] \in Nat /\ n \in Nat
  BY Lengths, OffsetNat
<1>3. start[K + 2] <= start[n + 1] /\ start[K + 1] < start[K + 2]
  <2>1. K + 1 \in 1 .. Len(sent) /\ K + 2 \in 1 .. Len(sent) + 1 /\ n + 1 \in 1 .. Len(sent) + 1
        /\ K + 2 <= n + 1 /\ (K + 1) + 1 = K + 2
    BY <1>2
  <2>2. start[K + 2] <= start[n + 1] /\ start[K + 2] = start[K + 1] + FrameSize(K + 1)
    BY <2>1, <1>1 DEF Starts
  <2>3. FrameSize(K + 1) \in Nat /\ FrameSize(K + 1) >= 1
    BY SizeFacts DEF FrameSize
  <2> QED
    BY <2>2, <2>3, <1>2
<1>4. Len(input) >= 1 /\ start[K + 2] <= pos /\ (fd # "lost" \/ start[K + 2] <= synced)
  BY <1>1, <1>2, <1>3
<1>5. (K + 1) + 1 = K + 2
  OBVIOUS
<1>6. ~ParseThrows(input)
  BY <1>1, <1>4, <1>5, ParseFacts
<1>7. input # <<>>
  <2>1. Len(<<>>) = 0
    OBVIOUS
  <2> QED
    BY <2>1, <1>4
<1> QED
  BY <1>1, <1>6, <1>7 DEF HasFrame

\* A record that Write() and a later Sync() returned true for is replayed,
\* whatever a crash leaves behind it.
THEOREM SyncCorrect == Spec => []SyncedReplayed
<1>1. ASSUME IInv
      PROVE  SyncedReplayed
  <2> SUFFICES ASSUME rpc = "end", ~readFailed
               PROVE  Len(out) >= acked
    BY DEF SyncedReplayed
  <2>1. PICK start \in Offsets : Placed(start)
    BY <1>1 DEF IInv
  <2>2. Typed
    BY <1>1 DEF IInv
  <2>3. start[acked + 1] <= synced
    BY <2>1 DEF Placed, Pending
  <2>4. /\ acked \in 0 .. Len(sent) /\ acked + 1 \in Nat
        /\ synced <= Len(file) /\ synced \in Nat /\ Len(file) \in Nat
    BY <2>2, Lengths
  <2>5. start[acked + 1] <= Len(file)
    BY <2>3, <2>4, OffsetNat
  <2> QED
    BY <2>1, <2>2, <2>3, <2>4, <2>5, EndsBehind
<1> QED
  BY <1>1, Invariant, PTL

\* Without a crash, a record that Write() returned true for is replayed.
THEOREM WriteCorrect == Spec => []WrittenReplayed
<1>1. ASSUME IInv
      PROVE  WrittenReplayed
  <2> SUFFICES ASSUME rpc = "end", ~readFailed, fd = "closed"
               PROVE  Len(out) >= written
    BY DEF WrittenReplayed
  <2>1. PICK start \in Offsets : Placed(start)
    BY <1>1 DEF IInv
  <2>2. Typed
    BY <1>1 DEF IInv
  <2>3. start[written + 1] <= Len(file) /\ fd # "lost"
    BY <2>1 DEF Placed, Pending
  <2>4. written \in 0 .. Len(sent)
    BY <2>2, Lengths
  <2> QED
    BY <2>1, <2>2, <2>3, <2>4, EndsBehind
<1> QED
  BY <1>1, Invariant, PTL
=============================================================================
