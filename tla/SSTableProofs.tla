--------------------------- MODULE SSTableProofs ----------------------------
(***************************************************************************)
(* Proofs about the whole table, for every set of keys, any number of      *)
(* blocks, every failed write, power failure and read error.               *)
(*                                                                         *)
(* The file is complete when every buffer lies where the handles say       *)
(* (Laid).  Writing keeps this for the buffers written so far, and a file  *)
(* that is intact or was synced has all of them (Progress, Complete).  A   *)
(* lookup follows the footer to the index, the index to the only block     *)
(* that can hold the key, and finds it there (AskLocal): it depends on the *)
(* footer's handles, the index and that block, and on nothing else of the  *)
(* file.                                                                   *)
(***************************************************************************)
EXTENDS SSTable, SequenceTheorems, FiniteSetTheorems, WellOrder

Handle == [offset : Nat, size : Nat]

\* What a file of this table can hold.
Cells == {ZERO, TORN, <<"magic">>}
           \cup {<<"entry", k>> : k \in Keys}
           \cup {<<"restarts", n>> : n \in Nat}
           \cup {<<"divider", k, h>> : k \in Key, h \in Handle}
           \cup {<<"offsets", n>> : n \in Nat}
           \cup {<<"handles", h>> : h \in Handle}

\* Where the q-th buffer starts in a complete file.
Start == [q \in 1 .. Len(blocks) + 3 |->
             IF q <= Len(blocks) + 1 THEN OffsetOf[q - 1]
             ELSE IF q = Len(blocks) + 2 THEN OffsetOf[Len(blocks)] + Len(blocks) + 1
             ELSE OffsetOf[Len(blocks)] + Len(blocks) + 3]

\* f is the first i of the buffers bs, which start at st.
LaidAt(f, i, st, bs) ==
    /\ Len(f) = st[i + 1]
    /\ \A q \in 1 .. i : st[q + 1] <= Len(f)
    /\ \A q \in 1 .. i : \A j \in 1 .. Len(bs[q]) : f[st[q] + j] = bs[q][j]

Laid(f, i) == LaidAt(f, i, Start, Buffers)

Whole == Len(blocks) + 2

\* Types, and what the phases imply.
Typed ==
    /\ blocks \in Seq((SUBSET Key) \ {{}})
    /\ pc \in {"build", "write", "failed", "written", "down", "read", "answered"}
    /\ file \in Seq(Cells) /\ rest \in Seq(Seq(Cells)) /\ contents \in Seq(Cells)
    /\ synced \in 0 .. Len(file) /\ acked \in BOOLEAN /\ intact \in BOOLEAN
    /\ Len(contents) <= Len(file)
    /\ pc = "build" => rest = <<>> /\ file = <<>>
    /\ pc \notin {"read", "answered"} => contents = <<>> /\ result = NoAnswer
    /\ pc = "read" => result = NoAnswer
    /\ pc = "answered" => key \in Key
    /\ pc \in {"build", "write", "failed"} => ~acked
    /\ pc = "failed" => ~intact
    /\ acked => synced = Len(file)

\* Keys rise from block to block.
Ordered == \A b, c \in 1 .. Len(blocks) :
               b < c => \A x \in blocks[b], y \in blocks[c] : x < y

\* The buffers that are not in `rest` have been written.
Progress ==
    pc = "write" =>
        /\ Len(rest) <= Whole
        /\ Laid(file, Whole - Len(rest))
        /\ \A j \in 1 .. Len(rest) : rest[j] = Buffers[Whole - Len(rest) + j]

Complete ==
    pc \in {"written", "down", "read", "answered"} /\ (intact \/ acked) => Laid(file, Whole)

\* The reader answers from the contents it has.
Reading == \A k \in Key : pc = "answered" /\ key = k => result \in Ask(k)

\* The inductive invariant.
IInv == /\ Typed
        /\ Ordered
        /\ Progress
        /\ Complete
        /\ Reading

-----------------------------------------------------------------------------
(* The keys of a block. *)

\* The keys of S below k.
Lower(S, k) == {j \in S : j < k}

\* Sets of keys are finite sets of numbers.
LEMMA KeySet ==
    ASSUME NEW S \in SUBSET Key
    PROVE  /\ S \subseteq Nat /\ IsFiniteSet(S) /\ Cardinality(S) \in Nat
           /\ \A k \in S : k \in Nat /\ k <= MaxKey
           /\ \A k : Lower(S, k) \in SUBSET S
           /\ \A k : IsFiniteSet(Lower(S, k)) /\ Cardinality(Lower(S, k)) \in Nat
<1>1. MaxKey \in Nat
  BY TableAssumption
<1>2. \A k \in S : k \in Nat /\ k <= MaxKey
  BY <1>1 DEF Key
<1>3. IsFiniteSet(Key)
  BY <1>1, FS_Interval DEF Key
<1>4. IsFiniteSet(S) /\ Cardinality(S) \in Nat
  BY <1>3, FS_Subset, FS_CardinalityType
<1>5. \A k : Lower(S, k) \in SUBSET S
  BY DEF Lower
<1>6. \A k : IsFiniteSet(Lower(S, k)) /\ Cardinality(Lower(S, k)) \in Nat
  BY <1>4, <1>5, FS_Subset, FS_CardinalityType
<1> QED
  BY <1>2, <1>4, <1>5, <1>6

\* The number of smaller keys grows from key to key.
LEMMA LowerGrows ==
    ASSUME NEW S \in SUBSET Key, NEW k \in S
    PROVE  /\ Cardinality(Lower(S, k)) < Cardinality(S)
           /\ \A l \in S : k < l => Cardinality(Lower(S, k)) < Cardinality(Lower(S, l))
<1> DEFINE L == Lower(S, k)
<1>1. IsFiniteSet(L) /\ Cardinality(L) \in Nat /\ k \notin L /\ k \in Nat
  BY KeySet DEF Lower
<1>2. Cardinality(L \cup {k}) = Cardinality(L) + 1
  <2> HIDE DEF L
  <2> QED
    BY <1>1, FS_AddElement
<1>3. ASSUME NEW T, IsFiniteSet(T), Cardinality(T) \in Nat, L \cup {k} \subseteq T
      PROVE  Cardinality(L) < Cardinality(T)
  <2>1. Cardinality(L \cup {k}) <= Cardinality(T)
    BY <1>3, FS_Subset
  <2> QED
    BY <1>1, <1>2, <1>3, <2>1
<1>4. L \cup {k} \subseteq S
  BY DEF Lower
<1>5. \A l \in S : k < l => L \cup {k} \subseteq Lower(S, l)
  BY KeySet DEF Lower
<1> HIDE DEF L
<1>6. Cardinality(L) < Cardinality(S)
  BY <1>3, <1>4, KeySet
<1>7. \A l \in S : k < l => Cardinality(L) < Cardinality(Lower(S, l))
  BY <1>3, <1>5, KeySet
<1> QED
  BY <1>6, <1>7 DEF L

\* A non-empty set of keys has a least and a greatest element.
LEMMA LeastFacts ==
    ASSUME NEW S \in SUBSET Key, S # {}
    PROVE  Least(S) \in S /\ \A k \in S : Least(S) <= k
<1>1. \E m \in S : \A n \in S : m <= n
  BY KeySet, NatMin
<1> QED
  BY <1>1 DEF Least

\* Every place of a block has a key, and every key a place.
LEMMA NthFacts ==
    ASSUME NEW S \in SUBSET Key
    PROVE  /\ \A n \in 1 .. Cardinality(S) : Nth(S, n) \in S
           /\ \A k \in S : \E n \in 1 .. Cardinality(S) : Nth(S, n) = k
<1> DEFINE P(k, n) == Cardinality(Lower(S, k)) = n
           T == {n \in Nat : n < Cardinality(S) => \E k \in S : P(k, n)}
<1>1. /\ Cardinality(S) \in Nat /\ IsFiniteSet(S)
      /\ \A k \in S : k \in Nat /\ Cardinality(Lower(S, k)) \in Nat
  BY KeySet
<1>2. 0 \in T
  <2> SUFFICES ASSUME 0 < Cardinality(S)
               PROVE  \E k \in S : P(k, 0)
    OBVIOUS
  <2>1. S # {}
    BY <1>1, FS_EmptySet
  <2>2. Least(S) \in S /\ \A k \in S : Least(S) <= k
    BY <2>1, LeastFacts
  <2>3. PICK k \in S : \A j \in S : k <= j
    BY <2>2
  <2>4. \A j \in S : ~(j < k)
    BY <1>1, <2>3
  <2>5. Lower(S, k) = {}
    BY <2>4, Zenon DEF Lower
  <2> QED
    BY <2>3, <2>5, FS_EmptySet
<1>3. ASSUME NEW n \in Nat, n \in T
      PROVE  n + 1 \in T
  <2> SUFFICES ASSUME n + 1 < Cardinality(S)
               PROVE  \E k \in S : P(k, n + 1)
    OBVIOUS
  <2>1. PICK k \in S : P(k, n)
    BY <1>1, <1>3
  <2> DEFINE U == {j \in S : k < j}
  <2>2. Lower(S, k) \cup {k} # S
    <3>1. k \notin Lower(S, k) /\ IsFiniteSet(Lower(S, k))
      BY <1>1, KeySet DEF Lower
    <3>2. Cardinality(Lower(S, k) \cup {k}) = n + 1
      BY <2>1, <3>1, FS_AddElement
    <3>3. ASSUME Lower(S, k) \cup {k} = S
          PROVE  FALSE
      <4>1. Cardinality(S) = n + 1
        BY <3>2, <3>3, Zenon
      <4> QED
        BY <1>1, <4>1
    <3> QED
      BY <3>3
  <2>3. U # {} /\ U \in SUBSET Key
    <3>1. Lower(S, k) \cup {k} \subseteq S
      BY DEF Lower
    <3>2. PICK j \in S : j \notin Lower(S, k) \cup {k}
      BY <2>2, <3>1
    <3>3. ~(j < k) /\ j # k
      BY <3>2, Zenon DEF Lower
    <3>4. k < j
      BY <1>1, <3>3
    <3> QED
      BY <3>4
  <2>4. PICK l \in U : \A j \in U : l <= j
    <3> HIDE DEF U
    <3> QED
      BY <2>3, LeastFacts
  <2>5. Lower(S, l) = Lower(S, k) \cup {k}
    <3>1. l \in S /\ k < l /\ \A j \in S : k < j => l <= j
      BY <2>4
    <3>2. \A j \in S : j < l <=> j < k \/ j = k
      BY <1>1, <3>1
    <3> QED
      BY <3>1, <3>2 DEF Lower
  <2>6. Cardinality(Lower(S, l)) = n + 1
    <3>1. k \notin Lower(S, k) /\ IsFiniteSet(Lower(S, k))
      BY <1>1, KeySet DEF Lower
    <3> QED
      BY <2>1, <2>5, <3>1, FS_AddElement
  <2> QED
    BY <2>4, <2>6
<1>4. \A n \in Nat : n \in T
  <2> HIDE DEF T
  <2> QED
    BY <1>2, <1>3, NatInduct
<1>5. \A k, l \in S : Cardinality(Lower(S, k)) = Cardinality(Lower(S, l)) => k = l
  <2> SUFFICES ASSUME NEW k \in S, NEW l \in S,
                      Cardinality(Lower(S, k)) = Cardinality(Lower(S, l))
               PROVE  k = l
    OBVIOUS
  <2>1. ~(k < l) /\ ~(l < k)
    BY <1>1, LowerGrows
  <2> QED
    BY <1>1, <2>1
<1>6. \A n : Nth(S, n) = CHOOSE k \in S : P(k, n - 1)
  BY DEF Nth, Lower
<1>7. ASSUME NEW n \in 1 .. Cardinality(S)
      PROVE  Nth(S, n) \in S
  <2>1. n - 1 \in Nat /\ n - 1 < Cardinality(S)
    BY <1>1
  <2>2. \E k \in S : P(k, n - 1)
    BY <1>4, <2>1
  <2> HIDE DEF P
  <2> QED
    BY <1>6, <2>2
<1>8. ASSUME NEW k \in S
      PROVE  \E n \in 1 .. Cardinality(S) : Nth(S, n) = k
  <2> DEFINE n == Cardinality(Lower(S, k)) + 1
  <2>1. n \in 1 .. Cardinality(S) /\ n - 1 = Cardinality(Lower(S, k))
    BY <1>1, LowerGrows
  <2> HIDE DEF n
  <2>2. P(k, n - 1)
    BY <2>1
  <2>3. \A l \in S : P(l, n - 1) => l = k
    BY <1>5, <2>1
  <2> HIDE DEF P
  <2>4. Nth(S, n) = k
    BY <1>6, <2>2, <2>3
  <2> QED
    BY <2>1, <2>4
<1> QED
  BY <1>7, <1>8

-----------------------------------------------------------------------------
(* The layout. *)

BlocksOK == blocks \in Seq((SUBSET Key) \ {{}})

\* The sets of keys a block can hold.
LEMMA NonEmpty ==
    \A S : S \in (SUBSET Key) \ {{}} <=> S \in SUBSET Key /\ S # {}
BY Zenon

\* A block has at least one key; all are keys of the table.
LEMMA BlockFacts ==
    ASSUME BlocksOK
    PROVE  /\ Len(blocks) \in Nat /\ DOMAIN blocks = 1 .. Len(blocks)
           /\ \A b \in 1 .. Len(blocks) :
                 /\ blocks[b] \in SUBSET Key /\ blocks[b] # {} /\ blocks[b] \subseteq Keys
                 /\ Cardinality(blocks[b]) \in Nat /\ Divider(b) \in Key
                 /\ Divider(b) \in blocks[b] /\ \A k \in blocks[b] : Divider(b) <= k
<1>1. Len(blocks) \in Nat /\ DOMAIN blocks = 1 .. Len(blocks)
  BY LenProperties DEF BlocksOK
<1>2. \A b \in 1 .. Len(blocks) : blocks[b] \in SUBSET Key /\ blocks[b] # {}
  <2> DEFINE T == (SUBSET Key) \ {{}}
  <2>1. \A S \in T : S \in SUBSET Key /\ S # {}
    BY NonEmpty
  <2>2. blocks \in Seq(T)
    BY DEF BlocksOK
  <2> HIDE DEF T
  <2>3. \A b \in 1 .. Len(blocks) : blocks[b] \in T
    BY <2>2, ElementOfSeq
  <2> QED
    BY <2>1, <2>3
<1>3. \A b \in 1 .. Len(blocks) : blocks[b] \subseteq Keys
  BY <1>1 DEF Keys
<1>4. ASSUME NEW b \in 1 .. Len(blocks)
      PROVE  /\ Cardinality(blocks[b]) \in Nat /\ Divider(b) \in Key
             /\ Divider(b) \in blocks[b] /\ \A k \in blocks[b] : Divider(b) <= k
  <2>1. blocks[b] \in SUBSET Key /\ blocks[b] # {}
    BY <1>2
  <2> QED
    BY <2>1, KeySet, LeastFacts DEF Divider
<1> QED
  BY <1>1, <1>2, <1>3, <1>4

\* f adds up the sizes of the first c blocks.
Sums(f, c) == \A b \in 0 .. c :
                  f[b] = IF b = 0 THEN 0 ELSE f[b - 1] + Cardinality(blocks[b]) + 1

\* The recursive definition of OffsetOf has a solution.
LEMMA OffsetExists ==
    ASSUME BlocksOK
    PROVE  \E f \in [0 .. Len(blocks) -> Nat] : Sums(f, Len(blocks))
<1> DEFINE B == Len(blocks)
           S == {c \in Nat : c <= B => \E f \in [0 .. c -> Nat] : Sums(f, c)}
<1>0. B \in Nat /\ \A b \in 1 .. B : Cardinality(blocks[b]) \in Nat
  BY BlockFacts
<1> HIDE DEF B
<1>1. 0 \in S
  <2>1. [n \in 0 .. 0 |-> 0] \in [0 .. 0 -> Nat]
    OBVIOUS
  <2>2. Sums([n \in 0 .. 0 |-> 0], 0)
    BY DEF Sums
  <2> QED
    BY <2>1, <2>2
<1>2. ASSUME NEW c \in Nat, c \in S
      PROVE  c + 1 \in S
  <2> SUFFICES ASSUME c + 1 <= B
               PROVE  \E f \in [0 .. c + 1 -> Nat] : Sums(f, c + 1)
    OBVIOUS
  <2>1. PICK f \in [0 .. c -> Nat] : Sums(f, c)
    BY <1>0, <1>2
  <2> DEFINE x == f[c] + Cardinality(blocks[c + 1]) + 1
             g == [n \in 0 .. c + 1 |-> IF n = c + 1 THEN x ELSE f[n]]
  <2>2. x \in Nat
    <3>1. f[c] \in Nat /\ c + 1 \in 1 .. B
      BY <1>0
    <3> QED
      BY <1>0, <3>1
  <2> HIDE DEF x
  <2>3. g \in [0 .. c + 1 -> Nat]
    BY <2>2
  <2>4. ASSUME NEW b \in 0 .. c + 1
        PROVE  g[b] = IF b = 0 THEN 0 ELSE g[b - 1] + Cardinality(blocks[b]) + 1
    <3>1. CASE b = c + 1
      <4>1. b # 0 /\ b - 1 = c /\ g[b] = x /\ g[b - 1] = f[c]
        BY <3>1
      <4> QED
        BY <3>1, <4>1 DEF x
    <3>2. CASE b # c + 1
      <4>1. b \in 0 .. c /\ g[b] = f[b] /\ (b # 0 => g[b - 1] = f[b - 1])
        BY <3>2
      <4>2. f[b] = IF b = 0 THEN 0 ELSE f[b - 1] + Cardinality(blocks[b]) + 1
        BY <2>1, <4>1 DEF Sums
      <4> QED
        BY <4>1, <4>2
    <3> QED
      BY <3>1, <3>2
  <2> HIDE DEF g
  <2> QED
    BY <2>3, <2>4 DEF Sums
<1>3. \A c \in Nat : c \in S
  <2> HIDE DEF S
  <2> QED
    BY <1>1, <1>2, NatInduct
<1>4. B <= B
  BY <1>0
<1> QED
  BY <1>0, <1>3, <1>4 DEF B

\* OffsetOf adds up the sizes of the blocks.
LEMMA OffsetFacts ==
    ASSUME BlocksOK
    PROVE  /\ \A b \in 0 .. Len(blocks) : OffsetOf[b] \in Nat
           /\ OffsetOf[0] = 0
           /\ \A b \in 1 .. Len(blocks) :
                 OffsetOf[b] = OffsetOf[b - 1] + Cardinality(blocks[b]) + 1
<1> DEFINE B == Len(blocks)
           D(f) == [b \in 0 .. B |->
                      IF b = 0 THEN 0 ELSE f[b - 1] + Cardinality(blocks[b]) + 1]
           S == {c \in Nat : c <= B => OffsetOf[c] \in Nat}
<1>0. B \in Nat /\ \A b \in 1 .. B : Cardinality(blocks[b]) \in Nat
  BY BlockFacts
<1>1. OffsetOf = CHOOSE f : f = D(f)
  BY DEF OffsetOf
<1>2. \E f : f = D(f)
  <2>1. PICK f \in [0 .. B -> Nat] : Sums(f, B)
    BY OffsetExists
  <2>2. f = D(f)
    BY <2>1 DEF Sums
  <2> QED
    BY <2>2
<1>3. OffsetOf = D(OffsetOf)
  <2> HIDE DEF D
  <2> QED
    BY <1>1, <1>2
<1> HIDE DEF B
<1>4. OffsetOf[0] = 0
  BY <1>0, <1>3
<1>5. \A b \in 1 .. B : OffsetOf[b] = OffsetOf[b - 1] + Cardinality(blocks[b]) + 1
  <2> TAKE b \in 1 .. B
  <2>1. b \in 0 .. B /\ b # 0
    BY <1>0
  <2> QED
    BY <1>3, <2>1
<1>6. 0 \in S
  BY <1>4
<1>7. ASSUME NEW c \in Nat, c \in S
      PROVE  c + 1 \in S
  <2> SUFFICES ASSUME c + 1 <= B
               PROVE  OffsetOf[c + 1] \in Nat
    OBVIOUS
  <2>1. c + 1 \in 1 .. B /\ (c + 1) - 1 = c /\ OffsetOf[c] \in Nat
    BY <1>0, <1>7
  <2>2. OffsetOf[c + 1] = OffsetOf[c] + Cardinality(blocks[c + 1]) + 1
    BY <1>5, <2>1
  <2> QED
    BY <1>0, <2>1, <2>2
<1>8. \A c \in Nat : c \in S
  <2> HIDE DEF S
  <2> QED
    BY <1>6, <1>7, NatInduct
<1>9. \A b \in 0 .. B : OffsetOf[b] \in Nat
  BY <1>0, <1>8
<1> QED
  BY <1>4, <1>5, <1>9 DEF B

\* A function on 1 .. n is a sequence.
LEMMA FunctionIsSeq ==
    ASSUME NEW S, NEW n \in Nat, NEW f \in [1 .. n -> S]
    PROVE  f \in Seq(S) /\ Len(f) = n
OBVIOUS

\* The kinds of cells.
LEMMA CellFacts ==
    /\ ZERO \in Cells /\ TORN \in Cells /\ <<"magic">> \in Cells
    /\ \A k \in Keys : <<"entry", k>> \in Cells
    /\ \A n \in Nat : <<"restarts", n>> \in Cells /\ <<"offsets", n>> \in Cells
    /\ \A k \in Key, h \in Handle : <<"divider", k, h>> \in Cells
    /\ \A h \in Handle : <<"handles", h>> \in Cells
BY DEF Cells

\* The first bytes of a sequence of cells.
LEMMA CutFacts ==
    ASSUME NEW s \in Seq(Cells), NEW n \in 0 .. Len(s), NEW part
    PROVE  /\ Cut(s, n, part) \in Seq(Cells)
           /\ Len(Cut(s, n, part)) = IF part THEN n + 1 ELSE n
<1> DEFINE d == SubSeq(s, 1, n)
           e == IF part THEN <<TORN>> ELSE <<>>
<1>1. Len(s) \in Nat /\ n \in Int /\ 1 \in Int
  BY LenProperties
<1>2. \A i \in 1 .. n : s[i] \in Cells
  <2> TAKE i \in 1 .. n
  <2>1. i \in 1 .. Len(s)
    BY <1>1
  <2> QED
    BY <2>1, ElementOfSeq
<1>3. d \in Seq(Cells) /\ Len(d) = IF 1 <= n THEN n - 1 + 1 ELSE 0
  BY <1>1, <1>2, SubSeqProperties
<1>4. Len(d) = n
  BY <1>1, <1>3
<1>5. e \in Seq(Cells) /\ Len(e) = IF part THEN 1 ELSE 0
  <2>1. <<TORN>> \in Seq(Cells) /\ Len(<<TORN>>) = 1
    BY CellFacts
  <2>2. <<>> \in Seq(Cells) /\ Len(<<>>) = 0
    BY EmptySeq
  <2> QED
    BY <2>1, <2>2
<1>6. Cut(s, n, part) = d \o e
  BY DEF Cut
<1> HIDE DEF d, e
<1>7. d \o e \in Seq(Cells) /\ Len(d \o e) = Len(d) + Len(e)
  BY <1>3, <1>5, ConcatProperties
<1> QED
  BY <1>1, <1>4, <1>5, <1>6, <1>7

\* The buffer of a data block: its keys and a trailer.
LEMMA DataBufferFacts ==
    ASSUME BlocksOK, NEW b \in 1 .. Len(blocks)
    PROVE  LET S == blocks[b]
               d == DataBuffer(S)
           IN  /\ d \in Seq(Cells) /\ Len(d) = Cardinality(S) + 1
               /\ \A n \in 1 .. Cardinality(S) : d[n] = <<"entry", Nth(S, n)>>
               /\ d[Cardinality(S) + 1] = <<"restarts", Cardinality(S)>>
<1> DEFINE S == blocks[b]
           N == Cardinality(S)
           f == [n \in 1 .. N |-> <<"entry", Nth(S, n)>>]
<1>1. S \in SUBSET Key /\ S \subseteq Keys /\ N \in Nat
  BY BlockFacts
<1>2. \A n \in 1 .. N : <<"entry", Nth(S, n)>> \in Cells
  <2> HIDE DEF S
  <2> QED
    BY <1>1, NthFacts, CellFacts
<1>3. <<"restarts", N>> \in Cells
  BY <1>1, CellFacts
<1> HIDE DEF S, N
<1>4. f \in [1 .. N -> Cells]
  BY <1>2
<1>5. \A n \in 1 .. N : f[n] = <<"entry", Nth(S, n)>>
  OBVIOUS
<1> HIDE DEF f
<1>6. f \in Seq(Cells) /\ Len(f) = N
  BY <1>1, <1>4, FunctionIsSeq
<1>7. DataBuffer(S) = Append(f, <<"restarts", N>>)
  BY DEF DataBuffer, f, N
<1>8. /\ DataBuffer(S) \in Seq(Cells) /\ Len(DataBuffer(S)) = N + 1
      /\ \A n \in 1 .. N : DataBuffer(S)[n] = f[n]
      /\ DataBuffer(S)[N + 1] = <<"restarts", N>>
  BY <1>3, <1>6, <1>7, AppendProperties
<1> QED
  BY <1>5, <1>8 DEF S, N

\* Handles and dividers of the index.
LEMMA IndexBufferFacts ==
    ASSUME BlocksOK
    PROVE  /\ IndexBuffer \in Seq(Cells) /\ Len(IndexBuffer) = Len(blocks) + 1
           /\ \A b \in 1 .. Len(blocks) : IndexBuffer[b] = <<"divider", Divider(b), HandleOf(b)>>
           /\ IndexBuffer[Len(blocks) + 1] = <<"offsets", Len(blocks)>>
<1> DEFINE B == Len(blocks)
           f == [b \in 1 .. B |-> <<"divider", Divider(b), HandleOf(b)>>]
<1>1. B \in Nat /\ DOMAIN blocks = 1 .. B
  BY BlockFacts
<1>2. \A b \in 1 .. B : <<"divider", Divider(b), HandleOf(b)>> \in Cells
  <2> TAKE b \in 1 .. B
  <2>1. b - 1 \in 0 .. B /\ Divider(b) \in Key /\ Cardinality(blocks[b]) \in Nat
    BY <1>1, BlockFacts
  <2>2. OffsetOf[b - 1] \in Nat
    BY <2>1, OffsetFacts
  <2>3. HandleOf(b) \in Handle
    BY <2>1, <2>2 DEF HandleOf, Handle
  <2> QED
    BY <2>1, <2>3, CellFacts
<1>3. <<"offsets", B>> \in Cells
  BY <1>1, CellFacts
<1>4. IndexBuffer = Append(f, <<"offsets", B>>)
  BY <1>1 DEF IndexBuffer
<1> HIDE DEF B
<1>5. f \in [1 .. B -> Cells] /\ \A b \in 1 .. B : f[b] = <<"divider", Divider(b), HandleOf(b)>>
  BY <1>2
<1> HIDE DEF f
<1>6. f \in Seq(Cells) /\ Len(f) = B
  BY <1>1, <1>5, FunctionIsSeq
<1>7. /\ IndexBuffer \in Seq(Cells) /\ Len(IndexBuffer) = B + 1
      /\ \A b \in 1 .. B : IndexBuffer[b] = f[b]
      /\ IndexBuffer[B + 1] = <<"offsets", B>>
  BY <1>3, <1>4, <1>6, AppendProperties
<1> QED
  BY <1>5, <1>7 DEF B

\* The footer and its handle.
LEMMA FooterBufferFacts ==
    ASSUME BlocksOK
    PROVE  /\ FooterBuffer \in Seq(Cells) /\ Len(FooterBuffer) = 2
           /\ FooterBuffer[1] = <<"handles", IndexHandle>> /\ FooterBuffer[2] = <<"magic">>
           /\ IndexHandle \in Handle
<1>1. Len(blocks) \in Nat /\ Len(blocks) \in 0 .. Len(blocks)
  BY BlockFacts
<1>2. OffsetOf[Len(blocks)] \in Nat
  BY <1>1, OffsetFacts
<1>3. IndexHandle \in Handle
  BY <1>1, <1>2 DEF IndexHandle, Handle
<1>4. FooterBuffer = <<<<"handles", IndexHandle>>, <<"magic">>>>
  BY DEF FooterBuffer
<1>5. <<"handles", IndexHandle>> \in Cells /\ <<"magic">> \in Cells
  BY <1>3, CellFacts
<1> QED
  BY <1>3, <1>4, <1>5

\* The buffers in the order of the file.
LEMMA BuffersFacts ==
    ASSUME BlocksOK
    PROVE  /\ Whole \in Nat /\ Len(blocks) \in Nat /\ Whole = Len(blocks) + 2
           /\ Buffers \in Seq(Seq(Cells)) /\ Len(Buffers) = Whole
           /\ \A b \in 1 .. Len(blocks) : Buffers[b] = DataBuffer(blocks[b])
           /\ Buffers[Len(blocks) + 1] = IndexBuffer
           /\ Buffers[Len(blocks) + 2] = FooterBuffer
<1> DEFINE B == Len(blocks)
           C == Seq(Cells)
           f == [b \in 1 .. B |-> DataBuffer(blocks[b])]
           g == <<IndexBuffer, FooterBuffer>>
<1>1. B \in Nat /\ DOMAIN blocks = 1 .. B
  BY BlockFacts
<1>2. \A b \in 1 .. B : DataBuffer(blocks[b]) \in C
  BY DataBufferFacts
<1>3. IndexBuffer \in C /\ FooterBuffer \in C
  BY IndexBufferFacts, FooterBufferFacts
<1>4. Buffers = f \o g
  BY <1>1 DEF Buffers
<1>5. Whole = B + 2
  BY DEF Whole
<1> HIDE DEF B, C
<1>6. f \in [1 .. B -> C] /\ \A b \in 1 .. B : f[b] = DataBuffer(blocks[b])
  BY <1>2
<1>7. g \in Seq(C) /\ Len(g) = 2 /\ g[1] = IndexBuffer /\ g[2] = FooterBuffer
  BY <1>3
<1> HIDE DEF f, g
<1>8. f \in Seq(C) /\ Len(f) = B
  BY <1>1, <1>6, FunctionIsSeq
<1>9. /\ Buffers \in Seq(C) /\ Len(Buffers) = B + 2
      /\ \A i \in 1 .. B + 2 : Buffers[i] = IF i <= B THEN f[i] ELSE g[i - B]
  <2>1. g \in Seq(C)
    BY <1>7
  <2>2. /\ f \o g \in Seq(C) /\ Len(f \o g) = Len(f) + Len(g)
        /\ \A i \in 1 .. Len(f) + Len(g) :
              (f \o g)[i] = IF i <= Len(f) THEN f[i] ELSE g[i - Len(f)]
    BY <1>8, <2>1, ConcatProperties, Zenon
  <2>3. Len(f) = B /\ Len(g) = 2
    BY <1>7, <1>8
  <2> QED
    BY <1>4, <2>2, <2>3, Zenon
<1>10. \A b \in 1 .. B : Buffers[b] = f[b]
  BY <1>1, <1>9
<1>11. Buffers[B + 1] = g[1] /\ Buffers[B + 2] = g[2]
  <2>1. /\ B + 1 \in 1 .. B + 2 /\ ~(B + 1 <= B) /\ (B + 1) - B = 1
        /\ B + 2 \in 1 .. B + 2 /\ ~(B + 2 <= B) /\ (B + 2) - B = 2
    BY <1>1
  <2> QED
    BY <1>9, <2>1
<1> QED
  BY <1>1, <1>5, <1>6, <1>7, <1>9, <1>10, <1>11 DEF B, C

\* Each buffer starts where the one before it ends.
LEMMA StartFacts ==
    ASSUME BlocksOK
    PROVE  /\ Start[1] = 0
           /\ \A q \in 1 .. Whole + 1 : Start[q] \in Nat
           /\ \A q \in 1 .. Whole : /\ Buffers[q] \in Seq(Cells) /\ Len(Buffers[q]) \in Nat
                                    /\ Start[q + 1] = Start[q] + Len(Buffers[q])
           /\ \A b \in 1 .. Len(blocks) : /\ HandleOf(b).offset = Start[b]
                                          /\ HandleOf(b).size = Len(Buffers[b])
           /\ IndexHandle.offset = Start[Len(blocks) + 1]
           /\ IndexHandle.size = Len(Buffers[Len(blocks) + 1])
           /\ Start[Whole + 1] = Start[Whole] + 2
<1> DEFINE B == Len(blocks)
<1>1. B \in Nat /\ Whole = B + 2
  BY BuffersFacts
<1>2. /\ \A b \in 0 .. B : OffsetOf[b] \in Nat
      /\ OffsetOf[0] = 0
      /\ \A b \in 1 .. B : OffsetOf[b] = OffsetOf[b - 1] + Cardinality(blocks[b]) + 1
  BY OffsetFacts
<1>3. /\ \A q \in 1 .. B + 1 : Start[q] = OffsetOf[q - 1]
      /\ Start[B + 2] = OffsetOf[B] + B + 1 /\ Start[B + 3] = OffsetOf[B] + B + 3
  BY <1>1 DEF Start
<1>4. /\ \A b \in 1 .. B : Len(Buffers[b]) = Cardinality(blocks[b]) + 1
      /\ Len(Buffers[B + 1]) = B + 1 /\ Len(Buffers[B + 2]) = 2
  BY BuffersFacts, DataBufferFacts, IndexBufferFacts, FooterBufferFacts
<1>5. \A b \in 1 .. B : HandleOf(b).offset = OffsetOf[b - 1] /\ HandleOf(b).size = Cardinality(blocks[b]) + 1
  BY DEF HandleOf
<1>6. IndexHandle.offset = OffsetOf[B] /\ IndexHandle.size = B + 1
  BY DEF IndexHandle
<1>7. \A q \in 1 .. Whole : Buffers[q] \in Seq(Cells) /\ Len(Buffers[q]) \in Nat
  <2> TAKE q \in 1 .. Whole
  <2>1. Buffers[q] \in Seq(Cells)
    BY BuffersFacts, ElementOfSeq
  <2> QED
    BY <2>1, LenProperties
<1> HIDE DEF B
<1>8. Start[1] = 0
  <2>1. 1 \in 1 .. B + 1 /\ 1 - 1 = 0
    BY <1>1
  <2> QED
    BY <1>2, <1>3, <2>1
<1>9. \A q \in 1 .. Whole + 1 : Start[q] \in Nat
  <2> TAKE q \in 1 .. Whole + 1
  <2>1. CASE q <= B + 1
    <3>1. q \in 1 .. B + 1 /\ q - 1 \in 0 .. B
      BY <1>1, <2>1
    <3> QED
      BY <1>2, <1>3, <3>1
  <2>2. CASE q > B + 1
    <3>1. (q = B + 2 \/ q = B + 3) /\ B \in 0 .. B
      BY <1>1, <2>2
    <3>2. OffsetOf[B] \in Nat
      BY <1>2, <3>1
    <3> QED
      BY <1>1, <1>3, <3>1, <3>2
  <2> QED
    BY <1>1, <2>1, <2>2
<1>10. ASSUME NEW q \in 1 .. Whole
       PROVE  Start[q + 1] = Start[q] + Len(Buffers[q])
  <2>1. CASE q <= B
    <3>1. /\ q \in 1 .. B + 1 /\ q + 1 \in 1 .. B + 1 /\ (q + 1) - 1 = q
          /\ q \in 1 .. B /\ q - 1 \in 0 .. B /\ q \in 0 .. B
      BY <1>1, <2>1
    <3>2. Start[q + 1] = OffsetOf[q] /\ Start[q] = OffsetOf[q - 1]
      BY <1>3, <3>1
    <3>3. OffsetOf[q] = OffsetOf[q - 1] + Cardinality(blocks[q]) + 1
      BY <1>2, <3>1
    <3>4. OffsetOf[q - 1] \in Nat /\ Len(Buffers[q]) = Cardinality(blocks[q]) + 1
      BY <1>2, <1>4, <3>1
    <3>5. Cardinality(blocks[q]) \in Nat
      BY <3>1, BlockFacts DEF B
    <3> QED
      BY <3>2, <3>3, <3>4, <3>5
  <2>2. CASE q > B
    <3>1. (q = B + 1 \/ q = B + 2) /\ B \in 0 .. B /\ B + 1 \in 1 .. B + 1 /\ (B + 1) - 1 = B
      BY <1>1, <2>2
    <3>2. OffsetOf[B] \in Nat /\ Start[B + 1] = OffsetOf[B]
      BY <1>2, <1>3, <3>1
    <3>3. CASE q = B + 1
      <4>1. q + 1 = B + 2
        BY <1>1, <3>3
      <4> QED
        BY <1>1, <1>3, <1>4, <3>2, <3>3, <4>1
    <3>4. CASE q = B + 2
      <4>1. q + 1 = B + 3
        BY <1>1, <3>4
      <4> QED
        <5>1. /\ Start[q + 1] = OffsetOf[B] + B + 3 /\ Start[q] = OffsetOf[B] + B + 1
              /\ Len(Buffers[q]) = 2
          BY <1>3, <1>4, <3>4, <4>1
        <5> QED
          BY <1>1, <3>2, <5>1
    <3> QED
      BY <3>1, <3>3, <3>4
  <2> QED
    BY <1>1, <2>1, <2>2
<1>11. \A b \in 1 .. B : HandleOf(b).offset = Start[b] /\ HandleOf(b).size = Len(Buffers[b])
  <2> TAKE b \in 1 .. B
  <2>1. b \in 1 .. B + 1
    BY <1>1
  <2> QED
    BY <1>3, <1>4, <1>5, <2>1
<1>12. IndexHandle.offset = Start[B + 1] /\ IndexHandle.size = Len(Buffers[B + 1])
  <2>1. B + 1 \in 1 .. B + 1 /\ (B + 1) - 1 = B
    BY <1>1
  <2> QED
    BY <1>3, <1>4, <1>6, <2>1
<1>13. Start[Whole + 1] = Start[Whole] + 2
  <2>1. Whole \in 1 .. Whole /\ Whole = B + 2
    BY <1>1
  <2> QED
    BY <1>4, <1>10, <2>1
<1> QED
  BY <1>7, <1>8, <1>9, <1>10, <1>11, <1>12, <1>13 DEF B

\* Appending the next buffer.
LEMMA LaidNext ==
    ASSUME BlocksOK, NEW f \in Seq(Cells), NEW i \in Nat, i < Whole, Laid(f, i)
    PROVE  Laid(f \o Buffers[i + 1], i + 1)
<1> DEFINE b == Buffers[i + 1]
           g == f \o b
<1>1. Whole \in Nat /\ i + 1 \in 1 .. Whole /\ i + 1 \in 1 .. Whole + 1 /\ i + 2 \in 1 .. Whole + 1
  BY BuffersFacts
<1>2. /\ b \in Seq(Cells) /\ Len(b) \in Nat /\ Start[i + 1] \in Nat /\ Start[i + 2] \in Nat
      /\ Start[(i + 1) + 1] = Start[i + 1] + Len(b)
  BY <1>1, StartFacts
<1>3. /\ Len(f) = Start[i + 1] /\ Len(f) \in Nat
      /\ \A q \in 1 .. i : Start[q + 1] <= Len(f)
      /\ \A q \in 1 .. i : \A j \in 1 .. Len(Buffers[q]) : f[Start[q] + j] = Buffers[q][j]
  BY LenProperties DEF Laid, LaidAt
<1> HIDE DEF b
<1>4. /\ Len(g) = Len(f) + Len(b)
      /\ \A n \in 1 .. Len(f) + Len(b) : g[n] = IF n <= Len(f) THEN f[n] ELSE b[n - Len(f)]
  BY <1>2, ConcatProperties
<1> HIDE DEF g
<1>5. Len(g) = Start[(i + 1) + 1]
  BY <1>2, <1>3, <1>4
<1>6. ASSUME NEW q \in 1 .. i + 1
      PROVE  /\ Start[q + 1] <= Len(g)
             /\ \A j \in 1 .. Len(Buffers[q]) : g[Start[q] + j] = Buffers[q][j]
  <2>1. q \in 1 .. Whole /\ q \in 1 .. Whole + 1
    BY <1>1
  <2>2. /\ Start[q] \in Nat /\ Len(Buffers[q]) \in Nat
        /\ Start[q + 1] = Start[q] + Len(Buffers[q])
    BY <2>1, StartFacts
  <2>3. CASE q = i + 1
    <3>1. Start[q + 1] <= Len(g)
      BY <1>2, <1>3, <1>5, <2>2, <2>3
    <3>2. ASSUME NEW j \in 1 .. Len(b)
          PROVE  g[Len(f) + j] = b[j]
      <4>1. Len(f) + j \in 1 .. Len(f) + Len(b) /\ ~(Len(f) + j <= Len(f)) /\ (Len(f) + j) - Len(f) = j
        BY <1>2, <1>3
      <4> QED
        BY <1>4, <4>1
    <3> QED
      BY <1>3, <2>3, <3>1, <3>2 DEF b
  <2>4. CASE q # i + 1
    <3>1. q \in 1 .. i
      BY <2>4
    <3>2. Start[q + 1] <= Len(f) /\ \A j \in 1 .. Len(Buffers[q]) : f[Start[q] + j] = Buffers[q][j]
      BY <1>3, <3>1
    <3>3. Start[q + 1] <= Len(g)
      BY <1>2, <1>3, <1>4, <2>2, <3>2
    <3>4. ASSUME NEW j \in 1 .. Len(Buffers[q])
          PROVE  g[Start[q] + j] = f[Start[q] + j]
      <4>1. Start[q] + j \in 1 .. Len(f) + Len(b) /\ Start[q] + j <= Len(f)
        <5>1. \A s, l, m, n \in Nat : s + l <= m /\ j \in 1 .. l => s + j \in 1 .. m + n /\ s + j <= m
          OBVIOUS
        <5>2. Start[q] + Len(Buffers[q]) <= Len(f)
          BY <2>2, <3>2
        <5> QED
          BY <1>2, <1>3, <2>2, <5>1, <5>2
      <4> QED
        BY <1>4, <4>1
    <3> QED
      BY <3>2, <3>3, <3>4
  <2> QED
    BY <2>3, <2>4
<1> QED
  BY <1>5, <1>6 DEF Laid, LaidAt, g, b

\* A handle cuts its block out of a complete file.
LEMMA SliceFacts ==
    ASSUME BlocksOK, contents \in Seq(Cells), Laid(contents, Whole),
           NEW q \in 1 .. Whole, NEW h, h.offset = Start[q], h.size = Len(Buffers[q])
    PROVE  InRange(h) /\ Slice(h) = Buffers[q]
<1> DEFINE b == Buffers[q]
           s == Start[q]
           n == Len(b)
           d == SubSeq(contents, s + 1, s + n)
<1>1. Whole \in Nat /\ q \in 1 .. Whole + 1
  BY BuffersFacts
<1>2. b \in Seq(Cells) /\ n \in Nat /\ s \in Nat /\ Start[q + 1] = s + n
  BY <1>1, StartFacts
<1>3. /\ s + n <= Len(contents) /\ Len(contents) \in Nat
      /\ \A j \in 1 .. n : contents[s + j] = b[j]
  BY <1>2, LenProperties DEF Laid, LaidAt
<1>4. InRange(h)
  BY <1>2, <1>3 DEF InRange
<1>5. Slice(h) = d
  BY <1>3 DEF Slice
<1> HIDE DEF b, s
<1>6. \A i \in s + 1 .. s + n : contents[i] \in Cells
  <2> TAKE i \in s + 1 .. s + n
  <2>1. i \in 1 .. Len(contents)
    BY <1>2, <1>3
  <2> QED
    BY <2>1, ElementOfSeq
<1> HIDE DEF n
<1>7. /\ s + 1 \in Int /\ s + n \in Int /\ (s + n) - (s + 1) + 1 = n
      /\ (IF s + 1 <= s + n THEN (s + n) - (s + 1) + 1 ELSE 0) = n
      /\ \A i \in 1 .. n : (s + 1) + i - 1 = s + i
  BY <1>2
<1>8. /\ d \in Seq(Cells)
      /\ Len(d) = IF s + 1 <= s + n THEN (s + n) - (s + 1) + 1 ELSE 0
      /\ \A i \in 1 .. (s + n) - (s + 1) + 1 : d[i] = contents[(s + 1) + i - 1]
  BY <1>6, <1>7, SubSeqProperties
<1> HIDE DEF d
<1>9. Len(d) = n /\ \A i \in 1 .. n : d[i] = b[i]
  BY <1>3, <1>7, <1>8
<1>10. d = b
  BY <1>2, <1>8, <1>9, SeqEqual DEF n
<1> QED
  BY <1>4, <1>5, <1>10 DEF b


-----------------------------------------------------------------------------
(* Lookups in a complete file. *)

\* The answer that is right for k.
RightFor(k) == IF k \in Keys THEN Found(k) ELSE ABSENT

\* Get() in a data block that is there.
LEMMA GetBlock ==
    ASSUME BlocksOK, NEW b \in 1 .. Len(blocks), NEW k
    PROVE  Get(DataBuffer(blocks[b]), k) = {IF k \in blocks[b] THEN Found(k) ELSE ABSENT}
<1> DEFINE S == blocks[b]
           N == Cardinality(S)
           d == DataBuffer(S)
<1>1. S \in SUBSET Key /\ N \in Nat
  BY BlockFacts
<1>2. /\ d \in Seq(Cells) /\ Len(d) = N + 1
      /\ \A n \in 1 .. N : d[n] = <<"entry", Nth(S, n)>>
      /\ d[N + 1] = <<"restarts", N>>
  BY DataBufferFacts
<1>3. /\ \A n \in 1 .. N : Nth(S, n) \in S
      /\ \A j \in S : \E n \in 1 .. N : Nth(S, n) = j
  <2> HIDE DEF S
  <2> QED
    BY <1>1, NthFacts DEF N
<1> HIDE DEF S, N, d
<1>4. Len(d) - 1 = N /\ d # <<>>
  BY <1>1, <1>2
<1>5. Body(d) = {d[n] : n \in 1 .. N}
  BY <1>4 DEF Body
<1>6. Trailer(d) = <<"restarts", Len(d) - 1>>
  BY <1>2, <1>4 DEF Trailer
<1>7. Trailer(d) # ZERO
  BY <1>6 DEF ZERO
<1>8. OfKind("entry", Body(d))
  BY <1>2, <1>5 DEF OfKind
<1>9. <<"entry", k>> \in Body(d) <=> k \in S
  <2>1. ASSUME <<"entry", k>> \in Body(d)
        PROVE  k \in S
    <3>1. PICK n \in 1 .. N : <<"entry", k>> = d[n]
      BY <1>5, <2>1
    <3>2. <<"entry", k>> = <<"entry", Nth(S, n)>>
      BY <1>2, <3>1
    <3>3. k = Nth(S, n)
      BY <3>2
    <3> QED
      BY <1>3, <3>3
  <2>2. ASSUME k \in S
        PROVE  <<"entry", k>> \in Body(d)
    <3>1. PICK n \in 1 .. N : Nth(S, n) = k
      BY <1>3, <2>2
    <3>2. d[n] = <<"entry", k>>
      BY <1>2, <3>1
    <3> QED
      BY <1>5, <3>2
  <2> QED
    BY <2>1, <2>2
<1>10. Get(d, k) = {GetEntry(d, k)}
  BY <1>4, <1>6, <1>7, <1>8 DEF Get
<1> QED
  BY <1>9, <1>10 DEF GetEntry, S, d

\* The cells of the index block.
LEMMA IndexBody ==
    ASSUME BlocksOK
    PROVE  /\ IndexBuffer # <<>>
           /\ Trailer(IndexBuffer) = <<"offsets", Len(IndexBuffer) - 1>>
           /\ Trailer(IndexBuffer) # ZERO
           /\ Body(IndexBuffer) = {IndexBuffer[b] : b \in 1 .. Len(blocks)}
           /\ OfKind("divider", Body(IndexBuffer))
<1> DEFINE B == Len(blocks)
           d == IndexBuffer
<1>1. B \in Nat
  BY BlockFacts
<1>2. /\ d \in Seq(Cells) /\ Len(d) = B + 1
      /\ \A b \in 1 .. B : d[b] = <<"divider", Divider(b), HandleOf(b)>>
      /\ d[B + 1] = <<"offsets", B>>
  BY IndexBufferFacts
<1> HIDE DEF B, d
<1>3. Len(d) - 1 = B /\ d # <<>>
  BY <1>1, <1>2
<1>4. Body(d) = {d[n] : n \in 1 .. B}
  BY <1>3 DEF Body
<1>5. Trailer(d) = <<"offsets", Len(d) - 1>>
  BY <1>2, <1>3 DEF Trailer
<1>6. Trailer(d) # ZERO
  BY <1>5 DEF ZERO
<1>7. OfKind("divider", Body(d))
  BY <1>2, <1>4 DEF OfKind
<1> QED
  BY <1>3, <1>4, <1>5, <1>6, <1>7 DEF B, d

\* The cells of a set of dividers that are not above k have a last one.
LEMMA LastDivider ==
    ASSUME NEW below, below # {}, \A c \in below : c[2] \in Key
    PROVE  \E c \in below : \A d \in below : d[2] <= c[2]
<1> DEFINE S == {c[2] : c \in below}
<1>1. S \subseteq Nat /\ S # {} /\ MaxKey \in Nat /\ \A n \in S : n <= MaxKey
  BY TableAssumption DEF Key
<1>2. PICK m \in S : \A n \in S : n <= m
  <2> HIDE DEF S
  <2> QED
    BY <1>1, NatMax
<1>3. PICK c \in below : c[2] = m
  BY <1>2
<1> QED
  BY <1>2, <1>3

\* Only the last block that does not start above k can hold k.
LEMMA OnlyBlock ==
    ASSUME BlocksOK, Ordered, NEW k \in Key, NEW m \in 1 .. Len(blocks),
           Divider(m) <= k,
           \A b \in 1 .. Len(blocks) : Divider(b) <= k => Divider(b) <= Divider(m)
    PROVE  k \in blocks[m] <=> k \in Keys
<1>1. /\ Len(blocks) \in Nat /\ DOMAIN blocks = 1 .. Len(blocks)
      /\ \A b \in 1 .. Len(blocks) :
            /\ blocks[b] \subseteq Keys /\ Divider(b) \in Key
            /\ Divider(b) \in blocks[b] /\ \A j \in blocks[b] : Divider(b) <= j
  BY BlockFacts
<1>2. k \in Nat /\ \A b \in 1 .. Len(blocks) : Divider(b) \in Nat
  BY <1>1, TableAssumption DEF Key
<1>3. ASSUME k \in Keys
      PROVE  k \in blocks[m]
  <2>1. PICK b \in 1 .. Len(blocks) : k \in blocks[b]
    BY <1>1, <1>3 DEF Keys
  <2>2. Divider(b) <= k
    BY <1>1, <2>1
  <2>3. Divider(b) <= Divider(m)
    BY <2>2
  <2>4. ~(b < m)
    <3> SUFFICES ASSUME b < m
                 PROVE  FALSE
      OBVIOUS
    <3>1. k < Divider(m)
      BY <1>1, <2>1 DEF Ordered
    <3> QED
      BY <1>2, <3>1
  <2>5. ~(m < b)
    <3> SUFFICES ASSUME m < b
                 PROVE  FALSE
      OBVIOUS
    <3>1. Divider(m) < Divider(b)
      BY <1>1 DEF Ordered
    <3> QED
      BY <1>2, <2>3, <3>1
  <2>6. b = m
    BY <2>4, <2>5
  <2> QED
    BY <2>1, <2>6
<1> QED
  BY <1>1, <1>3

\* The blocks a lookup of k needs are there.
Survives(k) == /\ Slice(IndexHandle) = IndexBuffer
               /\ \A b \in DOMAIN blocks :
                     Routed(b, k) => Slice(HandleOf(b)) = DataBuffer(blocks[b])

\* A handle that cuts out something starts in the file.
LEMMA SliceInRange ==
    ASSUME contents \in Seq(Cells), NEW h \in Handle, Slice(h) # <<>>
    PROVE  InRange(h)
<1> SUFFICES ASSUME ~InRange(h)
             PROVE  FALSE
  OBVIOUS
<1> DEFINE o == h.offset
           n == Len(contents)
<1>1. o \in Nat /\ h.size \in Nat /\ n \in Nat
  BY LenProperties DEF Handle
<1>2. n < o
  BY <1>1 DEF InRange
<1>3. ~(o + h.size <= n)
  BY <1>1, <1>2
<1>4. Slice(h) = SubSeq(contents, o + 1, n)
  BY <1>3 DEF Slice
<1> HIDE DEF o, n
<1>5. /\ o + 1 \in Int /\ n \in Int /\ ~(o + 1 <= n)
      /\ \A i \in o + 1 .. n : contents[i] \in Cells
  BY <1>1, <1>2
<1>6. SubSeq(contents, o + 1, n) \in Seq(Cells) /\ Len(SubSeq(contents, o + 1, n)) = 0
  BY <1>5, SubSeqProperties
<1>7. SubSeq(contents, o + 1, n) = <<>>
  BY <1>6, EmptySeq
<1> QED
  BY <1>4, <1>7

\* Handles of the layout.
LEMMA HandleFacts ==
    ASSUME BlocksOK
    PROVE  IndexHandle \in Handle /\ \A b \in 1 .. Len(blocks) : HandleOf(b) \in Handle
<1>1. ASSUME NEW b \in 1 .. Len(blocks)
      PROVE  HandleOf(b) \in Handle
  <2>1. b - 1 \in 0 .. Len(blocks) /\ Cardinality(blocks[b]) \in Nat
    BY BlockFacts
  <2>2. OffsetOf[b - 1] \in Nat
    BY <2>1, OffsetFacts
  <2> QED
    BY <2>1, <2>2 DEF HandleOf, Handle
<1> QED
  BY <1>1, FooterBufferFacts

\* Find() routes to the block that can hold k, and Get() finds it there.
LEMMA FindComplete ==
    ASSUME BlocksOK, Ordered, contents \in Seq(Cells), NEW k \in Key, Survives(k)
    PROVE  Find(IndexBuffer, k) = {RightFor(k)}
<1> DEFINE B == Len(blocks)
           below == {c \in Body(IndexBuffer) : c[2] <= k}
           last == CHOOSE c \in below : \A d \in below : d[2] <= c[2]
<1>1. Find(IndexBuffer, k) = FindEntry(IndexBuffer, k)
  BY IndexBody DEF Find
<1>2. FindEntry(IndexBuffer, k) = IF below = {} THEN {ABSENT} ELSE GetAt(last[3], k)
  BY DEF FindEntry
<1>3. /\ B \in Nat /\ DOMAIN blocks = 1 .. B
      /\ \A b \in 1 .. B : /\ Divider(b) \in Key /\ blocks[b] \subseteq Keys
                           /\ \A j \in blocks[b] : Divider(b) <= j
  BY BlockFacts
<1>4. \A b \in 1 .. B : /\ IndexBuffer[b] \in Body(IndexBuffer)
                        /\ IndexBuffer[b][2] = Divider(b) /\ IndexBuffer[b][3] = HandleOf(b)
  BY IndexBody, IndexBufferFacts
<1>5. \A c \in Body(IndexBuffer) : \E b \in 1 .. B : c = IndexBuffer[b]
  BY IndexBody
<1>6. CASE below = {}
  <2>1. \A b \in 1 .. B : ~(Divider(b) <= k)
    BY <1>4, <1>6
  <2>2. k \notin Keys
    BY <1>3, <2>1 DEF Keys
  <2> QED
    BY <1>1, <1>2, <1>6, <2>2 DEF RightFor
<1>7. CASE below # {}
  <2>1. \A c \in below : c[2] \in Key
    BY <1>3, <1>4, <1>5
  <2>2. last \in below /\ \A d \in below : d[2] <= last[2]
    <3>1. \E c \in below : \A d \in below : d[2] <= c[2]
      <4> HIDE DEF below
      <4> QED
        BY <1>7, <2>1, LastDivider
    <3> HIDE DEF below
    <3> QED
      BY <3>1
  <2> HIDE DEF last
  <2>3. PICK m \in 1 .. B : last = IndexBuffer[m]
    BY <1>5, <2>2
  <2>4. Divider(m) <= k /\ last[3] = HandleOf(m)
    BY <1>4, <2>2, <2>3
  <2>5. \A b \in 1 .. B : Divider(b) <= k => Divider(b) <= Divider(m)
    BY <1>4, <2>2, <2>3
  <2>6. k \in blocks[m] <=> k \in Keys
    BY <2>4, <2>5, OnlyBlock
  <2>7. GetAt(HandleOf(m), k) = Get(DataBuffer(blocks[m]), k)
    <3>1. Routed(m, k) /\ m \in DOMAIN blocks
      BY <1>3, <2>4, <2>5 DEF Routed
    <3>2. Slice(HandleOf(m)) = DataBuffer(blocks[m])
      BY <3>1 DEF Survives
    <3>3. DataBuffer(blocks[m]) # <<>>
      <4>1. Len(DataBuffer(blocks[m])) = Cardinality(blocks[m]) + 1
        BY DataBufferFacts
      <4>2. Cardinality(blocks[m]) \in Nat
        BY BlockFacts
      <4> QED
        BY <4>1, <4>2
    <3>4. InRange(HandleOf(m))
      BY <3>2, <3>3, HandleFacts, SliceInRange
    <3> QED
      BY <3>2, <3>4 DEF GetAt
  <2>8. GetAt(last[3], k) = {IF k \in blocks[m] THEN Found(k) ELSE ABSENT}
    BY <2>4, <2>7, GetBlock
  <2> QED
    BY <1>1, <1>2, <1>7, <2>6, <2>8 DEF RightFor
<1> QED
  BY <1>6, <1>7

\* A lookup needs the handles of the footer, the index and one data block.
LEMMA AskLocal ==
    ASSUME BlocksOK, Ordered, contents \in Seq(Cells), NEW k \in Key,
           Aligned, contents[TableLength - 1] = <<"handles", IndexHandle>>, Survives(k)
    PROVE  Ask(k) = {RightFor(k)}
<1> DEFINE cell == contents[Len(contents) - 1]
<1>1. Len(contents) = TableLength
  BY DEF Aligned
<1>2. Len(blocks) \in Nat /\ OffsetOf[Len(blocks)] \in Nat
  <2>1. Len(blocks) \in Nat
    BY BlockFacts
  <2>2. Len(blocks) \in 0 .. Len(blocks)
    BY <2>1
  <2> QED
    BY <2>1, <2>2, OffsetFacts
<1>3. TableLength - 1 \in 1 .. TableLength
  BY <1>2 DEF TableLength, FooterLength
<1>4. cell = <<"handles", IndexHandle>>
  BY <1>1
<1>5. cell # ZERO /\ cell[1] = "handles" /\ cell[2] = IndexHandle
  BY <1>4 DEF ZERO
<1>6. Len(contents) - 1 \in DOMAIN contents
  BY <1>1, <1>3, LenProperties
<1>7. ~(\A p \in DOMAIN contents : contents[p] = ZERO)
  BY <1>5, <1>6
<1>8. Ask(k) = FindAt(IndexHandle, k)
  BY <1>5, <1>7 DEF Ask
<1>9. InRange(IndexHandle)
  BY IndexBody, HandleFacts, SliceInRange DEF Survives
<1> QED
  BY <1>8, <1>9, FindComplete DEF FindAt, Survives

\* A lookup in a complete file is right.
LEMMA AskComplete ==
    ASSUME BlocksOK, Ordered, contents \in Seq(Cells), Laid(contents, Whole), NEW k \in Key
    PROVE  Ask(k) = {RightFor(k)}
<1> DEFINE B == Len(blocks)
<1>1. /\ Whole \in Nat /\ Whole = B + 2 /\ B \in Nat
      /\ \A b \in 1 .. B : Buffers[b] = DataBuffer(blocks[b])
      /\ Buffers[B + 1] = IndexBuffer /\ Buffers[B + 2] = FooterBuffer
  BY BuffersFacts
<1>2. /\ Whole \in 1 .. Whole + 1 /\ Whole \in 1 .. Whole /\ B + 1 \in 1 .. Whole
      /\ \A b \in 1 .. B : b \in 1 .. Whole
  BY <1>1
<1>3. Start[Whole] \in Nat /\ Start[Whole + 1] = Start[Whole] + 2
  BY <1>2, StartFacts
<1>4. Len(contents) = Start[Whole + 1]
  BY DEF Laid, LaidAt
<1>5. TableLength = Start[Whole + 1]
  <2>1. OffsetOf[B] \in Nat
    <3>1. B \in 0 .. B
      BY <1>1
    <3> QED
      BY <3>1, OffsetFacts
  <2>2. Start[B + 3] = OffsetOf[B] + B + 3
    BY <1>1 DEF Start
  <2>3. Whole + 1 = B + 3
    BY <1>1
  <2> QED
    BY <1>1, <2>1, <2>2, <2>3 DEF TableLength, FooterLength
<1>6. /\ contents[Start[Whole] + 1] = <<"handles", IndexHandle>>
      /\ contents[Start[Whole] + 2] = <<"magic">>
  <2>1. /\ Len(Buffers[Whole]) = 2 /\ Buffers[Whole][1] = <<"handles", IndexHandle>>
        /\ Buffers[Whole][2] = <<"magic">>
    BY <1>1, FooterBufferFacts
  <2>2. 1 \in 1 .. Len(Buffers[Whole]) /\ 2 \in 1 .. Len(Buffers[Whole])
    BY <2>1
  <2>3. /\ contents[Start[Whole] + 1] = Buffers[Whole][1]
        /\ contents[Start[Whole] + 2] = Buffers[Whole][2]
    BY <1>2, <2>2 DEF Laid, LaidAt
  <2> QED
    BY <2>1, <2>3
<1>7. contents[TableLength - 1] = <<"handles", IndexHandle>>
  <2>1. TableLength - 1 = Start[Whole] + 1
    BY <1>3, <1>5
  <2> QED
    BY <1>6, <2>1
<1>8. Aligned
  <2>1. Trailer(contents) = <<"magic">>
    BY <1>3, <1>4, <1>6 DEF Trailer
  <2> QED
    BY <1>4, <1>5, <2>1 DEF Aligned, TORN
<1>9. Slice(IndexHandle) = IndexBuffer
  <2>1. IndexHandle.offset = Start[B + 1] /\ IndexHandle.size = Len(Buffers[B + 1])
    BY StartFacts
  <2> QED
    BY <1>1, <1>2, <2>1, SliceFacts
<1>10. ASSUME NEW b \in 1 .. B
       PROVE  Slice(HandleOf(b)) = DataBuffer(blocks[b])
  <2>1. HandleOf(b).offset = Start[b] /\ HandleOf(b).size = Len(Buffers[b])
    BY StartFacts
  <2> QED
    BY <1>1, <1>2, <2>1, SliceFacts
<1>11. Survives(k)
  BY <1>9, <1>10, BlockFacts DEF Survives
<1> QED
  BY <1>7, <1>8, <1>11, AskLocal


-----------------------------------------------------------------------------
(* Lookups in any file. *)

\* Whatever is left of the file, an answer is a value, "not found" or an exception.
LEMMA AskTyped ==
    ASSUME NEW k \in Key
    PROVE  Ask(k) \subseteq AnyAnswer
<1>1. ABSENT \in AnyAnswer /\ THROWS \in AnyAnswer /\ Found(k) \in AnyAnswer
  <2>1. k \in 0 .. MaxKey
    BY TableAssumption DEF Key
  <2> QED
    BY <2>1 DEF AnyAnswer
<1>2. \A s : GetEntry(s, k) \in AnyAnswer
  BY <1>1 DEF GetEntry
<1>3. \A s : Get(s, k) \subseteq AnyAnswer
  <2> TAKE s
  <2>1. Get(s, k) \in {{THROWS}, {ABSENT}, {GetEntry(s, k)}, AnyAnswer}
    BY DEF Get
  <2> QED
    BY <1>1, <1>2, <2>1
<1>4. \A h : GetAt(h, k) \subseteq AnyAnswer
  BY <1>1, <1>3 DEF GetAt
<1>5. \A s : FindEntry(s, k) \subseteq AnyAnswer
  <2> TAKE s
  <2>1. FindEntry(s, k) = {ABSENT} \/ \E h : FindEntry(s, k) = GetAt(h, k)
    BY Zenon DEF FindEntry
  <2> QED
    BY <1>1, <1>4, <2>1
<1>6. \A s : Find(s, k) \subseteq AnyAnswer
  <2> TAKE s
  <2>1. Find(s, k) \in {{THROWS}, {ABSENT}, FindEntry(s, k), GetAt(NullHandle, k), AnyAnswer}
    BY DEF Find
  <2> QED
    BY <1>1, <1>4, <1>5, <2>1
<1>7. \A h : FindAt(h, k) \subseteq AnyAnswer
  BY <1>1, <1>6 DEF FindAt
<1>8. Ask(k) \in {{THROWS}, AnyAnswer} \/ \E h : Ask(k) = FindAt(h, k)
  BY DEF Ask
<1> QED
  BY <1>1, <1>7, <1>8


-----------------------------------------------------------------------------
(* The steps. *)

\* The layout depends on the blocks only.
LEMMA Frame ==
    ASSUME blocks' = blocks
    PROVE  /\ Keys' = Keys /\ Cells' = Cells /\ Whole' = Whole
           /\ Start' = Start /\ Buffers' = Buffers
           /\ BlocksOK' = BlocksOK /\ TableLength' = TableLength
<1>1. Keys' = Keys
  BY DEF Keys
<1>2. Cells' = Cells
  BY <1>1 DEF Cells
<1>3. OffsetOf' = OffsetOf
  BY DEF OffsetOf
<1>4. Start' = Start
  BY <1>3 DEF Start
<1>5. IndexBuffer' = IndexBuffer /\ FooterBuffer' = FooterBuffer
  BY <1>3 DEF IndexBuffer, FooterBuffer, IndexHandle, HandleOf, Divider
<1>6. Buffers' = Buffers
  BY <1>5 DEF Buffers
<1> QED
  BY <1>1, <1>2, <1>3, <1>4, <1>6 DEF Whole, BlocksOK, TableLength

\* A lookup depends on the contents and the layout only.
LEMMA AskFrame ==
    ASSUME blocks' = blocks, contents' = contents
    PROVE  \A k : Ask(k)' = Ask(k)
<1>1. \A h : Slice(h)' = Slice(h) /\ InRange(h)' = InRange(h)
  BY DEF Slice, InRange
<1>2. \A h, k : GetAt(h, k)' = GetAt(h, k)
  BY DEF GetAt, Slice, InRange
<1>3. \A s, k : FindEntry(s, k)' = FindEntry(s, k)
  <2> TAKE s, k
  <2> DEFINE below == {c \in Body(s) : c[2] <= k}
             last == CHOOSE c \in below : \A d \in below : d[2] <= c[2]
  <2>1. /\ FindEntry(s, k) = IF below = {} THEN {ABSENT} ELSE GetAt(last[3], k)
        /\ FindEntry(s, k)' = IF below = {} THEN {ABSENT} ELSE GetAt(last[3], k)'
    BY DEF FindEntry
  <2> HIDE DEF below, last
  <2> QED
    BY <1>2, <2>1
<1>4. \A s, k : Find(s, k)' = Find(s, k)
  BY <1>2, <1>3, Zenon DEF Find
<1>5. \A h, k : FindAt(h, k)' = FindAt(h, k)
  BY <1>1, <1>4 DEF FindAt
<1>6. Aligned' = Aligned
  BY Frame DEF Aligned
<1> QED
  BY <1>5, <1>6, Zenon DEF Ask

\* An empty table.
LEMMA InitIInv == Init => IInv
<1> SUFFICES ASSUME Init
             PROVE  IInv
  OBVIOUS
<1>1. Typed
  <2>1. blocks \in Seq((SUBSET Key) \ {{}})
    BY EmptySeq DEF Init
  <2>2. file \in Seq(Cells) /\ rest \in Seq(Seq(Cells)) /\ contents \in Seq(Cells)
    BY EmptySeq DEF Init
  <2>3. Len(file) = 0 /\ Len(contents) = 0
    BY DEF Init
  <2>4. pc = "build" /\ rest = <<>> /\ file = <<>> /\ contents = <<>> /\ result = NoAnswer
    BY DEF Init
  <2>5. synced = 0 /\ acked = FALSE /\ intact = TRUE
    BY DEF Init
  <2>6. synced \in 0 .. Len(file) /\ Len(contents) <= Len(file) /\ synced = Len(file)
    BY <2>3, <2>5
  <2> QED
    BY <2>1, <2>2, <2>4, <2>5, <2>6 DEF Typed
<1>2. Ordered
  BY DEF Init, Ordered
<1> QED
  BY <1>1, <1>2 DEF Init, IInv, Progress, Complete, Reading

\* Before the layout nothing but the blocks matters.
LEMMA BuildStep ==
    ASSUME IInv, pc = "build", BlocksOK', Ordered',
           UNCHANGED <<pc, rest, file, synced, history, contents, key, result>>
    PROVE  IInv'
<1>1. Typed'
  <2>1. file' = <<>> /\ rest' = <<>> /\ contents' = <<>>
    BY DEF IInv, Typed
  <2>2. file' \in Seq(Cells') /\ rest' \in Seq(Seq(Cells')) /\ contents' \in Seq(Cells')
    BY <2>1, EmptySeq
  <2> QED
    BY <2>2 DEF IInv, Typed, BlocksOK, history
<1> QED
  BY <1>1 DEF IInv, Progress, Complete, Reading

\* Add: the key is above all keys, so the blocks stay ordered.
LEMMA AddIInv ==
    ASSUME IInv, NEW k \in Key, Add(k)
    PROVE  IInv'
<1> DEFINE B == Len(blocks)
           T == (SUBSET Key) \ {{}}
<1>0. BlocksOK /\ Ordered
  BY DEF IInv, Typed, BlocksOK
<1>1. /\ B \in Nat /\ \A b \in 1 .. B : blocks[b] \in SUBSET Key /\ blocks[b] \subseteq Keys
  BY <1>0, BlockFacts
<1>2. B \in 1 .. B /\ blocks' = [blocks EXCEPT ![B] = blocks[B] \cup {k}]
  BY <1>1 DEF Add
<1>3. blocks[B] \cup {k} \in T
  <2>1. blocks[B] \cup {k} \in SUBSET Key
    BY <1>1, <1>2
  <2>2. blocks[B] \cup {k} # {}
    OBVIOUS
  <2> QED
    BY <2>1, <2>2, NonEmpty
<1>4. blocks \in Seq(T)
  BY <1>0 DEF BlocksOK
<1> HIDE DEF B, T
<1>5. /\ blocks' \in Seq(T) /\ Len(blocks') = B
      /\ \A b \in 1 .. B : blocks'[b] = IF b = B THEN blocks[B] \cup {k} ELSE blocks[b]
  BY <1>2, <1>3, <1>4, ExceptSeq DEF B
<1>6. BlocksOK'
  BY <1>5 DEF BlocksOK, T
<1>7. Ordered'
  <2> SUFFICES ASSUME NEW b \in 1 .. B, NEW c \in 1 .. B, b < c,
                      NEW x \in blocks'[b], NEW y \in blocks'[c]
               PROVE  x < y
    BY <1>5 DEF Ordered
  <2>1. b # B /\ x \in blocks[b] /\ x \in Keys
    BY <1>1, <1>5
  <2>2. CASE y \in blocks[c]
    BY <1>0, <2>1, <2>2 DEF Ordered, B
  <2>3. CASE y \notin blocks[c]
    <3>1. y = k
      BY <1>5, <2>3
    <3> QED
      BY <2>1, <3>1 DEF Add
  <2> QED
    BY <2>2, <2>3
<1> QED
  BY <1>6, <1>7, BuildStep DEF Add

\* AddToNew: as Add, in a block of its own.
LEMMA AddToNewIInv ==
    ASSUME IInv, NEW k \in Key, AddToNew(k)
    PROVE  IInv'
<1> DEFINE B == Len(blocks)
           T == (SUBSET Key) \ {{}}
<1>0. BlocksOK /\ Ordered
  BY DEF IInv, Typed, BlocksOK
<1>1. /\ B \in Nat /\ \A b \in 1 .. B : blocks[b] \in SUBSET Key /\ blocks[b] \subseteq Keys
  BY <1>0, BlockFacts
<1>2. blocks' = Append(blocks, {k})
  BY DEF AddToNew
<1>3. {k} \in T
  <2>1. {k} \in SUBSET Key /\ {k} # {}
    OBVIOUS
  <2> QED
    BY <2>1, NonEmpty
<1>4. blocks \in Seq(T)
  BY <1>0 DEF BlocksOK
<1> HIDE DEF B, T
<1>5. /\ blocks' \in Seq(T) /\ Len(blocks') = B + 1
      /\ \A b \in 1 .. B : blocks'[b] = blocks[b]
      /\ blocks'[B + 1] = {k}
  BY <1>2, <1>3, <1>4, AppendProperties DEF B
<1>6. BlocksOK'
  BY <1>5 DEF BlocksOK, T
<1>7. Ordered'
  <2> SUFFICES ASSUME NEW b \in 1 .. B + 1, NEW c \in 1 .. B + 1, b < c,
                      NEW x \in blocks'[b], NEW y \in blocks'[c]
               PROVE  x < y
    BY <1>5 DEF Ordered
  <2>1. b \in 1 .. B /\ x \in blocks[b]
    BY <1>1, <1>5
  <2>2. x \in Keys
    BY <1>1, <2>1
  <2>3. CASE c \in 1 .. B
    BY <1>0, <1>5, <2>1, <2>3 DEF Ordered, B
  <2>4. CASE c \notin 1 .. B
    <3>1. c = B + 1
      BY <1>1, <2>4
    <3>2. y = k
      BY <1>5, <3>1
    <3> QED
      BY <2>2, <3>2 DEF AddToNew
  <2> QED
    BY <2>3, <2>4
<1> QED
  BY <1>6, <1>7, BuildStep DEF AddToNew

\* Layout: nothing is written, and every buffer is to be written.
LEMMA LayoutIInv ==
    ASSUME IInv, Layout
    PROVE  IInv'
<1>0. BlocksOK /\ Typed /\ Ordered
  BY DEF IInv, Typed, BlocksOK
<1>1. blocks' = blocks /\ file' = file /\ file = <<>> /\ rest' = Buffers /\ pc' = "write"
  BY <1>0 DEF Layout, Typed
<1>2. Cells' = Cells /\ Whole' = Whole /\ Start' = Start /\ Buffers' = Buffers
  BY <1>1, Frame
<1>3. Buffers \in Seq(Seq(Cells)) /\ Len(Buffers) = Whole /\ Whole \in Nat
  BY <1>0, BuffersFacts
<1>4. Typed'
  <2>1. file' \in Seq(Cells') /\ rest' \in Seq(Seq(Cells')) /\ contents' \in Seq(Cells')
    BY <1>0, <1>1, <1>2, <1>3 DEF Layout, Typed
  <2> QED
    BY <1>0, <2>1 DEF Layout, Typed, history
<1>5. Ordered'
  BY <1>0, <1>1 DEF Ordered
<1>6. Progress'
  <2>1. Whole' - Len(rest') = 0 /\ Len(rest') = Whole'
    BY <1>1, <1>2, <1>3
  <2>2. LaidAt(<<>>, 0, Start, Buffers)
    <3>1. Start[0 + 1] = 0 /\ Len(<<>>) = 0
      BY <1>0, StartFacts
    <3> QED
      BY <3>1 DEF LaidAt
  <2>3. LaidAt(file', Whole' - Len(rest'), Start', Buffers')
    BY <1>1, <1>2, <2>1, <2>2
  <2>4. \A j \in 1 .. Len(rest') : rest'[j] = Buffers'[Whole' - Len(rest') + j]
    BY <1>1, <1>2, <2>1
  <2> QED
    BY <1>2, <1>3, <2>1, <2>3, <2>4 DEF Progress, Laid
<1> QED
  BY <1>1, <1>4, <1>5, <1>6 DEF IInv, Complete, Reading

\* WriteBuffer: the next buffer goes to where it starts.
LEMMA WriteBufferIInv ==
    ASSUME IInv, WriteBuffer
    PROVE  IInv'
<1> DEFINE h == Head(rest)
           r == Len(rest)
           n == Whole - r
<1>0. BlocksOK /\ Typed /\ Ordered /\ Progress
  BY DEF IInv, Typed, BlocksOK
<1>1. /\ blocks' = blocks /\ file' = file \o h /\ rest' = Tail(rest) /\ rest # <<>>
      /\ pc = "write" /\ pc' = "write" /\ contents' = contents
  BY DEF WriteBuffer
<1>2. Cells' = Cells /\ Whole' = Whole /\ Start' = Start /\ Buffers' = Buffers
  BY <1>1, Frame
<1>3. file \in Seq(Cells) /\ rest \in Seq(Seq(Cells)) /\ contents \in Seq(Cells) /\ contents = <<>>
  BY <1>0, <1>1 DEF Typed
<1>4. /\ h \in Seq(Cells) /\ Tail(rest) \in Seq(Seq(Cells)) /\ Len(Tail(rest)) = r - 1
      /\ \A i \in 1 .. r - 1 : Tail(rest)[i] = rest[i + 1]
      /\ h = rest[1] /\ r \in Nat /\ r > 0
  <2>1. /\ h \in Seq(Cells) /\ Tail(rest) \in Seq(Seq(Cells)) /\ Len(Tail(rest)) = r - 1
        /\ \A i \in 1 .. Len(Tail(rest)) : Tail(rest)[i] = rest[i + 1]
    BY <1>1, <1>3, HeadTailProperties
  <2>2. r \in Nat \ {0}
    BY <1>1, <1>3, EmptySeq
  <2>3. h = rest[1]
    BY <1>1, <1>3
  <2> QED
    BY <2>1, <2>2, <2>3
<1>5. Len(file) \in Nat /\ Len(h) \in Nat
  BY <1>3, <1>4, LenProperties
<1>6. file \o h \in Seq(Cells) /\ Len(file \o h) = Len(file) + Len(h)
  BY <1>3, <1>4, ConcatProperties
<1>7. /\ Whole \in Nat /\ r <= Whole /\ Laid(file, n)
      /\ \A j \in 1 .. r : rest[j] = Buffers[n + j]
  BY <1>0, <1>1, BuffersFacts DEF Progress
<1>8. Typed'
  <2>1. file' \in Seq(Cells') /\ rest' \in Seq(Seq(Cells')) /\ contents' \in Seq(Cells')
    BY <1>1, <1>2, <1>3, <1>4, <1>6
  <2>2. synced \in 0 .. Len(file') /\ Len(contents') <= Len(file')
    <3>1. synced \in 0 .. Len(file)
      BY <1>0 DEF Typed
    <3>2. Len(file') = Len(file) + Len(h) /\ Len(contents') = 0
      BY <1>1, <1>3, <1>6
    <3> QED
      BY <1>5, <3>1, <3>2
  <2> QED
    BY <1>0, <2>1, <2>2 DEF WriteBuffer, Typed, history
<1>9. Ordered'
  BY <1>0, <1>1 DEF Ordered
<1>10. Progress'
  <2>1. n \in Nat /\ n < Whole /\ Whole' - Len(rest') = n + 1 /\ Len(rest') <= Whole'
    BY <1>1, <1>2, <1>4, <1>7
  <2>2. h = Buffers[n + 1]
    BY <1>4, <1>7
  <2> HIDE DEF n, h, r
  <2>3. Laid(file \o Buffers[n + 1], n + 1)
    BY <1>0, <1>3, <1>7, <2>1, LaidNext
  <2>4. LaidAt(file', Whole' - Len(rest'), Start', Buffers')
    BY <1>1, <1>2, <2>1, <2>2, <2>3 DEF Laid
  <2>5. ASSUME NEW j \in 1 .. Len(rest')
        PROVE  rest'[j] = Buffers'[Whole' - Len(rest') + j]
    <3>1. j \in 1 .. r - 1 /\ j + 1 \in 1 .. r /\ n + (j + 1) = (n + 1) + j
      BY <1>1, <1>4, <2>1
    <3>2. rest'[j] = Buffers[n + (j + 1)]
      BY <1>1, <1>4, <1>7, <3>1
    <3> QED
      BY <1>2, <2>1, <3>1, <3>2
  <2> QED
    BY <2>1, <2>4, <2>5 DEF Progress, Laid
<1> QED
  BY <1>1, <1>8, <1>9, <1>10 DEF IInv, Complete, Reading

\* WriteFails: the file is no longer intact, its cells are cells of the table.
LEMMA WriteFailsIInv ==
    ASSUME IInv, NEW c \in 0 .. MaxKey, NEW part \in BOOLEAN, WriteFails(c, part)
    PROVE  IInv'
<1> DEFINE h == Head(rest)
           d == Cut(h, c, part)
<1>0. BlocksOK /\ Typed /\ Ordered
  BY DEF IInv, Typed, BlocksOK
<1>1. /\ blocks' = blocks /\ file' = file \o d /\ rest # <<>> /\ rest' = rest
      /\ pc = "write" /\ pc' = "failed" /\ contents' = contents /\ c < Len(h)
  BY DEF WriteFails
<1>2. Cells' = Cells
  BY <1>1, Frame
<1>3. file \in Seq(Cells) /\ rest \in Seq(Seq(Cells)) /\ contents \in Seq(Cells) /\ contents = <<>>
  BY <1>0, <1>1 DEF Typed
<1>4. h \in Seq(Cells)
  BY <1>1, <1>3, HeadTailProperties
<1> HIDE DEF h
<1>5. d \in Seq(Cells) /\ Len(d) \in Nat
  <2>1. c \in 0 .. Len(h)
    BY <1>1, <1>4, LenProperties, TableAssumption
  <2>2. d \in Seq(Cells)
    BY <1>4, <2>1, CutFacts
  <2> QED
    BY <2>2, LenProperties
<1> HIDE DEF d
<1>6. file \o d \in Seq(Cells) /\ Len(file \o d) = Len(file) + Len(d) /\ Len(file) \in Nat
  BY <1>3, <1>5, ConcatProperties, LenProperties
<1>7. Typed'
  <2>1. file' \in Seq(Cells') /\ rest' \in Seq(Seq(Cells')) /\ contents' \in Seq(Cells')
    BY <1>1, <1>2, <1>3, <1>6
  <2>2. synced \in 0 .. Len(file') /\ Len(contents') <= Len(file')
    <3>1. synced \in 0 .. Len(file)
      BY <1>0 DEF Typed
    <3>2. Len(file') = Len(file) + Len(d) /\ Len(contents') = 0
      BY <1>1, <1>3, <1>6
    <3> QED
      BY <1>5, <1>6, <3>1, <3>2
  <2> QED
    BY <1>0, <2>1, <2>2 DEF WriteFails, Typed
<1>8. Ordered'
  BY <1>0, <1>1 DEF Ordered
<1> QED
  BY <1>1, <1>7, <1>8 DEF IInv, Progress, Complete, Reading

\* After the last buffer the file is complete.
LEMMA Written ==
    ASSUME BlocksOK, Progress, pc = "write", rest = <<>>
    PROVE  Laid(file, Whole)
<1>1. Whole \in Nat /\ Len(rest) = 0
  BY BuffersFacts
<1>2. Whole - Len(rest) = Whole
  BY <1>1
<1>3. Laid(file, Whole - Len(rest))
  BY DEF Progress
<1> QED
  BY <1>2, <1>3

\* Sync and Close come after the last buffer.
LEMMA SyncCloseIInv ==
    ASSUME IInv, Sync \/ Close
    PROVE  IInv'
<1>0. BlocksOK /\ Typed /\ Ordered /\ Progress
  BY DEF IInv, Typed, BlocksOK
<1>1. /\ blocks' = blocks /\ file' = file /\ rest = <<>> /\ rest' = rest
      /\ pc = "write" /\ pc' = "written" /\ contents' = contents /\ result' = result
      /\ intact' = intact
  BY DEF Sync, Close, history
<1>a. /\ synced' = synced \/ synced' = Len(file)
      /\ acked' \in BOOLEAN /\ (acked' => synced' = Len(file))
  <2>1. CASE Sync
    <3>1. acked' = TRUE /\ synced' = Len(file)
      BY <2>1 DEF Sync, SyncedCells
    <3> QED
      BY <3>1, Zenon
  <2>2. CASE Close
    <3>1. acked \in BOOLEAN /\ ~acked /\ acked' = acked /\ synced' = synced
      BY <1>0, <2>2 DEF Close, history, Typed
    <3> QED
      BY <3>1, Zenon
  <2> QED
    BY <2>1, <2>2
<1>2. Cells' = Cells /\ Whole' = Whole /\ Start' = Start /\ Buffers' = Buffers
  BY <1>1, Frame
<1>3. Typed'
  <2>1. file' \in Seq(Cells') /\ rest' \in Seq(Seq(Cells')) /\ contents' \in Seq(Cells')
    BY <1>0, <1>1, <1>2 DEF Typed
  <2>2. Len(file) \in Nat /\ synced' \in 0 .. Len(file')
    BY <1>0, <1>1, <1>a, LenProperties DEF Typed
  <2> QED
    BY <1>0, <1>1, <1>a, <2>1, <2>2 DEF Typed
<1>4. Ordered'
  BY <1>0, <1>1 DEF Ordered
<1>5. Laid(file, Whole)
  BY <1>0, <1>1, Written
<1>6. Complete'
  BY <1>1, <1>2, <1>5 DEF Complete, Laid
<1> QED
  BY <1>1, <1>3, <1>4, <1>6 DEF IInv, Progress, Reading

\* Crash: a file that was synced or is intact is the file as it was.
LEMMA CrashIInv ==
    ASSUME IInv, NEW size \in synced .. Len(file), NEW kept, NEW torn,
           Crash(size, kept, torn)
    PROVE  IInv'
<1>0. BlocksOK /\ Typed /\ Ordered /\ Progress /\ Complete
  BY DEF IInv, Typed, BlocksOK
<1>1. /\ blocks' = blocks /\ rest' = rest /\ pc' = "down" /\ contents' = contents
      /\ result' = result /\ synced' = synced /\ acked' = acked
      /\ pc \in {"write", "failed", "written"}
      /\ file' = [p \in 1 .. size |-> IF p <= synced \/ p \in kept THEN file[p]
                                     ELSE IF p \in torn \/ file[p] = TORN THEN TORN
                                     ELSE ZERO]
      /\ intact' = (intact /\ rest = <<>> /\ file' = file)
  BY DEF Crash
<1>2. Cells' = Cells /\ Whole' = Whole /\ Start' = Start /\ Buffers' = Buffers
  BY <1>1, Frame
<1>3. /\ file \in Seq(Cells) /\ Len(file) \in Nat /\ synced \in Nat /\ synced <= size
      /\ size \in Nat /\ size <= Len(file) /\ contents = <<>>
  BY <1>0, <1>1, LenProperties DEF Typed
<1>4. file' \in Seq(Cells) /\ Len(file') = size
  <2>1. \A p \in 1 .. size : file[p] \in Cells
    <3> TAKE p \in 1 .. size
    <3>1. p \in 1 .. Len(file)
      BY <1>3
    <3> QED
      BY <1>3, <3>1, ElementOfSeq
  <2>2. ZERO \in Cells /\ TORN \in Cells
    BY CellFacts
  <2>3. file' \in [1 .. size -> Cells]
    BY <1>1, <2>1, <2>2
  <2> QED
    BY <1>3, <2>3, FunctionIsSeq
<1>5. acked => size = Len(file) /\ file' = file
  <2> SUFFICES ASSUME acked
               PROVE  size = Len(file) /\ file' = file
    OBVIOUS
  <2>1. synced = Len(file) /\ size = Len(file)
    BY <1>0, <1>3 DEF Typed
  <2>2. \A p \in 1 .. Len(file') : file'[p] = file[p]
    BY <1>1, <1>3, <1>4, <2>1
  <2> QED
    BY <1>3, <1>4, <2>1, <2>2, SeqEqual
<1>6. Typed'
  <2>1. file' \in Seq(Cells') /\ rest' \in Seq(Seq(Cells')) /\ contents' \in Seq(Cells')
    BY <1>0, <1>1, <1>2, <1>4 DEF Typed
  <2>2. synced' \in 0 .. Len(file') /\ Len(contents') <= Len(file')
    BY <1>1, <1>3, <1>4
  <2>3. acked' => synced' = Len(file')
    BY <1>0, <1>1, <1>4, <1>5 DEF Typed
  <2>4. intact' \in BOOLEAN
    BY <1>1
  <2> QED
    BY <1>0, <1>1, <2>1, <2>2, <2>3, <2>4 DEF Typed
<1>7. Ordered'
  BY <1>0, <1>1 DEF Ordered
<1>8. Complete'
  <2> SUFFICES ASSUME intact' \/ acked'
               PROVE  Laid(file, Whole)'
    BY DEF Complete
  <2>1. file' = file
    BY <1>1, <1>5
  <2>2. Laid(file, Whole)
    <3>1. CASE acked
      <4>1. pc = "written"
        BY <1>0, <1>1, <3>1 DEF Typed
      <4> QED
        BY <1>0, <3>1, <4>1 DEF Complete
    <3>2. CASE ~acked
      <4>1. intact /\ rest = <<>> /\ pc # "failed"
        BY <1>0, <1>1, <3>2 DEF Typed
      <4>2. CASE pc = "write"
        BY <1>0, <4>1, <4>2, Written
      <4>3. CASE pc = "written"
        BY <1>0, <4>1, <4>3 DEF Complete
      <4> QED
        BY <1>1, <4>1, <4>2, <4>3
    <3> QED
      BY <3>1, <3>2
  <2> QED
    BY <1>2, <2>1, <2>2 DEF Laid
<1> QED
  BY <1>1, <1>6, <1>7, <1>8 DEF IInv, Progress, Reading

\* ReadFile: the reader has a prefix of the file.
LEMMA ReadFileIInv ==
    ASSUME IInv, NEW n \in 0 .. Len(file), NEW part \in BOOLEAN, ReadFile(n, part)
    PROVE  IInv'
<1>0. BlocksOK /\ Typed /\ Ordered /\ Complete
  BY DEF IInv, Typed, BlocksOK
<1>1. /\ blocks' = blocks /\ rest' = rest /\ file' = file /\ pc' = "read"
      /\ result' = result /\ synced' = synced /\ acked' = acked /\ intact' = intact
      /\ pc \in {"failed", "written", "down"} /\ contents' = Cut(file, n, part)
      /\ (part => n < Len(file))
  BY DEF ReadFile, history
<1>2. Cells' = Cells /\ Whole' = Whole /\ Start' = Start /\ Buffers' = Buffers
  BY <1>1, Frame
<1>3. file \in Seq(Cells) /\ Len(file) \in Nat /\ n \in Nat /\ n <= Len(file)
  BY <1>0, LenProperties DEF Typed
<1>4. contents' \in Seq(Cells) /\ Len(contents') <= Len(file)
  <2>1. /\ Cut(file, n, part) \in Seq(Cells)
        /\ Len(Cut(file, n, part)) = IF part THEN n + 1 ELSE n
    BY <1>3, CutFacts
  <2> QED
    BY <1>1, <1>3, <2>1
<1>5. Typed'
  <2>1. file' \in Seq(Cells') /\ rest' \in Seq(Seq(Cells')) /\ contents' \in Seq(Cells')
    BY <1>0, <1>1, <1>2, <1>4 DEF Typed
  <2> QED
    BY <1>0, <1>1, <1>3, <1>4, <2>1 DEF Typed
<1>6. Ordered'
  BY <1>0, <1>1 DEF Ordered
<1>7. Complete'
  <2> SUFFICES ASSUME intact \/ acked
               PROVE  Laid(file, Whole)'
    BY <1>1 DEF Complete
  <2>1. pc # "failed"
    BY <1>0 DEF Typed
  <2>2. Laid(file, Whole)
    BY <1>0, <1>1, <2>1 DEF Complete
  <2> QED
    BY <1>1, <1>2, <2>2 DEF Laid
<1> QED
  BY <1>1, <1>5, <1>6, <1>7 DEF IInv, Progress, Reading

\* Lookup: the answer is one the contents allow.
LEMMA LookupIInv ==
    ASSUME IInv, NEW k \in Key, Lookup(k)
    PROVE  IInv'
<1>0. BlocksOK /\ Typed /\ Ordered /\ Complete
  BY DEF IInv, Typed, BlocksOK
<1>1. /\ blocks' = blocks /\ rest' = rest /\ file' = file /\ pc' = "answered"
      /\ contents' = contents /\ synced' = synced /\ acked' = acked /\ intact' = intact
      /\ pc \in {"read", "answered"} /\ key' = k /\ result' \in Ask(k)
  BY DEF Lookup, history
<1>2. Cells' = Cells /\ Whole' = Whole /\ Start' = Start /\ Buffers' = Buffers /\ Keys' = Keys
  BY <1>1, Frame
<1>3. Typed'
  <2>1. file' \in Seq(Cells') /\ rest' \in Seq(Seq(Cells')) /\ contents' \in Seq(Cells')
    BY <1>0, <1>1, <1>2 DEF Typed
  <2> QED
    BY <1>0, <1>1, <2>1 DEF Typed
<1>4. Ordered'
  BY <1>0, <1>1 DEF Ordered
<1>5. Complete'
  BY <1>0, <1>1, <1>2 DEF Complete, Laid
<1>6. Reading'
  <2>1. \A j : Ask(j)' = Ask(j)
    BY <1>1, AskFrame
  <2> QED
    BY <1>1, <2>1 DEF Reading
<1> QED
  BY <1>1, <1>3, <1>4, <1>5, <1>6 DEF IInv, Progress

\* Nothing happens.
LEMMA StutterIInv ==
    ASSUME IInv, UNCHANGED vars
    PROVE  IInv'
<1>1. /\ blocks' = blocks /\ rest' = rest /\ file' = file /\ pc' = pc /\ key' = key
      /\ contents' = contents /\ synced' = synced /\ acked' = acked /\ intact' = intact
      /\ result' = result
  BY DEF vars, history
<1>2. Cells' = Cells /\ Whole' = Whole /\ Start' = Start /\ Buffers' = Buffers /\ Keys' = Keys
  BY <1>1, Frame
<1>3. Typed' /\ Ordered'
  BY <1>1, <1>2 DEF IInv, Typed, Ordered
<1>4. Progress' /\ Complete'
  BY <1>1, <1>2 DEF IInv, Progress, Complete, Laid
<1>5. Reading'
  <2>1. \A j : Ask(j)' = Ask(j)
    BY <1>1, AskFrame
  <2> QED
    BY <1>1, <2>1 DEF IInv, Reading
<1> QED
  BY <1>3, <1>4, <1>5 DEF IInv


-----------------------------------------------------------------------------
(* The theorems. *)

\* Every step of the writer, of a power failure and of the reader keeps the
\* inductive invariant.
THEOREM Invariant == Spec => []IInv
<1>1. Init => IInv
  BY InitIInv
<1>2. ASSUME IInv, [Next]_vars
      PROVE  IInv'
  <2>1. CASE \E k \in Key : Add(k) \/ AddToNew(k)
    BY <1>2, <2>1, AddIInv, AddToNewIInv
  <2>2. CASE Layout
    BY <1>2, <2>2, LayoutIInv
  <2>3. CASE WriteBuffer
    BY <1>2, <2>3, WriteBufferIInv
  <2>4. CASE Sync \/ Close
    BY <1>2, <2>4, SyncCloseIInv
  <2>5. CASE \E c \in 0 .. MaxKey, part \in BOOLEAN : WriteFails(c, part)
    BY <1>2, <2>5, WriteFailsIInv
  <2>6. CASE PowerFailure
    BY <1>2, <2>6, CrashIInv DEF PowerFailure
  <2>7. CASE \E n \in 0 .. Len(file), part \in BOOLEAN : ReadFile(n, part)
    BY <1>2, <2>7, ReadFileIInv
  <2>8. CASE \E k \in Key : Lookup(k)
    BY <1>2, <2>8, LookupIInv
  <2>9. CASE UNCHANGED vars
    BY <1>2, <2>9, StutterIInv
  <2> QED
    BY <1>2, <2>1, <2>2, <2>3, <2>4, <2>5, <2>6, <2>7, <2>8, <2>9 DEF Next
<1> QED
  BY <1>1, <1>2, PTL DEF Spec

\* Offsets, counts and flags keep their types, and whatever is left of the file
\* an answer is a value, "not found" or an exception.
THEOREM TypeCorrect == Spec => []TypeOK
<1>1. ASSUME IInv
      PROVE  TypeOK
  <2>1. result \in AnyAnswer \cup {NoAnswer}
    <3>1. CASE pc = "answered"
      BY <1>1, <3>1, AskTyped DEF IInv, Typed, Reading
    <3>2. CASE pc # "answered"
      BY <1>1, <3>2 DEF IInv, Typed
    <3> QED
      BY <3>1, <3>2
  <2> QED
    BY <1>1, <2>1 DEF IInv, Typed, TypeOK
<1> QED
  BY <1>1, Invariant, PTL

\* In a file that is complete the answer is right.
LEMMA CompleteRight ==
    ASSUME IInv, pc = "answered", intact \/ acked, contents = file
    PROVE  result = Right
<1>1. BlocksOK /\ Ordered /\ contents \in Seq(Cells) /\ key \in Key /\ Laid(contents, Whole)
  BY DEF IInv, Typed, BlocksOK, Complete
<1>2. Ask(key) = {RightFor(key)}
  BY <1>1, AskComplete
<1>3. result \in Ask(key)
  BY <1>1 DEF IInv, Reading
<1> QED
  BY <1>2, <1>3 DEF Right, RightFor

\* A lookup in a table that reached the file completely returns the value of the
\* key, or "not found" for a key that was not added.
THEOREM LookupCorrect == Spec => []LookupExact
<1>1. IInv => LookupExact
  BY CompleteRight DEF LookupExact
<1> QED
  BY <1>1, Invariant, PTL

\* After Sync() returned true no power failure changes an answer.
THEOREM SyncCorrect == Spec => []SyncedSurvives
<1>1. IInv => SyncedSurvives
  BY CompleteRight DEF SyncedSurvives
<1> QED
  BY <1>1, Invariant, PTL

\* A lookup needs the handles of the footer, the index block and the one data
\* block it is routed to: what else a power failure takes does not change its
\* answer.
THEOREM LossCorrect == Spec => []LossIsLocal
<1>1. ASSUME IInv
      PROVE  LossIsLocal
  <2> SUFFICES ASSUME pc = "answered", Aligned,
                      contents[TableLength - 1] = <<"handles", IndexHandle>>,
                      Survives(key)
               PROVE  result = Right
    BY DEF LossIsLocal, Survives
  <2>1. BlocksOK /\ Ordered /\ contents \in Seq(Cells) /\ key \in Key
    BY <1>1 DEF IInv, Typed, BlocksOK
  <2>2. Ask(key) = {RightFor(key)}
    BY <2>1, AskLocal
  <2>3. result \in Ask(key)
    BY <1>1, <2>1 DEF IInv, Reading
  <2> QED
    BY <2>2, <2>3 DEF Right, RightFor
<1> QED
  BY <1>1, Invariant, PTL

=============================================================================
