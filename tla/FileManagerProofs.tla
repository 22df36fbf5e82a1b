------------------------- MODULE FileManagerProofs --------------------------
(***************************************************************************)
(* Proofs about the file manager, for any number of threads, names, files  *)
(* and descriptors.                                                        *)
(*                                                                         *)
(* Types hold on every platform (Typed).  The rest needs what the retry of *)
(* close(2) relies on: a descriptor that an interrupted call released is   *)
(* not closed again (CloseKeeps).  Then every open descriptor has one      *)
(* owner, an object or a running Close(), or was left behind by an open    *)
(* that had no memory for its object (Owned); an object's offset is        *)
(* what it wrote or read so far, a file with a sole writer has no other,   *)
(* and a reader that was never truncated has only sole writers (InOrder).  *)
(***************************************************************************)
EXTENDS FileManager, SequenceTheorems, WellOrder

\* An interrupted close(2) leaves the descriptor open, or there is none: on
\* Windows, or where no signal interrupts the call.
CloseKeeps == Released \subseteq {FALSE} \/ os = "win32"

Descriptor == [file : File, off : Nat, write : BOOLEAN]
Cell == (Writer \cup {0}) \X Nat

\* What a running call left behind in the locals of its thread.
CallExact(t) ==
    /\ fd[t] = 0 <=> own[t] = 0
    /\ closing[t] = 0 <=> pc[t] # "closing"
    /\ pc[t] = "opening" => t \in Reader /\ arg[t] \in Name
    /\ pc[t] = "writing" => t \in Writer /\ fd[t] # 0 /\ wrote[t] + remaining[t] <= MaxCells

\* Types, with those of the history, and CallExact.
Typed ==
    /\ TypeOK
    /\ fds \in [Fd -> Descriptor \cup {NONE}]
    /\ data \in [File -> Seq(Cell)]
    /\ own \in [Thread -> 0 .. NumFiles] /\ sole \in [Thread -> BOOLEAN]
    /\ got \in [Thread -> Seq(Cell)] /\ arg \in [Thread -> Name \cup {NONE}]
    /\ \A t \in Thread : CallExact(t)

\* One owner for every open descriptor, running calls of Close() included.
Owned ==
    /\ DescriptorsOwned
    /\ \A t \in Thread : closing[t] # 0 => fds[closing[t]] # NONE
    /\ \A t, u \in Thread : t # u /\ closing[t] # 0 => closing[u] # closing[t]

\* Offsets count the cells, and `sole` means what it says.
OffsetsExact ==
    /\ \A t \in Writer : fd[t] # 0 => Desc(t).off = wrote[t]
    /\ \A t \in Reader : fd[t] # 0 => Desc(t).off = Len(got[t])

SoleExact ==
    /\ \A t, u \in Writer : t # u /\ fd[t] # 0 /\ fd[u] # 0 /\ own[t] = own[u] => ~sole[t]
    /\ \A t \in Reader, u \in Writer :
          fd[t] # 0 /\ sole[t] /\ fd[u] # 0 /\ own[u] = own[t] => sole[u]

InOrder == OffsetsExact /\ SoleExact /\ WrittenInOrder /\ ReadsInOrder /\ ExclusiveOnWindows

\* The inductive invariant.
IInv == Typed /\ (CloseKeeps => Owned /\ InOrder)

-----------------------------------------------------------------------------
(* The kernel's choices. *)

\* A non-empty set of descriptors or files has a lowest member.
LEMMA LowestIn ==
    ASSUME NEW S, S \subseteq Nat, S # {}
    PROVE  Lowest(S) \in S
<1>1. \E x \in S : \A y \in S : x <= y
  BY NatMin
<1> QED
  BY <1>1 DEF Lowest

LEMMA Constants ==
    /\ NumFiles \in Nat /\ NumFds \in Nat /\ MaxCells \in Nat
    /\ File \subseteq Nat /\ Fd \subseteq Nat /\ 0 \notin File /\ 0 \notin Fd
    /\ \A d \in Descriptor : d # NONE
    /\ \A f : f \in 0 .. NumFds /\ f # 0 => f \in Fd
    /\ \A i : i \in 0 .. NumFiles /\ i # 0 => i \in File
    /\ \A t \in Writer : t \in Thread /\ t \notin Reader
    /\ \A t \in Reader : t \in Thread /\ t \notin Writer
BY FileAssumption DEF File, Fd, Descriptor, Thread

\* The descriptor and the file an open() gets.
LEMMA LowestFd ==
    ASSUME FreeFds # {}
    PROVE  Lowest(FreeFds) \in Fd /\ fds[Lowest(FreeFds)] = NONE
<1>1. FreeFds \subseteq Nat
  BY Constants DEF FreeFds
<1> QED
  BY <1>1, LowestIn DEF FreeFds

LEMMA LowestFile ==
    ASSUME Unused # {}
    PROVE  Lowest(Unused) \in File /\ ~Referred(Lowest(Unused))
<1>1. Unused \subseteq Nat
  BY Constants DEF Unused
<1> QED
  BY <1>1, LowestIn DEF Unused

\* What Typed says about one thread.
LEMMA ThreadFacts ==
    ASSUME Typed, NEW t \in Thread
    PROVE  /\ fd[t] \in 0 .. NumFds /\ (fd[t] # 0 => fd[t] \in Fd)
           /\ closing[t] \in 0 .. NumFds /\ (closing[t] # 0 => closing[t] \in Fd)
           /\ own[t] \in 0 .. NumFiles /\ (own[t] # 0 => own[t] \in File)
           /\ pc[t] \in {"idle", "opening", "writing", "closing"}
           /\ remaining[t] \in Nat /\ wrote[t] \in Nat /\ sole[t] \in BOOLEAN
           /\ got[t] \in Seq(Cell)
           /\ fd[t] # 0 /\ Desc(t) # NONE => Desc(t) \in Descriptor
           /\ CallExact(t)
<1>1. /\ fd[t] \in 0 .. NumFds /\ closing[t] \in 0 .. NumFds /\ own[t] \in 0 .. NumFiles
      /\ pc[t] \in {"idle", "opening", "writing", "closing"}
      /\ remaining[t] \in 0 .. MaxCells /\ wrote[t] \in 0 .. MaxCells
      /\ sole[t] \in BOOLEAN /\ got[t] \in Seq(Cell) /\ CallExact(t)
  BY DEF Typed, TypeOK
<1>2. /\ fd[t] # 0 => fd[t] \in Fd
      /\ closing[t] # 0 => closing[t] \in Fd
      /\ own[t] # 0 => own[t] \in File
  BY <1>1, Constants
<1>3. fd[t] # 0 /\ Desc(t) # NONE => Desc(t) \in Descriptor
  BY <1>2 DEF Desc, Typed
<1> QED
  BY <1>1, <1>2, <1>3, Constants

\* What Typed says about descriptors.
LEMMA FdFacts ==
    ASSUME NEW table \in [Fd -> Descriptor \cup {NONE}]
    PROVE  \A f \in Fd : table[f] # NONE => table[f].file \in File /\ table[f].off \in Nat
BY DEF Descriptor

-----------------------------------------------------------------------------
(* Types. *)

LEMMA InitTyped == Init => Typed
<1> SUFFICES ASSUME Init
             PROVE  Typed
  OBVIOUS
<1>1. TypeOK
  BY Constants DEF Init, TypeOK
<1>2. \A t \in Thread : CallExact(t)
  BY DEF Init, CallExact
<1>3. /\ data \in [File -> Seq(Cell)] /\ got \in [Thread -> Seq(Cell)]
      /\ fds \in [Fd -> Descriptor \cup {NONE}]
      /\ own \in [Thread -> 0 .. NumFiles] /\ sole \in [Thread -> BOOLEAN]
      /\ arg \in [Thread -> Name \cup {NONE}]
  BY Constants DEF Init
<1> QED
  BY <1>1, <1>2, <1>3 DEF Typed

\* The object, its descriptor and its history after an open().
LEMMA InstallTyped ==
    ASSUME Typed, NEW t \in Thread, NEW i \in File, NEW write \in BOOLEAN,
           pc[t] \in {"idle", "opening"}, FreeFds # {}, Install(t, i, write),
           UNCHANGED <<os, remaining, leaked>>, dir' \in [Name -> 0 .. NumFiles],
           arg' \in [Thread -> Name \cup {NONE}],
           \A u \in Thread : u # t => arg'[u] = arg[u],
           sole' \in [Thread -> BOOLEAN], data' \in [File -> Seq(Cell)]
    PROVE  Typed'
<1> DEFINE f == Lowest(FreeFds)
           d == [file |-> i, off |-> 0, write |-> write]
<1>1. f \in Fd /\ f \in 0 .. NumFds /\ f # 0
  BY LowestFd, Constants DEF Fd
<1>2. d \in Descriptor
  BY DEF Descriptor
<1>3. /\ fds' = [fds EXCEPT ![f] = d] /\ fd' = [fd EXCEPT ![t] = f]
      /\ closing' = [closing EXCEPT ![t] = fd[t]]
      /\ pc' = [pc EXCEPT ![t] = IF fd[t] = 0 THEN "idle" ELSE "closing"]
      /\ own' = [own EXCEPT ![t] = i] /\ wrote' = [wrote EXCEPT ![t] = 0]
      /\ got' = [got EXCEPT ![t] = <<>>]
  BY DEF Install
<1> HIDE DEF f, d
<1>4. fds' \in [Fd -> Descriptor \cup {NONE}]
  BY <1>1, <1>2, <1>3 DEF Typed
<1>5. fd' \in [Thread -> 0 .. NumFds] /\ closing' \in [Thread -> 0 .. NumFds]
  BY <1>1, <1>3, ThreadFacts DEF Typed, TypeOK
<1>6. pc' \in [Thread -> {"idle", "opening", "writing", "closing"}]
  BY <1>3 DEF Typed, TypeOK
<1>7. /\ own' \in [Thread -> 0 .. NumFiles] /\ wrote' \in [Thread -> 0 .. MaxCells]
      /\ got' \in [Thread -> Seq(Cell)]
  BY <1>3, Constants DEF Typed, TypeOK, File
<1>8. \A u \in Thread : CallExact(u)'
  <2> SUFFICES ASSUME NEW u \in Thread
               PROVE  CallExact(u)'
    OBVIOUS
  <2>1. CASE u = t
    <3>1. /\ fd'[t] = f /\ closing'[t] = fd[t] /\ own'[t] = i
          /\ pc'[t] = IF fd[t] = 0 THEN "idle" ELSE "closing"
      BY <1>3 DEF Typed, TypeOK
    <3> QED
      BY <2>1, <3>1, <1>1, Constants DEF CallExact
  <2>2. CASE u # t
    <3>1. /\ fd'[u] = fd[u] /\ closing'[u] = closing[u] /\ own'[u] = own[u]
          /\ pc'[u] = pc[u] /\ arg'[u] = arg[u] /\ wrote'[u] = wrote[u]
          /\ remaining'[u] = remaining[u]
      BY <1>3, <2>2 DEF Typed, TypeOK
    <3> QED
      BY <3>1 DEF CallExact, Typed
  <2> QED
    BY <2>1, <2>2
<1>9. TypeOK'
  <2>1. \A g \in Fd : fds'[g] # NONE => fds'[g].file \in File /\ fds'[g].off \in Nat
    BY <1>4, FdFacts
  <2> QED
    BY <2>1, <1>5, <1>6, <1>7 DEF Typed, TypeOK
<1> QED
  BY <1>4, <1>7, <1>8, <1>9 DEF Typed

\* What is left of the files when the last name or descriptor goes.
LEMMA ReclaimedTyped ==
    ASSUME Typed, data' = Reclaimed
    PROVE  /\ data' \in [File -> Seq(Cell)]
           /\ \A i \in File : data'[i] = IF Referred(i)' THEN data[i] ELSE <<>>
BY DEF Reclaimed, Typed

\* The contents of a file after a write(2) (lines 245-258).
LEMMA StoredFacts ==
    ASSUME NEW s \in Seq(Cell), NEW off \in Nat, NEW c \in Nat, NEW t \in Writer,
           wrote[t] \in Nat
    PROVE  LET n == IF Len(s) > off + c THEN Len(s) ELSE off + c
               r == Stored(s, off, t, c)
           IN  /\ r \in Seq(Cell) /\ Len(r) = n /\ n \in Nat
               /\ \A p \in 1 .. n : r[p] = IF off < p /\ p <= off + c
                                           THEN <<t, wrote[t] + p - off>>
                                           ELSE IF p <= Len(s) THEN s[p] ELSE HOLE
<1> DEFINE n == IF Len(s) > off + c THEN Len(s) ELSE off + c
           r == Stored(s, off, t, c)
<1>1. n \in Nat /\ Len(s) \in Nat
  OBVIOUS
<1>2. r = [p \in 1 .. n |-> IF off < p /\ p <= off + c THEN <<t, wrote[t] + p - off>>
                            ELSE IF p <= Len(s) THEN s[p] ELSE HOLE]
  BY DEF Stored
<1>3. \A p \in 1 .. n : r[p] \in Cell
  <2> SUFFICES ASSUME NEW p \in 1 .. n
               PROVE  r[p] \in Cell
    OBVIOUS
  <2>1. CASE off < p /\ p <= off + c
    <3>1. r[p] = <<t, wrote[t] + p - off>> /\ wrote[t] + p - off \in Nat
      BY <1>1, <1>2, <2>1
    <3> QED
      BY <3>1 DEF Cell
  <2>2. CASE ~(off < p /\ p <= off + c) /\ p <= Len(s)
    <3>1. r[p] = s[p] /\ p \in 1 .. Len(s)
      BY <1>1, <1>2, <2>2
    <3> QED
      BY <3>1
  <2>3. CASE ~(off < p /\ p <= off + c) /\ ~(p <= Len(s))
    <3>1. r[p] = HOLE
      BY <1>1, <1>2, <2>3
    <3> QED
      BY <3>1 DEF Cell, HOLE
  <2> QED
    BY <2>1, <2>2, <2>3
<1>4. r \in [1 .. n -> Cell]
  BY <1>2, <1>3
<1>5. r \in Seq(Cell) /\ Len(r) = n
  <2> HIDE DEF r, n
  <2> QED
    BY <1>1, <1>4
<1> QED
  BY <1>1, <1>2, <1>5

\* A write(2) at the end of what the object wrote so far appends to it.
LEMMA StoredAppends ==
    ASSUME NEW s \in Seq(Cell), NEW c \in Nat, NEW t \in Writer, wrote[t] \in Nat,
           s = [p \in 1 .. wrote[t] |-> <<t, p>>], Len(s) = wrote[t]
    PROVE  LET r == Stored(s, wrote[t], t, c)
           IN  /\ r = [p \in 1 .. wrote[t] + c |-> <<t, p>>] /\ Len(r) = wrote[t] + c
               /\ \A p \in 1 .. wrote[t] : r[p] = s[p]
<1> DEFINE w == wrote[t]
           r == Stored(s, w, t, c)
           n == IF Len(s) > w + c THEN Len(s) ELSE w + c
<1>1. n = w + c
  OBVIOUS
<1>2. /\ r \in Seq(Cell) /\ Len(r) = n
      /\ r = [p \in 1 .. n |-> IF w < p /\ p <= w + c THEN <<t, w + p - w>>
                              ELSE IF p <= Len(s) THEN s[p] ELSE HOLE]
  <2>1. r = [p \in 1 .. n |-> IF w < p /\ p <= w + c THEN <<t, w + p - w>>
                              ELSE IF p <= Len(s) THEN s[p] ELSE HOLE]
    BY DEF Stored
  <2>2. w \in Nat
    OBVIOUS
  <2>3. r \in Seq(Cell) /\ Len(r) = (IF Len(s) > w + c THEN Len(s) ELSE w + c)
    <3> HIDE DEF w
    <3> QED
      BY <2>2, StoredFacts
  <2> QED
    BY <2>1, <2>3
<1>3. w \in Nat /\ \A p \in 1 .. w : s[p] = <<t, p>>
  OBVIOUS
<1> HIDE DEF w, r, n
<1>4. \A p \in 1 .. w + c : r[p] = <<t, p>> /\ (p \in 1 .. w => r[p] = s[p])
  <2> SUFFICES ASSUME NEW p \in 1 .. w + c
               PROVE  r[p] = <<t, p>> /\ (p \in 1 .. w => r[p] = s[p])
    OBVIOUS
  <2>1. CASE w < p
    <3>1. w + p - w = p /\ p <= w + c /\ p \notin 1 .. w
      BY <2>1, <1>3
    <3>2. r[p] = <<t, w + p - w>>
      BY <2>1, <3>1, <1>1, <1>2
    <3> QED
      BY <3>1, <3>2
  <2>2. CASE ~(w < p)
    <3>1. p \in 1 .. w /\ p <= Len(s)
      BY <2>2, <1>3 DEF w
    <3>2. r[p] = s[p]
      BY <2>2, <3>1, <1>1, <1>2
    <3> QED
      BY <3>1, <3>2, <1>3
  <2> QED
    BY <2>1, <2>2
<1>5. DOMAIN r = 1 .. w + c
  BY <1>1, <1>2
<1>6. r = [p \in 1 .. w + c |-> <<t, p>>]
  BY <1>2, <1>4, <1>5
<1>7. \A p \in 1 .. w : p \in 1 .. w + c
  BY <1>3
<1> QED
  BY <1>1, <1>2, <1>4, <1>6, <1>7 DEF w, r

\* The file an open() creates or empties.
LEMMA TargetFacts ==
    ASSUME Typed, NEW t, NEW n \in Name, Truncate(t, n)
    PROVE  Target(n) \in File
<1>1. dir[n] # 0 => dir[n] \in File
  BY Constants DEF Typed, TypeOK
<1> QED
  BY <1>1, LowestFile DEF Truncate, Target

LEMMA NewWritableTyped ==
    ASSUME Typed, NEW t \in Writer, NEW n \in Name, NewWritableFile(t, n)
    PROVE  Typed'
<1> DEFINE i == Target(n)
<1>1. t \in Thread /\ i \in File
  BY TargetFacts, Constants DEF NewWritableFile
<1>2. /\ dir' = [dir EXCEPT ![n] = i] /\ data' = [data EXCEPT ![i] = <<>>]
      /\ Install(t, i, TRUE) /\ UNCHANGED <<os, arg, remaining, leaked>>
      /\ pc[t] = "idle" /\ FreeFds # {}
  BY DEF NewWritableFile, Truncate
<1>3. sole' \in [Thread -> BOOLEAN]
  <2>1. \A u \in Thread : (IF u = t THEN Writers(i) \subseteq {t}
                           ELSE sole[u] /\ own[u] # i) \in BOOLEAN
    OBVIOUS
  <2>2. sole' = [u \in Thread |-> IF u = t THEN Writers(i) \subseteq {t}
                                  ELSE sole[u] /\ own[u] # i]
    BY DEF NewWritableFile
  <2> HIDE DEF i
  <2> QED
    BY <2>1, <2>2
<1> HIDE DEF i
<1>4. dir' \in [Name -> 0 .. NumFiles]
  <2>1. i \in 0 .. NumFiles
    BY <1>1, Constants DEF File
  <2> QED
    BY <1>2, <2>1 DEF Typed, TypeOK
<1>5. data' \in [File -> Seq(Cell)]
  <2>1. <<>> \in Seq(Cell)
    OBVIOUS
  <2> QED
    BY <1>1, <1>2, <2>1 DEF Typed
<1>6. arg' \in [Thread -> Name \cup {NONE}] /\ \A u \in Thread : u # t => arg'[u] = arg[u]
  BY <1>2 DEF Typed
<1> QED
  BY <1>1, <1>2, <1>3, <1>4, <1>5, <1>6, InstallTyped

LEMMA OpenReadableTyped ==
    ASSUME Typed, NEW t \in Thread, OpenReadable(t)
    PROVE  Typed'
<1>1. /\ pc[t] = "opening" /\ FreeFds # {} /\ Install(t, dir[arg[t]], FALSE)
      /\ arg' = [arg EXCEPT ![t] = NONE] /\ UNCHANGED <<os, dir, data, remaining, leaked>>
      /\ dir[arg[t]] # 0
  BY DEF OpenReadable, MayOpen
<1>2. dir[arg[t]] \in File
  <2>1. arg[t] \in Name
    BY <1>1, ThreadFacts DEF CallExact
  <2>2. dir[arg[t]] \in 0 .. NumFiles
    BY <2>1 DEF Typed, TypeOK
  <2> QED
    BY <1>1, <2>2, Constants
<1>3. sole' \in [Thread -> BOOLEAN]
  <2> DEFINE v == \A u \in Writers(dir[arg[t]]) : sole[u]
  <2>1. sole' = [sole EXCEPT ![t] = v] /\ v \in BOOLEAN
    BY DEF OpenReadable
  <2> HIDE DEF v
  <2> QED
    BY <2>1 DEF Typed
<1>4. /\ arg' \in [Thread -> Name \cup {NONE}]
      /\ \A u \in Thread : u # t => arg'[u] = arg[u]
  BY <1>1 DEF Typed
<1>5. dir' \in [Name -> 0 .. NumFiles] /\ data' \in [File -> Seq(Cell)]
  BY <1>1 DEF Typed, TypeOK
<1> QED
  BY <1>1, <1>2, <1>3, <1>4, <1>5, InstallTyped

\* The table of descriptors when no object was made for the new one.
LEMMA LeakFacts ==
    ASSUME Typed, NEW i \in File, NEW write \in BOOLEAN, FreeFds # {}, Leak(i, write)
    PROVE  \E f \in Fd : /\ fds[f] = NONE /\ fds'[f] # NONE /\ fds'[f].file = i
                         /\ \A g \in Fd : g # f => fds'[g] = fds[g]
                         /\ leaked' = leaked \cup {f}
                         /\ fds' \in [Fd -> Descriptor \cup {NONE}]
<1> DEFINE f == Lowest(FreeFds)
           d == [file |-> i, off |-> 0, write |-> write]
<1>1. f \in Fd /\ fds[f] = NONE
  BY LowestFd
<1>2. d \in Descriptor /\ d.file = i
  BY DEF Descriptor
<1>3. d # NONE
  BY <1>2, Constants
<1>4. fds' = [fds EXCEPT ![f] = d] /\ leaked' = leaked \cup {f}
  BY DEF Leak
<1> HIDE DEF f, d
<1>5. /\ fds' \in [Fd -> Descriptor \cup {NONE}] /\ fds'[f] = d
      /\ \A g \in Fd : g # f => fds'[g] = fds[g]
  BY <1>1, <1>2, <1>4 DEF Typed
<1> QED
  BY <1>1, <1>2, <1>3, <1>4, <1>5

\* An open() whose object could not be made.
LEMMA LeakTyped ==
    ASSUME Typed, NEW i \in File, NEW write \in BOOLEAN, FreeFds # {}, Leak(i, write),
           UNCHANGED <<os, fd, closing, remaining, own, wrote, got>>,
           dir' \in [Name -> 0 .. NumFiles], data' \in [File -> Seq(Cell)],
           pc' \in [Thread -> {"idle", "opening", "writing", "closing"}],
           arg' \in [Thread -> Name \cup {NONE}], sole' \in [Thread -> BOOLEAN],
           \A u \in Thread : CallExact(u)'
    PROVE  Typed'
<1>1. PICK f \in Fd : leaked' = leaked \cup {f} /\ fds' \in [Fd -> Descriptor \cup {NONE}]
  BY LeakFacts
<1>2. \A g \in Fd : fds'[g] # NONE => fds'[g].file \in File /\ fds'[g].off \in Nat
  BY <1>1, FdFacts
<1>3. TypeOK'
  BY <1>1, <1>2 DEF Typed, TypeOK
<1> QED
  BY <1>1, <1>3 DEF Typed

LEMMA NewWritableThrowsTyped ==
    ASSUME Typed, NEW t \in Writer, NEW n \in Name, NewWritableThrows(t, n)
    PROVE  Typed'
<1> DEFINE i == Target(n)
<1>1. i \in File
  BY TargetFacts DEF NewWritableThrows
<1>2. /\ dir' = [dir EXCEPT ![n] = i] /\ data' = [data EXCEPT ![i] = <<>>]
      /\ Leak(i, TRUE) /\ FreeFds # {}
      /\ sole' = [u \in Thread |-> sole[u] /\ own[u] # i]
      /\ UNCHANGED <<os, fd, closing, pc, arg, remaining, own, wrote, got>>
  BY DEF NewWritableThrows, Truncate, locals
<1> HIDE DEF i
<1>3. dir' \in [Name -> 0 .. NumFiles]
  <2>1. i \in 0 .. NumFiles
    BY <1>1, Constants DEF File
  <2> QED
    BY <1>2, <2>1 DEF Typed, TypeOK
<1>4. data' \in [File -> Seq(Cell)]
  <2>1. <<>> \in Seq(Cell)
    OBVIOUS
  <2> QED
    BY <1>1, <1>2, <2>1 DEF Typed
<1>5. sole' \in [Thread -> BOOLEAN]
  <2>1. \A u \in Thread : (sole[u] /\ own[u] # i) \in BOOLEAN
    OBVIOUS
  <2> QED
    BY <1>2, <2>1
<1>6. /\ pc' \in [Thread -> {"idle", "opening", "writing", "closing"}]
      /\ arg' \in [Thread -> Name \cup {NONE}]
  BY <1>2 DEF Typed, TypeOK
<1>7. \A u \in Thread : CallExact(u)'
  BY <1>2 DEF Typed, CallExact
<1> QED
  BY <1>1, <1>2, <1>3, <1>4, <1>5, <1>6, <1>7, LeakTyped

\* The file a reader opens.
LEMMA OpeningFacts ==
    ASSUME Typed, NEW t \in Thread, pc[t] = "opening", MayOpen(t)
    PROVE  t \in Reader /\ dir[arg[t]] \in File /\ FreeFds # {}
<1>1. t \in Reader /\ arg[t] \in Name
  BY ThreadFacts DEF CallExact
<1>2. dir[arg[t]] \in 0 .. NumFiles
  BY <1>1 DEF Typed, TypeOK
<1> QED
  BY <1>1, <1>2, Constants DEF MayOpen

LEMMA OpenReadableThrowsTyped ==
    ASSUME Typed, NEW t \in Thread, OpenReadableThrows(t)
    PROVE  Typed'
<1> DEFINE i == dir[arg[t]]
<1>1. i \in File /\ FreeFds # {}
  BY OpeningFacts DEF OpenReadableThrows
<1>2. /\ Leak(i, FALSE) /\ pc' = [pc EXCEPT ![t] = "idle"] /\ pc[t] = "opening"
      /\ arg' = [arg EXCEPT ![t] = NONE]
      /\ UNCHANGED <<os, dir, data, fd, closing, remaining, own, sole, wrote, got>>
  BY DEF OpenReadableThrows
<1> HIDE DEF i
<1>3. /\ dir' \in [Name -> 0 .. NumFiles] /\ data' \in [File -> Seq(Cell)]
      /\ pc' \in [Thread -> {"idle", "opening", "writing", "closing"}]
      /\ arg' \in [Thread -> Name \cup {NONE}] /\ sole' \in [Thread -> BOOLEAN]
  BY <1>2 DEF Typed, TypeOK
<1>4. \A u \in Thread : CallExact(u)'
  BY <1>2 DEF Typed, TypeOK, CallExact
<1> QED
  BY <1>1, <1>2, <1>3, <1>4, LeakTyped

\* Steps that leave descriptors and files alone.
LEMMA LocalTyped ==
    ASSUME Typed, NEW t \in Thread,
           \/ t \in Reader /\ \E n \in Name : NewReadableFile(t, n)
           \/ OpenFails(t)
           \/ t \in Writer /\ \E n \in 1 .. MaxCells : Write(t, n)
           \/ WriteFails(t)
           \/ Close(t)
    PROVE  Typed'
<1>1. ASSUME t \in Reader, NEW n \in Name, NewReadableFile(t, n)
      PROVE  Typed'
  <2>1. TypeOK'
    BY <1>1 DEF NewReadableFile, history, Typed, TypeOK
  <2>2. \A u \in Thread : CallExact(u)'
    BY <1>1 DEF NewReadableFile, history, Typed, TypeOK, CallExact
  <2> QED
    BY <1>1, <2>1, <2>2 DEF NewReadableFile, history, Typed
<1>2. CASE OpenFails(t)
  <2>1. TypeOK'
    BY <1>2 DEF OpenFails, history, Typed, TypeOK
  <2>2. \A u \in Thread : CallExact(u)'
    BY <1>2 DEF OpenFails, history, Typed, TypeOK, CallExact
  <2> QED
    BY <1>2, <2>1, <2>2 DEF OpenFails, history, Typed
<1>3. ASSUME t \in Writer, NEW n \in 1 .. MaxCells, Write(t, n)
      PROVE  Typed'
  <2>1. TypeOK'
    BY <1>3, Constants DEF Write, history, Typed, TypeOK
  <2>2. \A u \in Thread : CallExact(u)'
    BY <1>3 DEF Write, history, Typed, TypeOK, CallExact
  <2> QED
    BY <1>3, <2>1, <2>2 DEF Write, history, Typed
<1>4. CASE WriteFails(t)
  <2>1. TypeOK'
    BY <1>4, Constants DEF WriteFails, history, Typed, TypeOK
  <2>2. \A u \in Thread : CallExact(u)'
    BY <1>4 DEF WriteFails, history, Typed, TypeOK, CallExact
  <2> QED
    BY <1>4, <2>1, <2>2 DEF WriteFails, history, Typed
<1>5. CASE Close(t)
  <2>1. TypeOK'
    BY <1>5, Constants DEF Close, Typed, TypeOK
  <2>2. \A u \in Thread : CallExact(u)'
    BY <1>5 DEF Close, Typed, TypeOK, CallExact
  <2>3. /\ own' \in [Thread -> 0 .. NumFiles] /\ sole' \in [Thread -> BOOLEAN]
        /\ got' \in [Thread -> Seq(Cell)]
    BY <1>5, Constants DEF Close, Typed
  <2> QED
    BY <1>5, <2>1, <2>2, <2>3 DEF Close, Typed
<1> QED
  BY <1>1, <1>2, <1>3, <1>4, <1>5

LEMMA WriteSomeTyped ==
    ASSUME Typed, NEW t \in Thread, NEW c \in 1 .. remaining[t], WriteSome(t, c)
    PROVE  Typed'
<1>0. /\ pc[t] = "writing" /\ t \in Writer /\ fd[t] \in Fd /\ Desc(t) \in Descriptor
      /\ wrote[t] \in Nat /\ remaining[t] \in Nat /\ c \in Nat /\ c <= remaining[t]
      /\ wrote[t] + remaining[t] <= MaxCells
  BY ThreadFacts DEF WriteSome, CallExact
<1>1. /\ Desc(t).file \in File /\ Desc(t).off \in Nat /\ Desc(t).off + c \in Nat
      /\ Desc(t).write \in BOOLEAN
  BY <1>0 DEF Descriptor
<1>2. fds' \in [Fd -> Descriptor \cup {NONE}]
  <2>1. [Desc(t) EXCEPT !.off = @ + c] \in Descriptor
    BY <1>0, <1>1 DEF Descriptor
  <2>2. fds' = [fds EXCEPT ![fd[t]] = [Desc(t) EXCEPT !.off = @ + c]]
    BY DEF WriteSome, Desc
  <2> QED
    BY <1>0, <2>1, <2>2 DEF Typed
<1>3. data' \in [File -> Seq(Cell)]
  <2> DEFINE new == Stored(data[Desc(t).file], Desc(t).off, t, c)
  <2>1. data[Desc(t).file] \in Seq(Cell)
    BY <1>1 DEF Typed
  <2>2. new \in Seq(Cell)
    BY <1>0, <1>1, <2>1, StoredFacts
  <2>3. data' = [data EXCEPT ![Desc(t).file] = new]
    BY DEF WriteSome
  <2> HIDE DEF new
  <2> QED
    BY <1>1, <2>2, <2>3 DEF Typed
<1>4. /\ remaining' = [remaining EXCEPT ![t] = remaining[t] - c]
      /\ wrote' = [wrote EXCEPT ![t] = wrote[t] + c]
      /\ pc' = [pc EXCEPT ![t] = IF remaining[t] - c = 0 THEN "idle" ELSE "writing"]
      /\ UNCHANGED <<os, dir, fd, closing, arg, own, sole, got, leaked>>
  BY DEF WriteSome, Remaining
<1>5. /\ remaining[t] - c \in 0 .. MaxCells /\ wrote[t] + c \in 0 .. MaxCells
      /\ (wrote[t] + c) + (remaining[t] - c) <= MaxCells
  BY <1>0, Constants
<1>6. TypeOK'
  <2>1. \A g \in Fd : fds'[g] # NONE => fds'[g].file \in File /\ fds'[g].off \in Nat
    BY <1>2, FdFacts
  <2> QED
    BY <1>4, <1>5, <2>1 DEF Typed, TypeOK
<1>7. \A u \in Thread : CallExact(u)'
  <2> SUFFICES ASSUME NEW u \in Thread
               PROVE  CallExact(u)'
    OBVIOUS
  <2>1. CASE u = t
    <3>1. /\ remaining'[t] = remaining[t] - c /\ wrote'[t] = wrote[t] + c
          /\ pc'[t] = IF remaining[t] - c = 0 THEN "idle" ELSE "writing"
      BY <1>4 DEF Typed, TypeOK
    <3> QED
      BY <2>1, <3>1, <1>0, <1>4, <1>5, ThreadFacts DEF CallExact
  <2>2. CASE u # t
    <3>1. remaining'[u] = remaining[u] /\ wrote'[u] = wrote[u] /\ pc'[u] = pc[u]
      BY <1>4, <2>2 DEF Typed, TypeOK
    <3> QED
      BY <3>1, <1>4 DEF CallExact, Typed
  <2> QED
    BY <2>1, <2>2
<1> QED
  BY <1>2, <1>3, <1>4, <1>6, <1>7 DEF Typed

\* One read(2): the cells from off + 1 on (lines 316-330).
LEMMA ChunkFacts ==
    ASSUME NEW s \in Seq(Cell), NEW off \in Nat, NEW n \in Nat, off < Len(s)
    PROVE  LET r == Chunk(s, off, n)
           IN  /\ r \in Seq(Cell) /\ Len(r) \in Nat /\ off + Len(r) <= Len(s)
               /\ \A p \in 1 .. Len(r) : r[p] = s[off + p]
<1> DEFINE last == IF off + n <= Len(s) THEN off + n ELSE Len(s)
<1>1. Len(s) \in Nat /\ last \in Nat /\ last <= Len(s) /\ off <= last /\ off + 1 \in Nat
  OBVIOUS
<1>2. \A j \in off + 1 .. last : s[j] \in Cell
  <2> HIDE DEF last
  <2>1. \A j \in off + 1 .. last : j \in 1 .. Len(s)
    BY <1>1
  <2> QED
    BY <2>1, ElementOfSeq
<1>3. Chunk(s, off, n) = SubSeq(s, off + 1, last)
  BY DEF Chunk
<1> HIDE DEF last
<1>4. /\ SubSeq(s, off + 1, last) \in Seq(Cell)
      /\ Len(SubSeq(s, off + 1, last)) = last - off
      /\ \A p \in 1 .. last - off : SubSeq(s, off + 1, last)[p] = s[off + p]
  <2>1. /\ SubSeq(s, off + 1, last) \in Seq(Cell)
        /\ Len(SubSeq(s, off + 1, last)) =
              IF off + 1 <= last THEN last - (off + 1) + 1 ELSE 0
        /\ \A p \in 1 .. last - (off + 1) + 1 :
              SubSeq(s, off + 1, last)[p] = s[(off + 1) + p - 1]
    BY <1>1, <1>2, SubSeqProperties
  <2>2. /\ last - (off + 1) + 1 = last - off
        /\ (IF off + 1 <= last THEN last - (off + 1) + 1 ELSE 0) = last - off
        /\ \A p \in Int : (off + 1) + p - 1 = off + p
    BY <1>1
  <2> QED
    BY <2>1, <2>2
<1> QED
  BY <1>1, <1>3, <1>4

LEMMA ReadTyped ==
    ASSUME Typed, NEW t \in Reader, NEW n \in 1 .. MaxCells, Read(t, n)
    PROVE  Typed'
<1> DEFINE s == data[Desc(t).file]
           off == Desc(t).off
           chunk == Chunk(s, off, n)
<1>0. /\ t \in Thread /\ pc[t] = "idle" /\ fd[t] \in Fd /\ Desc(t) \in Descriptor
      /\ off < Len(s) /\ got[t] \in Seq(Cell)
  <2>1. t \in Thread
    BY Constants
  <2> QED
    BY <2>1, ThreadFacts DEF Read
<1>1. /\ Desc(t).file \in File /\ off \in Nat /\ Desc(t).write \in BOOLEAN
      /\ s \in Seq(Cell) /\ n \in Nat
  <2>1. Desc(t).file \in File /\ off \in Nat /\ Desc(t).write \in BOOLEAN
    BY <1>0 DEF Descriptor
  <2>2. s \in Seq(Cell)
    BY <2>1 DEF Typed
  <2> QED
    BY <2>1, <2>2, Constants
<1>2. /\ got' = [got EXCEPT ![t] = @ \o chunk]
      /\ fds' = [fds EXCEPT ![fd[t]] = [Desc(t) EXCEPT !.off = off + Len(chunk)]]
      /\ UNCHANGED <<os, dir, data, fd, locals, own, sole, wrote, leaked>>
  BY DEF Read, Desc
<1>3. chunk \in Seq(Cell) /\ Len(chunk) \in Nat
  BY <1>0, <1>1, ChunkFacts
<1> HIDE DEF chunk
<1>4. got' \in [Thread -> Seq(Cell)]
  BY <1>0, <1>2, <1>3 DEF Typed
<1>5. fds' \in [Fd -> Descriptor \cup {NONE}]
  <2>1. off + Len(chunk) \in Nat
    BY <1>1, <1>3
  <2>2. [Desc(t) EXCEPT !.off = off + Len(chunk)] \in Descriptor
    BY <1>0, <1>1, <2>1 DEF Descriptor
  <2> QED
    BY <1>0, <1>2, <2>2 DEF Typed
<1>6. TypeOK'
  <2>1. \A g \in Fd : fds'[g] # NONE => fds'[g].file \in File /\ fds'[g].off \in Nat
    BY <1>5, FdFacts
  <2> QED
    BY <1>2, <2>1 DEF Typed, TypeOK, locals
<1>7. \A u \in Thread : CallExact(u)'
  BY <1>2 DEF Typed, CallExact, locals
<1> QED
  BY <1>2, <1>4, <1>5, <1>6, <1>7 DEF Typed, locals

LEMMA CloseInterruptedTyped ==
    ASSUME Typed, NEW t \in Thread, NEW r \in Released, CloseInterrupted(t, r)
    PROVE  Typed'
<1>1. UNCHANGED <<os, dir, fd, locals, history>> /\ data' = Reclaimed
  BY DEF CloseInterrupted
<1>2. fds' \in [Fd -> Descriptor \cup {NONE}]
  BY DEF CloseInterrupted, Typed
<1>3. data' \in [File -> Seq(Cell)]
  BY <1>1, ReclaimedTyped
<1>4. TypeOK'
  <2>1. \A g \in Fd : fds'[g] # NONE => fds'[g].file \in File /\ fds'[g].off \in Nat
    BY <1>2, FdFacts
  <2> QED
    BY <1>1, <2>1 DEF Typed, TypeOK, locals, history
<1>5. \A u \in Thread : CallExact(u)'
  BY <1>1 DEF Typed, CallExact, locals, history
<1> QED
  BY <1>1, <1>2, <1>3, <1>4, <1>5 DEF Typed, locals, history

LEMMA EndCloseTyped ==
    ASSUME Typed, NEW t \in Thread, EndClose(t)
    PROVE  Typed'
<1>1. /\ UNCHANGED <<os, dir, fd, arg, remaining, history>> /\ data' = Reclaimed
      /\ pc' = [pc EXCEPT ![t] = "idle"] /\ closing' = [closing EXCEPT ![t] = 0]
  BY DEF EndClose
<1>2. fds' \in [Fd -> Descriptor \cup {NONE}]
  BY DEF EndClose, Typed
<1>3. data' \in [File -> Seq(Cell)]
  BY <1>1, ReclaimedTyped
<1>4. TypeOK'
  <2>1. \A g \in Fd : fds'[g] # NONE => fds'[g].file \in File /\ fds'[g].off \in Nat
    BY <1>2, FdFacts
  <2> QED
    BY <1>1, <2>1, Constants DEF Typed, TypeOK, history
<1>5. \A u \in Thread : CallExact(u)'
  BY <1>1 DEF Typed, TypeOK, CallExact, history
<1> QED
  BY <1>1, <1>2, <1>3, <1>4, <1>5 DEF Typed, history

\* DeleteFile and RenameFile change the directory only.
LEMMA NamesTyped ==
    ASSUME Typed, NEW t \in Thread,
           \/ \E n \in Name : DeleteFile(t, n)
           \/ \E a, b \in Name : RenameFile(t, a, b)
    PROVE  Typed'
<1>1. UNCHANGED <<os, fds, fd, locals, history>> /\ data' = Reclaimed
  BY DEF DeleteFile, RenameFile
<1>2. dir' \in [Name -> 0 .. NumFiles]
  <2>0. dir \in [Name -> 0 .. NumFiles] /\ 0 \in 0 .. NumFiles
    BY Constants DEF Typed, TypeOK
  <2>1. ASSUME NEW n \in Name, DeleteFile(t, n)
        PROVE  dir' \in [Name -> 0 .. NumFiles]
    BY <2>0, <2>1 DEF DeleteFile
  <2>2. ASSUME NEW a \in Name, NEW b \in Name, RenameFile(t, a, b)
        PROVE  dir' \in [Name -> 0 .. NumFiles]
    <3>1. dir[a] \in 0 .. NumFiles
      BY <2>0
    <3> QED
      BY <2>0, <2>2, <3>1 DEF RenameFile
  <2> QED
    BY <2>1, <2>2
<1>3. data' \in [File -> Seq(Cell)]
  BY <1>1, ReclaimedTyped
<1>4. TypeOK'
  BY <1>1, <1>2 DEF Typed, TypeOK, locals, history
<1>5. \A u \in Thread : CallExact(u)'
  BY <1>1 DEF Typed, CallExact, locals, history
<1> QED
  BY <1>1, <1>3, <1>4, <1>5 DEF Typed, locals, history

LEMMA NextTyped == Typed /\ [Next]_vars => Typed'
<1> SUFFICES ASSUME Typed, [Next]_vars
             PROVE  Typed'
  OBVIOUS
<1>1. ASSUME NEW t \in Thread, Step(t)
      PROVE  Typed'
  <2>1. CASE OpenReadable(t) \/ OpenReadableThrows(t)
    BY <2>1, OpenReadableTyped, OpenReadableThrowsTyped
  <2>2. CASE OpenFails(t) \/ WriteFails(t)
    BY <2>2, LocalTyped
  <2>3. ASSUME NEW c \in 1 .. remaining[t], WriteSome(t, c)
        PROVE  Typed'
    BY <2>3, WriteSomeTyped
  <2>4. ASSUME NEW r \in Released, CloseInterrupted(t, r)
        PROVE  Typed'
    BY <2>4, CloseInterruptedTyped
  <2>5. CASE EndClose(t)
    BY <2>5, EndCloseTyped
  <2> QED
    BY <1>1, <2>1, <2>2, <2>3, <2>4, <2>5 DEF Step, CloseReturns, CloseHandle
<1>2. ASSUME NEW t \in Thread, Start(t)
      PROVE  Typed'
  BY <1>2, NamesTyped, LocalTyped DEF Start
<1>3. ASSUME NEW t \in Writer, StartWriter(t)
      PROVE  Typed'
  BY <1>3, NewWritableTyped, NewWritableThrowsTyped, LocalTyped, Constants DEF StartWriter
<1>4. ASSUME NEW t \in Reader, StartReader(t)
      PROVE  Typed'
  BY <1>4, ReadTyped, LocalTyped, Constants DEF StartReader
<1>5. CASE UNCHANGED vars
  <2>1. TypeOK'
    BY <1>5 DEF vars, locals, history, Typed, TypeOK
  <2>2. \A u \in Thread : CallExact(u)'
    BY <1>5 DEF vars, locals, history, Typed, CallExact
  <2> QED
    BY <1>5, <2>1, <2>2 DEF vars, locals, history, Typed
<1> QED
  BY <1>1, <1>2, <1>3, <1>4, <1>5 DEF Next

-----------------------------------------------------------------------------
(* Ownership of descriptors. *)

LEMMA OwnedFrame ==
    ASSUME Owned, UNCHANGED <<fds, fd, closing, own, leaked>>
    PROVE  Owned'
BY DEF Owned, DescriptorsOwned, Desc

\* A new descriptor was nobody's; the old one passes from the object to the
\* destructor that closes it (line 386).
LEMMA InstallOwned ==
    ASSUME Typed, Owned, NEW t \in Thread, NEW i \in File, NEW write \in BOOLEAN,
           pc[t] \in {"idle", "opening"}, FreeFds # {}, Install(t, i, write),
           leaked' = leaked
    PROVE  Owned'
<1> DEFINE f == Lowest(FreeFds)
           d == [file |-> i, off |-> 0, write |-> write]
<1>1. f \in Fd /\ fds[f] = NONE /\ f # 0
  BY LowestFd, Constants
<1>2. d \in Descriptor /\ d.file = i /\ d # NONE
  <2>1. d \in Descriptor
    BY DEF Descriptor
  <2> QED
    BY <2>1, Constants
<1>3. /\ fds' = [fds EXCEPT ![f] = d] /\ fd' = [fd EXCEPT ![t] = f]
      /\ closing' = [closing EXCEPT ![t] = fd[t]] /\ own' = [own EXCEPT ![t] = i]
  BY DEF Install
<1> HIDE DEF f, d
<1>4. /\ fds'[f] = d /\ \A g \in Fd : g # f => fds'[g] = fds[g]
      /\ fd'[t] = f /\ \A u \in Thread : u # t => fd'[u] = fd[u]
      /\ closing'[t] = fd[t] /\ \A u \in Thread : u # t => closing'[u] = closing[u]
      /\ own'[t] = i /\ \A u \in Thread : u # t => own'[u] = own[u]
  BY <1>1, <1>3 DEF Typed, TypeOK
<1>5. closing[t] = 0
  BY ThreadFacts DEF CallExact
<1>6. \A u \in Thread : /\ fd[u] # 0 => fd[u] \in Fd /\ fds[fd[u]] # NONE /\ fd[u] # f
                        /\ closing[u] # 0 => /\ closing[u] \in Fd
                                             /\ fds[closing[u]] # NONE /\ closing[u] # f
  BY <1>1, ThreadFacts DEF Owned, DescriptorsOwned, Desc
<1>7. \A u \in Thread : fd'[u] # 0 => fds'[fd'[u]] # NONE /\ fds'[fd'[u]].file = own'[u]
  BY <1>2, <1>4, <1>6 DEF Owned, DescriptorsOwned, Desc
<1>8. \A u, v \in Thread : fd'[u] # 0 => /\ closing'[v] # fd'[u]
                                         /\ u # v => fd'[v] # fd'[u]
  BY <1>1, <1>4, <1>5, <1>6 DEF Owned, DescriptorsOwned
<1>9. \A g \in Fd : fds'[g] # NONE
                       => g \in leaked \/ \E u \in Thread : g \in {fd'[u], closing'[u]}
  <2> SUFFICES ASSUME NEW g \in Fd, fds'[g] # NONE, g \notin leaked
               PROVE  \E u \in Thread : g \in {fd'[u], closing'[u]}
    OBVIOUS
  <2>1. CASE g = f
    BY <2>1, <1>4
  <2>2. CASE g # f
    <3>1. PICK u \in Thread : g \in {fd[u], closing[u]}
      BY <2>2, <1>4 DEF Owned, DescriptorsOwned
    <3>2. g # 0
      BY Constants
    <3> QED
      BY <3>1, <3>2, <1>4, <1>5
  <2> QED
    BY <2>1, <2>2
<1>10. \A u \in Thread : closing'[u] # 0 => fds'[closing'[u]] # NONE
  BY <1>4, <1>6
<1>11. \A u, v \in Thread : u # v /\ closing'[u] # 0 => closing'[v] # closing'[u]
  BY <1>4, <1>6 DEF Owned, DescriptorsOwned
<1>12. \A g \in leaked : fds'[g] # NONE /\ \A u \in Thread : g \notin {fd'[u], closing'[u]}
  <2> SUFFICES ASSUME NEW g \in leaked
               PROVE  fds'[g] # NONE /\ \A u \in Thread : g \notin {fd'[u], closing'[u]}
    OBVIOUS
  <2>1. /\ g \in Fd /\ fds[g] # NONE
        /\ \A u \in Thread : g \notin {fd[u], closing[u]}
    BY DEF Owned, DescriptorsOwned, Typed, TypeOK
  <2>2. g # f
    BY <1>1, <2>1
  <2> QED
    BY <1>4, <2>1, <2>2
<1> QED
  BY <1>7, <1>8, <1>9, <1>10, <1>11, <1>12 DEF Owned, DescriptorsOwned, Desc

\* A descriptor without an object is nobody's, and stays open.
LEMMA LeakOwned ==
    ASSUME Typed, Owned, NEW i \in File, NEW write \in BOOLEAN, FreeFds # {},
           Leak(i, write), UNCHANGED <<fd, closing, own>>
    PROVE  /\ Owned'
           /\ \A u \in Thread : fd[u] # 0 => fds'[fd[u]] = fds[fd[u]]
<1>1. PICK f \in Fd : /\ fds[f] = NONE /\ fds'[f] # NONE
                      /\ \A g \in Fd : g # f => fds'[g] = fds[g]
                      /\ leaked' = leaked \cup {f}
  BY LeakFacts
<1>2. \A u \in Thread : /\ fd[u] # 0 => fd[u] \in Fd /\ fds[fd[u]] # NONE /\ fd[u] # f
                        /\ closing[u] # 0 => /\ closing[u] \in Fd
                                             /\ fds[closing[u]] # NONE /\ closing[u] # f
  BY <1>1, ThreadFacts DEF Owned, DescriptorsOwned, Desc
<1>3. \A u \in Thread : /\ fd[u] # 0 => fds'[fd[u]] = fds[fd[u]]
                        /\ closing[u] # 0 => fds'[closing[u]] = fds[closing[u]]
  BY <1>1, <1>2
<1>4. \A u \in Thread : fd[u] # 0 => fds'[fd[u]] # NONE /\ fds'[fd[u]].file = own[u]
  BY <1>3 DEF Owned, DescriptorsOwned, Desc
<1>5. \A g \in Fd : fds'[g] # NONE
                       => g \in leaked' \/ \E u \in Thread : g \in {fd[u], closing[u]}
  BY <1>1 DEF Owned, DescriptorsOwned
<1>6. ASSUME NEW g \in leaked'
      PROVE  fds'[g] # NONE /\ \A u \in Thread : g \notin {fd[u], closing[u]}
  <2>1. CASE g = f
    <3>1. f # 0
      BY Constants
    <3> QED
      BY <1>1, <1>2, <2>1, <3>1
  <2>2. CASE g # f
    <3>1. g \in leaked
      BY <1>1, <1>6, <2>2
    <3>2. g \in Fd /\ fds[g] # NONE /\ \A u \in Thread : g \notin {fd[u], closing[u]}
      BY <3>1 DEF Owned, DescriptorsOwned, Typed, TypeOK
    <3> QED
      BY <1>1, <2>2, <3>2
  <2> QED
    BY <2>1, <2>2
<1>7. DescriptorsOwned'
  BY <1>4, <1>5, <1>6 DEF Owned, DescriptorsOwned, Desc
<1>8. \A u \in Thread : closing[u] # 0 => fds'[closing[u]] # NONE
  BY <1>2, <1>3
<1>9. Owned'
  BY <1>7, <1>8 DEF Owned
<1> QED
  BY <1>3, <1>9

\* A write(2) or read(2) moves the offset of the object's own descriptor.
LEMMA OffsetOwned ==
    ASSUME Typed, Owned, NEW t \in Thread, fd[t] # 0,
           NEW d, d # NONE, d.file = Desc(t).file,
           fds' = [fds EXCEPT ![fd[t]] = d], UNCHANGED <<fd, closing, own, leaked>>
    PROVE  Owned'
<1>1. fd[t] \in Fd /\ Desc(t) # NONE
  BY ThreadFacts DEF Owned, DescriptorsOwned
<1>2. \A g \in Fd : /\ fds'[g] = NONE <=> fds[g] = NONE
                    /\ fds'[g].file = fds[g].file
  BY <1>1 DEF Typed, Desc
<1>3. \A u \in Thread : /\ fd[u] # 0 => fd[u] \in Fd
                        /\ closing[u] # 0 => closing[u] \in Fd
  BY ThreadFacts
<1>4. leaked \subseteq Fd
  BY DEF Typed, TypeOK
<1> QED
  BY <1>2, <1>3, <1>4 DEF Owned, DescriptorsOwned, Desc

\* Close() takes the descriptor from the object (lines 282-291).
LEMMA CloseOwned ==
    ASSUME Typed, Owned, NEW t \in Thread, Close(t)
    PROVE  Owned'
<1>1. /\ fd[t] # 0 /\ fd[t] \in Fd /\ closing[t] = 0
      /\ Desc(t) # NONE
  BY ThreadFacts DEF Close, CallExact, Owned, DescriptorsOwned
<1>2. /\ fds' = fds /\ fd' = [fd EXCEPT ![t] = 0]
      /\ closing' = [closing EXCEPT ![t] = fd[t]] /\ own' = [own EXCEPT ![t] = 0]
      /\ leaked' = leaked
  BY DEF Close
<1>3. /\ fd'[t] = 0 /\ \A u \in Thread : u # t => fd'[u] = fd[u]
      /\ closing'[t] = fd[t] /\ \A u \in Thread : u # t => closing'[u] = closing[u]
      /\ \A u \in Thread : u # t => own'[u] = own[u]
  BY <1>2 DEF Typed, TypeOK
<1>4. \A u \in Thread : fd'[u] # 0 => fds[fd'[u]] # NONE /\ fds[fd'[u]].file = own'[u]
  BY <1>3 DEF Owned, DescriptorsOwned, Desc
<1>5. \A u, v \in Thread : fd'[u] # 0 => /\ closing'[v] # fd'[u]
                                         /\ u # v => fd'[v] # fd'[u]
  BY <1>1, <1>3 DEF Owned, DescriptorsOwned
<1>6. \A g \in Fd : fds[g] # NONE
                       => g \in leaked \/ \E u \in Thread : g \in {fd'[u], closing'[u]}
  <2> SUFFICES ASSUME NEW g \in Fd, fds[g] # NONE, g \notin leaked
               PROVE  \E u \in Thread : g \in {fd'[u], closing'[u]}
    OBVIOUS
  <2>1. PICK u \in Thread : g \in {fd[u], closing[u]}
    BY DEF Owned, DescriptorsOwned
  <2>2. g # 0
    BY Constants
  <2> QED
    BY <2>1, <2>2, <1>1, <1>3
<1>7. \A u \in Thread : closing'[u] # 0 => fds[closing'[u]] # NONE
  BY <1>1, <1>3 DEF Owned, Desc
<1>8. \A u, v \in Thread : u # v /\ closing'[u] # 0 => closing'[v] # closing'[u]
  BY <1>1, <1>3 DEF Owned, DescriptorsOwned
<1>9. \A g \in leaked : fds[g] # NONE /\ \A u \in Thread : g \notin {fd'[u], closing'[u]}
  <2> SUFFICES ASSUME NEW g \in leaked
               PROVE  fds[g] # NONE /\ \A u \in Thread : g \notin {fd'[u], closing'[u]}
    OBVIOUS
  <2>1. /\ g # 0 /\ fds[g] # NONE
        /\ \A u \in Thread : g \notin {fd[u], closing[u]}
    BY Constants DEF Owned, DescriptorsOwned, Typed, TypeOK
  <2> QED
    BY <1>3, <2>1
<1> QED
  BY <1>2, <1>4, <1>5, <1>6, <1>7, <1>8, <1>9 DEF Owned, DescriptorsOwned, Desc

\* The last call of close(2) releases a descriptor that is nobody else's.
LEMMA EndCloseOwned ==
    ASSUME Typed, Owned, NEW t \in Thread, EndClose(t)
    PROVE  Owned'
<1> DEFINE c == closing[t]
<1>1. c # 0 /\ c \in Fd
  BY ThreadFacts DEF EndClose, CallExact
<1>2. /\ fds' = [fds EXCEPT ![c] = NONE] /\ closing' = [closing EXCEPT ![t] = 0]
      /\ UNCHANGED <<fd, own, leaked>>
  BY DEF EndClose, history
<1>3. /\ fds'[c] = NONE /\ \A g \in Fd : g # c => fds'[g] = fds[g]
      /\ closing'[t] = 0 /\ \A u \in Thread : u # t => closing'[u] = closing[u]
  BY <1>1, <1>2 DEF Typed, TypeOK
<1>4. \A u \in Thread : /\ fd[u] # 0 => fd[u] \in Fd /\ fd[u] # c
                        /\ u # t /\ closing[u] # 0 => closing[u] \in Fd /\ closing[u] # c
  BY <1>1, ThreadFacts DEF Owned, DescriptorsOwned
<1> HIDE DEF c
<1>5. \A u \in Thread : fd[u] # 0 => fds'[fd[u]] # NONE /\ fds'[fd[u]].file = own[u]
  BY <1>3, <1>4 DEF Owned, DescriptorsOwned, Desc
<1>6. \A u, v \in Thread : fd[u] # 0 => /\ closing'[v] # fd[u]
                                        /\ u # v => fd[v] # fd[u]
  BY <1>3 DEF Owned, DescriptorsOwned
<1>7. \A g \in Fd : fds'[g] # NONE
                       => g \in leaked \/ \E u \in Thread : g \in {fd[u], closing'[u]}
  <2> SUFFICES ASSUME NEW g \in Fd, fds'[g] # NONE, g \notin leaked
               PROVE  \E u \in Thread : g \in {fd[u], closing'[u]}
    OBVIOUS
  <2>1. g # c /\ fds[g] # NONE
    BY <1>3
  <2>2. PICK u \in Thread : g \in {fd[u], closing[u]}
    BY <2>1 DEF Owned, DescriptorsOwned
  <2> QED
    BY <2>1, <2>2, <1>3 DEF c
<1>8. \A u \in Thread : closing'[u] # 0 => fds'[closing'[u]] # NONE
  BY <1>3, <1>4 DEF Owned
<1>9. \A u, v \in Thread : u # v /\ closing'[u] # 0 => closing'[v] # closing'[u]
  BY <1>3 DEF Owned
<1>10. \A g \in leaked : fds'[g] # NONE /\ \A u \in Thread : g \notin {fd[u], closing'[u]}
  <2> SUFFICES ASSUME NEW g \in leaked
               PROVE  fds'[g] # NONE /\ \A u \in Thread : g \notin {fd[u], closing'[u]}
    OBVIOUS
  <2>1. /\ g \in Fd /\ g # 0 /\ fds[g] # NONE
        /\ \A u \in Thread : g \notin {fd[u], closing[u]}
    BY Constants DEF Owned, DescriptorsOwned, Typed, TypeOK
  <2>2. g # c
    BY <2>1 DEF c
  <2> QED
    BY <1>3, <2>1, <2>2
<1> QED
  BY <1>2, <1>5, <1>6, <1>7, <1>8, <1>9, <1>10 DEF Owned, DescriptorsOwned, Desc

-----------------------------------------------------------------------------
(* Contents of files. *)

\* What Owned says about an object's descriptor and file.
LEMMA ObjectFacts ==
    ASSUME Typed, Owned, NEW t \in Thread, fd[t] # 0
    PROVE  /\ fd[t] \in Fd /\ Desc(t) \in Descriptor /\ Desc(t).file = own[t]
           /\ Desc(t).off \in Nat /\ own[t] \in File /\ data[own[t]] \in Seq(Cell)
           /\ Len(data[own[t]]) \in Nat
<1>1. fd[t] \in Fd /\ Desc(t) \in Descriptor /\ Desc(t).file = own[t] /\ own[t] \in File
  BY ThreadFacts DEF Owned, DescriptorsOwned, CallExact
<1>2. data[own[t]] \in Seq(Cell)
  BY <1>1 DEF Typed
<1> QED
  BY <1>1, <1>2 DEF Descriptor

\* A step that leaves the objects, their offsets and their files alone.
LEMMA InOrderFrame ==
    ASSUME Typed, Owned, InOrder, UNCHANGED <<os, fd, own, sole, wrote, got>>,
           \A u \in Thread : fd[u] # 0 => /\ fds'[fd[u]] = fds[fd[u]]
                                          /\ data'[own[u]] = data[own[u]]
    PROVE  InOrder'
<1>1. OffsetsExact'
  BY Constants DEF InOrder, OffsetsExact, Desc
<1>2. SoleExact' /\ ExclusiveOnWindows'
  BY DEF InOrder, SoleExact, ExclusiveOnWindows
<1>3. WrittenInOrder'
  BY Constants DEF InOrder, WrittenInOrder
<1>4. ReadsInOrder'
  BY Constants DEF InOrder, ReadsInOrder
<1> QED
  BY <1>1, <1>2, <1>3, <1>4 DEF InOrder

\* A file that an object has open is not reclaimed, whatever happens to its
\* name.
LEMMA FileKept ==
    ASSUME Typed, Owned, Owned', data' = Reclaimed, UNCHANGED <<fd, own>>,
           NEW u \in Thread, fd[u] # 0
    PROVE  data'[own[u]] = data[own[u]]
<1>1. fd[u] \in Fd /\ own[u] \in File
  BY ObjectFacts
<1>2. fds'[fd[u]] # NONE /\ fds'[fd[u]].file = own[u]
  BY DEF Owned, DescriptorsOwned, Desc
<1>3. Referred(own[u])'
  BY <1>1, <1>2 DEF Referred
<1> QED
  BY <1>1, <1>3, ReclaimedTyped

\* On Windows nobody has the file open that an open() empties (line 370).
LEMMA TargetNobodys ==
    ASSUME Typed, Owned, NEW t, NEW n \in Name, Truncate(t, n), os = "win32"
    PROVE  \A u \in Thread : own[u] # Target(n)
<1> SUFFICES ASSUME NEW u \in Thread, own[u] = Target(n)
             PROVE  FALSE
  OBVIOUS
<1>1. fd[u] # 0
  BY TargetFacts, Constants, ThreadFacts DEF CallExact
<1>2. fd[u] \in Fd /\ fds[fd[u]] # NONE /\ fds[fd[u]].file = Target(n)
  BY <1>1, ObjectFacts DEF Desc, Owned, DescriptorsOwned
<1>3. CASE dir[n] # 0
  BY <1>2, <1>3 DEF Truncate, Target, MayWrite, OpenOn
<1>4. CASE dir[n] = 0
  BY <1>2, <1>4, LowestFile DEF Truncate, Target, Referred
<1> QED
  BY <1>3, <1>4

\* Truncation by an open() ends the sole writing and reading of the others,
\* and on Windows there are none (lines 364-386).
LEMMA NewWritableInOrder ==
    ASSUME Typed, Owned, InOrder, NEW t \in Writer, NEW n \in Name, NewWritableFile(t, n)
    PROVE  InOrder'
<1> DEFINE i == Target(n)
           f == Lowest(FreeFds)
           d == [file |-> i, off |-> 0, write |-> TRUE]
<1>0. t \in Thread /\ t \notin Reader /\ FreeFds # {} /\ f \in Fd /\ fds[f] = NONE
  BY LowestFd, Constants DEF NewWritableFile, Truncate
<1>1. i \in File /\ i # 0
  BY TargetFacts, Constants DEF NewWritableFile
<1>2. /\ data' = [data EXCEPT ![i] = <<>>] /\ os' = os
      /\ fds' = [fds EXCEPT ![f] = d] /\ fd' = [fd EXCEPT ![t] = f]
      /\ own' = [own EXCEPT ![t] = i] /\ wrote' = [wrote EXCEPT ![t] = 0]
      /\ got' = [got EXCEPT ![t] = <<>>]
      /\ sole' = [u \in Thread |-> IF u = t THEN Writers(i) \subseteq {t}
                                   ELSE sole[u] /\ own[u] # i]
  BY DEF NewWritableFile, Truncate, Install
<1>3. ASSUME os = "win32"
      PROVE  \A u \in Thread : own[u] # i
  BY <1>3, TargetNobodys DEF NewWritableFile
<1> HIDE DEF i, f
<1>4. /\ fds'[f] = d /\ d.off = 0 /\ fd'[t] = f /\ own'[t] = i /\ wrote'[t] = 0
      /\ data'[i] = <<>> /\ (sole'[t] <=> Writers(i) \subseteq {t})
  BY <1>0, <1>1, <1>2 DEF Typed, TypeOK
<1>5. \A u \in Thread : u # t =>
         /\ fd'[u] = fd[u] /\ own'[u] = own[u] /\ wrote'[u] = wrote[u] /\ got'[u] = got[u]
         /\ sole'[u] <=> sole[u] /\ own[u] # i
         /\ fd[u] # 0 => fds'[fd[u]] = fds[fd[u]] /\ (own[u] # i => data'[own[u]] = data[own[u]])
  <2> SUFFICES ASSUME NEW u \in Thread, u # t
               PROVE  /\ fd'[u] = fd[u] /\ own'[u] = own[u] /\ wrote'[u] = wrote[u]
                      /\ got'[u] = got[u] /\ (sole'[u] <=> sole[u] /\ own[u] # i)
                      /\ fd[u] # 0 => /\ fds'[fd[u]] = fds[fd[u]]
                                      /\ own[u] # i => data'[own[u]] = data[own[u]]
    OBVIOUS
  <2>1. /\ fd'[u] = fd[u] /\ own'[u] = own[u] /\ wrote'[u] = wrote[u] /\ got'[u] = got[u]
        /\ (sole'[u] <=> sole[u] /\ own[u] # i)
    BY <1>2 DEF Typed, TypeOK
  <2>2. ASSUME fd[u] # 0
        PROVE  /\ fds'[fd[u]] = fds[fd[u]]
               /\ own[u] # i => data'[own[u]] = data[own[u]]
    <3>1. fd[u] \in Fd /\ own[u] \in File /\ fds[fd[u]] # NONE
      BY <2>2, ObjectFacts DEF Owned, DescriptorsOwned, Desc
    <3> QED
      BY <3>1, <1>0, <1>2 DEF Typed
  <2> QED
    BY <2>1, <2>2
<1>6. OffsetsExact'
  BY <1>0, <1>4, <1>5, Constants DEF InOrder, OffsetsExact, Desc
<1>7. SoleExact'
  <2>1. ASSUME NEW u \in Writer, NEW v \in Writer, u # v, fd'[u] # 0, fd'[v] # 0,
               own'[u] = own'[v]
        PROVE  ~sole'[u]
    <3>1. CASE u = t
      BY <2>1, <3>1, <1>4, <1>5, Constants DEF Writers
    <3>2. CASE u # t /\ v = t
      BY <2>1, <3>2, <1>4, <1>5, Constants
    <3>3. CASE u # t /\ v # t
      BY <2>1, <3>3, <1>5, Constants DEF InOrder, SoleExact
    <3> QED
      BY <3>1, <3>2, <3>3
  <2>2. ASSUME NEW r \in Reader, NEW u \in Writer, fd'[r] # 0, sole'[r], fd'[u] # 0,
               own'[u] = own'[r]
        PROVE  sole'[u]
    <3>1. r # t /\ r \in Thread /\ u \in Thread
      BY <1>0, Constants
    <3>2. own[r] # i /\ sole[r] /\ own'[r] = own[r] /\ fd[r] # 0
      BY <2>2, <3>1, <1>5
    <3>3. u # t
      BY <2>2, <3>2, <1>4
    <3> QED
      BY <2>2, <3>1, <3>2, <3>3, <1>5 DEF InOrder, SoleExact
  <2> QED
    BY <2>1, <2>2 DEF SoleExact
<1>8. WrittenInOrder'
  <2> SUFFICES ASSUME NEW u \in Writer, fd'[u] # 0, sole'[u]
               PROVE  data'[own'[u]] = [p \in 1 .. wrote'[u] |-> <<u, p>>]
    BY DEF WrittenInOrder
  <2>1. CASE u = t
    <3>1. [p \in 1 .. 0 |-> <<u, p>>] = <<>>
      OBVIOUS
    <3> QED
      BY <2>1, <3>1, <1>4
  <2>2. CASE u # t
    BY <2>2, <1>5, Constants DEF InOrder, WrittenInOrder
  <2> QED
    BY <2>1, <2>2
<1>9. ReadsInOrder'
  <2> SUFFICES ASSUME NEW r \in Reader, fd'[r] # 0, sole'[r]
               PROVE  /\ Len(got'[r]) <= Len(data'[own'[r]])
                      /\ \A p \in DOMAIN got'[r] : got'[r][p] = data'[own'[r]][p]
    BY DEF ReadsInOrder
  <2>1. r # t /\ r \in Thread
    BY <1>0, Constants
  <2>2. /\ fd[r] # 0 /\ sole[r] /\ own'[r] = own[r] /\ got'[r] = got[r]
        /\ data'[own[r]] = data[own[r]]
    BY <2>1, <1>5
  <2> QED
    BY <2>2 DEF InOrder, ReadsInOrder
<1>10. ExclusiveOnWindows'
  <2> SUFFICES ASSUME os = "win32", NEW u \in Thread
               PROVE  sole'[u]
    BY <1>2 DEF ExclusiveOnWindows
  <2>1. CASE u = t
    BY <2>1, <1>3, <1>4, Constants DEF Writers
  <2>2. CASE u # t
    BY <2>2, <1>3, <1>5 DEF InOrder, ExclusiveOnWindows
  <2> QED
    BY <2>1, <2>2
<1> QED
  BY <1>6, <1>7, <1>8, <1>9, <1>10 DEF InOrder

\* The same when the object cannot be made.
LEMMA NewWritableThrowsInOrder ==
    ASSUME Typed, Owned, InOrder, NEW t \in Writer, NEW n \in Name,
           NewWritableThrows(t, n)
    PROVE  Owned' /\ InOrder'
<1> DEFINE i == Target(n)
<1>1. i \in File /\ i # 0
  BY TargetFacts, Constants DEF NewWritableThrows
<1>2. /\ data' = [data EXCEPT ![i] = <<>>] /\ Leak(i, TRUE) /\ FreeFds # {}
      /\ sole' = [u \in Thread |-> sole[u] /\ own[u] # i]
      /\ UNCHANGED <<os, fd, closing, own, wrote, got>>
  BY DEF NewWritableThrows, Truncate, locals
<1>3. os = "win32" => \A u \in Thread : own[u] # i
  BY TargetNobodys DEF NewWritableThrows
<1> HIDE DEF i
<1>4. Owned' /\ \A u \in Thread : fd[u] # 0 => fds'[fd[u]] = fds[fd[u]]
  BY <1>1, <1>2, LeakOwned
<1>5. \A u \in Thread : sole'[u] <=> sole[u] /\ own[u] # i
  BY <1>2
<1>6. \A u \in Thread : fd[u] # 0 /\ own[u] # i => data'[own[u]] = data[own[u]]
  <2> SUFFICES ASSUME NEW u \in Thread, fd[u] # 0, own[u] # i
               PROVE  data'[own[u]] = data[own[u]]
    OBVIOUS
  <2>1. own[u] \in File
    BY ObjectFacts
  <2> QED
    BY <1>2, <2>1 DEF Typed
<1>7. OffsetsExact'
  BY <1>2, <1>4, Constants DEF InOrder, OffsetsExact, Desc
<1>8. SoleExact'
  BY <1>2, <1>5, Constants DEF InOrder, SoleExact
<1>9. WrittenInOrder'
  BY <1>2, <1>5, <1>6, Constants DEF InOrder, WrittenInOrder
<1>10. ReadsInOrder'
  BY <1>2, <1>5, <1>6, Constants DEF InOrder, ReadsInOrder
<1>11. ExclusiveOnWindows'
  BY <1>2, <1>3, <1>5 DEF InOrder, ExclusiveOnWindows
<1> QED
  BY <1>4, <1>7, <1>8, <1>9, <1>10, <1>11 DEF InOrder

\* A reader starts at the front of the file.
LEMMA OpenReadableInOrder ==
    ASSUME Typed, Owned, InOrder, NEW t \in Thread, OpenReadable(t)
    PROVE  InOrder'
<1> DEFINE i == dir[arg[t]]
           f == Lowest(FreeFds)
           d == [file |-> i, off |-> 0, write |-> FALSE]
<1>0. t \in Reader /\ t \notin Writer /\ f \in Fd /\ fds[f] = NONE
  BY LowestFd, Constants, OpeningFacts DEF OpenReadable
<1>1. i \in File
  BY OpeningFacts DEF OpenReadable
<1>2. /\ UNCHANGED <<os, data>>
      /\ fds' = [fds EXCEPT ![f] = d] /\ fd' = [fd EXCEPT ![t] = f]
      /\ own' = [own EXCEPT ![t] = i] /\ wrote' = [wrote EXCEPT ![t] = 0]
      /\ got' = [got EXCEPT ![t] = <<>>]
      /\ sole' = [sole EXCEPT ![t] = \A u \in Writers(i) : sole[u]]
  BY DEF OpenReadable, Install
<1> HIDE DEF i, f
<1>3. /\ fds'[f] = d /\ d.off = 0 /\ fd'[t] = f /\ own'[t] = i /\ got'[t] = <<>>
      /\ sole'[t] <=> \A u \in Writers(i) : sole[u]
  BY <1>0, <1>2 DEF Typed, TypeOK
<1>4. \A u \in Thread : u # t =>
         /\ fd'[u] = fd[u] /\ own'[u] = own[u] /\ wrote'[u] = wrote[u] /\ got'[u] = got[u]
         /\ sole'[u] = sole[u]
         /\ fd[u] # 0 => fds'[fd[u]] = fds[fd[u]]
  <2> SUFFICES ASSUME NEW u \in Thread, u # t
               PROVE  /\ fd'[u] = fd[u] /\ own'[u] = own[u] /\ wrote'[u] = wrote[u]
                      /\ got'[u] = got[u] /\ sole'[u] = sole[u]
                      /\ fd[u] # 0 => fds'[fd[u]] = fds[fd[u]]
    OBVIOUS
  <2>1. /\ fd'[u] = fd[u] /\ own'[u] = own[u] /\ wrote'[u] = wrote[u] /\ got'[u] = got[u]
        /\ sole'[u] = sole[u]
    BY <1>2 DEF Typed, TypeOK
  <2>2. ASSUME fd[u] # 0
        PROVE  fds'[fd[u]] = fds[fd[u]]
    <3>1. fd[u] \in Fd /\ fds[fd[u]] # NONE
      BY <2>2, ObjectFacts DEF Owned, DescriptorsOwned, Desc
    <3> QED
      BY <3>1, <1>0, <1>2 DEF Typed
  <2> QED
    BY <2>1, <2>2
<1>5. OffsetsExact'
  <2>1. Len(<<>>) = 0
    OBVIOUS
  <2> QED
    BY <2>1, <1>0, <1>3, <1>4, Constants DEF InOrder, OffsetsExact, Desc
<1>6. SoleExact'
  <2>1. ASSUME NEW u \in Writer, NEW v \in Writer, u # v, fd'[u] # 0, fd'[v] # 0,
               own'[u] = own'[v]
        PROVE  ~sole'[u]
    BY <2>1, <1>0, <1>4, Constants DEF InOrder, SoleExact
  <2>2. ASSUME NEW r \in Reader, NEW u \in Writer, fd'[r] # 0, sole'[r], fd'[u] # 0,
               own'[u] = own'[r]
        PROVE  sole'[u]
    <3>0. u # t /\ u \in Thread /\ r \in Thread
      BY <1>0, Constants
    <3>1. CASE r = t
      BY <2>2, <3>0, <3>1, <1>3, <1>4 DEF Writers
    <3>2. CASE r # t
      BY <2>2, <3>0, <3>2, <1>4 DEF InOrder, SoleExact
    <3> QED
      BY <3>1, <3>2
  <2> QED
    BY <2>1, <2>2 DEF SoleExact
<1>7. WrittenInOrder'
  <2> SUFFICES ASSUME NEW u \in Writer, fd'[u] # 0, sole'[u]
               PROVE  data'[own'[u]] = [p \in 1 .. wrote'[u] |-> <<u, p>>]
    BY DEF WrittenInOrder
  <2>1. u # t /\ u \in Thread
    BY <1>0, Constants
  <2>2. /\ fd[u] # 0 /\ sole[u] /\ own'[u] = own[u] /\ wrote'[u] = wrote[u]
        /\ data' = data
    BY <2>1, <1>2, <1>4
  <2> QED
    BY <2>2 DEF InOrder, WrittenInOrder
<1>8. ReadsInOrder'
  <2> SUFFICES ASSUME NEW r \in Reader, fd'[r] # 0, sole'[r]
               PROVE  /\ Len(got'[r]) <= Len(data'[own'[r]])
                      /\ \A p \in DOMAIN got'[r] : got'[r][p] = data'[own'[r]][p]
    BY DEF ReadsInOrder
  <2>1. CASE r = t
    <3>1. data[i] \in Seq(Cell) /\ Len(data[i]) \in Nat
      <4>1. data[i] \in Seq(Cell)
        BY <1>1 DEF Typed
      <4> QED
        BY <4>1
    <3> QED
      BY <2>1, <3>1, <1>2, <1>3
  <2>2. CASE r # t
    BY <2>2, <1>2, <1>4, Constants DEF InOrder, ReadsInOrder
  <2> QED
    BY <2>1, <2>2
<1>9. ExclusiveOnWindows'
  BY <1>2, <1>3, <1>4, Constants DEF InOrder, ExclusiveOnWindows, Writers
<1> QED
  BY <1>5, <1>6, <1>7, <1>8, <1>9 DEF InOrder

\* A write(2) of a sole writer appends; others do not own the descriptor, and
\* those that share the file are not sole (lines 239-259).
LEMMA WriteSomeInOrder ==
    ASSUME Typed, Owned, InOrder,
           NEW t \in Thread, NEW c \in 1 .. remaining[t], WriteSome(t, c)
    PROVE  InOrder'
<1> DEFINE i == own[t]
           s == data[i]
           off == Desc(t).off
           new == Stored(s, off, t, c)
<1>0. /\ t \in Writer /\ t \notin Reader /\ fd[t] # 0 /\ c \in Nat /\ wrote[t] \in Nat
      /\ fd[t] \in Fd /\ Desc(t) \in Descriptor /\ Desc(t).file = i /\ off \in Nat
      /\ i \in File /\ s \in Seq(Cell) /\ Len(s) \in Nat
  <2>1. t \in Writer /\ fd[t] # 0 /\ wrote[t] \in Nat /\ remaining[t] \in Nat
    BY ThreadFacts DEF WriteSome, CallExact
  <2> QED
    BY <2>1, ObjectFacts, Constants
<1>1. /\ data' = [data EXCEPT ![i] = new]
      /\ fds' = [fds EXCEPT ![fd[t]] = [Desc(t) EXCEPT !.off = off + c]]
      /\ wrote' = [wrote EXCEPT ![t] = wrote[t] + c]
      /\ UNCHANGED <<os, fd, own, sole, got>>
  BY <1>0 DEF WriteSome, Desc
<1>2. off = wrote[t]
  BY <1>0 DEF InOrder, OffsetsExact
<1>3. fds'[fd[t]].off = off + c /\ data'[i] = new /\ wrote'[t] = wrote[t] + c
  BY <1>0, <1>1 DEF Typed, TypeOK, Descriptor
<1>4. \A u \in Thread : u # t =>
         /\ wrote'[u] = wrote[u]
         /\ fd[u] # 0 => fds'[fd[u]] = fds[fd[u]] /\ (own[u] # i => data'[own[u]] = data[own[u]])
  <2> SUFFICES ASSUME NEW u \in Thread, u # t
               PROVE  /\ wrote'[u] = wrote[u]
                      /\ fd[u] # 0 => /\ fds'[fd[u]] = fds[fd[u]]
                                      /\ own[u] # i => data'[own[u]] = data[own[u]]
    OBVIOUS
  <2>1. wrote'[u] = wrote[u]
    BY <1>1 DEF Typed, TypeOK
  <2>2. ASSUME fd[u] # 0
        PROVE  /\ fds'[fd[u]] = fds[fd[u]]
               /\ own[u] # i => data'[own[u]] = data[own[u]]
    <3>1. fd[u] \in Fd /\ own[u] \in File
      BY <2>2, ObjectFacts
    <3>2. fd[u] # fd[t]
      BY <1>0 DEF Owned, DescriptorsOwned
    <3> HIDE DEF new
    <3> QED
      BY <3>1, <3>2, <1>0, <1>1 DEF Typed
  <2> QED
    BY <2>1, <2>2
<1>5. sole[t] => /\ s = [p \in 1 .. wrote[t] |-> <<t, p>>] /\ Len(s) = wrote[t]
  <2> SUFFICES ASSUME sole[t]
               PROVE  s = [p \in 1 .. wrote[t] |-> <<t, p>>] /\ Len(s) = wrote[t]
    OBVIOUS
  <2>1. s = [p \in 1 .. wrote[t] |-> <<t, p>>]
    BY <1>0 DEF InOrder, WrittenInOrder
  <2>2. DOMAIN s = 1 .. Len(s) /\ DOMAIN s = 1 .. wrote[t]
    BY <1>0, <2>1
  <2>3. 1 .. Len(s) = 1 .. wrote[t] => Len(s) = wrote[t]
    <3> HIDE DEF s
    <3> QED
      BY <1>0
  <2> QED
    BY <2>1, <2>2, <2>3
<1>6. sole[t] => /\ new = [p \in 1 .. wrote[t] + c |-> <<t, p>>] /\ Len(new) = wrote[t] + c
                 /\ \A p \in 1 .. wrote[t] : new[p] = s[p]
  <2> HIDE DEF s, off
  <2> QED
    BY <1>0, <1>2, <1>5, StoredAppends
<1> HIDE DEF new
<1>7. OffsetsExact'
  <2>1. ASSUME NEW u \in Writer, fd[u] # 0
        PROVE  fds'[fd[u]].off = wrote'[u]
    <3>1. CASE u = t
      BY <3>1, <1>2, <1>3
    <3>2. CASE u # t
      BY <2>1, <3>2, <1>4, Constants DEF InOrder, OffsetsExact, Desc
    <3> QED
      BY <3>1, <3>2
  <2>2. ASSUME NEW u \in Reader, fd[u] # 0
        PROVE  fds'[fd[u]].off = Len(got[u])
    BY <2>2, <1>0, <1>4, Constants DEF InOrder, OffsetsExact, Desc
  <2> QED
    BY <1>1, <2>1, <2>2 DEF OffsetsExact, Desc
<1>8. SoleExact' /\ ExclusiveOnWindows'
  BY <1>1 DEF InOrder, SoleExact, ExclusiveOnWindows
<1>9. WrittenInOrder'
  <2> SUFFICES ASSUME NEW u \in Writer, fd[u] # 0, sole[u]
               PROVE  data'[own[u]] = [p \in 1 .. wrote'[u] |-> <<u, p>>]
    BY <1>1 DEF WrittenInOrder
  <2>1. CASE u = t
    <3>1. new = [p \in 1 .. wrote[t] + c |-> <<t, p>>]
      BY <2>1, <1>6
    <3> QED
      BY <2>1, <3>1, <1>3
  <2>2. CASE u # t
    <3>1. own[u] # i
      BY <2>2, <1>0 DEF InOrder, SoleExact
    <3> QED
      BY <2>2, <3>1, <1>4, Constants DEF InOrder, WrittenInOrder
  <2> QED
    BY <2>1, <2>2
<1>10. ReadsInOrder'
  <2> SUFFICES ASSUME NEW r \in Reader, fd[r] # 0, sole[r]
               PROVE  /\ Len(got[r]) <= Len(data'[own[r]])
                      /\ \A p \in DOMAIN got[r] : got[r][p] = data'[own[r]][p]
    BY <1>1 DEF ReadsInOrder
  <2>0. /\ r # t /\ r \in Thread /\ Len(got[r]) <= Len(data[own[r]])
        /\ \A p \in DOMAIN got[r] : got[r][p] = data[own[r]][p]
    BY <1>0, Constants DEF InOrder, ReadsInOrder
  <2>1. CASE own[r] # i
    BY <2>0, <2>1, <1>4
  <2>2. CASE own[r] = i
    <3>1. sole[t]
      BY <2>2, <1>0 DEF InOrder, SoleExact
    <3>2. DOMAIN got[r] = 1 .. Len(got[r]) /\ Len(got[r]) \in Nat
      <4>1. got[r] \in Seq(Cell)
        BY <2>0, ThreadFacts
      <4> QED
        BY <4>1
    <3>3. Len(got[r]) <= wrote[t] /\ Len(new) = wrote[t] + c
      BY <2>0, <2>2, <3>1, <1>5, <1>6
    <3>4. \A p \in 1 .. Len(got[r]) : p \in 1 .. wrote[t]
      BY <3>2, <3>3, <1>0
    <3>5. \A p \in DOMAIN got[r] : new[p] = s[p] /\ got[r][p] = s[p]
      BY <3>1, <3>2, <3>4, <1>6, <2>0, <2>2
    <3>6. Len(got[r]) <= Len(new)
      BY <3>2, <3>3, <1>0
    <3>7. data'[own[r]] = new
      BY <2>2, <1>3
    <3> QED
      BY <3>5, <3>6, <3>7
  <2> QED
    BY <2>1, <2>2
<1> QED
  BY <1>7, <1>8, <1>9, <1>10 DEF InOrder

\* The first off cells of a file, and the next ones after them.
LEMMA ChunkAppends ==
    ASSUME NEW s \in Seq(Cell), NEW g \in Seq(Cell), NEW n \in Nat, Len(g) < Len(s)
    PROVE  LET r == Chunk(s, Len(g), n)
           IN  /\ Len(g \o r) = Len(g) + Len(r)
               /\ Len(g \o r) <= Len(s)
               /\ (\A p \in DOMAIN g : g[p] = s[p]) =>
                     \A p \in DOMAIN (g \o r) : (g \o r)[p] = s[p]
<1> DEFINE r == Chunk(s, Len(g), n)
<1>1. Len(g) \in Nat /\ Len(s) \in Nat /\ DOMAIN g = 1 .. Len(g)
  OBVIOUS
<1>2. /\ r \in Seq(Cell) /\ Len(r) \in Nat /\ Len(g) + Len(r) <= Len(s)
      /\ \A p \in 1 .. Len(r) : r[p] = s[Len(g) + p]
  BY <1>1, ChunkFacts
<1> HIDE DEF r
<1>3. /\ g \o r \in Seq(Cell) /\ Len(g \o r) = Len(g) + Len(r)
      /\ \A p \in 1 .. Len(g) + Len(r) :
            (g \o r)[p] = IF p <= Len(g) THEN g[p] ELSE r[p - Len(g)]
  BY <1>2, ConcatProperties
<1>4. DOMAIN (g \o r) = 1 .. Len(g) + Len(r)
  BY <1>3
<1>5. ASSUME \A p \in DOMAIN g : g[p] = s[p], NEW p \in 1 .. Len(g) + Len(r)
      PROVE  (g \o r)[p] = s[p]
  <2>1. CASE p <= Len(g)
    <3>1. p \in DOMAIN g
      BY <2>1, <1>1
    <3> QED
      BY <2>1, <3>1, <1>3, <1>5
  <2>2. CASE ~(p <= Len(g))
    <3>1. p - Len(g) \in 1 .. Len(r) /\ Len(g) + (p - Len(g)) = p
      BY <2>2, <1>1, <1>2
    <3>2. r[p - Len(g)] = s[p]
      BY <3>1, <1>2
    <3> QED
      BY <2>2, <3>2, <1>3
  <2> QED
    BY <2>1, <2>2
<1> QED
  BY <1>2, <1>3, <1>4, <1>5 DEF r

\* A read(2) continues where the last one ended (lines 316-330).
LEMMA ReadInOrder ==
    ASSUME Typed, Owned, InOrder, NEW t \in Reader, NEW n \in 1 .. MaxCells, Read(t, n)
    PROVE  Owned' /\ InOrder'
<1> DEFINE s == data[own[t]]
           g == got[t]
           chunk == Chunk(s, Len(g), n)
           d == [Desc(t) EXCEPT !.off = Len(g) + Len(chunk)]
<1>0. /\ t \in Thread /\ t \notin Writer /\ fd[t] # 0 /\ fd[t] \in Fd
      /\ Desc(t) \in Descriptor /\ Desc(t).file = own[t] /\ own[t] \in File
      /\ s \in Seq(Cell) /\ g \in Seq(Cell) /\ n \in Nat
  <2>1. t \in Thread /\ t \notin Writer /\ fd[t] # 0
    BY Constants DEF Read
  <2> QED
    BY <2>1, ObjectFacts, ThreadFacts, Constants
<1>1. Desc(t).off = Len(g) /\ Len(g) < Len(s)
  BY <1>0 DEF InOrder, OffsetsExact, Read
<1>2. /\ got' = [got EXCEPT ![t] = g \o chunk]
      /\ fds' = [fds EXCEPT ![fd[t]] = d]
      /\ UNCHANGED <<os, data, fd, closing, own, sole, wrote, leaked>>
  <2>1. /\ got' = [got EXCEPT ![t] = g \o Chunk(data[Desc(t).file], Desc(t).off, n)]
        /\ fds' = [fds EXCEPT ![fd[t]] = [Desc(t) EXCEPT !.off =
                      Desc(t).off + Len(Chunk(data[Desc(t).file], Desc(t).off, n))]]
        /\ UNCHANGED <<os, data, fd, closing, own, sole, wrote, leaked>>
    BY DEF Read, Desc, locals
  <2> QED
    BY <2>1, <1>0, <1>1
<1>3. /\ Len(g \o chunk) = Len(g) + Len(chunk) /\ Len(g \o chunk) <= Len(s)
      /\ (\A p \in DOMAIN g : g[p] = s[p]) =>
            \A p \in DOMAIN (g \o chunk) : (g \o chunk)[p] = s[p]
  <2> HIDE DEF s, g
  <2> QED
    BY <1>0, <1>1, ChunkAppends
<1>4. chunk \in Seq(Cell) /\ Len(chunk) \in Nat
  <2>1. Len(g) \in Nat
    BY <1>0
  <2> HIDE DEF s, g
  <2> QED
    BY <2>1, <1>0, <1>1, ChunkFacts
<1> HIDE DEF chunk
<1>5. d \in Descriptor /\ d.file = Desc(t).file /\ d.off = Len(g) + Len(chunk) /\ d # NONE
  <2>1. Len(g) + Len(chunk) \in Nat
    BY <1>0, <1>4
  <2>2. d \in Descriptor /\ d.file = Desc(t).file /\ d.off = Len(g) + Len(chunk)
    BY <2>1, <1>0 DEF Descriptor
  <2> QED
    BY <2>2, Constants
<1> HIDE DEF d
<1>6. Owned'
  BY <1>0, <1>2, <1>5, OffsetOwned
<1>7. fds'[fd[t]] = d /\ got'[t] = g \o chunk
  BY <1>0, <1>2 DEF Typed
<1>8. \A u \in Thread : u # t => /\ got'[u] = got[u]
                                 /\ fd[u] # 0 => fds'[fd[u]] = fds[fd[u]]
  <2>1. \A u \in Thread : u # t => fd[u] # fd[t]
    BY <1>0 DEF Owned, DescriptorsOwned
  <2>2. \A u \in Thread : fd[u] # 0 => fd[u] \in Fd
    BY ThreadFacts
  <2>3. \A f \in Fd : f # fd[t] => fds'[f] = fds[f]
    BY <1>2 DEF Typed
  <2>4. \A u \in Thread : u # t => got'[u] = got[u]
    BY <1>2 DEF Typed
  <2> QED
    BY <2>1, <2>2, <2>3, <2>4
<1>9. OffsetsExact'
  <2>1. ASSUME NEW u \in Writer, fd[u] # 0
        PROVE  fds'[fd[u]].off = wrote[u]
    BY <2>1, <1>0, <1>8, Constants DEF InOrder, OffsetsExact, Desc
  <2>2. ASSUME NEW u \in Reader, fd[u] # 0
        PROVE  fds'[fd[u]].off = Len(got'[u])
    <3>1. CASE u = t
      BY <3>1, <1>3, <1>5, <1>7
    <3>2. CASE u # t
      BY <2>2, <3>2, <1>8, Constants DEF InOrder, OffsetsExact, Desc
    <3> QED
      BY <3>1, <3>2
  <2> QED
    BY <1>2, <2>1, <2>2 DEF OffsetsExact, Desc
<1>10. SoleExact' /\ ExclusiveOnWindows' /\ WrittenInOrder'
  BY <1>2 DEF InOrder, SoleExact, ExclusiveOnWindows, WrittenInOrder
<1>11. ReadsInOrder'
  <2> SUFFICES ASSUME NEW r \in Reader, fd[r] # 0, sole[r]
               PROVE  /\ Len(got'[r]) <= Len(data[own[r]])
                      /\ \A p \in DOMAIN got'[r] : got'[r][p] = data[own[r]][p]
    BY <1>2 DEF ReadsInOrder
  <2>1. CASE r = t
    <3>1. \A p \in DOMAIN g : g[p] = s[p]
      BY <2>1 DEF InOrder, ReadsInOrder
    <3> HIDE DEF g
    <3> QED
      BY <2>1, <3>1, <1>3, <1>7
  <2>2. CASE r # t
    BY <2>2, <1>8, Constants DEF InOrder, ReadsInOrder
  <2> QED
    BY <2>1, <2>2
<1> QED
  BY <1>6, <1>9, <1>10, <1>11 DEF InOrder

\* A Close() takes its object out of the account.
LEMMA CloseInOrder ==
    ASSUME Typed, Owned, InOrder, NEW t \in Thread, Close(t)
    PROVE  InOrder'
<1>1. /\ UNCHANGED <<os, data, fds>> /\ fd' = [fd EXCEPT ![t] = 0]
      /\ own' = [own EXCEPT ![t] = 0] /\ sole' = [sole EXCEPT ![t] = TRUE]
      /\ wrote' = [wrote EXCEPT ![t] = 0] /\ got' = [got EXCEPT ![t] = <<>>]
  BY DEF Close
<1>2. fd'[t] = 0 /\ sole'[t]
  BY <1>1 DEF Typed, TypeOK
<1>3. \A u \in Thread : u # t => /\ fd'[u] = fd[u] /\ own'[u] = own[u] /\ sole'[u] = sole[u]
                                 /\ wrote'[u] = wrote[u] /\ got'[u] = got[u]
  BY <1>1 DEF Typed, TypeOK
<1>4. OffsetsExact'
  BY <1>1, <1>2, <1>3, Constants DEF InOrder, OffsetsExact, Desc
<1>5. SoleExact' /\ ExclusiveOnWindows'
  BY <1>1, <1>2, <1>3, Constants DEF InOrder, SoleExact, ExclusiveOnWindows
<1>6. WrittenInOrder'
  <2> SUFFICES ASSUME NEW u \in Writer, fd'[u] # 0, sole'[u]
               PROVE  data'[own'[u]] = [p \in 1 .. wrote'[u] |-> <<u, p>>]
    BY DEF WrittenInOrder
  <2>1. u # t /\ u \in Thread
    BY <1>2, Constants
  <2>2. fd[u] # 0 /\ sole[u] /\ own'[u] = own[u] /\ wrote'[u] = wrote[u] /\ data' = data
    BY <2>1, <1>1, <1>3
  <2> QED
    BY <2>2 DEF InOrder, WrittenInOrder
<1>7. ReadsInOrder'
  BY <1>1, <1>2, <1>3, Constants DEF InOrder, ReadsInOrder
<1> QED
  BY <1>4, <1>5, <1>6, <1>7 DEF InOrder

\* The calls that release a name or a descriptor keep what is open.
LEMMA ReleaseInOrder ==
    ASSUME Typed, Owned, InOrder, Owned', data' = Reclaimed,
           UNCHANGED <<os, fd, history>>,
           \A u \in Thread : fd[u] # 0 => fds'[fd[u]] = fds[fd[u]]
    PROVE  InOrder'
<1>1. UNCHANGED <<fd, own, sole, wrote, got, os>>
  BY DEF history
<1>2. \A u \in Thread : fd[u] # 0 => data'[own[u]] = data[own[u]]
  BY <1>1, FileKept
<1> QED
  BY <1>1, <1>2, InOrderFrame

-----------------------------------------------------------------------------
(* The invariant. *)

LEMMA InitInv == Init => IInv
<1> SUFFICES ASSUME Init
             PROVE  Owned /\ InOrder
  BY InitTyped DEF IInv
<1>1. Owned
  BY Constants DEF Init, Owned, DescriptorsOwned, Desc
<1>2. InOrder
  BY Constants DEF Init, InOrder, OffsetsExact, SoleExact, WrittenInOrder, ReadsInOrder,
                   ExclusiveOnWindows
<1> QED
  BY <1>1, <1>2

LEMMA NextInv == IInv /\ [Next]_vars => IInv'
<1> SUFFICES ASSUME Typed, CloseKeeps, Owned, InOrder, [Next]_vars
             PROVE  Owned' /\ InOrder'
  <2>1. Next => os' = os
    BY DEF Next, Step, Start, StartWriter, StartReader, NewWritableFile, NewWritableThrows,
           NewReadableFile, OpenReadable, OpenReadableThrows, OpenFails, Write, WriteSome, WriteFails, Read, Close,
           CloseInterrupted, CloseReturns, CloseHandle, EndClose, DeleteFile, RenameFile
  <2>2. [Next]_vars => os' = os
    BY <2>1 DEF vars
  <2> QED
    BY <2>2, NextTyped DEF IInv, CloseKeeps
<1>1. ASSUME NEW t \in Thread, Step(t)
      PROVE  Owned' /\ InOrder'
  <2>1. CASE OpenReadable(t)
    <3>1. dir[arg[t]] \in File /\ FreeFds # {}
      BY <2>1, OpeningFacts DEF OpenReadable
    <3>2. Owned'
      BY <2>1, <3>1, InstallOwned DEF OpenReadable
    <3> QED
      BY <2>1, <3>2, OpenReadableInOrder
  <2>6. CASE OpenReadableThrows(t)
    <3>1. dir[arg[t]] \in File /\ FreeFds # {}
      BY <2>6, OpeningFacts DEF OpenReadableThrows
    <3>2. /\ Leak(dir[arg[t]], FALSE)
          /\ UNCHANGED <<os, data, fd, closing, own, sole, wrote, got>>
      BY <2>6 DEF OpenReadableThrows
    <3>3. Owned' /\ \A u \in Thread : fd[u] # 0 => fds'[fd[u]] = fds[fd[u]]
      BY <3>1, <3>2, LeakOwned
    <3> QED
      BY <3>2, <3>3, InOrderFrame
  <2>2. CASE OpenFails(t) \/ WriteFails(t)
    <3>1. UNCHANGED <<os, dir, data, fds, fd, closing, history>>
      BY <2>2 DEF OpenFails, WriteFails
    <3> QED
      BY <3>1, OwnedFrame, InOrderFrame DEF history
  <2>3. ASSUME NEW c \in 1 .. remaining[t], WriteSome(t, c)
        PROVE  Owned' /\ InOrder'
    <3> DEFINE d == [Desc(t) EXCEPT !.off = Desc(t).off + c]
    <3>1. fd[t] # 0 /\ remaining[t] \in Nat
      BY <2>3, ThreadFacts DEF WriteSome, CallExact
    <3>2. Desc(t) \in Descriptor /\ Desc(t).off \in Nat /\ c \in Nat
      BY <3>1, ObjectFacts
    <3>3. d \in Descriptor /\ d.file = Desc(t).file
      BY <3>2 DEF Descriptor
    <3>4. d # NONE
      BY <3>3, Constants
    <3>5. fds' = [fds EXCEPT ![fd[t]] = d] /\ UNCHANGED <<fd, closing, own, leaked>>
      BY <2>3 DEF WriteSome, Desc
    <3> HIDE DEF d
    <3>6. Owned'
      BY <3>1, <3>3, <3>4, <3>5, OffsetOwned
    <3> QED
      BY <2>3, <3>6, WriteSomeInOrder
  <2>4. ASSUME NEW r \in Released, CloseInterrupted(t, r)
        PROVE  Owned' /\ InOrder'
    <3>1. r = FALSE
      BY <2>4 DEF CloseKeeps, CloseInterrupted
    <3>2. /\ UNCHANGED <<os, fds, fd, closing, own, history>> /\ data' = Reclaimed
      BY <2>4, <3>1 DEF CloseInterrupted, history, locals
    <3> QED
      BY <3>2, OwnedFrame, ReleaseInOrder DEF history
  <2>5. CASE EndClose(t)
    <3>1. Owned'
      BY <2>5, EndCloseOwned
    <3>2. /\ UNCHANGED <<os, fd, history>> /\ data' = Reclaimed
          /\ fds' = [fds EXCEPT ![closing[t]] = NONE]
      BY <2>5 DEF EndClose
    <3>3. \A u \in Thread : fd[u] # 0 => fd[u] \in Fd /\ closing[t] # fd[u]
      BY ThreadFacts DEF Owned, DescriptorsOwned
    <3>4. \A u \in Thread : fd[u] # 0 => fds'[fd[u]] = fds[fd[u]]
      BY <3>2, <3>3 DEF Typed
    <3> QED
      BY <3>1, <3>2, <3>4, ReleaseInOrder
  <2> QED
    BY <1>1, <2>1, <2>2, <2>3, <2>4, <2>5, <2>6 DEF Step, CloseReturns, CloseHandle
<1>2. ASSUME NEW t \in Thread, Start(t)
      PROVE  Owned' /\ InOrder'
  <2>1. CASE Close(t)
    BY <2>1, CloseOwned, CloseInOrder
  <2>2. CASE \/ \E n \in Name : DeleteFile(t, n)
             \/ \E a, b \in Name : RenameFile(t, a, b)
    <3>1. UNCHANGED <<os, fds, fd, closing, own, history>> /\ data' = Reclaimed
      BY <2>2 DEF DeleteFile, RenameFile, history, locals
    <3> QED
      BY <3>1, OwnedFrame, ReleaseInOrder DEF history
  <2> QED
    BY <1>2, <2>1, <2>2 DEF Start
<1>3. ASSUME NEW t \in Writer, StartWriter(t)
      PROVE  Owned' /\ InOrder'
  <2>1. ASSUME NEW n \in Name, NewWritableFile(t, n)
        PROVE  Owned' /\ InOrder'
    <3>1. Target(n) \in File
      BY <2>1, TargetFacts DEF NewWritableFile
    <3>2. /\ pc[t] = "idle" /\ FreeFds # {} /\ Install(t, Target(n), TRUE)
          /\ leaked' = leaked
      BY <2>1 DEF NewWritableFile, Truncate
    <3>3. Owned'
      BY <3>1, <3>2, InstallOwned, Constants
    <3> QED
      BY <2>1, <3>3, NewWritableInOrder
  <2>3. ASSUME NEW n \in Name, NewWritableThrows(t, n)
        PROVE  Owned' /\ InOrder'
    BY <2>3, NewWritableThrowsInOrder
  <2>2. ASSUME NEW n \in 1 .. MaxCells, Write(t, n)
        PROVE  Owned' /\ InOrder'
    <3>1. UNCHANGED <<os, dir, data, fds, fd, closing, history>>
      BY <2>2 DEF Write
    <3> QED
      BY <3>1, OwnedFrame, InOrderFrame DEF history
  <2> QED
    BY <1>3, <2>1, <2>2, <2>3 DEF StartWriter
<1>4. ASSUME NEW t \in Reader, StartReader(t)
      PROVE  Owned' /\ InOrder'
  <2>1. ASSUME NEW n \in Name, NewReadableFile(t, n)
        PROVE  Owned' /\ InOrder'
    <3>1. UNCHANGED <<os, dir, data, fds, fd, closing, history>>
      BY <2>1 DEF NewReadableFile
    <3> QED
      BY <3>1, OwnedFrame, InOrderFrame DEF history
  <2>2. ASSUME NEW n \in 1 .. MaxCells, Read(t, n)
        PROVE  Owned' /\ InOrder'
    BY <2>2, ReadInOrder
  <2> QED
    BY <1>4, <2>1, <2>2 DEF StartReader
<1>5. CASE UNCHANGED vars
  BY <1>5, OwnedFrame, InOrderFrame DEF vars, locals, history
<1> QED
  BY <1>1, <1>2, <1>3, <1>4, <1>5 DEF Next

\* IInv holds in every reachable state.
THEOREM Invariant == Spec => []IInv
<1>1. Init => IInv
  BY InitInv
<1>2. IInv /\ [Next]_vars => IInv'
  BY NextInv
<1> QED
  BY <1>1, <1>2, PTL DEF Spec

\* The types hold on every platform, also where an interrupted close(2)
\* releases the descriptor.
THEOREM TypeCorrect == Spec => []TypeOK
<1>1. IInv => TypeOK
  BY DEF IInv, Typed
<1> QED
  BY <1>1, Invariant, PTL

\* Objects never share a descriptor, and the only descriptors that are left open
\* without an object are those of an open whose make_unique threw (lines 227-233,
\* 282-291, 379-421), where the retry of close(2) is safe.
THEOREM OwnershipCorrect == Spec => [](CloseKeeps => DescriptorsOwned)
<1>1. IInv => (CloseKeeps => DescriptorsOwned)
  BY DEF IInv, Owned
<1> QED
  BY <1>1, Invariant, PTL

\* A file with one writer has exactly what was written, in order (lines
\* 239-259), where the retry of close(2) is safe.
THEOREM WritesCorrect == Spec => [](CloseKeeps => WrittenInOrder)
<1>1. IInv => (CloseKeeps => WrittenInOrder)
  BY DEF IInv, InOrder
<1> QED
  BY <1>1, Invariant, PTL

\* A reader gets the cells of its file in order and without gaps (lines
\* 316-330), where the retry of close(2) is safe.
THEOREM ReadsCorrect == Spec => [](CloseKeeps => ReadsInOrder)
<1>1. IInv => (CloseKeeps => ReadsInOrder)
  BY DEF IInv, InOrder
<1> QED
  BY <1>1, Invariant, PTL

\* On Windows an open file is never emptied or written by another object
\* (line 370).
THEOREM ExclusiveCorrect == Spec => []ExclusiveOnWindows
<1>1. IInv => ExclusiveOnWindows
  BY DEF IInv, InOrder, CloseKeeps, ExclusiveOnWindows
<1> QED
  BY <1>1, Invariant, PTL

\* A step other than a write(2) leaves a file alone, or empties it.
LEMMA OnlyWritesFill ==
    ASSUME Typed, Owned, Next, NEW i \in File, data'[i] # data[i], data'[i] # <<>>
    PROVE  \E t \in Writer : pc[t] = "writing" /\ own[t] = i
<1>1. ASSUME data' = Reclaimed
      PROVE  FALSE
  BY <1>1, ReclaimedTyped
<1>2. ASSUME NEW t \in Thread, NEW c \in 1 .. remaining[t], WriteSome(t, c)
      PROVE  t \in Writer /\ pc[t] = "writing" /\ own[t] = i
  <2> DEFINE new == Stored(data[own[t]], Desc(t).off, t, c)
  <2>1. t \in Writer /\ pc[t] = "writing" /\ fd[t] # 0
    BY <1>2, ThreadFacts DEF WriteSome, CallExact
  <2>2. Desc(t).file = own[t] /\ own[t] \in File
    BY <2>1, ObjectFacts
  <2>3. data' = [data EXCEPT ![own[t]] = new]
    BY <1>2, <2>2 DEF WriteSome
  <2> HIDE DEF new
  <2>4. own[t] = i
    BY <2>2, <2>3 DEF Typed
  <2> QED
    BY <2>1, <2>4
<1>3. ASSUME NEW t \in Writer, NEW n \in Name,
             NewWritableFile(t, n) \/ NewWritableThrows(t, n)
      PROVE  FALSE
  BY <1>3 DEF NewWritableFile, NewWritableThrows, Truncate, Typed
<1>4. ASSUME NEW t \in Thread, Step(t), \A c \in 1 .. remaining[t] : ~WriteSome(t, c)
      PROVE  FALSE
  BY <1>1, <1>4 DEF Step, OpenReadable, OpenReadableThrows, OpenFails, WriteFails, CloseInterrupted,
                    CloseReturns, CloseHandle, EndClose
<1>5. ASSUME NEW t \in Thread, Start(t)
      PROVE  FALSE
  BY <1>1, <1>5 DEF Start, Close, DeleteFile, RenameFile
<1>6. ASSUME NEW t \in Writer, StartWriter(t)
      PROVE  FALSE
  BY <1>3, <1>6 DEF StartWriter, Write
<1>7. ASSUME NEW t \in Reader, StartReader(t)
      PROVE  FALSE
  BY <1>7 DEF StartReader, Read, NewReadableFile
<1> QED
  BY <1>2, <1>4, <1>5, <1>6, <1>7 DEF Next

\* A Write() changes no file but its own object's (line 13), where the retry
\* of close(2) is safe.
THEOREM WritesOwnCorrect == Spec /\ []CloseKeeps => WritesOwnFile
<1>1. ASSUME IInv, CloseKeeps, [Next]_vars
      PROVE  [\A i \in File : data'[i] # data[i] /\ data'[i] # <<>>
                  => \E t \in Writer : pc[t] = "writing" /\ own[t] = i]_vars
  BY <1>1, OnlyWritesFill DEF IInv
<1> QED
  BY <1>1, Invariant, PTL DEF Spec, WritesOwnFile
=============================================================================
