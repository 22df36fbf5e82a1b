---------------------------- MODULE FileManager -----------------------------
(***************************************************************************)
(* The file manager, src/src/io/file_manager.cpp, in its POSIX and its     *)
(* Win32 build, used by several threads.  Every thread has one file object *)
(* (the unique_ptr `result` it passes to NewWritableFile or to             *)
(* NewReadableFile); the table of descriptors or handles, the directory    *)
(* and the files belong to the process and are shared.                     *)
(*                                                                         *)
(* A step is one system call.  An open or a read that fails, a Read() at   *)
(* the end of the file, Flush(), FileExists() and EINTR in write, read and *)
(* fsync change nothing and are stuttering steps.  What Sync() does for a  *)
(* crash is in module Wal.                                                 *)
(*                                                                         *)
(* A cell of a file is <<t, n>>, the n-th cell thread t's object wrote.    *)
(***************************************************************************)
EXTENDS Integers, Sequences

CONSTANTS Writer,     \* threads with a unique_ptr<IWritableFile>
          Reader,     \* threads with a unique_ptr<IReadableFile>
          Name,       \* file names
          NumFiles,   \* limit on files
          NumFds,     \* limit on open descriptors
          MaxCells,   \* bound on the cells one object writes
          Platform,   \* the builds considered
          Released,   \* an interrupted close(2): is the descriptor released?
          NONE        \* no name; a descriptor that is not open

ASSUME FileAssumption ==
    /\ NumFiles \in Nat /\ NumFds \in Nat /\ MaxCells \in Nat
    \* TRUE on Linux and macOS, FALSE on HP-UX; POSIX leaves it unspecified.
    /\ Released \subseteq BOOLEAN
    /\ Platform \subseteq {"posix", "win32"}
    /\ NONE \notin Name
    /\ NONE \notin [file : 1 .. NumFiles, off : Nat, write : BOOLEAN]
    /\ Writer \cap Reader = {}

VARIABLES os,        \* the build
          dir,       \* Name -> file, 0 for none
          data,      \* file -> contents
          fds,       \* descriptor -> [file, off, write] or NONE
          fd,        \* fd_ or handle_ of a thread's object, 0 for none
          closing,   \* the descriptor a Close() works on, 0 outside
          pc,        \* "idle", "opening", "writing", "closing"
          arg,       \* NewReadableFile(): the name
          remaining, \* Write(): cells still to write
          own,       \* history: the file the object was opened on
          sole,      \* history: nobody else opened that file to write
          wrote,     \* history: cells the object wrote
          got,       \* history: cells the object read
          leaked     \* history: descriptors no object was made for

locals == <<closing, pc, arg, remaining>>
history == <<own, sole, wrote, got, leaked>>
vars == <<os, dir, data, fds, fd, locals, history>>

Thread == Writer \cup Reader
File == 1 .. NumFiles
Fd == 1 .. NumFds
HOLE == <<0, 0>>

Init == /\ os \in Platform
        /\ dir = [n \in Name |-> 0]
        /\ data = [i \in File |-> <<>>]
        /\ fds = [f \in Fd |-> NONE]
        /\ fd = [t \in Thread |-> 0]
        /\ closing = [t \in Thread |-> 0]
        /\ pc = [t \in Thread |-> "idle"]
        /\ arg = [t \in Thread |-> NONE]
        /\ remaining = [t \in Thread |-> 0]
        /\ own = [t \in Thread |-> 0]
        /\ sole = [t \in Thread |-> TRUE]
        /\ wrote = [t \in Thread |-> 0]
        /\ got = [t \in Thread |-> <<>>]
        /\ leaked = {}

-----------------------------------------------------------------------------
(* Descriptors and files: the kernel's side. *)

\* open(2) returns the lowest free descriptor.
FreeFds == {f \in Fd : fds[f] = NONE}
Lowest(S) == CHOOSE x \in S : \A y \in S : x <= y

\* A file lives as long as a name or a descriptor refers to it.
Referred(i) == \/ \E n \in Name : dir[n] = i
               \/ \E f \in Fd : fds[f] # NONE /\ fds[f].file = i
Unused == {i \in File : ~Referred(i)}
Reclaimed == [i \in File |-> IF Referred(i)' THEN data[i] ELSE <<>>]

\* Descriptors open on file i.
OpenOn(i) == {f \in Fd : fds[f] # NONE /\ fds[f].file = i}

\* Mutant: the share mode allows other writers.
MayWriteShared(i) == i \in File

\* CreateFileW(GENERIC_WRITE, no sharing): nobody else has the file open.
MayWrite(i) == os = "win32" => OpenOn(i) = {}

\* CreateFileW(GENERIC_READ, FILE_SHARE_READ): nobody has it open to write.
MayRead(i) == os = "win32" => \A f \in OpenOn(i) : ~fds[f].write

\* A file that is open on Windows keeps its name.
MayMove(n) == os = "win32" /\ dir[n] # 0 => OpenOn(dir[n]) = {}

\* The threads whose objects write to file i.
Writers(i) == {u \in Writer : fd[u] # 0 /\ own[u] = i}

-----------------------------------------------------------------------------
(* Opening. *)

\* result = make_unique<...>(fd): the new object replaces the old one, whose
\* destructor closes its descriptor after the new one was opened.
Install(t, i, write) ==
    LET f == Lowest(FreeFds)
    IN  /\ fds' = [fds EXCEPT ![f] = [file |-> i, off |-> 0, write |-> write]]
        /\ fd' = [fd EXCEPT ![t] = f]
        /\ closing' = [closing EXCEPT ![t] = fd[t]]
        /\ pc' = [pc EXCEPT ![t] = IF fd[t] = 0 THEN "idle" ELSE "closing"]
        /\ own' = [own EXCEPT ![t] = i]
        /\ wrote' = [wrote EXCEPT ![t] = 0]
        /\ got' = [got EXCEPT ![t] = <<>>]

\* make_unique has no memory: std::bad_alloc leaves `result` its object, and the
\* new descriptor open with nobody to close it.
Leak(i, write) ==
    /\ fds' = [fds EXCEPT ![Lowest(FreeFds)] = [file |-> i, off |-> 0, write |-> write]]
    /\ leaked' = leaked \cup {Lowest(FreeFds)}

\* O_CREAT | O_TRUNC, CREATE_ALWAYS: the file is created, or emptied, on POSIX
\* also under whoever has it open.
Target(n) == IF dir[n] # 0 THEN dir[n] ELSE Lowest(Unused)
Truncate(t, n) == /\ pc[t] = "idle" /\ FreeFds # {}
                  /\ IF dir[n] # 0 THEN MayWrite(dir[n]) ELSE Unused # {}
                  /\ dir' = [dir EXCEPT ![n] = Target(n)]
                  /\ data' = [data EXCEPT ![Target(n)] = <<>>]

NewWritableFile(t, n) ==
    /\ Truncate(t, n)
    /\ Install(t, Target(n), TRUE)
    /\ sole' = [u \in Thread |-> IF u = t THEN Writers(Target(n)) \subseteq {t}
                                 ELSE sole[u] /\ own[u] # Target(n)]
    /\ UNCHANGED <<os, arg, remaining, leaked>>

NewWritableThrows(t, n) ==
    /\ Truncate(t, n)
    /\ Leak(Target(n), TRUE)
    /\ sole' = [u \in Thread |-> sole[u] /\ own[u] # Target(n)]
    /\ UNCHANGED <<os, fd, locals, own, wrote, got>>

\* NewReadableFile() asks FileExists() first, and opens in a second call.
NewReadableFile(t, n) == /\ pc[t] = "idle" /\ dir[n] # 0
                         /\ pc' = [pc EXCEPT ![t] = "opening"]
                         /\ arg' = [arg EXCEPT ![t] = n]
                         /\ UNCHANGED <<os, dir, data, fds, fd, closing, remaining, history>>

MayOpen(t) == dir[arg[t]] # 0 /\ MayRead(dir[arg[t]]) /\ FreeFds # {}

OpenReadable(t) ==
    /\ pc[t] = "opening" /\ MayOpen(t)
    /\ Install(t, dir[arg[t]], FALSE)
    /\ sole' = [sole EXCEPT ![t] = \A u \in Writers(dir[arg[t]]) : sole[u]]
    /\ arg' = [arg EXCEPT ![t] = NONE]
    /\ UNCHANGED <<os, dir, data, remaining, leaked>>

OpenReadableThrows(t) ==
    /\ pc[t] = "opening" /\ MayOpen(t)
    /\ Leak(dir[arg[t]], FALSE)
    /\ pc' = [pc EXCEPT ![t] = "idle"]
    /\ arg' = [arg EXCEPT ![t] = NONE]
    /\ UNCHANGED <<os, dir, data, fd, closing, remaining, own, sole, wrote, got>>

\* The file is gone or taken by now, or there is no descriptor left.
OpenFails(t) == /\ pc[t] = "opening" /\ ~MayOpen(t)
                /\ pc' = [pc EXCEPT ![t] = "idle"]
                /\ arg' = [arg EXCEPT ![t] = NONE]
                /\ UNCHANGED <<os, dir, data, fds, fd, closing, remaining, history>>

-----------------------------------------------------------------------------
(* Writing and reading. *)

Desc(t) == fds[fd[t]]

Write(t, n) == /\ pc[t] = "idle" /\ fd[t] # 0
               /\ wrote[t] + n <= MaxCells
               /\ pc' = [pc EXCEPT ![t] = "writing"]
               /\ remaining' = [remaining EXCEPT ![t] = n]
               /\ UNCHANGED <<os, dir, data, fds, fd, closing, arg, history>>

\* Mutant: p is not advanced past what was written.
StoredAgain(s, off, t, c) ==
    [p \in 1 .. (IF Len(s) > off + c THEN Len(s) ELSE off + c) |->
        IF off < p /\ p <= off + c THEN <<t, p - off>>
        ELSE IF p <= Len(s) THEN s[p] ELSE HOLE]

\* Contents s after c cells of thread t were written at offset off.
Stored(s, off, t, c) ==
    [p \in 1 .. (IF Len(s) > off + c THEN Len(s) ELSE off + c) |->
        IF off < p /\ p <= off + c THEN <<t, wrote[t] + p - off>>
        ELSE IF p <= Len(s) THEN s[p] ELSE HOLE]

\* Mutant: remaining is lowered by one too many.
RemainingOff(t, c) == remaining[t] - c - 1

Remaining(t, c) == remaining[t] - c

\* write(2) or WriteFile takes c cells at the offset of the descriptor.
WriteSome(t, c) ==
    /\ pc[t] = "writing" /\ Desc(t) # NONE
    /\ data' = [data EXCEPT ![Desc(t).file] = Stored(@, Desc(t).off, t, c)]
    /\ fds' = [fds EXCEPT ![fd[t]].off = @ + c]
    /\ remaining' = [remaining EXCEPT ![t] = Remaining(t, c)]
    /\ wrote' = [wrote EXCEPT ![t] = @ + c]
    /\ pc' = [pc EXCEPT ![t] = IF Remaining(t, c) = 0 THEN "idle" ELSE "writing"]
    /\ UNCHANGED <<os, dir, fd, closing, arg, own, sole, got, leaked>>

\* The call fails (EBADF, ENOSPC, EIO) or takes nothing.
WriteFails(t) == /\ pc[t] = "writing"
                 /\ pc' = [pc EXCEPT ![t] = "idle"]
                 /\ remaining' = [remaining EXCEPT ![t] = 0]
                 /\ UNCHANGED <<os, dir, data, fds, fd, closing, arg, history>>

\* Mutant: the result has n bytes, however many were read.
ChunkPadded(s, off, n) == [p \in 1 .. n |-> IF off + p <= Len(s) THEN s[off + p] ELSE HOLE]

\* The bytes of one read(2) or ReadFile: up to n, those that are there.
Chunk(s, off, n) == SubSeq(s, off + 1, IF off + n <= Len(s) THEN off + n ELSE Len(s))

Read(t, n) ==
    /\ pc[t] = "idle" /\ fd[t] # 0 /\ Desc(t) # NONE
    /\ Desc(t).off < Len(data[Desc(t).file])
    /\ LET chunk == Chunk(data[Desc(t).file], Desc(t).off, n)
       IN  /\ got' = [got EXCEPT ![t] = @ \o chunk]
           /\ fds' = [fds EXCEPT ![fd[t]].off = @ + Len(chunk)]
    /\ UNCHANGED <<os, dir, data, fd, locals, own, sole, wrote, leaked>>

-----------------------------------------------------------------------------
(* Closing. *)

\* Mutant: fd_ is left as it was.
CloseKeepsFd(t) == /\ pc[t] = "idle" /\ fd[t] # 0
                   /\ pc' = [pc EXCEPT ![t] = "closing"]
                   /\ closing' = [closing EXCEPT ![t] = fd[t]]
                   /\ UNCHANGED <<os, dir, data, fds, fd, arg, remaining, history>>

\* Close(), or the destructor of an object that goes out of scope.  fd_ is set
\* to -1 after the loop; nothing reads it before that.
Close(t) == /\ pc[t] = "idle" /\ fd[t] # 0
            /\ pc' = [pc EXCEPT ![t] = "closing"]
            /\ closing' = [closing EXCEPT ![t] = fd[t]]
            /\ fd' = [fd EXCEPT ![t] = 0]
            /\ own' = [own EXCEPT ![t] = 0]
            /\ sole' = [sole EXCEPT ![t] = TRUE]
            /\ wrote' = [wrote EXCEPT ![t] = 0]
            /\ got' = [got EXCEPT ![t] = <<>>]
            /\ UNCHANGED <<os, dir, data, fds, arg, remaining, leaked>>

\* close(2) returns EINTR and the loop calls it again.
CloseInterrupted(t, released) ==
    /\ os = "posix" /\ pc[t] = "closing" /\ fds[closing[t]] # NONE
    /\ fds' = IF released THEN [fds EXCEPT ![closing[t]] = NONE] ELSE fds
    /\ UNCHANGED <<os, dir, fd, locals, history>>
    /\ data' = Reclaimed

\* The descriptor is released if it was open, and the call returns.
EndClose(t) == /\ pc[t] = "closing"
                /\ fds' = [fds EXCEPT ![closing[t]] = NONE]
                /\ pc' = [pc EXCEPT ![t] = "idle"]
                /\ closing' = [closing EXCEPT ![t] = 0]
                /\ UNCHANGED <<os, dir, fd, arg, remaining, history>>
                /\ data' = Reclaimed

\* close(2) returns 0, or an error other than EINTR.
CloseReturns(t) == os = "posix" /\ EndClose(t)

\* One call, not repeated.
CloseHandle(t) == os = "win32" /\ EndClose(t)

-----------------------------------------------------------------------------
(* Names. *)

\* remove(2) of a missing file is not an error.
DeleteFile(t, n) == /\ pc[t] = "idle" /\ MayMove(n)
                    /\ dir' = [dir EXCEPT ![n] = 0]
                    /\ UNCHANGED <<os, fds, fd, locals, history>>
                    /\ data' = Reclaimed

RenameFile(t, src, target) ==
    /\ pc[t] = "idle" /\ dir[src] # 0 /\ MayMove(src) /\ MayMove(target)
    /\ dir' = IF src = target THEN dir
              ELSE [dir EXCEPT ![target] = dir[src], ![src] = 0]
    /\ UNCHANGED <<os, fds, fd, locals, history>>
    /\ data' = Reclaimed

-----------------------------------------------------------------------------
\* What a running call does next.
Step(t) == \/ OpenReadable(t) \/ OpenReadableThrows(t) \/ OpenFails(t)
           \/ \E c \in 1 .. remaining[t] : WriteSome(t, c)
           \/ WriteFails(t)
           \/ \E r \in Released : CloseInterrupted(t, r)
           \/ CloseReturns(t) \/ CloseHandle(t)

Start(t) == \/ \E n \in Name : DeleteFile(t, n)
            \/ \E a, b \in Name : RenameFile(t, a, b)
            \/ Close(t)

StartWriter(t) == \/ \E n \in Name : NewWritableFile(t, n) \/ NewWritableThrows(t, n)
                  \/ \E n \in 1 .. MaxCells : Write(t, n)

StartReader(t) == \/ \E n \in Name : NewReadableFile(t, n)
                  \/ \E n \in 1 .. MaxCells : Read(t, n)

Next == \/ \E t \in Thread : Step(t) \/ Start(t)
        \/ \E t \in Writer : StartWriter(t)
        \/ \E t \in Reader : StartReader(t)

Spec == Init /\ [][Next]_vars
-----------------------------------------------------------------------------
(* Properties. *)

\* Type invariant.
TypeOK ==
    /\ os \in Platform /\ dir \in [Name -> 0 .. NumFiles]
    /\ \A f \in Fd : fds[f] # NONE => fds[f].file \in File /\ fds[f].off \in Nat
    /\ fd \in [Thread -> 0 .. NumFds] /\ closing \in [Thread -> 0 .. NumFds]
    /\ pc \in [Thread -> {"idle", "opening", "writing", "closing"}]
    /\ remaining \in [Thread -> 0 .. MaxCells]
    /\ wrote \in [Thread -> 0 .. MaxCells]
    /\ leaked \subseteq Fd

\* An object's descriptor is open, stands for the file the object was opened
\* on and is no other object's (lines 227-233, 282-291, 382-386); and a
\* descriptor is left open without an object only where make_unique threw
\* after the open (lines 379, 386, 415, 421).
DescriptorsOwned ==
    /\ \A t \in Thread : fd[t] # 0 => Desc(t) # NONE /\ Desc(t).file = own[t]
    /\ \A t, u \in Thread : fd[t] # 0 => /\ closing[u] # fd[t]
                                         /\ t # u => fd[u] # fd[t]
    /\ \A f \in Fd : fds[f] # NONE
                        => f \in leaked \/ \E t \in Thread : f \in {fd[t], closing[t]}
    /\ \A f \in leaked : fds[f] # NONE /\ \A t \in Thread : f \notin {fd[t], closing[t]}

\* "Appends data to the end of the file" (file_manager.h:30), where it holds: a
\* file that only one object writes has exactly the cells write(2) took from it,
\* in order, whatever was renamed, deleted or read meanwhile (lines 239-259).
WrittenInOrder ==
    \A t \in Writer : fd[t] # 0 /\ sole[t]
                         => data[own[t]] = [p \in 1 .. wrote[t] |-> <<t, p>>]

\* A reader gets the cells of the file it opened in order and without gaps,
\* even while its name is deleted or given to another file, unless the file is
\* truncated under it (lines 316-330).
ReadsInOrder ==
    \A t \in Reader : fd[t] # 0 /\ sole[t]
                         => /\ Len(got[t]) <= Len(data[own[t]])
                            /\ \A p \in DOMAIN got[t] : got[t][p] = data[own[t]][p]

\* On Windows an open file is never emptied or written by another object, through
\* all renames, deletions and overlapping opens ("No sharing", line 370).
ExclusiveOnWindows == os = "win32" => \A t \in Thread : sole[t]

\* A Write() changes no file but the one its object was opened on ("Handles
\* partial writes and EINTR where applicable", line 13).
WritesOwnFile ==
    [][\A i \in File : data'[i] # data[i] /\ data'[i] # <<>>
                        => \E t \in Writer : pc[t] = "writing" /\ own[t] = i]_vars
=============================================================================
