------------------------------ MODULE CrcTable ------------------------------
(***************************************************************************)
(* The lookup table of Crc32 (src/src/wal/wal_format.h), a static array    *)
(* filled by the first call behind a plain bool, used by several threads.  *)
(*                                                                         *)
(* Neither the table nor the flag is atomic, so the stores of a thread may *)
(* become visible to the others in any order: the compiler and an ARM      *)
(* processor may both reorder them.  A store is pending until it reaches   *)
(* memory; a thread sees its own pending stores.  The checksum is          *)
(* abstracted to whether every table entry it used had been filled.        *)
(***************************************************************************)
EXTENDS Integers

CONSTANTS Thread,   \* threads that frame or parse a record
          Entry,    \* indices of the table, 0 included
          MaxBytes  \* bound on the bytes of a payload

VARIABLES table,    \* Entry -> value in memory
          init,     \* the flag in memory
          pending,  \* Thread -> stores not yet in memory: entries and "init"
          pc,       \* Thread -> "idle", "fill", "sum", "done"
          next,     \* Thread -> entries the filling loop has not reached
          bytes,    \* Thread -> bytes summed up
          exact     \* history: Thread -> all entries used so far were right

vars == <<table, init, pending, pc, next, bytes, exact>>

\* What the loop computes for an entry; 0 for entry 0.
Polynomial(i) == i

Init == /\ table = [i \in Entry |-> 0] /\ init = FALSE
        /\ pending = [t \in Thread |-> {}]
        /\ pc = [t \in Thread |-> "idle"]
        /\ next = [t \in Thread |-> {}]
        /\ bytes = [t \in Thread |-> 0]
        /\ exact = [t \in Thread |-> TRUE]

\* if (!init)
Call(t) == /\ pc[t] = "idle"
           /\ IF init THEN pc' = [pc EXCEPT ![t] = "sum"] /\ UNCHANGED next
                      ELSE /\ pc' = [pc EXCEPT ![t] = "fill"]
                           /\ next' = [next EXCEPT ![t] = Entry]
           /\ UNCHANGED <<table, init, pending, bytes, exact>>

\* table[i] = c
Fill(t) == /\ pc[t] = "fill" /\ next[t] # {}
           /\ LET i == CHOOSE j \in next[t] : \A k \in next[t] : j <= k
              IN  /\ pending' = [pending EXCEPT ![t] = @ \cup {<<"table", i>>}]
                  /\ next' = [next EXCEPT ![t] = @ \ {i}]
           /\ UNCHANGED <<table, init, pc, bytes, exact>>

\* init = true
SetInit(t) == /\ pc[t] = "fill" /\ next[t] = {}
              /\ pending' = [pending EXCEPT ![t] = @ \cup {<<"init">>}]
              /\ pc' = [pc EXCEPT ![t] = "sum"]
              /\ UNCHANGED <<table, init, next, bytes, exact>>

\* A store reaches memory.
Commit(t, s) == /\ s \in pending[t]
                /\ pending' = [pending EXCEPT ![t] = @ \ {s}]
                /\ IF s = <<"init">> THEN init' = TRUE /\ UNCHANGED table
                   ELSE table' = [table EXCEPT ![s[2]] = Polynomial(s[2])] /\ UNCHANGED init
                /\ UNCHANGED <<pc, next, bytes, exact>>

\* table[i] as thread t reads it.
Value(t, i) == IF <<"table", i>> \in pending[t] THEN Polynomial(i) ELSE table[i]

\* c = table[(c ^ data[i]) & 0xFF] ^ (c >> 8)
Sum(t, i) == /\ pc[t] = "sum" /\ bytes[t] < MaxBytes
             /\ bytes' = [bytes EXCEPT ![t] = @ + 1]
             /\ exact' = [exact EXCEPT ![t] = @ /\ Value(t, i) = Polynomial(i)]
             /\ UNCHANGED <<table, init, pending, pc, next>>

Return(t) == /\ pc[t] = "sum"
             /\ pc' = [pc EXCEPT ![t] = "done"]
             /\ UNCHANGED <<table, init, pending, next, bytes, exact>>

Next == \E t \in Thread : \/ Call(t) \/ Fill(t) \/ SetInit(t) \/ Return(t)
                          \/ \E s \in pending[t] : Commit(t, s)
                          \/ \E i \in Entry : Sum(t, i)

Spec == Init /\ [][Next]_vars
-----------------------------------------------------------------------------
\* "Compute CRC32 ... over a byte buffer" (wal_format.h:138): a call returns the
\* checksum of its bytes, also when another thread makes its first call.
CrcExact == \A t \in Thread : pc[t] = "done" => exact[t]
=============================================================================
