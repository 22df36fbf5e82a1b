---------------------------- MODULE ByteStrings -----------------------------
(***************************************************************************)
(* The order of std::string, which the builders check and the readers      *)
(* search by.                                                              *)
(***************************************************************************)
EXTENDS Integers, Sequences

\* std::string operator<: unsigned bytes, the shorter first when one is a
\* prefix of the other.
Less(a, b) ==
    \E n \in 1 .. Len(b) :
        /\ n <= Len(a) + 1
        /\ \A m \in 1 .. n - 1 : a[m] = b[m]
        /\ n <= Len(a) => a[n] < b[n]
=============================================================================
