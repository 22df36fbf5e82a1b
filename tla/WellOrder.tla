----------------------------- MODULE WellOrder ------------------------------
(***************************************************************************)
(* Least elements and induction over the natural numbers, in the form the  *)
(* proofs of the other modules use: about a set of numbers instead of a    *)
(* predicate.  A property P of numbers is proved by induction on the set   *)
(* {n \in Nat : P(n)}.  And the order of byte strings, which is total.     *)
(***************************************************************************)
EXTENDS ByteStrings, SequenceTheorems, WellFoundedInduction, TLAPS

Below == {ss \in Nat \X Nat : ss[1] < ss[2]}

\* A non-empty set of natural numbers has a least element.
LEMMA NatMin ==
    ASSUME NEW S, S \subseteq Nat, S # {}
    PROVE  \E m \in S : \A n \in S : m <= n
<1>1. IsWellFoundedOn(Below, Nat)
  BY NatLessThanWellFounded, Zenon DEF OpToRel, Below
<1>2. PICK m \in S : \A n \in S : ~(<<n, m>> \in Below)
  BY <1>1, WFMin
<1>3. \A n \in S : ~(n < m)
  BY <1>2 DEF Below
<1> QED
  BY <1>3

\* A non-empty set of natural numbers with an upper bound has a greatest
\* element.
LEMMA NatMax ==
    ASSUME NEW S, S \subseteq Nat, S # {}, NEW b \in Nat, \A n \in S : n <= b
    PROVE  \E m \in S : \A n \in S : n <= m
<1> DEFINE D == {d \in Nat : \E n \in S : d = b - n}
<1>1. D \subseteq Nat /\ D # {}
  <2>1. PICK n \in S : TRUE
    OBVIOUS
  <2>2. b - n \in D
    BY <2>1
  <2> QED
    BY <2>2
<1>2. PICK d \in D : \A e \in D : d <= e
  BY <1>1, NatMin
<1>3. PICK m \in S : d = b - m
  OBVIOUS
<1>4. \A n \in S : b - n \in D
  OBVIOUS
<1> QED
  BY <1>2, <1>3, <1>4

\* Induction on the members of a set.
LEMMA NatInduct ==
    ASSUME NEW S, 0 \in S, \A n \in Nat : n \in S => n + 1 \in S
    PROVE  \A n \in Nat : n \in S
<1> SUFFICES ASSUME NEW k \in Nat, k \notin S
             PROVE  FALSE
  OBVIOUS
<1> DEFINE T == {n \in Nat : n \notin S}
<1>1. PICK m \in T : \A n \in T : m <= n
  <2>1. T \subseteq Nat /\ T # {}
    OBVIOUS
  <2> QED
    BY <2>1, NatMin
<1>2. m # 0 /\ m - 1 \in Nat /\ m - 1 \notin T
  BY <1>1
<1>3. m - 1 \in S
  BY <1>2
<1> QED
  BY <1>2, <1>3

-----------------------------------------------------------------------------
(* Byte strings. *)

Strings == Seq(Nat)

\* Bytes are numbers, and strings have a length.
LEMMA StringFacts ==
    ASSUME NEW a \in Strings
    PROVE  /\ Len(a) \in Nat
           /\ \A n \in 1 .. Len(a) : a[n] \in Nat
           /\ Len(a) = 0 <=> a = <<>>
BY LenProperties, ElementOfSeq, EmptySeq DEF Strings

\* operator< is a strict total order.
LEMMA LessIrreflexive ==
    ASSUME NEW a \in Strings
    PROVE  ~Less(a, a)
BY StringFacts DEF Less

LEMMA LessTransitive ==
    ASSUME NEW a \in Strings, NEW b \in Strings, NEW c \in Strings, Less(a, b), Less(b, c)
    PROVE  Less(a, c)
<1>1. PICK m \in 1 .. Len(b) : /\ m <= Len(a) + 1
                               /\ \A j \in 1 .. m - 1 : a[j] = b[j]
                               /\ m <= Len(a) => a[m] < b[m]
  BY DEF Less
<1>2. PICK n \in 1 .. Len(c) : /\ n <= Len(b) + 1
                               /\ \A j \in 1 .. n - 1 : b[j] = c[j]
                               /\ n <= Len(b) => b[n] < c[n]
  BY DEF Less
<1>3. CASE m <= n
  <2>1. m \in 1 .. Len(c) /\ \A j \in 1 .. m - 1 : a[j] = c[j]
    BY <1>1, <1>2, <1>3, StringFacts
  <2>2. m <= Len(a) => a[m] < c[m]
    <3> SUFFICES ASSUME m <= Len(a)
                 PROVE  a[m] < c[m]
      OBVIOUS
    <3>1. a[m] < b[m] /\ a[m] \in Nat /\ b[m] \in Nat /\ c[m] \in Nat
      BY <1>1, <2>1, StringFacts
    <3>2. b[m] <= c[m]
      BY <1>1, <1>2, <1>3, <3>1, StringFacts
    <3> QED
      BY <3>1, <3>2
  <2> QED
    BY <1>1, <2>1, <2>2 DEF Less
<1>4. CASE n < m
  <2>1. n <= Len(a) /\ n <= Len(b) /\ \A j \in 1 .. n - 1 : a[j] = c[j]
    BY <1>1, <1>2, <1>4, StringFacts
  <2>2. a[n] < c[n]
    BY <1>1, <1>2, <1>4, <2>1, StringFacts
  <2>3. n <= Len(a) + 1
    BY <1>2, <2>1, StringFacts
  <2> QED
    BY <2>1, <2>2, <2>3 DEF Less
<1> QED
  BY <1>1, <1>2, <1>3, <1>4, StringFacts

LEMMA LessTotal ==
    ASSUME NEW a \in Strings, NEW b \in Strings, a # b
    PROVE  Less(a, b) \/ Less(b, a)
<1> DEFINE Min == IF Len(a) <= Len(b) THEN Len(a) ELSE Len(b)
           D == {n \in Nat : 1 <= n /\ n <= Min /\ a[n] # b[n]}
<1>1. Min \in Nat /\ Min <= Len(a) /\ Min <= Len(b)
  BY StringFacts
<1> HIDE DEF Min
<1>2. CASE D = {}
  <2>1. \A j \in 1 .. Min : a[j] = b[j]
    BY <1>1, <1>2
  <2>2. Len(a) # Len(b)
    <3> SUFFICES ASSUME Len(a) = Len(b)
                 PROVE  FALSE
      OBVIOUS
    <3>1. Min = Len(a)
      BY DEF Min
    <3> QED
      BY <2>1, <3>1, SeqEqual DEF Strings
  <2>3. CASE Len(a) < Len(b)
    <3>1. Min = Len(a) /\ Len(a) + 1 \in 1 .. Len(b)
      BY <2>3, StringFacts DEF Min
    <3> QED
      BY <2>1, <3>1, StringFacts DEF Less
  <2>4. CASE Len(b) < Len(a)
    <3>1. Min = Len(b) /\ Len(b) + 1 \in 1 .. Len(a)
      BY <2>4, StringFacts DEF Min
    <3> QED
      BY <2>1, <3>1, StringFacts DEF Less
  <2> QED
    BY <2>2, <2>3, <2>4, StringFacts
<1>3. CASE D # {}
  <2>1. PICK n \in D : \A m \in D : n <= m
    <3>1. D \subseteq Nat
      OBVIOUS
    <3> QED
      BY <1>3, <3>1, NatMin
  <2>2. n \in Nat /\ 1 <= n /\ n <= Min /\ a[n] # b[n] /\ a[n] \in Nat /\ b[n] \in Nat
    BY <1>1, <2>1, StringFacts
  <2>3. \A j \in 1 .. n - 1 : a[j] = b[j]
    <3> SUFFICES ASSUME NEW j \in 1 .. n - 1, a[j] # b[j]
                 PROVE  FALSE
      OBVIOUS
    <3>1. j \in D
      BY <1>1, <2>2
    <3> QED
      BY <3>1, <2>1, <2>2
  <2>4. n \in 1 .. Len(a) /\ n \in 1 .. Len(b)
    BY <1>1, <2>2, StringFacts
  <2>5. CASE a[n] < b[n]
    BY <2>3, <2>4, <2>5, StringFacts DEF Less
  <2>6. CASE b[n] < a[n]
    BY <2>3, <2>4, <2>6, StringFacts DEF Less
  <2> QED
    BY <2>2, <2>5, <2>6
<1> QED
  BY <1>2, <1>3

\* The empty string comes first.
LEMMA LessEmpty ==
    ASSUME NEW a \in Strings
    PROVE  /\ ~Less(a, <<>>)
           /\ a # <<>> => Less(<<>>, a)
<1>1. ~Less(a, <<>>)
  BY EmptySeq DEF Less
<1>2. ASSUME a # <<>>
      PROVE  Less(<<>>, a)
  <2>1. 1 \in 1 .. Len(a) /\ Len(<<>>) = 0
    BY <1>2, StringFacts, EmptySeq
  <2> QED
    BY <2>1 DEF Less
<1> QED
  BY <1>1, <1>2
=============================================================================
