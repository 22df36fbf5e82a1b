--------------------------- MODULE SkipListProofs ---------------------------
(***************************************************************************)
(* Proofs about the skip list, for every set of keys, values and           *)
(* addresses and every constructor argument.                               *)
(*                                                                         *)
(* None of the invariants of SkipList is inductive on its own: a splice    *)
(* keeps the links exact because the search left exact predecessors, the   *)
(* search does so because the links are exact, keys are unique and level_  *)
(* covers every tower, and size_ - 1 is a natural number because size_     *)
(* counts the nodes.  IInv is their conjunction, and it is inductive.      *)
(*                                                                         *)
(* The last part shows that every step is a step of the ordered map of     *)
(* module Memtable, or leaves the map, the answer and the cursor alone.    *)
(***************************************************************************)
EXTENDS SkipList, FiniteSetTheorems, TLAPS

\* The inductive invariant.
IInv == /\ TypeOK
        /\ LinksExact
        /\ KeysUnique
        /\ SearchExact
        /\ LevelExact
        /\ SizeExact
        /\ ClearExact
        /\ IteratorAlive
        /\ IsFiniteSet(Alive)

-----------------------------------------------------------------------------
(* Constants and helpers. *)

\* The clamp of the constructor (line 116): max_level_ is at least 1.
LEMMA MaxLevel == /\ max_level \in Nat /\ max_level >= 1
                  /\ 1 \in Levels
                  /\ \A l \in Levels : l \in Nat /\ 1 <= l /\ l <= max_level
BY ArgAssumption DEF max_level, Levels

\* Every level randomLevel() returns exists (lines 326-333).
LEMMA RandomLevel == randomLevel \subseteq Levels
BY DEF randomLevel

\* The parts of IInv that most steps use.
LEMMA Facts ==
    ASSUME IInv
    PROVE  /\ \A c \in Cell : height[c] \in Nat /\ height[c] <= max_level
           /\ \A n \in Alive : /\ n \in Node /\ n \in Cell /\ n # HEAD /\ n # NULL
                               /\ height[n] >= 1
                               /\ key[n] \in Key /\ key[n] \in Int
           /\ level \in Levels /\ level \in Nat /\ i \in Nat
           /\ pc \in {"search", "act"} => /\ req \in Request
                                          /\ req.key \in Key /\ req.key \in Int
<1>1. \A c \in Cell : height[c] \in Nat /\ height[c] <= max_level
  BY MaxLevel DEF IInv, TypeOK, Rank
<1>2. \A n \in Alive : /\ n \in Node /\ n \in Cell /\ n # HEAD /\ n # NULL
                       /\ height[n] >= 1
                       /\ key[n] \in Key /\ key[n] \in Int
  <2> TAKE n \in Alive
  <2>1. n \in Node /\ n \in Cell /\ height[n] > 0
    BY DEF Alive, Cell
  <2>2. key[n] \in Key
    BY DEF IInv, TypeOK
  <2>3. height[n] >= 1
    BY <2>1, <1>1
  <2>4. key[n] \in Int
    BY <2>2, KeyAssumption
  <2>5. n # HEAD /\ n # NULL
    BY <2>1, NodeAssumption
  <2> QED
    BY <2>1, <2>2, <2>3, <2>4, <2>5
<1>3. level \in Levels /\ level \in Nat /\ i \in Nat
  BY MaxLevel DEF IInv, TypeOK, Rank
<1>4. pc \in {"search", "act"} => /\ req \in Request
                                  /\ req.key \in Key /\ req.key \in Int
  BY KeyAssumption DEF IInv, TypeOK, Request
<1> QED
  BY <1>1, <1>2, <1>3, <1>4

\* Every link of a list that is whole may be followed: the tower of a linked
\* cell has at least one level, all of them in range.
LEMMA Towers ==
    ASSUME IInv, Whole
    PROVE  \A c \in Linked : /\ c \in Cell /\ 1 <= height[c]
                             /\ \A l \in Nat : 1 <= l /\ l <= height[c]
                                                 => l \in Levels /\ LinkExact(c, l)
<1>1. \A c \in Linked : c \in Cell /\ 1 <= height[c] /\ height[c] \in Nat
  BY Facts, MaxLevel DEF IInv, TypeOK, Linked, Whole, Cell
<1>2. \A c \in Linked : \A l \in Nat : 1 <= l /\ l <= height[c] => l \in Levels
  BY <1>1, Facts, MaxLevel DEF Levels
<1> QED
  BY <1>1, <1>2 DEF IInv, LinksExact

\* The search ends on the predecessor of the target on the base level.
LEMMA FoundAlive ==
    ASSUME IInv, pc = "act"
    PROVE  x \in Linked /\ LinkExact(x, 1) /\ Found \in Alive \cup {NULL}
<1>1. x \in Linked /\ Whole
  BY DEF IInv, SearchExact, Whole
<1>2. LinkExact(x, 1)
  BY <1>1, Towers
<1> QED
  BY <1>1, <1>2 DEF LinkExact, Found

\* When the search misses, no node carries the key (lines 188 and 212).
LEMMA MissMeansAbsent ==
    ASSUME IInv, pc = "act", ~Hit
    PROVE  \A n \in Alive : key[n] # req.key
<1> SUFFICES ASSUME NEW n \in Alive, key[n] = req.key PROVE FALSE
  OBVIOUS
<1>1. LinkExact(x, 1) /\ x \in Linked
  BY FoundAlive
<1>2. After(x, n)
  BY DEF IInv, SearchExact, After
<1>3. Found # NULL /\ key[Found] <= key[n] /\ Found \in Alive
  BY <1>1, <1>2, Facts DEF LinkExact, Found
<1>4. key[Found] >= req.key
  BY <1>3 DEF IInv, SearchExact
<1> QED
  BY <1>3, <1>4, Facts DEF Hit

\* The predecessors the search recorded, completed with the sentinel for the
\* levels that were empty (lines 192-194, 217-219): p is the last cell of level
\* l in front of the key.
LEMMA PredFacts ==
    ASSUME IInv, pc = "act", req.op \in {"Insert", "Put", "Erase"},
           NEW l \in Levels
    PROVE  LET p == Pred(l) IN
             /\ p \in Linked /\ p \in Cell
             /\ height[p] >= l
             /\ p # HEAD => key[p] < req.key
             /\ next[p][l] # NULL => key[next[p][l]] >= req.key
             /\ LinkExact(p, l)
<1>0. Whole /\ l \in Nat /\ 1 <= l /\ l <= max_level
  BY MaxLevel DEF Whole
<1>1. CASE l <= level
  <2>1. PredExact(l) /\ Pred(l) = update[l]
    BY <1>1, <1>0, Facts DEF IInv, SearchExact, Pred
  <2> QED
    BY <2>1, <1>0, Towers DEF PredExact
<1>2. CASE ~(l <= level)
  <2>1. Pred(l) = HEAD /\ height[HEAD] = max_level /\ HEAD \in Linked
    BY <1>2, <1>0, Facts DEF Pred, IInv, TypeOK, Linked
  <2>2. LinkExact(HEAD, l) /\ HEAD \in Cell
    BY <2>1, <1>0, Towers
  <2>3. next[HEAD][l] = NULL
    <3>1. next[HEAD][l] # NULL => /\ next[HEAD][l] \in Alive
                                  /\ height[next[HEAD][l]] >= l
      BY <2>2 DEF LinkExact
    <3>2. \A n \in Alive : height[n] <= level /\ height[n] \in Nat
      BY <1>0, Facts DEF IInv, LevelExact
    <3> QED
      BY <3>1, <3>2, <1>2, <1>0, Facts
  <2> QED
    BY <2>1, <2>2, <2>3, <1>0
<1> QED
  BY <1>1, <1>2

\* Between the recorded predecessor and the key there is no other cell of the
\* level: one in front of the key links to the predecessor or to a cell before it.
LEMMA PredLast ==
    ASSUME IInv, pc = "act", req.op \in {"Insert", "Put", "Erase"},
           NEW l \in Levels, NEW c \in Linked, height[c] >= l,
           c = HEAD \/ key[c] < req.key, c # Pred(l)
    PROVE  /\ Pred(l) \in Alive /\ After(c, Pred(l))
           /\ next[c][l] # NULL /\ key[next[c][l]] <= key[Pred(l)]
<1> DEFINE p == Pred(l)
<1>0. /\ p \in Linked /\ p \in Cell /\ height[p] >= l
      /\ p # HEAD => key[p] < req.key
      /\ next[p][l] # NULL => key[next[p][l]] >= req.key
      /\ LinkExact(p, l)
  BY PredFacts
<1>1. Whole /\ LinkExact(c, l)
  BY Towers, MaxLevel DEF Whole
<1>2. ASSUME c \in Alive, After(p, c) PROVE FALSE
  <2>1. next[p][l] # NULL /\ key[next[p][l]] <= key[c] /\ next[p][l] \in Alive
    BY <1>2, <1>0 DEF LinkExact
  <2> QED
    BY <2>1, <1>0, <1>2, Facts
<1>3. c = HEAD \/ c \in Alive
  BY DEF Linked
<1>4. p \in Alive
  BY <1>0, <1>2, <1>3 DEF Linked, After
<1>5. After(c, p)
  BY <1>2, <1>3, <1>4, Facts DEF After, IInv, KeysUnique
<1> QED
  BY <1>0, <1>1, <1>4, <1>5 DEF LinkExact

-----------------------------------------------------------------------------
(* Insert and Put of a new key. *)

\* The splice (lines 197-200, 222-225) keeps every level exact.
LEMMA SpliceExact ==
    ASSUME IInv, NEW n \in Node, NEW lvl \in Levels, InsertNew(n, lvl)
    PROVE  /\ Alive' = Alive \cup {n} /\ n \notin Alive
           /\ \A m \in Alive : key'[m] = key[m] /\ height'[m] = height[m]
           /\ key'[n] = req.key /\ height'[n] = lvl
           /\ next' \in [Cell -> [Levels -> Node \cup {NULL}]]
           /\ LinksExact'
<1> DEFINE k == req.key
<1>0. /\ pc = "act" /\ req.op \in {"Insert", "Put", "Erase"} /\ ~Hit
      /\ height[n] = 0 /\ pc' = "idle"
      /\ key' = [key EXCEPT ![n] = k] /\ height' = [height EXCEPT ![n] = lvl]
      /\ next' = Spliced(n, lvl)
  BY DEF InsertNew, Return
<1>1. /\ lvl \in Nat /\ 1 <= lvl /\ n \in Cell /\ n # HEAD /\ n # NULL
      /\ k \in Int /\ Whole
  BY <1>0, MaxLevel, Facts, NodeAssumption DEF Cell, Whole
<1>2. n \notin Alive
  BY <1>0 DEF Alive
<1>3. /\ key'[n] = k /\ height'[n] = lvl
      /\ \A m \in Alive : key'[m] = key[m] /\ height'[m] = height[m]
      /\ \A c \in Cell : c # n => height'[c] = height[c]
  BY <1>0, <1>1, <1>2, Facts DEF IInv, TypeOK
<1>4. Alive' = Alive \cup {n}
  <2>1. \A m \in Node : m # n => height'[m] = height[m]
    BY <1>3 DEF Cell
  <2> QED
    BY <2>1, <1>3, <1>1 DEF Alive
<1>5. \A l \in Levels :
        /\ Pred(l) \in Linked /\ Pred(l) \in Cell /\ Pred(l) # n
        /\ height[Pred(l)] >= l
        /\ Pred(l) # HEAD => key[Pred(l)] < k
        /\ next[Pred(l)][l] # NULL => key[next[Pred(l)][l]] >= k
        /\ LinkExact(Pred(l), l)
  BY <1>0, <1>1, <1>2, PredFacts DEF Linked
<1>6. \A c \in Cell : \A l \in Levels :
        next'[c][l] = IF l <= lvl /\ c = n THEN next[Pred(l)][l]
                      ELSE IF l <= lvl /\ c = Pred(l) THEN n
                      ELSE next[c][l]
  BY <1>0 DEF Spliced
<1>7. next' \in [Cell -> [Levels -> Node \cup {NULL}]]
  <2>1. \A c \in Cell : \A l \in Levels : next[c][l] \in Node \cup {NULL}
    BY DEF IInv, TypeOK
  <2> QED
    BY <2>1, <1>0, <1>5 DEF Spliced
<1>8. \A m \in Alive : key[m] # k
  BY <1>0, MissMeansAbsent
<1>9. ASSUME NEW c \in Linked', NEW l \in 1 .. height'[c] PROVE LinkExact(c, l)'
  <2>0. /\ c \in Linked \/ c = n
        /\ l \in Nat /\ 1 <= l /\ l <= height'[c] /\ l \in Levels /\ c \in Cell
    <3>1. c \in Linked \/ c = n
      BY <1>4 DEF Linked
    <3>2. c \in Cell
      BY <3>1, <1>1, Towers
    <3>3. height'[c] \in Nat /\ height'[c] <= max_level
      BY <3>2, <1>3, <1>1, Facts, MaxLevel
    <3> QED
      BY <3>1, <3>2, <3>3, MaxLevel DEF Levels
  <2>1. CASE c = n
    <3>1. l <= lvl /\ next'[c][l] = next[Pred(l)][l]
      BY <2>0, <2>1, <1>3, <1>6
    <3>2. ASSUME next'[c][l] # NULL
          PROVE  /\ next'[c][l] \in Alive' /\ height'[next'[c][l]] >= l
                 /\ key'[c] < key'[next'[c][l]]
      <4>1. next'[c][l] \in Alive /\ height[next'[c][l]] >= l /\ key[next'[c][l]] >= k
        BY <3>1, <3>2, <1>5, <2>0 DEF LinkExact
      <4> QED
        BY <4>1, <1>3, <1>4, <1>8, <1>1, <2>1, Facts
    <3>3. ASSUME NEW m \in Alive', height'[m] >= l, key'[c] < key'[m]
          PROVE  next'[c][l] # NULL /\ key'[next'[c][l]] <= key'[m]
      <4>1. m \in Alive /\ k < key[m] /\ height[m] >= l
        BY <3>3, <1>3, <1>4, <1>1, <2>1
      <4>2. After(Pred(l), m)
        BY <4>1, <1>5, <2>0, <1>1, Facts DEF After, Linked
      <4>3. /\ next[Pred(l)][l] # NULL /\ key[next[Pred(l)][l]] <= key[m]
            /\ next[Pred(l)][l] \in Alive
        BY <4>1, <4>2, <1>5, <2>0 DEF LinkExact
      <4> QED
        BY <4>1, <4>3, <3>1, <1>3
    <3> QED
      BY <3>2, <3>3, <2>1, <1>1 DEF LinkExact, After
  <2>2. CASE c # n /\ l <= lvl /\ c = Pred(l)
    <3>1. next'[c][l] = n
      BY <2>0, <2>2, <1>6
    <3>2. c = HEAD \/ (c \in Alive /\ key'[c] = key[c] /\ key[c] < k)
      BY <2>0, <2>2, <1>3, <1>5 DEF Linked
    <3>3. ASSUME NEW m \in Alive', height'[m] >= l, c = HEAD \/ key'[c] < key'[m]
          PROVE  k <= key'[m]
      <4>1. CASE m = n
        BY <4>1, <1>3, <1>1
      <4>2. CASE m \in Alive
        <5>1. After(c, m) /\ height[m] >= l /\ key'[m] = key[m]
          BY <4>2, <3>2, <3>3, <1>3 DEF After
        <5>2. /\ next[c][l] # NULL /\ key[next[c][l]] <= key[m]
              /\ next[c][l] \in Alive /\ key[next[c][l]] >= k
          BY <5>1, <4>2, <2>2, <2>0, <1>5 DEF LinkExact
        <5> QED
          BY <5>1, <5>2, <4>2, <1>1, Facts
      <4> QED
        BY <4>1, <4>2, <1>4
    <3> QED
      BY <3>1, <3>2, <3>3, <2>2, <1>1, <1>3, <1>4 DEF LinkExact, After
  <2>3. CASE c # n /\ ~(l <= lvl /\ c = Pred(l))
    <3>1. /\ next'[c][l] = next[c][l] /\ c \in Linked
          /\ height[c] >= l /\ LinkExact(c, l)
          /\ c # HEAD => key'[c] = key[c]
      <4>1. next'[c][l] = next[c][l] /\ c \in Linked /\ height[c] = height'[c]
        BY <2>0, <2>3, <1>6, <1>3
      <4> QED
        BY <4>1, <2>0, <1>1, <1>3, Towers DEF Linked
    <3>2. ASSUME next'[c][l] # NULL
          PROVE  /\ next'[c][l] \in Alive' /\ height'[next'[c][l]] >= l
                 /\ c = HEAD \/ key'[c] < key'[next'[c][l]]
      BY <3>1, <3>2, <1>3, <1>4 DEF LinkExact, After
    <3>3. ASSUME NEW m \in Alive', height'[m] >= l, c = HEAD \/ key'[c] < key'[m]
          PROVE  next'[c][l] # NULL /\ key'[next'[c][l]] <= key'[m]
      <4>1. CASE m = n
        <5>1. l <= lvl /\ c # Pred(l) /\ (c = HEAD \/ key[c] < k)
          BY <4>1, <3>1, <3>3, <2>3, <1>3, <2>0
        <5>2. /\ Pred(l) \in Alive /\ next[c][l] # NULL
              /\ key[next[c][l]] <= key[Pred(l)]
          BY <5>1, <3>1, <2>0, <1>0, PredLast
        <5>3. next[c][l] \in Alive /\ Pred(l) # HEAD /\ key[Pred(l)] < k
          BY <5>2, <3>1, <1>5, <2>0, Facts DEF LinkExact
        <5> QED
          BY <5>2, <5>3, <4>1, <3>1, <1>3, <1>1, Facts
      <4>2. CASE m \in Alive
        BY <4>2, <3>1, <3>3, <1>3 DEF LinkExact, After
      <4> QED
        BY <4>1, <4>2, <1>4
    <3> QED
      BY <3>2, <3>3 DEF LinkExact, After
  <2> QED
    BY <2>1, <2>2, <2>3
<1> QED
  BY <1>2, <1>3, <1>4, <1>7, <1>9 DEF LinksExact

\* Insert and Put of a key that is not there (lines 191-202, 216-227).
LEMMA InsertNewInv ==
    ASSUME IInv, NEW n \in Node, NEW lvl \in randomLevel, InsertNew(n, lvl)
    PROVE  IInv'
<1>0. lvl \in Levels /\ lvl \in Nat /\ 1 <= lvl /\ lvl <= max_level
  BY RandomLevel, MaxLevel
<1>1. /\ Alive' = Alive \cup {n} /\ n \notin Alive
      /\ \A m \in Alive : key'[m] = key[m] /\ height'[m] = height[m]
      /\ key'[n] = req.key /\ height'[n] = lvl
      /\ next' \in [Cell -> [Levels -> Node \cup {NULL}]]
      /\ LinksExact'
  BY <1>0, SpliceExact
<1>2. /\ pc = "act" /\ pc' = "idle" /\ ~Hit /\ Whole /\ Whole'
      /\ req.op \in {"Insert", "Put"} /\ req \in Request
      /\ req.key \in Key /\ req.val \in Val
      /\ level' = Raised(lvl) /\ size' = size + 1
  BY Facts, NodeAssumption DEF InsertNew, Return, Whole, Request
<1>3. TypeOK'
  <2>1. key' \in [Node -> Key \cup {NULL}] /\ value' \in [Node -> Val \cup {NULL}]
    BY <1>2 DEF IInv, TypeOK, InsertNew
  <2>2. height' \in [Cell -> Rank]
    <3>1. lvl \in Rank
      BY <1>0, MaxLevel DEF Rank
    <3> QED
      BY <3>1 DEF IInv, TypeOK, InsertNew
  <2>3. \A m \in Alive' : key'[m] \in Key /\ value'[m] \in Val
    <3>1. \A m \in Alive : key[m] \in Key /\ value[m] \in Val /\ m \in Node
      BY DEF IInv, TypeOK, Alive
    <3> QED
      BY <3>1, <1>1, <1>2 DEF InsertNew, IInv, TypeOK
  <2>4. height'[HEAD] = max_level
    BY <1>2, NodeAssumption DEF InsertNew, IInv, TypeOK, Cell
  <2>5. level' \in Levels /\ size' \in Nat
    BY <1>0, <1>2, Facts DEF Raised, IInv, TypeOK
  <2>6. /\ req' = NULL /\ x' \in Cell /\ i' \in Rank
        /\ update' \in [Levels -> Cell \cup {NULL}]
    BY <1>2, MaxLevel DEF InsertNew, Return, Cell, NoLinks, Rank
  <2>7. cur' \in Node \cup {NULL} /\ it' \in Node \cup {NULL} /\ itValid' \in BOOLEAN
    BY DEF InsertNew, Return, iter, IInv, TypeOK
  <2> QED
    BY <2>1, <2>2, <2>3, <2>4, <2>5, <2>6, <2>7, <1>1, <1>2 DEF TypeOK
<1>4. KeysUnique'
  BY <1>1, <1>2, MissMeansAbsent DEF IInv, KeysUnique
<1>5. LevelExact'
  <2>1. \A m \in Alive : height[m] <= level /\ height[m] \in Nat
    BY <1>2, Facts DEF IInv, LevelExact
  <2> QED
    BY <2>1, <1>0, <1>1, <1>2, Facts DEF LevelExact, Raised
<1>6. SizeExact' /\ IsFiniteSet(Alive)'
  <2>1. IsFiniteSet(Alive) /\ size = Cardinality(Alive)
    BY <1>2 DEF IInv, SizeExact
  <2>2. /\ IsFiniteSet(Alive \cup {n})
        /\ Cardinality(Alive \cup {n}) = Cardinality(Alive) + 1
    BY <2>1, <1>1, FS_AddElement
  <2> QED
    BY <2>1, <2>2, <1>1, <1>2 DEF SizeExact
<1>7. SearchExact' /\ ClearExact'
  BY <1>2 DEF SearchExact, ClearExact
<1>8. IteratorAlive'
  BY <1>1, <1>2 DEF InsertNew, iter, IInv, IteratorAlive
<1> QED
  BY <1>1, <1>3, <1>4, <1>5, <1>6, <1>7, <1>8 DEF IInv

-----------------------------------------------------------------------------
(* Steps that leave the nodes alone. *)

\* What holds of the nodes still holds when no node changed and level_ did not
\* shrink.
LEMMA NodesKept ==
    ASSUME IInv, UNCHANGED <<key, height, next, size>>,
           Whole, Whole', level' \in Levels, level' >= level
    PROVE  /\ LinksExact' /\ KeysUnique' /\ LevelExact' /\ SizeExact'
           /\ IsFiniteSet(Alive)' /\ Alive' = Alive /\ ClearExact'
<1>1. Alive' = Alive /\ Linked' = Linked
  BY DEF Alive, Linked
<1>2. LinksExact'
  BY <1>1 DEF IInv, LinksExact, LinkExact, After
<1>3. KeysUnique' /\ IsFiniteSet(Alive)' /\ SizeExact'
  BY <1>1 DEF IInv, KeysUnique, SizeExact
<1>4. LevelExact'
  BY <1>1, Facts, MaxLevel DEF IInv, LevelExact
<1>5. ClearExact'
  BY DEF Whole, ClearExact
<1> QED
  BY <1>1, <1>2, <1>3, <1>4, <1>5

\* A call starts at the sentinel, on the top level (lines 238-239, 294-295,
\* 311-312).
LEMMA CallInv ==
    ASSUME IInv, NEW r \in Request, Call(r)
    PROVE  IInv'
<1>0. /\ pc = "idle" /\ pc' = "search" /\ Whole /\ Whole'
      /\ UNCHANGED <<key, value, height, next, level, size, update, cur, it, itValid>>
      /\ req' = r /\ x' = HEAD /\ i' = level
  BY DEF Call, heap, iter, Whole
<1>1. /\ LinksExact' /\ KeysUnique' /\ LevelExact' /\ SizeExact'
      /\ IsFiniteSet(Alive)' /\ Alive' = Alive /\ ClearExact'
  BY <1>0, NodesKept, Facts
<1>2. TypeOK'
  BY <1>0, <1>1, Facts, MaxLevel DEF IInv, TypeOK, Rank, Cell
<1>3. SearchExact'
  <2>1. height'[HEAD] >= level'
    BY <1>0, Facts, MaxLevel DEF IInv, TypeOK
  <2>2. \A l \in i' + 1 .. level' : FALSE
    BY <1>0, Facts
  <2> QED
    BY <2>1, <2>2, <1>0, Facts DEF SearchExact, Linked
<1>4. IteratorAlive'
  BY <1>0, <1>1 DEF IInv, IteratorAlive
<1> QED
  BY <1>1, <1>2, <1>3, <1>4 DEF IInv

\* The search follows a link whose node is still below the target.
LEMMA AdvanceInv ==
    ASSUME IInv, Advance
    PROVE  IInv'
<1>0. /\ pc = "search" /\ pc' = "search" /\ Whole /\ Whole' /\ CanAdvance
      /\ UNCHANGED <<key, value, height, next, level, size, req, i, update, cur, it, itValid>>
      /\ x' = next[x][i]
  BY DEF Advance, heap, iter, Whole
<1>1. /\ LinksExact' /\ KeysUnique' /\ LevelExact' /\ SizeExact'
      /\ IsFiniteSet(Alive)' /\ Alive' = Alive /\ ClearExact'
  BY <1>0, NodesKept, Facts
<1>2. x' \in Alive /\ height[x'] >= i /\ key[x'] < req.key
  <2>1. x \in Linked /\ height[x] >= i /\ i >= 1
    BY <1>0, Facts DEF IInv, SearchExact, TypeOK
  <2>2. LinkExact(x, i)
    BY <2>1, <1>0, Towers, Facts
  <2> QED
    BY <2>2, <1>0 DEF LinkExact, CanAdvance
<1>3. TypeOK'
  BY <1>0, <1>1, <1>2, Facts DEF IInv, TypeOK
<1>4. SearchExact'
  BY <1>0, <1>1, <1>2 DEF IInv, SearchExact, PredExact, Linked
<1>5. IteratorAlive'
  BY <1>0, <1>1 DEF IInv, IteratorAlive
<1> QED
  BY <1>1, <1>3, <1>4, <1>5 DEF IInv

\* The search has the predecessor of this level in hand and goes down.
LEMMA DescendInv ==
    ASSUME IInv, Descend
    PROVE  IInv'
<1>0. /\ pc = "search" /\ pc' = IF i = 1 THEN "act" ELSE "search"
      /\ Whole /\ Whole' /\ ~CanAdvance
      /\ UNCHANGED <<key, value, height, next, level, size, req, x, cur, it, itValid>>
      /\ update' = IF req.op \in {"Insert", "Put", "Erase"}
                   THEN [update EXCEPT ![i] = x] ELSE update
      /\ i' = i - 1
  BY DEF Descend, heap, iter, Whole
<1>1. /\ LinksExact' /\ KeysUnique' /\ LevelExact' /\ SizeExact'
      /\ IsFiniteSet(Alive)' /\ Alive' = Alive /\ ClearExact'
  BY <1>0, NodesKept, Facts
<1>2. /\ x \in Linked /\ x \in Cell /\ height[x] >= i /\ height[x] \in Nat
      /\ i \in Nat /\ i >= 1 /\ i <= level /\ i \in Levels
      /\ x # HEAD => key[x] < req.key
      /\ LinkExact(x, i)
  <2>1. /\ x \in Linked /\ height[x] >= i /\ i >= 1 /\ i \in Nat /\ i <= level
        /\ x # HEAD => key[x] < req.key
    BY <1>0, Facts DEF IInv, SearchExact, TypeOK
  <2> QED
    BY <2>1, <1>0, Towers, Facts
<1>3. next[x][i] # NULL => next[x][i] \in Alive /\ key[next[x][i]] >= req.key
  BY <1>0, <1>2, Facts DEF CanAdvance, LinkExact
<1>4. TypeOK'
  <2>1. update' \in [Levels -> Cell \cup {NULL}]
    BY <1>0, <1>2 DEF IInv, TypeOK
  <2>2. i' \in Rank /\ (pc' = "search" => i' > 0)
    BY <1>0, <1>2, MaxLevel DEF IInv, TypeOK, Rank
  <2> QED
    BY <2>1, <2>2, <1>0, <1>1 DEF IInv, TypeOK
<1>5. SearchExact'
  <2>1. ASSUME req.op \in {"Insert", "Put", "Erase"}, NEW l \in i' + 1 .. level'
        PROVE  PredExact(l)'
    <3>1. l \in Nat /\ l >= i /\ l <= level /\ l \in Levels
      BY <1>0, <1>2, Facts, MaxLevel DEF Levels
    <3>2. CASE l = i
      <4>1. update'[l] = x
        BY <3>1, <3>2, <2>1, <1>0 DEF IInv, TypeOK
      <4> QED
        BY <4>1, <3>2, <1>0, <1>1, <1>2, <1>3 DEF PredExact, Linked
    <3>3. CASE l # i
      <4>1. update'[l] = update[l]
        BY <3>1, <3>3, <2>1, <1>0 DEF IInv, TypeOK
      <4>2. l \in i + 1 .. level
        BY <3>1, <3>3, <1>2, Facts
      <4>3. PredExact(l)
        BY <4>2, <2>1, <1>0 DEF IInv, SearchExact
      <4> QED
        BY <4>1, <4>3, <1>0, <1>1 DEF PredExact, Linked
    <3> QED
      BY <3>2, <3>3
  <2>2. /\ x' \in Linked' /\ (x' # HEAD => key'[x'] < req'.key)
        /\ i' <= level' /\ (pc' = "search" => height'[x'] >= i')
    BY <1>0, <1>1, <1>2, Facts DEF Linked
  <2>3. pc' = "act" => i' = 0 /\ (Found' # NULL => key'[Found'] >= req'.key)
    BY <1>0, <1>2, <1>3 DEF Found
  <2> QED
    BY <2>1, <2>2, <2>3, <1>0 DEF SearchExact
<1>6. IteratorAlive'
  BY <1>0, <1>1 DEF IInv, IteratorAlive
<1> QED
  BY <1>1, <1>4, <1>5, <1>6 DEF IInv

\* A step after which no call runs, and which changed no node but for a value,
\* keeps the invariant if the iterator it leaves is sound.
LEMMA IdleInv ==
    ASSUME IInv, Whole, pc' = "idle",
           UNCHANGED <<key, height, next, size, cur>>,
           level' \in Levels, level' >= level,
           value' \in [Node -> Val \cup {NULL}],
           \A n \in Alive : value'[n] \in Val,
           req' = NULL, x' \in Cell, i' \in Rank,
           update' \in [Levels -> Cell \cup {NULL}],
           it' \in Node \cup {NULL}, itValid' \in BOOLEAN,
           itValid' /\ it' # NULL => it' \in Alive
    PROVE  IInv'
<1>0. Whole'
  BY DEF Whole
<1>1. /\ LinksExact' /\ KeysUnique' /\ LevelExact' /\ SizeExact'
      /\ IsFiniteSet(Alive)' /\ Alive' = Alive /\ ClearExact'
  BY <1>0, NodesKept
<1>2. TypeOK'
  BY <1>1 DEF IInv, TypeOK, Whole
<1>3. SearchExact' /\ IteratorAlive'
  BY <1>0, <1>1 DEF SearchExact, IteratorAlive
<1> QED
  BY <1>1, <1>2, <1>3 DEF IInv

\* The types of what a returning call leaves behind.
LEMMA ReturnTypes ==
    ASSUME NEW r, Return(r)
    PROVE  /\ pc' = "idle" /\ req' = NULL /\ cur' = cur
           /\ x' \in Cell /\ i' \in Rank
           /\ update' \in [Levels -> Cell \cup {NULL}]
BY MaxLevel DEF Return, Cell, Rank, NoLinks

\* The facts about the state before a step that IdleInv asks for when the step
\* leaves the corresponding variables alone.
LEMMA Before ==
    ASSUME IInv
    PROVE  /\ value \in [Node -> Val \cup {NULL}]
           /\ \A n \in Alive : value[n] \in Val
           /\ level \in Levels /\ level >= level
           /\ x \in Cell /\ i \in Rank
           /\ update \in [Levels -> Cell \cup {NULL}]
           /\ it \in Node \cup {NULL} /\ itValid \in BOOLEAN
           /\ itValid /\ it # NULL => it \in Alive
           /\ pc \notin {"search", "act"} => req = NULL
BY Facts DEF IInv, TypeOK, IteratorAlive

\* Contains, Get, Seek, a duplicate Insert, an overwrite that fails and an Erase
\* that misses (lines 161-177, 188-190, 213, 245-247, 271-273).
LEMMA LookupInv ==
    ASSUME IInv, Contains \/ Get \/ Seek \/ InsertDuplicate \/ PutNoMemory \/ EraseMiss
    PROVE  IInv'
<1>1. CASE Contains \/ Get \/ InsertDuplicate \/ PutNoMemory \/ EraseMiss
  <2>1. /\ pc = "act" /\ \E r : Return(r)
        /\ UNCHANGED <<key, value, height, next, level, size, it, itValid>>
    BY <1>1 DEF Contains, Get, InsertDuplicate, PutNoMemory, EraseMiss, heap, iter
  <2>2. Whole
    BY <2>1 DEF Whole
  <2> QED
    BY <2>1, <2>2, ReturnTypes, Before, IdleInv
<1>2. CASE Seek
  <2>1. /\ pc = "act" /\ \E r : Return(r) /\ it' = Found /\ itValid' = TRUE
        /\ UNCHANGED <<key, value, height, next, level, size>>
    BY <1>2 DEF Seek, heap
  <2>2. Whole
    BY <2>1 DEF Whole
  <2>3. it' \in Node \cup {NULL} /\ (it' # NULL => it' \in Alive)
    BY <2>1, FoundAlive, Facts
  <2> QED
    BY <2>1, <2>2, <2>3, ReturnTypes, Before, IdleInv
<1> QED
  BY <1>1, <1>2

\* Put of a key that is there (lines 212-215).
LEMMA PutOverwriteInv ==
    ASSUME IInv, PutOverwrite
    PROVE  IInv'
<1>1. /\ pc = "act" /\ req.op = "Put" /\ \E r : Return(r)
      /\ value' = [value EXCEPT ![Found] = req.val]
      /\ UNCHANGED <<key, height, next, level, size, it, itValid>>
  BY DEF PutOverwrite, iter
<1>2. Whole
  BY <1>1 DEF Whole
<1>3. req.val \in Val
  BY <1>1, Facts DEF Request
<1>4. /\ value' \in [Node -> Val \cup {NULL}]
      /\ \A n \in Alive : value'[n] \in Val
  BY <1>1, <1>3, Before, Facts
<1> QED
  BY <1>1, <1>2, <1>4, ReturnTypes, Before, IdleInv

\* An allocation that fails leaves level_ raised and everything else as it was.
LEMMA InsertNoMemoryInv ==
    ASSUME IInv, NEW lvl \in randomLevel, InsertNoMemory(lvl)
    PROVE  IInv'
<1>1. /\ pc = "act" /\ \E r : Return(r) /\ level' = Raised(lvl)
      /\ UNCHANGED <<key, value, height, next, size, it, itValid>>
  BY DEF InsertNoMemory, heap, iter
<1>2. Whole
  BY <1>1 DEF Whole
<1>3. level' \in Levels /\ level' >= level
  BY <1>1, RandomLevel, MaxLevel, Facts DEF Raised
<1> QED
  BY <1>1, <1>2, <1>3, ReturnTypes, Before, IdleInv

\* Begin, Next and the reads of an Iterator (lines 83-91, 265).
LEMMA IteratorInv ==
    ASSUME IInv, Begin \/ IterNext \/ IterRead
    PROVE  IInv'
<1>0. /\ pc = "idle" /\ pc' = "idle"
      /\ UNCHANGED <<key, value, height, next, level, size, req, x, i, update, cur>>
  BY DEF Begin, IterNext, IterRead, heap, locals
<1>1. Whole
  BY <1>0 DEF Whole
<1>2. CASE Begin
  <2>1. HEAD \in Linked /\ it' = next[HEAD][1] /\ itValid' = TRUE
    BY <1>2 DEF Begin, First, Linked
  <2>2. it' \in Alive \cup {NULL}
    BY <2>1, <1>1, Towers DEF LinkExact
  <2> QED
    BY <2>1, <2>2, <1>0, <1>1, Before, Facts, IdleInv
<1>3. CASE IterNext
  <2>1. it \in Alive /\ it \in Linked /\ it' = next[it][1] /\ itValid' = itValid
    BY <1>3, Before DEF IterNext, Linked
  <2>2. it' \in Alive \cup {NULL}
    BY <2>1, <1>1, Towers DEF LinkExact
  <2> QED
    BY <2>1, <2>2, <1>0, <1>1, Before, Facts, IdleInv
<1>4. CASE IterRead
  <2>1. UNCHANGED <<it, itValid>>
    BY <1>4 DEF IterRead, iter
  <2> QED
    BY <2>1, <1>0, <1>1, Before, IdleInv
<1> QED
  BY <1>2, <1>3, <1>4

-----------------------------------------------------------------------------
(* Erase. *)

\* A cell that links to the node to erase is the recorded predecessor: the
\* unlinking loop (lines 248-252) misses no link.
LEMMA OnlyPredLinks ==
    ASSUME IInv, pc = "act", req.op = "Erase", Hit,
           NEW c \in Linked, NEW l \in Nat, 1 <= l, l <= height[c],
           next[c][l] = Found
    PROVE  l \in Levels /\ l <= level /\ c = update[l] /\ l <= height[Found]
<1>0. Whole /\ Found \in Alive /\ key[Found] = req.key /\ Found # NULL
  BY FoundAlive DEF Whole, Hit
<1>1. l \in Levels /\ LinkExact(c, l) /\ c \in Cell
  BY <1>0, Towers
<1>2. height[Found] >= l /\ After(c, Found)
  BY <1>0, <1>1 DEF LinkExact
<1>3. l <= level
  BY <1>0, <1>2, Facts DEF IInv, LevelExact
<1>4. Pred(l) = update[l]
  BY <1>3, Facts DEF Pred
<1>5. c = HEAD \/ key[c] < req.key
  BY <1>0, <1>2 DEF After
<1>6. ASSUME c # Pred(l) PROVE FALSE
  <2>1. Pred(l) \in Alive /\ key[Found] <= key[Pred(l)]
    BY <1>1, <1>5, <1>6, PredLast
  <2>2. key[Pred(l)] < req.key
    BY <2>1, <1>1, PredFacts, Facts
  <2> QED
    BY <2>1, <2>2, <1>0, Facts
<1> QED
  BY <1>1, <1>2, <1>3, <1>4, <1>6

\* Unlinking and deleting the node keeps every level exact.
LEMMA UnlinkExact ==
    ASSUME IInv, EraseHit
    PROVE  /\ Found \in Alive /\ Alive' = Alive \ {Found}
           /\ \A m \in Alive' : /\ key'[m] = key[m] /\ height'[m] = height[m]
                                /\ value'[m] = value[m]
           /\ next' \in [Cell -> [Levels -> Node \cup {NULL}]]
           /\ LinksExact'
<1> DEFINE n == Found
<1>0. /\ pc = "act" /\ req.op = "Erase" /\ Hit /\ pc' = "shrink" /\ Whole
      /\ next' = Freed(Unlinked(n), n)
      /\ key' = [key EXCEPT ![n] = NULL]
      /\ value' = [value EXCEPT ![n] = NULL]
      /\ height' = [height EXCEPT ![n] = 0]
  BY DEF EraseHit, Whole
<1>1. n \in Alive /\ n \in Node /\ n \in Cell /\ n # HEAD /\ key[n] = req.key
  BY <1>0, FoundAlive, Facts DEF Hit
<1>2. /\ height'[n] = 0
      /\ \A c \in Cell : c # n => height'[c] = height[c]
      /\ \A m \in Node : m # n => key'[m] = key[m] /\ value'[m] = value[m]
  BY <1>0, <1>1 DEF IInv, TypeOK
<1>3. Alive' = Alive \ {n}
  <2>1. \A m \in Node : m # n => height'[m] = height[m]
    BY <1>2 DEF Cell
  <2> QED
    BY <2>1, <1>2 DEF Alive
<1>4. \A m \in Alive' : /\ key'[m] = key[m] /\ height'[m] = height[m]
                        /\ value'[m] = value[m]
  BY <1>2, <1>3, Facts
<1>5. \A c \in Cell : \A l \in Levels :
        c # n => next'[c][l] = IF l <= level /\ c = update[l] /\ next[c][l] = n
                               THEN next[n][l] ELSE next[c][l]
  BY <1>0 DEF Freed, Unlinked
<1>6. next' \in [Cell -> [Levels -> Node \cup {NULL}]]
  <2>1. \A c \in Cell : \A l \in Levels : next[c][l] \in Node \cup {NULL}
    BY DEF IInv, TypeOK
  <2>2. Unlinked(n) \in [Cell -> [Levels -> Node \cup {NULL}]]
    BY <2>1, <1>1 DEF Unlinked
  <2>3. NoLinks \in [Levels -> Node \cup {NULL}]
    BY DEF NoLinks
  <2> QED
    BY <2>2, <2>3, <1>0 DEF Freed
<1>7. ASSUME NEW c \in Linked', NEW l \in 1 .. height'[c] PROVE LinkExact(c, l)'
  <2>0. /\ c \in Linked /\ c # n /\ c \in Cell
        /\ l \in Nat /\ 1 <= l /\ l <= height[c] /\ l \in Levels
        /\ LinkExact(c, l)
        /\ c # HEAD => key'[c] = key[c]
    <3>1. c \in Linked /\ c # n
      BY <1>1, <1>3 DEF Linked
    <3>2. c \in Cell /\ height'[c] = height[c] /\ height[c] \in Nat
      BY <3>1, <1>0, <1>2, Towers, Facts
    <3>3. c # HEAD => key'[c] = key[c]
      BY <3>1, <1>3, <1>4 DEF Linked
    <3> QED
      BY <3>1, <3>2, <3>3, <1>0, Towers
  <2>1. CASE next[c][l] = n
    <3>1. /\ l <= height[n] /\ next'[c][l] = next[n][l]
          /\ LinkExact(n, l) /\ After(c, n)
      <4>1. l <= level /\ c = update[l] /\ l <= height[n]
        BY <2>0, <2>1, <1>0, OnlyPredLinks
      <4>2. LinkExact(n, l)
        BY <4>1, <2>0, <1>0, <1>1, Towers DEF Linked
      <4> QED
        BY <4>1, <4>2, <2>0, <2>1, <1>1, <1>5, Facts DEF LinkExact
    <3>2. ASSUME next'[c][l] # NULL
          PROVE  /\ next'[c][l] \in Alive' /\ height'[next'[c][l]] >= l
                 /\ c = HEAD \/ key'[c] < key'[next'[c][l]]
      <4>1. /\ next'[c][l] \in Alive /\ height[next'[c][l]] >= l
            /\ key[n] < key[next'[c][l]]
        BY <3>1, <3>2, <1>1 DEF LinkExact, After
      <4>2. next'[c][l] \in Alive'
        BY <4>1, <1>1, <1>3, Facts
      <4>3. c = HEAD \/ (key[c] < key[n] /\ key[c] \in Int)
        BY <3>1, <2>0, Facts DEF After, Linked
      <4> QED
        BY <4>1, <4>2, <4>3, <2>0, <1>1, <1>4, Facts
    <3>3. ASSUME NEW m \in Alive', height'[m] >= l, c = HEAD \/ key'[c] < key'[m]
          PROVE  next'[c][l] # NULL /\ key'[next'[c][l]] <= key'[m]
      <4>1. m \in Alive /\ m # n /\ height[m] >= l /\ After(c, m)
        BY <3>3, <2>0, <1>3, <1>4 DEF After
      <4>2. key[n] <= key[m]
        BY <4>1, <2>0, <2>1 DEF LinkExact
      <4>3. After(n, m)
        BY <4>1, <4>2, <1>1, Facts DEF After, IInv, KeysUnique
      <4>4. next[n][l] # NULL /\ key[next[n][l]] <= key[m]
        BY <4>1, <4>3, <3>1 DEF LinkExact
      <4> QED
        BY <4>4, <3>1, <3>2, <1>4
    <3> QED
      BY <3>2, <3>3 DEF LinkExact, After
  <2>2. CASE next[c][l] # n
    <3>1. next'[c][l] = next[c][l]
      BY <2>0, <2>2, <1>5
    <3>2. next[c][l] # NULL => /\ next[c][l] \in Alive' /\ height[next[c][l]] >= l
                               /\ After(c, next[c][l])
      BY <2>0, <2>2, <1>3 DEF LinkExact
    <3>3. \A m \in Alive' : height[m] >= l /\ After(c, m)
                              => next[c][l] # NULL /\ key[next[c][l]] <= key[m]
      BY <2>0, <1>3 DEF LinkExact
    <3> QED
      BY <3>1, <3>2, <3>3, <2>0, <1>4 DEF LinkExact, After
  <2> QED
    BY <2>1, <2>2
<1> QED
  BY <1>1, <1>3, <1>4, <1>6, <1>7 DEF LinksExact

\* Erase of a key that is there (lines 248-254).
LEMMA EraseHitInv ==
    ASSUME IInv, EraseHit
    PROVE  IInv'
<1>1. /\ Found \in Alive /\ Alive' = Alive \ {Found}
      /\ \A m \in Alive' : /\ key'[m] = key[m] /\ height'[m] = height[m]
                           /\ value'[m] = value[m]
      /\ next' \in [Cell -> [Levels -> Node \cup {NULL}]]
      /\ LinksExact'
  BY UnlinkExact
<1>2. /\ pc = "act" /\ pc' = "shrink" /\ Whole /\ Whole'
      /\ size' = size - 1 /\ level' = level /\ req' = NULL
      /\ it' = it /\ itValid' = (itValid /\ it # Found)
  BY DEF EraseHit, Whole
<1>3. Found # HEAD /\ Found \in Cell
  BY <1>1, Facts
<1>4. SizeExact' /\ IsFiniteSet(Alive)' /\ size' \in Nat
  <2>1. IsFiniteSet(Alive) /\ size = Cardinality(Alive)
    BY <1>2 DEF IInv, SizeExact
  <2>2. /\ IsFiniteSet(Alive \ {Found})
        /\ Cardinality(Alive \ {Found}) = Cardinality(Alive) - 1
    BY <2>1, <1>1, FS_RemoveElement
  <2>3. Cardinality(Alive \ {Found}) \in Nat
    BY <2>2, FS_CardinalityType
  <2> QED
    BY <2>1, <2>2, <2>3, <1>1, <1>2 DEF SizeExact
<1>5. TypeOK'
  <2>1. key' \in [Node -> Key \cup {NULL}] /\ value' \in [Node -> Val \cup {NULL}]
    BY DEF IInv, TypeOK, EraseHit
  <2>2. height' \in [Cell -> Rank]
    <3>1. 0 \in Rank
      BY MaxLevel DEF Rank
    <3> QED
      BY <3>1 DEF IInv, TypeOK, EraseHit
  <2>3. \A m \in Alive' : key'[m] \in Key /\ value'[m] \in Val
    BY <1>1 DEF IInv, TypeOK
  <2>4. height'[HEAD] = max_level
    BY <1>2, <1>3 DEF EraseHit, IInv, TypeOK, Cell
  <2>5. /\ x' \in Cell /\ i' \in Rank
        /\ update' \in [Levels -> Cell \cup {NULL}]
    BY MaxLevel DEF EraseHit, Cell, NoLinks, Rank
  <2>6. cur' \in Node \cup {NULL} /\ itValid' \in BOOLEAN
    BY <1>2 DEF EraseHit, IInv, TypeOK
  <2> QED
    BY <2>1, <2>2, <2>3, <2>4, <2>5, <2>6, <1>1, <1>2, <1>4, Before DEF TypeOK
<1>6. KeysUnique'
  BY <1>1 DEF IInv, KeysUnique
<1>7. LevelExact'
  BY <1>1, <1>2 DEF IInv, LevelExact
<1>8. SearchExact' /\ ClearExact'
  BY <1>2 DEF SearchExact, ClearExact
<1>9. IteratorAlive'
  BY <1>1, <1>2, Before DEF IteratorAlive
<1> QED
  BY <1>1, <1>4, <1>5, <1>6, <1>7, <1>8, <1>9 DEF IInv

\* The reduction of level_ (lines 256-258) stops above the tallest tower.
LEMMA ShrinkInv ==
    ASSUME IInv, Shrink
    PROVE  IInv'
<1>0. /\ pc = "shrink" /\ pc' = "shrink" /\ Whole /\ Whole'
      /\ level > 1 /\ next[HEAD][level] = NULL /\ level' = level - 1
      /\ UNCHANGED <<key, value, height, next, size, req, x, i, update, cur, it, itValid>>
  BY DEF Shrink, TopEmpty, heap, locals, iter, Whole
<1>1. Alive' = Alive /\ Linked' = Linked
  BY <1>0 DEF Alive, Linked
<1>2. level' \in Levels
  BY <1>0, Facts, MaxLevel DEF Levels
<1>3. LevelExact'
  <2>1. LinkExact(HEAD, level)
    BY <1>0, Towers, Facts, MaxLevel DEF IInv, TypeOK, Linked
  <2>2. \A n \in Alive : ~(height[n] >= level)
    BY <2>1, <1>0 DEF LinkExact, After
  <2> QED
    BY <2>2, <1>0, <1>1, Facts DEF LevelExact
<1>4. LinksExact' /\ KeysUnique' /\ SizeExact' /\ IsFiniteSet(Alive)'
  BY <1>0, <1>1 DEF IInv, LinksExact, LinkExact, After, KeysUnique, SizeExact
<1>5. TypeOK'
  BY <1>0, <1>1, <1>2 DEF IInv, TypeOK
<1>6. SearchExact' /\ ClearExact' /\ IteratorAlive'
  BY <1>0, <1>1 DEF IInv, SearchExact, ClearExact, IteratorAlive
<1> QED
  BY <1>3, <1>4, <1>5, <1>6 DEF IInv

\* Erase returns (line 259).
LEMMA EraseReturnInv ==
    ASSUME IInv, EraseReturn
    PROVE  IInv'
<1>1. /\ pc = "shrink" /\ pc' = "idle" /\ Whole
      /\ UNCHANGED <<key, value, height, next, level, size, req, x, i, update, cur,
                     it, itValid>>
  BY DEF EraseReturn, heap, locals, iter, Whole
<1> QED
  BY <1>1, Before, IdleInv

-----------------------------------------------------------------------------
(* Clear and the destructor. *)

\* The first node of the base level is the one with the least key.
LEMMA ClearBeginInv ==
    ASSUME IInv, NEW o \in {"Clear", "Destroy"}, ClearBegin(o)
    PROVE  IInv'
<1>0. /\ pc = "idle" /\ pc' \in {"clear", "destroy"} /\ Whole /\ ~Whole'
      /\ cur' = next[HEAD][1] /\ itValid' = (itValid /\ it = NULL)
      /\ UNCHANGED <<key, value, height, next, level, size, req, x, i, update, it>>
  BY DEF ClearBegin, First, heap, Whole
<1>1. Alive' = Alive /\ HEAD \in Linked /\ Alive \subseteq Linked
  BY <1>0 DEF Alive, Linked
<1>2. \A c \in Linked : LinkExact(c, 1)
  BY <1>0, Towers
<1>3. IF cur' = NULL THEN Alive = {}
      ELSE cur' \in Alive /\ \A n \in Alive : key[cur'] <= key[n]
  BY <1>0, <1>1, <1>2, Facts DEF LinkExact, After
<1>4. TypeOK'
  BY <1>0, <1>1, <1>3, Facts DEF IInv, TypeOK
<1>5. ClearExact'
  BY <1>0, <1>1, <1>2, <1>3 DEF ClearExact, LinkExact, After
<1>6. KeysUnique' /\ IsFiniteSet(Alive)'
  BY <1>0, <1>1 DEF IInv, KeysUnique
<1>7. LinksExact' /\ LevelExact' /\ SizeExact' /\ SearchExact' /\ IteratorAlive'
  BY <1>0 DEF LinksExact, LevelExact, SizeExact, SearchExact, IteratorAlive
<1> QED
  BY <1>4, <1>5, <1>6, <1>7 DEF IInv

\* The loop reads the next node before it deletes this one (lines 145-149).
LEMMA ClearStepInv ==
    ASSUME IInv, ClearStep
    PROVE  IInv'
<1>0. /\ pc \in {"clear", "destroy"} /\ pc' = pc /\ cur # NULL
      /\ cur' = next[cur][1] /\ next' = Freed(next, cur)
      /\ key' = [key EXCEPT ![cur] = NULL]
      /\ value' = [value EXCEPT ![cur] = NULL]
      /\ height' = [height EXCEPT ![cur] = 0]
      /\ UNCHANGED <<level, size, req, x, i, update, it, itValid>>
  BY DEF ClearStep, iter
<1>1. /\ cur \in Alive /\ cur \in Node /\ cur \in Cell /\ cur # HEAD
      /\ \A n \in Alive : key[cur] <= key[n] /\ LinkExact(n, 1)
  BY <1>0, Facts DEF IInv, ClearExact
<1>2. /\ height'[cur] = 0
      /\ \A c \in Cell : c # cur => height'[c] = height[c] /\ next'[c] = next[c]
      /\ \A m \in Node : m # cur => key'[m] = key[m] /\ value'[m] = value[m]
  BY <1>0, <1>1 DEF IInv, TypeOK, Freed
<1>3. Alive' = Alive \ {cur}
  <2>1. \A m \in Node : m # cur => height'[m] = height[m]
    BY <1>2 DEF Cell
  <2> QED
    BY <2>1, <1>2 DEF Alive
<1>4. \A m \in Alive' : /\ m \in Alive /\ m # cur
                        /\ key'[m] = key[m] /\ height'[m] = height[m]
                        /\ value'[m] = value[m] /\ next'[m] = next[m]
  BY <1>2, <1>3, Facts
<1>5. \A m \in Alive' : key[cur] < key[m]
  BY <1>1, <1>4, Facts DEF IInv, KeysUnique
<1>6. IF cur' = NULL THEN Alive' = {}
      ELSE cur' \in Alive' /\ \A n \in Alive' : key'[cur'] <= key'[n]
  <2>1. LinkExact(cur, 1)
    BY <1>1
  <2>2. \A m \in Alive' : next[cur][1] # NULL /\ key[next[cur][1]] <= key[m]
    BY <2>1, <1>4, <1>5, Facts DEF LinkExact, After
  <2>3. cur' # NULL => cur' \in Alive'
    BY <2>1, <1>0, <1>1, <1>3, Facts DEF LinkExact, After
  <2> QED
    BY <2>2, <2>3, <1>0, <1>4
<1>7. \A n \in Alive' : LinkExact(n, 1)'
  <2> SUFFICES ASSUME NEW n \in Alive' PROVE LinkExact(n, 1)'
    OBVIOUS
  <2>1. LinkExact(n, 1) /\ n # HEAD /\ key[n] \in Int /\ key[cur] \in Int
    BY <1>1, <1>4, Facts
  <2>2. next[n][1] # NULL => next[n][1] \in Alive'
    BY <2>1, <1>3, <1>5 DEF LinkExact, After
  <2> QED
    BY <2>1, <2>2, <1>4 DEF LinkExact, After
<1>8. TypeOK'
  <2>1. key' \in [Node -> Key \cup {NULL}] /\ value' \in [Node -> Val \cup {NULL}]
    BY <1>0 DEF IInv, TypeOK
  <2>2. height' \in [Cell -> Rank] /\ height'[HEAD] = height[HEAD]
    <3>1. 0 \in Rank
      BY MaxLevel DEF Rank
    <3> QED
      BY <3>1, <1>0, <1>1 DEF IInv, TypeOK, Cell
  <2>3. next' \in [Cell -> [Levels -> Node \cup {NULL}]]
    <3>1. NoLinks \in [Levels -> Node \cup {NULL}]
      BY DEF NoLinks
    <3> QED
      BY <3>1, <1>0 DEF IInv, TypeOK, Freed
  <2>4. \A m \in Alive' : key'[m] \in Key /\ value'[m] \in Val
    BY <1>4 DEF IInv, TypeOK
  <2>5. cur' \in Node \cup {NULL}
    BY <1>0, <1>1, MaxLevel DEF IInv, TypeOK
  <2> QED
    BY <2>1, <2>2, <2>3, <2>4, <2>5, <1>0 DEF IInv, TypeOK
<1>9. IsFiniteSet(Alive)'
  BY <1>3, FS_RemoveElement DEF IInv
<1>10. KeysUnique'
  BY <1>4 DEF IInv, KeysUnique
<1>11. ClearExact'
  BY <1>0, <1>6, <1>7 DEF ClearExact
<1>12. LinksExact' /\ LevelExact' /\ SizeExact' /\ SearchExact'
  BY <1>0 DEF LinksExact, LevelExact, SizeExact, SearchExact, Whole
<1>13. IteratorAlive'
  BY <1>0 DEF IInv, IteratorAlive, Whole
<1> QED
  BY <1>8, <1>9, <1>10, <1>11, <1>12, <1>13 DEF IInv

\* The sentinel forgets the chain (lines 150-152); the destructor deletes it.
LEMMA ClearEndInv ==
    ASSUME IInv, ClearEnd
    PROVE  IInv'
<1>0. /\ pc \in {"clear", "destroy"} /\ cur = NULL
      /\ next' = [next EXCEPT ![HEAD] = NoLinks]
      /\ level' = 1 /\ size' = 0
      /\ pc' = IF pc = "clear" THEN "idle" ELSE "destroyed"
      /\ height' = IF pc = "clear" THEN height ELSE [height EXCEPT ![HEAD] = 0]
      /\ UNCHANGED <<key, value, req, x, i, update, cur, it, itValid>>
  BY DEF ClearEnd, locals, iter
<1>1. Alive = {}
  BY <1>0 DEF IInv, ClearExact
<1>2. Alive' = {}
  <2>1. \A n \in Node : height'[n] = height[n]
    BY <1>0, NodeAssumption DEF IInv, TypeOK, Cell
  <2> QED
    BY <2>1, <1>1 DEF Alive
<1>3. next'[HEAD] = NoLinks /\ next' \in [Cell -> [Levels -> Node \cup {NULL}]]
  BY <1>0 DEF IInv, TypeOK, Cell, NoLinks
<1>4. TypeOK'
  <2>1. height' \in [Cell -> Rank]
    <3>1. 0 \in Rank
      BY MaxLevel DEF Rank
    <3> QED
      BY <3>1, <1>0 DEF IInv, TypeOK
  <2>2. height'[HEAD] = IF pc' = "destroyed" THEN 0 ELSE max_level
    BY <1>0 DEF IInv, TypeOK, Cell
  <2>3. req' = NULL /\ pc' \in {"idle", "destroyed"}
    BY <1>0, Before
  <2> QED
    BY <2>1, <2>2, <2>3, <1>0, <1>2, <1>3, MaxLevel DEF IInv, TypeOK
<1>5. LinksExact'
  <2> SUFFICES ASSUME Whole', NEW c \in Linked', NEW l \in 1 .. height'[c]
               PROVE  LinkExact(c, l)'
    BY DEF LinksExact
  <2>1. c = HEAD /\ l \in Levels
    <3>1. c = HEAD
      BY <1>2 DEF Linked
    <3>2. height'[HEAD] = max_level
      BY <1>4 DEF TypeOK, Whole
    <3> QED
      BY <3>1, <3>2 DEF Levels
  <2>2. next'[c][l] = NULL
    BY <2>1, <1>3 DEF NoLinks
  <2> QED
    BY <2>2, <1>2 DEF LinkExact
<1>6. SizeExact' /\ IsFiniteSet(Alive)'
  BY <1>0, <1>2, FS_EmptySet DEF SizeExact
<1>7. KeysUnique' /\ LevelExact'
  BY <1>2 DEF KeysUnique, LevelExact
<1>8. SearchExact' /\ ClearExact'
  BY <1>0 DEF SearchExact, ClearExact
<1>9. IteratorAlive'
  BY <1>0 DEF IInv, IteratorAlive, Whole
<1> QED
  BY <1>4, <1>5, <1>6, <1>7, <1>8, <1>9 DEF IInv

-----------------------------------------------------------------------------
(* The invariant. *)

\* The constructor establishes the invariant (lines 108-123).
LEMMA InitInv == Init => IInv
<1> SUFFICES ASSUME Init PROVE IInv
  OBVIOUS
<1>1. Alive = {}
  BY NodeAssumption DEF Init, Alive, Cell
<1>2. NoLinks \in [Levels -> Node \cup {NULL}] /\ 0 \in Rank /\ max_level \in Rank
  BY MaxLevel DEF NoLinks, Rank
<1>3. TypeOK
  <2>1. height \in [Cell -> Rank] /\ height[HEAD] = max_level
    BY <1>2 DEF Init, Cell
  <2>2. update \in [Levels -> Cell \cup {NULL}]
    BY DEF Init, NoLinks
  <2> QED
    BY <2>1, <2>2, <1>1, <1>2, MaxLevel DEF Init, TypeOK, Cell
<1>4. LinksExact
  <2> SUFFICES ASSUME NEW c \in Linked, NEW l \in 1 .. height[c]
               PROVE  LinkExact(c, l)
    BY DEF LinksExact
  <2>1. c = HEAD /\ c \in Cell /\ l \in Levels
    BY <1>1 DEF Linked, Init, Cell, Levels
  <2>2. next[c][l] = NULL
    BY <2>1 DEF Init, NoLinks
  <2> QED
    BY <2>2, <1>1 DEF LinkExact
<1>5. SizeExact /\ IsFiniteSet(Alive)
  BY <1>1, FS_EmptySet DEF Init, SizeExact
<1>6. KeysUnique /\ LevelExact /\ SearchExact /\ ClearExact /\ IteratorAlive
  BY <1>1 DEF Init, KeysUnique, LevelExact, SearchExact, ClearExact, IteratorAlive
<1> QED
  BY <1>3, <1>4, <1>5, <1>6 DEF IInv

\* Every step of the list and of its client keeps the invariant.
LEMMA NextInv == IInv /\ [Next]_vars => IInv'
<1> SUFFICES ASSUME IInv, [Next]_vars PROVE IInv'
  OBVIOUS
<1>1. CASE \E r \in Request : Call(r)
  BY <1>1, CallInv
<1>2. CASE Advance
  BY <1>2, AdvanceInv
<1>3. CASE Descend
  BY <1>3, DescendInv
<1>4. CASE Contains \/ Get \/ Seek \/ InsertDuplicate \/ PutNoMemory \/ EraseMiss
  BY <1>4, LookupInv
<1>5. CASE PutOverwrite
  BY <1>5, PutOverwriteInv
<1>6. CASE \E n \in Node, lvl \in randomLevel : InsertNew(n, lvl)
  BY <1>6, InsertNewInv
<1>7. CASE \E lvl \in randomLevel : InsertNoMemory(lvl)
  BY <1>7, InsertNoMemoryInv
<1>8. CASE EraseHit
  BY <1>8, EraseHitInv
<1>9. CASE Shrink
  BY <1>9, ShrinkInv
<1>10. CASE EraseReturn
  BY <1>10, EraseReturnInv
<1>11. CASE ClearBegin("Clear") \/ ClearBegin("Destroy")
  BY <1>11, ClearBeginInv
<1>12. CASE ClearStep
  BY <1>12, ClearStepInv
<1>13. CASE ClearEnd
  BY <1>13, ClearEndInv
<1>14. CASE Begin \/ IterNext \/ IterRead
  BY <1>14, IteratorInv
<1>15. CASE UNCHANGED vars
  <2>1. UNCHANGED <<key, value, height, next, level, size, pc, req, x, i, update, cur,
                    it, itValid>>
    BY <1>15 DEF vars, heap, locals, iter
  <2>2. /\ Alive' = Alive /\ Linked' = Linked /\ Found' = Found /\ (Whole' <=> Whole)
        /\ \A c, l : LinkExact(c, l)' <=> LinkExact(c, l)
        /\ \A l : PredExact(l)' <=> PredExact(l)
    BY <2>1 DEF Alive, Linked, Found, Whole, LinkExact, After, PredExact
  <2>3. TypeOK' /\ KeysUnique' /\ LevelExact' /\ SizeExact' /\ IteratorAlive'
    BY <2>1, <2>2 DEF IInv, TypeOK, KeysUnique, LevelExact, SizeExact, IteratorAlive
  <2>4. LinksExact' /\ SearchExact' /\ ClearExact' /\ IsFiniteSet(Alive)'
    BY <2>1, <2>2 DEF IInv, LinksExact, SearchExact, ClearExact
  <2> QED
    BY <2>3, <2>4 DEF IInv
<1> QED
  BY <1>1, <1>2, <1>3, <1>4, <1>5, <1>6, <1>7, <1>8, <1>9, <1>10, <1>11, <1>12,
     <1>13, <1>14, <1>15 DEF Next, Step, Client

\* The inductive invariant holds in every reachable state.
THEOREM Invariant == Spec => []IInv
BY InitInv, NextInv, PTL DEF Spec

\* Nodes, towers, requests and locals have their types (lines 277-285, 335-352).
THEOREM TypeCorrect == Spec => []TypeOK
<1>1. IInv => TypeOK
  BY DEF IInv
<1> QED
  BY <1>1, Invariant, PTL

\* Every forward pointer of every level leads to the next node in key order
\* that reaches the level, whatever sequence of Insert, Put, Erase and Clear
\* built the list: sorted levels, no node lost, no dangling pointer.
THEOREM LinksCorrect == Spec => []LinksExact
<1>1. IInv => LinksExact
  BY DEF IInv
<1> QED
  BY <1>1, Invariant, PTL

\* No key is stored twice.
THEOREM KeysCorrect == Spec => []KeysUnique
<1>1. IInv => KeysUnique
  BY DEF IInv
<1> QED
  BY <1>1, Invariant, PTL

\* The search stays on allocated nodes and inside their towers, and records the
\* predecessor of every level.
THEOREM SearchCorrect == Spec => []SearchExact
<1>1. IInv => SearchExact
  BY DEF IInv
<1> QED
  BY <1>1, Invariant, PTL

\* level_ covers every tower, a failed allocation included.
THEOREM LevelCorrect == Spec => []LevelExact
<1>1. IInv => LevelExact
  BY DEF IInv
<1> QED
  BY <1>1, Invariant, PTL

\* size() counts the nodes that are allocated.
THEOREM SizeCorrect == Spec => []SizeExact
<1>1. IInv => SizeExact
  BY DEF IInv
<1> QED
  BY <1>1, Invariant, PTL

\* Clear and the destructor delete every node once and leave none.
THEOREM ClearCorrect == Spec => []ClearExact
<1>1. IInv => ClearExact
  BY DEF IInv
<1> QED
  BY <1>1, Invariant, PTL

\* An Iterator whose node was not deleted stands on allocated memory.
THEOREM IteratorCorrect == Spec => []IteratorAlive
<1>1. IInv => IteratorAlive
  BY DEF IInv
<1> QED
  BY <1>1, Invariant, PTL

-----------------------------------------------------------------------------
(* The skip list implements the map of module Memtable. *)

\* What the map holds: the values of the nodes under their keys.
LEMMA MapFacts ==
    ASSUME IInv, Whole
    PROVE  /\ \A n \in Alive : /\ key[n] \in Key /\ value[n] # NULL
                               /\ Contents[key[n]] = value[n]
           /\ \A k \in Key : (\A n \in Alive : key[n] # k) => Contents[k] = NULL
           /\ \A k \in Key : Contents[k] # NULL <=> \E n \in Alive : key[n] = k
<1>1. ASSUME NEW n \in Alive
      PROVE  key[n] \in Key /\ value[n] # NULL /\ Contents[key[n]] = value[n]
  <2> DEFINE c == CHOOSE m \in Alive : key[m] = key[n]
  <2>1. key[n] \in Key /\ value[n] # NULL
    BY NodeAssumption DEF IInv, TypeOK
  <2>2. c \in Alive /\ key[c] = key[n]
    OBVIOUS
  <2>3. c = n
    BY <2>2 DEF IInv, KeysUnique
  <2>4. Contents[key[n]] = value[c]
    BY <2>1 DEF Contents
  <2> QED
    BY <2>1, <2>3, <2>4
<1>2. ASSUME NEW k \in Key, \A n \in Alive : key[n] # k
      PROVE  Contents[k] = NULL
  BY <1>2 DEF Contents
<1> QED
  BY <1>1, <1>2

\* The same after a step.
LEMMA MapFactsAfter ==
    ASSUME IInv', Whole'
    PROVE  /\ \A n \in Alive' : /\ key'[n] \in Key /\ value'[n] # NULL
                                /\ Contents'[key'[n]] = value'[n]
           /\ \A k \in Key : (\A n \in Alive' : key'[n] # k) => Contents'[k] = NULL
<1>1. ASSUME NEW n \in Alive'
      PROVE  key'[n] \in Key /\ value'[n] # NULL /\ Contents'[key'[n]] = value'[n]
  <2> DEFINE c == CHOOSE m \in Alive' : key'[m] = key'[n]
  <2>1. key'[n] \in Key /\ value'[n] # NULL
    BY NodeAssumption DEF IInv, TypeOK
  <2>2. c \in Alive' /\ key'[c] = key'[n]
    OBVIOUS
  <2>3. c = n
    BY <2>2 DEF IInv, KeysUnique
  <2>4. Contents'[key'[n]] = value'[c]
    BY <2>1 DEF Contents
  <2> QED
    BY <2>1, <2>3, <2>4
<1>2. ASSUME NEW k \in Key, \A n \in Alive' : key'[n] # k
      PROVE  Contents'[k] = NULL
  BY <1>2 DEF Contents
<1> QED
  BY <1>1, <1>2

LEMMA ContentsFunction ==
    /\ Contents = [k \in Key |-> Contents[k]]
    /\ Contents' = [k \in Key |-> Contents'[k]]
BY DEF Contents

\* Steps that keep the nodes keep the map, and while Clear runs it is empty.
LEMMA ContentsKept ==
    ASSUME UNCHANGED <<key, value, height>>, Whole' <=> Whole
    PROVE  Contents' = Contents
BY DEF Contents, Alive

LEMMA ContentsEmpty ==
    /\ (~Whole \/ Alive = {}) => Contents = [k \in Key |-> NULL]
    /\ (~Whole' \/ Alive' = {}) => Contents' = [k \in Key |-> NULL]
BY DEF Contents

\* The iterator stands on a key of the map, at the end or on a deleted node.
LEMMA CursorFacts ==
    ASSUME IInv
    PROVE  /\ itValid /\ it # NULL => /\ Cursor = key[it] /\ Cursor \in Key /\ it \in Alive
                                      /\ Whole
           /\ Cursor \in Key => itValid /\ it # NULL
           /\ Cursor = NULL <=> itValid /\ it = NULL
           /\ ~itValid => Cursor = BAD
<1>1. itValid /\ it # NULL => it \in Alive /\ Whole /\ key[it] \in Key /\ itValid \in BOOLEAN
  BY Facts DEF IInv, IteratorAlive
<1> QED
  BY <1>1, NodeAssumption DEF Cursor

LEMMA CursorKept ==
    ASSUME IInv, UNCHANGED <<it, itValid>>,
           itValid /\ it # NULL => key'[it] = key[it]
    PROVE  Cursor' = Cursor
BY DEF Cursor

LEMMA NullNotRequest == NULL \notin Request /\ MT!Request = Request
<1>1. \A r \in Request : r \in [op : {"Insert", "Put", "Erase", "Get", "Contains", "Seek"},
                               key : Key, val : Val \cup {NULL}]
  BY DEF Request
<1> QED
  BY <1>1, NodeAssumption DEF Request, MT!Request

\* What the search finds is what the map holds.
LEMMA FoundMap ==
    ASSUME IInv, pc = "act"
    PROVE  /\ req.key \in Key /\ req # NULL /\ Whole
           /\ Hit <=> Contents[req.key] # NULL
           /\ Hit => /\ Found \in Alive /\ key[Found] = req.key
                     /\ Contents[req.key] = value[Found]
<1>1. req.key \in Key /\ Whole /\ req \in Request
  BY Facts DEF Whole
<1>2. req # NULL
  BY <1>1, NullNotRequest
<1>3. ASSUME Hit
      PROVE  /\ Found \in Alive /\ key[Found] = req.key
             /\ Contents[req.key] = value[Found] /\ value[Found] # NULL
  BY <1>1, <1>3, FoundAlive, MapFacts DEF Hit
<1>4. ASSUME ~Hit
      PROVE  Contents[req.key] = NULL
  BY <1>1, <1>4, MissMeansAbsent, MapFacts
<1> QED
  BY <1>1, <1>2, <1>3, <1>4

\* Steps of a call that the caller does not see.
LEMMA HiddenStep ==
    ASSUME IInv, IInv', Advance \/ Descend \/ Shrink \/ EraseReturn \/ ClearStep \/ ClearEnd
    PROVE  UNCHANGED <<Contents, req, resp, Cursor>>
<1>1. UNCHANGED <<req, resp, it, itValid>>
  BY DEF Advance, Descend, Shrink, EraseReturn, ClearStep, ClearEnd, iter
<1>2. CASE Advance \/ Descend \/ Shrink \/ EraseReturn
  <2>1. UNCHANGED <<key, value, height>> /\ Whole /\ Whole'
    BY <1>2 DEF Advance, Descend, Shrink, EraseReturn, heap, Whole
  <2> QED
    BY <1>1, <2>1, ContentsKept, CursorKept
<1>3. CASE ClearStep \/ ClearEnd
  <2>1. ~Whole /\ (itValid => it = NULL)
    BY <1>3, CursorFacts DEF ClearStep, ClearEnd, Whole
  <2>2. ~Whole' \/ Alive' = {}
    <3>1. CASE ClearStep
      BY <3>1 DEF ClearStep, Whole
    <3>2. CASE ClearEnd /\ pc = "destroy"
      BY <3>2 DEF ClearEnd, Whole
    <3>3. CASE ClearEnd /\ pc = "clear"
      <4>1. Alive = {} /\ height' = height
        BY <3>3 DEF ClearEnd, IInv, ClearExact
      <4> QED
        BY <4>1 DEF Alive
    <3> QED
      BY <1>3, <3>1, <3>2, <3>3 DEF ClearEnd
  <2>3. Contents' = Contents
    BY <2>1, <2>2, ContentsEmpty
  <2> QED
    BY <1>1, <2>1, <2>3, CursorKept
<1> QED
  BY <1>2, <1>3

LEMMA CallMap ==
    ASSUME IInv, NEW r \in Request, Call(r)
    PROVE  MT!Call(r)
<1>1. /\ req = NULL /\ req' = r /\ resp' = NULL /\ Whole /\ Whole'
      /\ UNCHANGED <<key, value, height, it, itValid>>
  BY Before DEF Call, heap, iter, Whole
<1>2. Contents' = Contents /\ Cursor' = Cursor
  BY <1>1, ContentsKept, CursorKept
<1> QED
  BY <1>1, <1>2 DEF MT!Call

\* Lookups answer from the map (lines 161-177).
LEMMA LookupMap ==
    ASSUME IInv, Contains \/ Get \/ InsertDuplicate \/ PutNoMemory \/ EraseMiss
    PROVE  MT!Return
<1>1. /\ pc = "act" /\ pc' = "idle" /\ req' = NULL /\ Whole /\ Whole'
      /\ UNCHANGED <<key, value, height, it, itValid>>
  BY DEF Contains, Get, InsertDuplicate, PutNoMemory, EraseMiss, Return, heap, iter, Whole
<1>2. Contents' = Contents /\ Cursor' = Cursor
  BY <1>1, ContentsKept, CursorKept
<1>3. /\ req.key \in Key /\ req # NULL /\ (Hit <=> Contents[req.key] # NULL)
      /\ Hit => Contents[req.key] = value[Found]
      /\ req.key \in MT!Present <=> Hit
  BY <1>1, FoundMap DEF MT!Present
<1> DEFINE present == req.key \in MT!Present
<1>8. present = Hit
  <2>1. present \in BOOLEAN /\ Hit \in BOOLEAN
    BY DEF Hit
  <2> QED
    BY <1>3, <2>1, Zenon
<1>9. ~Hit => present = FALSE
  BY <1>3
<1> HIDE DEF present
<1>4. CASE Contains
  <2>1. req.op = "Contains" /\ resp' = Answer("Contains", Hit, NULL, NULL)
    BY <1>4 DEF Contains, Return
  <2>2. resp' = MT!Answer("Contains", present, NULL, NULL)
    BY <2>1, <1>8, Zenon DEF Answer, MT!Answer
  <2>3. MT!DoContains
    BY <2>1, <2>2, <1>2, <1>3 DEF MT!DoContains, present
  <2> QED
    BY <2>3, <1>1 DEF MT!Return
<1>5. CASE Get
  <2>1. req.op = "Get" /\ resp' = Answer("Get", Hit, NULL, IF Hit THEN value[Found] ELSE NULL)
    BY <1>5 DEF Get, Return
  <2>2. Contents[req.key] = IF Hit THEN value[Found] ELSE NULL
    BY <1>3
  <2>3. resp' = MT!Answer("Get", present, NULL, Contents[req.key])
    BY <2>1, <2>2, <1>8, Zenon DEF Answer, MT!Answer
  <2>4. MT!DoGet
    BY <2>1, <2>3, <1>2, <1>3 DEF MT!DoGet, present
  <2> QED
    BY <2>4, <1>1 DEF MT!Return
<1>6. CASE InsertDuplicate
  <2>1. req.op = "Insert" /\ Hit /\ resp' = Answer("Insert", FALSE, NULL, NULL)
    BY <1>6 DEF InsertDuplicate, Return
  <2>2. MT!DoInsert
    BY <2>1, <1>2, <1>3 DEF MT!DoInsert, Answer, MT!Answer
  <2> QED
    BY <2>2, <1>1 DEF MT!Return
<1>10. CASE PutNoMemory
  <2>1. req.op = "Put" /\ resp' = Answer("bad_alloc", FALSE, NULL, NULL)
    BY <1>10 DEF PutNoMemory, Return
  <2>2. MT!DoThrow
    BY <2>1, <1>2, <1>3 DEF MT!DoThrow, Answer, MT!Answer
  <2> QED
    BY <2>2, <1>1 DEF MT!Return
<1>7. CASE EraseMiss
  <2>1. req.op = "Erase" /\ ~Hit /\ resp' = Answer("Erase", FALSE, NULL, NULL)
    BY <1>7 DEF EraseMiss, Return
  <2>2. Contents' = [Contents EXCEPT ![req.key] = NULL]
    BY <2>1, <1>2, <1>3, ContentsFunction
  <2>3. Cursor # req.key
    <3> SUFFICES ASSUME Cursor = req.key
                 PROVE  FALSE
      OBVIOUS
    <3>1. it \in Alive /\ key[it] = req.key
      BY <1>3, CursorFacts
    <3> QED
      BY <3>1, <2>1, <1>1, MissMeansAbsent
  <2>4. resp' = MT!Answer("Erase", present, NULL, NULL)
    BY <2>1, <1>9, Zenon DEF Answer, MT!Answer
  <2>5. MT!DoErase
    BY <2>1, <2>2, <2>3, <2>4, <1>2, <1>3 DEF MT!DoErase, present
  <2> QED
    BY <2>5, <1>1 DEF MT!Return
<1> QED
  BY <1>4, <1>5, <1>6, <1>7, <1>10

\* Put of a key that is there replaces its value (lines 212-215).
LEMMA OverwriteMap ==
    ASSUME IInv, IInv', PutOverwrite
    PROVE  MT!Return
<1>1. /\ pc = "act" /\ pc' = "idle" /\ req' = NULL /\ Whole /\ Whole' /\ Hit
      /\ req.op = "Put" /\ resp' = Answer("Put", FALSE, NULL, NULL)
      /\ value' = [value EXCEPT ![Found] = req.val]
      /\ UNCHANGED <<key, height, it, itValid>>
  BY DEF PutOverwrite, Return, iter, Whole
<1>2. Cursor' = Cursor /\ Alive' = Alive
  BY <1>1, CursorKept DEF Alive
<1>3. /\ req.key \in Key /\ req # NULL /\ Contents[req.key] # NULL
      /\ Found \in Alive /\ key[Found] = req.key
      /\ req.key \in MT!Present
  BY <1>1, FoundMap DEF MT!Present
<1>4. ASSUME NEW k \in Key
      PROVE  Contents'[k] = IF k = req.key THEN req.val ELSE Contents[k]
  <2>1. Found \in Node /\ value \in [Node -> Val \cup {NULL}]
    BY <1>3, Before, Facts
  <2>2. CASE k = req.key
    BY <2>1, <2>2, <1>1, <1>2, <1>3, MapFactsAfter
  <2>3. CASE k # req.key /\ \E n \in Alive : key[n] = k
    <3>1. PICK n \in Alive : key[n] = k
      BY <2>3
    <3>2. n # Found /\ n \in Node
      BY <2>3, <3>1, <1>3, Facts
    <3>3. value'[n] = value[n] /\ key'[n] = k
      BY <3>1, <3>2, <2>1, <1>1
    <3> QED
      BY <2>3, <3>1, <3>3, <1>1, <1>2, MapFacts, MapFactsAfter
  <2>4. CASE k # req.key /\ \A n \in Alive : key[n] # k
    BY <2>4, <1>1, <1>2, MapFacts, MapFactsAfter
  <2> QED
    BY <2>2, <2>3, <2>4
<1>5. Contents' = [Contents EXCEPT ![req.key] = req.val]
  BY <1>3, <1>4, ContentsFunction
<1>6. MT!DoInsert
  BY <1>1, <1>2, <1>3, <1>5 DEF MT!DoInsert, Answer, MT!Answer
<1> QED
  BY <1>1, <1>6 DEF MT!Return

\* A new node adds its key to the map (lines 196-202, 221-227).
LEMMA InsertMap ==
    ASSUME IInv, IInv', NEW n \in Node, NEW lvl \in randomLevel, InsertNew(n, lvl)
    PROVE  MT!Return
<1>1. /\ pc = "act" /\ pc' = "idle" /\ req' = NULL /\ Whole /\ Whole' /\ ~Hit
      /\ req.op \in {"Insert", "Put"} /\ height[n] = 0
      /\ resp' = Answer(req.op, TRUE, NULL, NULL)
      /\ key' = [key EXCEPT ![n] = req.key] /\ value' = [value EXCEPT ![n] = req.val]
      /\ height' = [height EXCEPT ![n] = lvl]
      /\ UNCHANGED <<it, itValid>>
  BY DEF InsertNew, Return, iter, Whole
<1>2. /\ key \in [Node -> Key \cup {NULL}] /\ value \in [Node -> Val \cup {NULL}]
      /\ height \in [Cell -> Rank] /\ n \in Cell /\ lvl > 0 /\ n \notin Alive
  <2>1. lvl \in Nat /\ lvl >= 1
    BY RandomLevel, MaxLevel
  <2> QED
    BY <2>1, <1>1 DEF IInv, TypeOK, Alive, Cell
<1>3. /\ key'[n] = req.key /\ value'[n] = req.val /\ height'[n] = lvl
      /\ \A m \in Node : m # n => /\ key'[m] = key[m] /\ value'[m] = value[m]
                                  /\ height'[m] = height[m]
  BY <1>1, <1>2 DEF Cell
<1>4. Alive' = Alive \cup {n}
  BY <1>2, <1>3 DEF Alive
<1>5. /\ req.key \in Key /\ req # NULL /\ Contents[req.key] = NULL
      /\ req.key \notin MT!Present
  BY <1>1, FoundMap DEF MT!Present
<1>6. Cursor' = Cursor
  <2>1. itValid /\ it # NULL => key'[it] = key[it]
    BY <1>2, <1>3, CursorFacts, Facts
  <2> QED
    BY <2>1, <1>1, CursorKept
<1>7. ASSUME NEW k \in Key
      PROVE  Contents'[k] = IF k = req.key THEN req.val ELSE Contents[k]
  <2>1. CASE k = req.key
    BY <2>1, <1>1, <1>3, <1>4, MapFactsAfter
  <2>2. CASE k # req.key /\ \E m \in Alive : key[m] = k
    <3>1. PICK m \in Alive : key[m] = k
      BY <2>2
    <3>2. m # n /\ m \in Node /\ m \in Alive'
      BY <3>1, <1>2, <1>4, Facts
    <3> QED
      BY <2>2, <3>1, <3>2, <1>1, <1>3, MapFacts, MapFactsAfter
  <2>3. CASE k # req.key /\ \A m \in Alive : key[m] # k
    <3>1. \A m \in Alive' : key'[m] # k
      BY <2>3, <1>2, <1>3, <1>4, Facts
    <3> QED
      BY <2>3, <3>1, <1>1, MapFacts, MapFactsAfter
  <2> QED
    BY <2>1, <2>2, <2>3
<1>8. Contents' = [Contents EXCEPT ![req.key] = req.val]
  BY <1>5, <1>7, ContentsFunction
<1>9. MT!DoInsert
  BY <1>1, <1>5, <1>6, <1>8 DEF MT!DoInsert, Answer, MT!Answer
<1> QED
  BY <1>1, <1>9 DEF MT!Return

\* A failed allocation leaves the map as it was.
LEMMA ThrowMap ==
    ASSUME IInv, NEW lvl \in randomLevel, InsertNoMemory(lvl)
    PROVE  MT!Return
<1>1. /\ pc = "act" /\ req' = NULL /\ Whole /\ Whole' /\ ~Hit
      /\ req.op \in {"Insert", "Put"} /\ resp' = Answer("bad_alloc", FALSE, NULL, NULL)
      /\ UNCHANGED <<key, value, height, it, itValid>>
  BY DEF InsertNoMemory, Return, heap, iter, Whole
<1>2. Contents' = Contents /\ Cursor' = Cursor
  BY <1>1, ContentsKept, CursorKept
<1>3. req # NULL /\ req.key \notin MT!Present
  BY <1>1, FoundMap DEF MT!Present
<1>4. MT!DoThrow
  BY <1>1, <1>2, <1>3 DEF MT!DoThrow, Answer, MT!Answer
<1> QED
  BY <1>1, <1>4 DEF MT!Return

\* Erase takes the key out of the map, and an iterator off its entry (lines
\* 248-262).
LEMMA EraseMap ==
    ASSUME IInv, IInv', EraseHit
    PROVE  MT!Return
<1>1. /\ pc = "act" /\ pc' = "shrink" /\ req' = NULL /\ Whole /\ Whole' /\ Hit
      /\ req.op = "Erase" /\ resp' = Answer("Erase", TRUE, NULL, NULL)
      /\ itValid' = (itValid /\ it # Found) /\ it' = it
  BY DEF EraseHit, Whole
<1>2. /\ req.key \in Key /\ req # NULL /\ Contents[req.key] # NULL
      /\ Found \in Alive /\ key[Found] = req.key
      /\ req.key \in MT!Present
  BY <1>1, FoundMap DEF MT!Present
<1>3. /\ Alive' = Alive \ {Found}
      /\ \A m \in Alive' : key'[m] = key[m] /\ value'[m] = value[m]
  BY UnlinkExact
<1>4. ASSUME NEW k \in Key
      PROVE  Contents'[k] = IF k = req.key THEN NULL ELSE Contents[k]
  <2>1. CASE k = req.key
    <3>1. \A m \in Alive' : key'[m] # k
      BY <2>1, <1>2, <1>3 DEF IInv, KeysUnique
    <3> QED
      BY <2>1, <3>1, <1>1, MapFactsAfter
  <2>2. CASE k # req.key /\ \E m \in Alive : key[m] = k
    <3>1. PICK m \in Alive : key[m] = k
      BY <2>2
    <3>2. m \in Alive'
      BY <2>2, <3>1, <1>2, <1>3
    <3> QED
      BY <2>2, <3>1, <3>2, <1>1, <1>3, MapFacts, MapFactsAfter
  <2>3. CASE k # req.key /\ \A m \in Alive : key[m] # k
    <3>1. \A m \in Alive' : key'[m] # k
      BY <2>3, <1>3
    <3> QED
      BY <2>3, <3>1, <1>1, MapFacts, MapFactsAfter
  <2> QED
    BY <2>1, <2>2, <2>3
<1>5. Contents' = [Contents EXCEPT ![req.key] = NULL]
  BY <1>2, <1>4, ContentsFunction
<1>6. Cursor' = IF Cursor = req.key THEN BAD ELSE Cursor
  <2>1. CASE itValid /\ it # NULL /\ it = Found
    BY <2>1, <1>1, <1>2, CursorFacts DEF Cursor
  <2>2. CASE itValid /\ it # NULL /\ it # Found
    <3>1. it \in Alive /\ Cursor = key[it] /\ it \in Alive'
      BY <2>2, <1>3, CursorFacts
    <3>2. Cursor # req.key /\ key'[it] = key[it]
      BY <2>2, <3>1, <1>2, <1>3 DEF IInv, KeysUnique
    <3> QED
      BY <2>2, <3>1, <3>2, <1>1 DEF Cursor
  <2>3. CASE ~itValid \/ it = NULL
    <3>1. Cursor # req.key
      BY <2>3, <1>2, CursorFacts
    <3>2. itValid' = itValid
      BY <2>3, <1>1, <1>2, Before, Facts
    <3> QED
      BY <2>3, <3>1, <3>2, <1>1 DEF Cursor
  <2> QED
    BY <2>1, <2>2, <2>3
<1>7. MT!DoErase
  BY <1>1, <1>2, <1>5, <1>6 DEF MT!DoErase, Answer, MT!Answer
<1> QED
  BY <1>1, <1>7 DEF MT!Return

\* A base-level link leads to the least key of the map behind its cell.
LEMMA LinkLeast ==
    ASSUME IInv, Whole, NEW c \in Linked, NEW S \in SUBSET MT!Present,
           \A n \in Alive : key[n] \in S <=> After(c, n)
    PROVE  LET k == IF next[c][1] = NULL THEN NULL ELSE key[next[c][1]]
           IN  k \in Key \cup {NULL} /\ MT!LeastOf(k, S)
<1> DEFINE k == IF next[c][1] = NULL THEN NULL ELSE key[next[c][1]]
<1>1. LinkExact(c, 1)
  BY Towers
<1>2. \A j \in S : \E n \in Alive : key[n] = j
  BY MapFacts DEF MT!Present
<1>3. CASE next[c][1] = NULL
  <2>1. \A n \in Alive : ~After(c, n)
    BY <1>1, <1>3, Facts DEF LinkExact
  <2>2. S = {}
    BY <2>1, <1>2
  <2> QED
    BY <2>2, <1>3 DEF MT!LeastOf
<1>4. CASE next[c][1] # NULL
  <2>1. /\ next[c][1] \in Alive /\ After(c, next[c][1])
    BY <1>1, <1>4 DEF LinkExact
  <2>2. k \in S /\ k \in Key
    BY <2>1, <1>4, Facts
  <2>3. \A j \in S : k <= j
    BY <1>1, <1>2, <1>4, Facts DEF LinkExact
  <2> QED
    BY <2>2, <2>3 DEF MT!LeastOf
<1> QED
  BY <1>3, <1>4

\* Seek (lines 271-275), Begin and the iterator (lines 83-91, 265).
LEMMA SeekMap ==
    ASSUME IInv, IInv', Seek
    PROVE  MT!Return
<1>1. /\ pc = "act" /\ req.op = "Seek" /\ req' = NULL /\ Whole /\ Whole'
      /\ resp' = Answer("Seek", Found # NULL, NULL, NULL)
      /\ it' = Found /\ itValid' = TRUE
      /\ UNCHANGED <<key, value, height>>
  BY DEF Seek, Return, heap, Whole
<1>2. Contents' = Contents /\ Cursor' = IF Found = NULL THEN NULL ELSE key[Found]
  BY <1>1, ContentsKept DEF Cursor
<1>3. x \in Linked /\ req # NULL /\ req.key \in Int /\ (x # HEAD => key[x] < req.key)
  BY <1>1, FoundMap, Facts DEF IInv, SearchExact
<1> DEFINE S == {k \in MT!Present : req.key <= k}
<1>4. \A n \in Alive : key[n] \in S <=> After(x, n)
  <2> SUFFICES ASSUME NEW n \in Alive
               PROVE  key[n] \in S <=> After(x, n)
    OBVIOUS
  <2>1. key[n] \in MT!Present /\ key[n] \in Int
    BY <1>1, MapFacts, Facts DEF MT!Present
  <2>2. ASSUME req.key <= key[n]
        PROVE  After(x, n)
    <3>1. x # HEAD => key[x] \in Int
      BY <1>3, Facts DEF Linked
    <3> QED
      BY <2>1, <2>2, <3>1, <1>3 DEF After
  <2>3. ASSUME After(x, n)
        PROVE  req.key <= key[n]
    <3>1. Found # NULL /\ Found \in Alive /\ key[Found] <= key[n]
      BY <2>3, <1>1, FoundAlive, Facts DEF LinkExact, Found
    <3>2. key[Found] >= req.key /\ key[Found] \in Int
      BY <3>1, <1>1, Facts DEF IInv, SearchExact
    <3> QED
      BY <3>1, <3>2, <2>1, <1>3
  <2> QED
    BY <2>1, <2>2, <2>3
<1>5. S \in SUBSET MT!Present
  OBVIOUS
<1> HIDE DEF S
<1>6. Cursor' \in Key \cup {NULL} /\ MT!LeastOf(Cursor', S)
  BY <1>1, <1>2, <1>3, <1>4, <1>5, LinkLeast DEF Found
<1>7. Cursor' # NULL <=> Found # NULL
  BY <1>1, <1>2, FoundAlive, Facts, NodeAssumption
<1>8. MT!DoSeek
  BY <1>1, <1>2, <1>3, <1>6, <1>7 DEF MT!DoSeek, Answer, MT!Answer, S
<1> QED
  BY <1>1, <1>8 DEF MT!Return

LEMMA IteratorMap ==
    ASSUME IInv, Begin \/ IterNext \/ IterRead
    PROVE  MT!Begin \/ MT!IterNext \/ MT!IterRead
<1>1. /\ pc = "idle" /\ Whole /\ Whole' /\ req = NULL
      /\ UNCHANGED <<key, value, height, req>>
  BY Before DEF Begin, IterNext, IterRead, heap, Whole
<1>2. Contents' = Contents
  BY <1>1, ContentsKept
<1>3. CASE Begin
  <2>1. it' = next[HEAD][1] /\ itValid' = TRUE /\ resp' = resp /\ HEAD \in Linked
    BY <1>3 DEF Begin, First, Linked
  <2>2. \A n \in Alive : key[n] \in MT!Present <=> After(HEAD, n)
    BY <1>1, MapFacts DEF MT!Present, After
  <2>3. Cursor' = IF next[HEAD][1] = NULL THEN NULL ELSE key[next[HEAD][1]]
    BY <2>1, <1>1 DEF Cursor
  <2>4. Cursor' \in Key \cup {NULL} /\ MT!LeastOf(Cursor', MT!Present)
    BY <2>1, <2>2, <2>3, <1>1, LinkLeast
  <2> QED
    BY <2>1, <2>4, <1>1, <1>2 DEF MT!Begin
<1>4. CASE IterNext
  <2>1. /\ itValid /\ it # NULL /\ it' = next[it][1] /\ itValid' = itValid /\ resp' = resp
        /\ it \in Alive /\ it \in Linked /\ Cursor = key[it] /\ Cursor \in Key /\ it # HEAD
    BY <1>4, CursorFacts, Facts DEF IterNext, Linked
  <2> DEFINE S == {k \in MT!Present : Cursor < k}
  <2>2. \A n \in Alive : key[n] \in S <=> After(it, n)
    BY <2>1, <1>1, MapFacts DEF MT!Present, After
  <2>3. Cursor' = IF next[it][1] = NULL THEN NULL ELSE key[next[it][1]]
    BY <2>1, <1>1 DEF Cursor
  <2>4. S \in SUBSET MT!Present
    OBVIOUS
  <2> HIDE DEF S
  <2>5. Cursor' \in Key \cup {NULL} /\ MT!LeastOf(Cursor', S)
    BY <2>1, <2>2, <2>3, <2>4, <1>1, LinkLeast
  <2> QED
    BY <2>1, <2>5, <1>1, <1>2 DEF MT!IterNext, S
<1>5. CASE IterRead
  <2>1. /\ itValid /\ it # NULL /\ UNCHANGED <<it, itValid>>
        /\ resp' = Answer("Iter", TRUE, key[it], value[it])
    BY <1>5 DEF IterRead, iter
  <2>2. /\ Cursor = key[it] /\ Cursor \in Key /\ it \in Alive /\ Cursor' = Cursor
        /\ Contents[Cursor] = value[it]
    BY <2>1, <1>1, CursorFacts, CursorKept, MapFacts
  <2> QED
    BY <2>1, <2>2, <1>1, <1>2 DEF MT!IterRead, Answer, MT!Answer
<1> QED
  BY <1>3, <1>4, <1>5

\* For the caller, Clear and the destructor empty the map when they start.
LEMMA ClearMap ==
    ASSUME IInv, NEW o \in {"Clear", "Destroy"}, ClearBegin(o)
    PROVE  MT!Clear(o)
<1>1. /\ req = NULL /\ req' = NULL /\ ~Whole' /\ resp' = Answer(o, TRUE, NULL, NULL)
      /\ itValid' = (itValid /\ it = NULL) /\ it' = it
  BY Before DEF ClearBegin, Whole
<1>2. Contents' = [k \in Key |-> NULL]
  BY <1>1, ContentsEmpty
<1>3. Cursor' = IF Cursor = NULL THEN NULL ELSE BAD
  BY <1>1, CursorFacts DEF Cursor
<1> QED
  BY <1>1, <1>2, <1>3 DEF MT!Clear, Answer, MT!Answer

\* The skip list starts as an empty map, and each of its steps is a step of
\* the map or invisible to the caller.
LEMMA InitMap == Init => MT!Init
<1> SUFFICES ASSUME Init
             PROVE  MT!Init
  OBVIOUS
<1>1. Alive = {} /\ req = NULL /\ resp = NULL /\ Cursor = NULL
  BY NodeAssumption DEF Init, Alive, Cursor, Cell
<1>2. Contents = [k \in Key |-> NULL]
  BY <1>1, ContentsEmpty
<1> QED
  BY <1>1, <1>2 DEF MT!Init

LEMMA NextMap == IInv /\ IInv' /\ [Next]_vars => [MT!Next]_(MT!vars)
<1> SUFFICES ASSUME IInv, IInv', [Next]_vars
             PROVE  [MT!Next]_(MT!vars)
  OBVIOUS
<1>1. CASE \E r \in Request : Call(r)
  BY <1>1, CallMap, NullNotRequest DEF MT!Next
<1>2. CASE \/ Contains \/ Get \/ InsertDuplicate \/ PutNoMemory \/ EraseMiss \/ Seek
           \/ PutOverwrite \/ EraseHit
  BY <1>2, LookupMap, SeekMap, OverwriteMap, EraseMap DEF MT!Next
<1>3. CASE \E n \in Node, lvl \in randomLevel : InsertNew(n, lvl)
  BY <1>3, InsertMap DEF MT!Next
<1>4. CASE \E lvl \in randomLevel : InsertNoMemory(lvl)
  BY <1>4, ThrowMap DEF MT!Next
<1>5. CASE ClearBegin("Clear") \/ ClearBegin("Destroy")
  BY <1>5, ClearMap DEF MT!Next
<1>6. CASE Begin \/ IterNext \/ IterRead
  BY <1>6, IteratorMap DEF MT!Next
<1>7. CASE Advance \/ Descend \/ Shrink \/ EraseReturn \/ ClearStep \/ ClearEnd
  BY <1>7, HiddenStep DEF MT!vars
<1>8. CASE UNCHANGED vars
  <2>1. UNCHANGED <<key, value, height, it, itValid, req, resp>> /\ (Whole' <=> Whole)
    BY <1>8 DEF vars, heap, iter, Whole
  <2> QED
    BY <2>1, ContentsKept, CursorKept DEF MT!vars
<1> QED
  BY <1>1, <1>2, <1>3, <1>4, <1>5, <1>6, <1>7, <1>8 DEF Next, Step, Client

\* The skip list implements the ordered map: every answer of every operation
\* and every position of the iterator is the map's (the whole class).
THEOREM Refinement == Spec => ImplementsMemtable
<1>1. Init => MT!Init
  BY InitMap
<1>2. IInv /\ IInv' /\ [Next]_vars => [MT!Next]_(MT!vars)
  BY NextMap
<1> QED
  BY <1>1, <1>2, Invariant, PTL DEF Spec, ImplementsMemtable, MT!Spec
=============================================================================
