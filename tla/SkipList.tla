------------------------------ MODULE SkipList ------------------------------
(***************************************************************************)
(* The memtable's skip list, src/src/memtable/skip_list.h.                 *)
(*                                                                         *)
(* A node is a heap address; an address is allocated by `new`, freed by    *)
(* `delete` and may be handed out again.  next[n][l] is n->next_[l - 1]:   *)
(* levels count from 1 here and from 0 in the code.  A call runs in small  *)
(* steps, one per iteration of the search loop, so that what the loops     *)
(* keep true can be stated and proved; the class is single-threaded, so    *)
(* no other call starts before the one in progress returns.                *)
(*                                                                         *)
(* Keys are integers: std::string keys matter only through their order.    *)
(***************************************************************************)
EXTENDS Integers, FiniteSets

CONSTANTS Key,           \* keys
          Val,           \* values
          Node,          \* heap addresses of list nodes
          HEAD,          \* address of the sentinel
          NULL,          \* nullptr; also "no request", "no value"
          BAD,           \* a cursor whose node was deleted
          MaxLevelArg,   \* constructor argument max_level
          PNumArg,       \* constructor argument p_numerator
          PDenArg        \* constructor argument p_denominator

ASSUME KeyAssumption == Key \subseteq Int
ASSUME ArgAssumption == MaxLevelArg \in Int /\ PNumArg \in Int /\ PDenArg \in Int
\* std::uniform_int_distribution(0, p_denominator - 1) needs 0 <= p_denominator - 1.
ASSUME DistAssumption == PDenArg >= 1
ASSUME NodeAssumption ==
    /\ HEAD \notin Node /\ NULL \notin Node /\ HEAD # NULL
    /\ NULL \notin Key /\ NULL \notin Val
    /\ BAD \notin Key /\ BAD # NULL
    /\ NULL \notin [op : {"Insert", "Put", "Erase", "Get", "Contains", "Seek"},
                    key : Key, val : Val \cup {NULL}]

VARIABLES key, value,  \* Node -> contents of the node
          height,      \* Cell -> size of next_, 0 for memory that is not allocated
          next,        \* Cell -> level -> Node or NULL
          level,       \* level_
          size,        \* size_
          pc,          \* where the running call is
          req,         \* the running call and its arguments
          x, i,        \* locals of the search: cursor node, level
          update,      \* local `update`: per-level predecessors
          cur,         \* local of Clear: the node to delete next
          resp,        \* the last answer
          it, itValid  \* a client's Iterator; FALSE once its node was deleted

heap == <<key, value, height, next>>
locals == <<x, i, update, cur>>
iter == <<it, itValid>>
vars == <<heap, level, size, pc, req, locals, resp, iter>>

-----------------------------------------------------------------------------
(* Construction. *)

max_level == IF MaxLevelArg < 1 THEN 1 ELSE MaxLevelArg

Levels == 1 .. max_level
Cell == Node \cup {HEAD}

Pathological == PDenArg <= 1 \/ PNumArg < 1 \/ PNumArg >= PDenArg
p_num == IF Pathological THEN 1 ELSE PNumArg
p_den == IF Pathological THEN 4 ELSE PDenArg

\* The values dist_ can draw.  dist_ is built in the initializer list from
\* the argument, before the constructor's body replaces p_num_ and p_den_.
dist == 0 .. (PDenArg - 1)

\* Mutant: the promotion loop runs while lvl <= max_level_.
randomLevelOffByOne == {l \in 1 .. max_level + 1 : TRUE}

\* The levels randomLevel() can return: a draw below p_num_ promotes, any
\* other one stops the loop.
randomLevel == {l \in Levels : /\ l > 1 => \E d \in dist : d < p_num
                               /\ l < max_level => \E d \in dist : d >= p_num}

NoLinks == [l \in Levels |-> NULL]

Init == /\ key = [n \in Node |-> NULL]
        /\ value = [n \in Node |-> NULL]
        /\ height = [c \in Cell |-> IF c = HEAD THEN max_level ELSE 0]
        /\ next = [c \in Cell |-> NoLinks]
        /\ level = 1
        /\ size = 0
        /\ pc = "idle"
        /\ req = NULL
        /\ x = HEAD /\ i = 0 /\ update = NoLinks /\ cur = NULL
        /\ resp = NULL
        /\ it = NULL /\ itValid = TRUE

Alive == {n \in Node : height[n] > 0}

-----------------------------------------------------------------------------
(* The search loop, shared by every keyed operation. *)

Request == [op : {"Insert", "Put"}, key : Key, val : Val]
             \cup [op : {"Erase", "Get", "Contains", "Seek"}, key : Key, val : {NULL}]

Answer(o, ok, k, v) == [op |-> o, ok |-> ok, key |-> k, val |-> v]

Call(r) == /\ pc = "idle"
           /\ pc' = "search"
           /\ req' = r
           /\ resp' = NULL
           /\ x' = HEAD
           /\ i' = level
           /\ UNCHANGED <<heap, level, size, update, cur, iter>>

\* Mutant: the loop advances onto a node whose key equals the target.
CanAdvanceOnto == next[x][i] # NULL /\ key[next[x][i]] <= req.key

\* x->next_[i] && x->next_[i]->key < target
CanAdvance == next[x][i] # NULL /\ key[next[x][i]] < req.key

Advance == /\ pc = "search"
           /\ CanAdvance
           /\ x' = next[x][i]
           /\ UNCHANGED <<heap, level, size, pc, req, i, update, cur, resp, iter>>

\* The predecessor of this level is recorded by the modifying operations.
Descend == /\ pc = "search"
           /\ ~CanAdvance
           /\ update' = IF req.op \in {"Insert", "Put", "Erase"}
                        THEN [update EXCEPT ![i] = x] ELSE update
           /\ i' = i - 1
           /\ pc' = IF i = 1 THEN "act" ELSE "search"
           /\ UNCHANGED <<heap, level, size, req, x, cur, resp, iter>>

\* x = x->next_[0], after the search
Found == next[x][1]

\* Mutant: the node tested is the predecessor.
HitPredecessor == x # HEAD /\ key[x] = req.key

\* x && x->key == key
Hit == Found # NULL /\ key[Found] = req.key

\* The call returns r and its locals go out of scope.
Return(r) == /\ pc' = "idle"
             /\ req' = NULL
             /\ resp' = r
             /\ x' = HEAD /\ i' = 0 /\ update' = NoLinks
             /\ UNCHANGED cur

-----------------------------------------------------------------------------
(* Lookups. *)

Contains == /\ pc = "act" /\ req.op = "Contains"
            /\ Return(Answer("Contains", Hit, NULL, NULL))
            /\ UNCHANGED <<heap, level, size, iter>>

Get == /\ pc = "act" /\ req.op = "Get"
       /\ Return(Answer("Get", Hit, NULL, IF Hit THEN value[Found] ELSE NULL))
       /\ UNCHANGED <<heap, level, size, iter>>

Seek == /\ pc = "act" /\ req.op = "Seek"
        /\ Return(Answer("Seek", Found # NULL, NULL, NULL))
        /\ it' = Found /\ itValid' = TRUE
        /\ UNCHANGED <<heap, level, size>>

\* Mutant: the chain of the top level is taken for the whole list.
FirstOfTop == next[HEAD][level]

\* head_->next_[0]
First == next[HEAD][1]

Begin == /\ pc = "idle"
         /\ it' = First /\ itValid' = TRUE
         /\ UNCHANGED <<heap, level, size, pc, req, locals, resp>>

IterNext == /\ pc = "idle" /\ itValid /\ it # NULL
            /\ it' = next[it][1]
            /\ UNCHANGED <<heap, level, size, pc, req, locals, resp, itValid>>

\* Iterator::key() and Iterator::value().
IterRead == /\ pc = "idle" /\ itValid /\ it # NULL
            /\ resp' = Answer("Iter", TRUE, key[it], value[it])
            /\ UNCHANGED <<heap, level, size, pc, req, locals, iter>>

-----------------------------------------------------------------------------
(* Insert and Put. *)

InsertDuplicate == /\ pc = "act" /\ req.op = "Insert" /\ Hit
                   /\ Return(Answer("Insert", FALSE, NULL, NULL))
                   /\ UNCHANGED <<heap, level, size, iter>>

\* Mutant: an overwrite is counted as an insertion.
PutOverwriteCounts == /\ pc = "act" /\ req.op = "Put" /\ Hit
                      /\ value' = [value EXCEPT ![Found] = req.val]
                      /\ size' = size + 1
                      /\ Return(Answer("Put", FALSE, NULL, NULL))
                      /\ UNCHANGED <<key, height, next, level, iter>>

PutOverwrite == /\ pc = "act" /\ req.op = "Put" /\ Hit
                /\ value' = [value EXCEPT ![Found] = req.val]
                /\ Return(Answer("Put", FALSE, NULL, NULL))
                /\ UNCHANGED <<key, height, next, level, size, iter>>

\* x->value = value throws std::bad_alloc: a std::string keeps what it had.
PutNoMemory == /\ pc = "act" /\ req.op = "Put" /\ Hit
               /\ Return(Answer("bad_alloc", FALSE, NULL, NULL))
               /\ UNCHANGED <<heap, level, size, iter>>

\* update[i] = head_ for the levels that were empty so far.
Pred(l) == IF l > level THEN HEAD ELSE update[l]

\* Mutant: level_ is not raised for a taller tower.
RaisedNot(lvl) == level

Raised(lvl) == IF lvl > level THEN lvl ELSE level

\* Mutant: the two assignments of the splice in the other order.
SplicedSwapped(n, lvl) ==
    [c \in Cell |-> [l \in Levels |->
        IF l <= lvl /\ c \in {n, Pred(l)} THEN n ELSE next[c][l]]]

\* Mutant: the new node does not take over its predecessors' links.
SplicedAtEnd(n, lvl) ==
    [c \in Cell |-> [l \in Levels |->
        IF l <= lvl /\ c = Pred(l) THEN n ELSE next[c][l]]]

\* n->next_[l] = update[l]->next_[l]; update[l]->next_[l] = n
Spliced(n, lvl) ==
    [c \in Cell |-> [l \in Levels |->
        IF l <= lvl /\ c = n THEN next[Pred(l)][l]
        ELSE IF l <= lvl /\ c = Pred(l) THEN n
        ELSE next[c][l]]]

\* `new` returns any address that is not in use.
InsertNew(n, lvl) == /\ pc = "act" /\ req.op \in {"Insert", "Put"} /\ ~Hit
                     /\ height[n] = 0
                     /\ key' = [key EXCEPT ![n] = req.key]
                     /\ value' = [value EXCEPT ![n] = req.val]
                     /\ height' = [height EXCEPT ![n] = lvl]
                     /\ next' = Spliced(n, lvl)
                     /\ level' = Raised(lvl)
                     /\ size' = size + 1
                     /\ Return(Answer(req.op, TRUE, NULL, NULL))
                     /\ UNCHANGED iter

\* `new` throws std::bad_alloc.  The exception leaves the call after level_
\* was raised (lines 192-195, 217-220) and before anything was linked.
InsertNoMemory(lvl) == /\ pc = "act" /\ req.op \in {"Insert", "Put"} /\ ~Hit
                       /\ level' = Raised(lvl)
                       /\ Return(Answer("bad_alloc", FALSE, NULL, NULL))
                       /\ UNCHANGED <<heap, size, iter>>

-----------------------------------------------------------------------------
(* Erase. *)

EraseMiss == /\ pc = "act" /\ req.op = "Erase" /\ ~Hit
             /\ Return(Answer("Erase", FALSE, NULL, NULL))
             /\ UNCHANGED <<heap, level, size, iter>>

\* Mutant: the unlinking loop leaves out the base level.
UnlinkedAboveBase(n) ==
    [c \in Cell |-> [l \in Levels |->
        IF 1 < l /\ l <= level /\ c = update[l] /\ next[c][l] = n THEN next[n][l]
        ELSE next[c][l]]]

\* if (update[l]->next_[l] == x) update[l]->next_[l] = x->next_[l], for l < level_
Unlinked(n) ==
    [c \in Cell |-> [l \in Levels |->
        IF l <= level /\ c = update[l] /\ next[c][l] = n THEN next[n][l]
        ELSE next[c][l]]]

\* Memory that is not allocated holds nothing: its links read as nullptr.
Freed(links, n) == [links EXCEPT ![n] = NoLinks]

EraseHit == /\ pc = "act" /\ req.op = "Erase" /\ Hit
            /\ next' = Freed(Unlinked(Found), Found)
            /\ key' = [key EXCEPT ![Found] = NULL]
            /\ value' = [value EXCEPT ![Found] = NULL]
            /\ height' = [height EXCEPT ![Found] = 0]
            /\ size' = size - 1
            /\ itValid' = (itValid /\ it # Found)
            /\ pc' = "shrink"
            /\ req' = NULL
            /\ resp' = Answer("Erase", TRUE, NULL, NULL)
            /\ x' = HEAD /\ i' = 0 /\ update' = NoLinks
            /\ UNCHANGED <<level, cur, it>>

\* level_ > 1 && head_->next_[level_ - 1] == nullptr
TopEmpty == level > 1 /\ next[HEAD][level] = NULL

Shrink == /\ pc = "shrink" /\ TopEmpty
          /\ level' = level - 1
          /\ UNCHANGED <<heap, size, pc, req, locals, resp, iter>>

EraseReturn == /\ pc = "shrink" /\ ~TopEmpty
               /\ pc' = "idle"
               /\ UNCHANGED <<heap, level, size, req, locals, resp, iter>>

-----------------------------------------------------------------------------
(* Clear and the destructor: delete the level-0 chain, then reset. *)

ClearBegin(o) == /\ pc = "idle"
                 /\ pc' = IF o = "Clear" THEN "clear" ELSE "destroy"
                 /\ cur' = First
                 /\ resp' = Answer(o, TRUE, NULL, NULL)
                 /\ itValid' = (itValid /\ it = NULL)
                 /\ UNCHANGED <<heap, level, size, req, x, i, update, it>>

\* Mutant: the loop deletes head_->next_[0] and never moves the link.
ClearStepFirst == /\ pc \in {"clear", "destroy"} /\ cur # NULL
                  /\ cur' = First
                  /\ height' = [height EXCEPT ![cur] = 0]
                  /\ UNCHANGED <<key, value, next, level, size, pc, req, x, i, update, resp, iter>>

ClearStep == /\ pc \in {"clear", "destroy"} /\ cur # NULL
             /\ cur' = next[cur][1]
             /\ next' = Freed(next, cur)
             /\ key' = [key EXCEPT ![cur] = NULL]
             /\ value' = [value EXCEPT ![cur] = NULL]
             /\ height' = [height EXCEPT ![cur] = 0]
             /\ UNCHANGED <<level, size, pc, req, x, i, update, resp, iter>>

ClearEnd == /\ pc \in {"clear", "destroy"} /\ cur = NULL
            /\ next' = [next EXCEPT ![HEAD] = NoLinks]
            /\ level' = 1
            /\ size' = 0
            /\ pc' = IF pc = "clear" THEN "idle" ELSE "destroyed"
            /\ height' = IF pc = "clear" THEN height ELSE [height EXCEPT ![HEAD] = 0]
            /\ UNCHANGED <<key, value, req, locals, resp, iter>>

-----------------------------------------------------------------------------
\* What a running call does next.
Step == \/ Advance \/ Descend
        \/ Contains \/ Get \/ Seek
        \/ InsertDuplicate \/ PutOverwrite \/ PutNoMemory
        \/ \E n \in Node, lvl \in randomLevel : InsertNew(n, lvl)
        \/ \E lvl \in randomLevel : InsertNoMemory(lvl)
        \/ EraseMiss \/ EraseHit \/ Shrink \/ EraseReturn
        \/ ClearStep \/ ClearEnd

\* What a client does between calls.
Client == \/ \E r \in Request : Call(r)
          \/ ClearBegin("Clear") \/ ClearBegin("Destroy")
          \/ Begin \/ IterNext \/ IterRead

Next == Step \/ Client

Spec == Init /\ [][Next]_vars

\* A running call keeps running; nobody has to make a call.
FairSpec == Spec /\ WF_vars(Step)
-----------------------------------------------------------------------------
(* Properties. *)

Rank == 0 .. max_level

\* Type invariant.  A node in use has a key, a value and a tower of at least
\* one level, the sentinel a tower of max_level_; the locals hold what their
\* C++ types allow, and the search loop only runs on levels that exist.
TypeOK ==
    /\ key \in [Node -> Key \cup {NULL}]
    /\ value \in [Node -> Val \cup {NULL}]
    /\ height \in [Cell -> Rank]
    /\ next \in [Cell -> [Levels -> Node \cup {NULL}]]
    /\ \A n \in Alive : key[n] \in Key /\ value[n] \in Val
    /\ height[HEAD] = IF pc = "destroyed" THEN 0 ELSE max_level
    /\ level \in Levels
    /\ size \in Nat
    /\ pc \in {"idle", "search", "act", "shrink", "clear", "destroy", "destroyed"}
    /\ req \in IF pc \in {"search", "act"} THEN Request ELSE {NULL}
    /\ x \in Cell
    /\ i \in Rank /\ (pc = "search" => i > 0)
    /\ update \in [Levels -> Cell \cup {NULL}]
    /\ cur \in Node \cup {NULL}
    /\ it \in Node \cup {NULL}
    /\ itValid \in BOOLEAN

\* The list is whole: no Clear or destructor is taking it apart.
Whole == pc \in {"idle", "search", "act", "shrink"}

Linked == Alive \cup {HEAD}

After(c, n) == c = HEAD \/ key[c] < key[n]

\* next[c][l] is the first node after c, in key order, whose tower reaches
\* level l; NULL if there is none.
LinkExact(c, l) ==
    /\ next[c][l] # NULL => /\ next[c][l] \in Alive
                            /\ height[next[c][l]] >= l
                            /\ After(c, next[c][l])
    /\ \A n \in Alive : height[n] >= l /\ After(c, n)
                         => next[c][l] # NULL /\ key[next[c][l]] <= key[n]

\* Every forward pointer of every level skips exactly the nodes that are too
\* short for the level: each level is sorted, is a sublist of the one below,
\* misses no node and never leads to deleted memory, whatever sequence of
\* Insert, Put and Erase built it (the splices at lines 197-200, 222-225 and
\* 248-252).
LinksExact == Whole => \A c \in Linked : \A l \in 1 .. height[c] : LinkExact(c, l)

\* No two nodes carry the same key: Insert and Put always find the node that
\* is there (lines 188 and 212), however the search got to it.
KeysUnique == \A m, n \in Alive : key[m] = key[n] => m = n

\* update[l] is where a node with key req.key belongs on level l.
PredExact(l) ==
    /\ update[l] \in Linked
    /\ height[update[l]] >= l
    /\ update[l] # HEAD => key[update[l]] < req.key
    /\ next[update[l]][l] # NULL => key[next[update[l]][l]] >= req.key

\* The search (lines 238-244, 294-300, 311-318) only dereferences nodes that
\* are allocated, indexes next_ inside the node's tower, never passes the
\* target, and leaves in update the predecessor of every level in use.
SearchExact ==
    pc \in {"search", "act"} =>
        /\ x \in Linked
        /\ x # HEAD => key[x] < req.key
        /\ i <= level /\ (pc = "search" => height[x] >= i)
        /\ pc = "act" => i = 0 /\ (Found # NULL => key[Found] >= req.key)
        /\ req.op \in {"Insert", "Put", "Erase"} => \A l \in i + 1 .. level : PredExact(l)

\* level_ covers every tower, so no search starts below a node's top link and
\* no Erase leaves a link of the node it deletes (lines 192-195, 217-220,
\* 256-258).
LevelExact == Whole => \A n \in Alive : height[n] <= level

\* size() is the number of nodes that are allocated: nothing is leaked and
\* nothing is counted twice (lines 201, 226, 254, 152).
SizeExact == Whole => size = Cardinality(Alive)

\* Clear deletes every node exactly once: the node it is about to delete is
\* still allocated, what is left of the base chain is intact, and when the chain
\* ends nothing is left (lines 144-149).
ClearExact ==
    pc \in {"clear", "destroy"} =>
        /\ \A n \in Alive : LinkExact(n, 1)
        /\ IF cur = NULL THEN Alive = {}
           ELSE cur \in Alive /\ \A n \in Alive : key[cur] <= key[n]

\* A node is deleted only by Erase of its key and by Clear: an Iterator whose
\* node was not deleted stands on allocated memory, across any Insert or Put
\* (the note at line 73 promises less).
IteratorAlive == itValid /\ it # NULL => Whole /\ it \in Alive

\* Every call returns, whatever shape the list has: the search, the level
\* reduction and the deletion loop all terminate.
CallsReturn == pc # "idle" ~> pc \in {"idle", "destroyed"}

\* The skip list implements the ordered map of module Memtable: every answer
\* of every operation, and every position of the iterator, is the map's.  A
\* Clear in progress is already done for the caller, who cannot look.
Contents == [k \in Key |->
    IF Whole /\ \E n \in Alive : key[n] = k
    THEN value[CHOOSE n \in Alive : key[n] = k]
    ELSE NULL]

Cursor == IF ~itValid THEN BAD ELSE IF it = NULL THEN NULL ELSE key[it]

MT == INSTANCE Memtable WITH map <- Contents, cursor <- Cursor

ImplementsMemtable == MT!Spec

=============================================================================
