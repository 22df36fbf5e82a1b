------------------------------ MODULE Memtable ------------------------------
(***************************************************************************)
(* What the memtable promises its caller: an ordered map from keys to      *)
(* values with Insert, Put, Erase, Get, Contains, Seek, Clear and a        *)
(* forward iterator.  No nodes, towers or pointers: module SkipList is the *)
(* implementation, and is shown to implement this specification.           *)
(*                                                                         *)
(* A call is a request followed by one answer; the map changes in the step *)
(* that answers.  The iterator is a cursor: the key it stands on, NULL at  *)
(* the end, BAD once the entry it stood on has been removed.               *)
(***************************************************************************)
EXTENDS Integers

CONSTANTS Key,    \* keys, ordered as integers
          Val,    \* values
          NULL,   \* absent value, end of iteration, no request
          BAD     \* a cursor whose entry is gone

VARIABLES map,    \* Key -> Val, NULL where there is no entry
          req,    \* the call in progress, NULL between calls
          resp,   \* the last answer
          cursor  \* the iterator

vars == <<map, req, resp, cursor>>

Request == [op : {"Insert", "Put"}, key : Key, val : Val]
             \cup [op : {"Erase", "Get", "Contains", "Seek"}, key : Key, val : {NULL}]

\* The answer to operation o: its boolean, and a key and a value where it
\* returns them.
Answer(o, ok, k, v) == [op |-> o, ok |-> ok, key |-> k, val |-> v]

Present == {k \in Key : map[k] # NULL}

\* c is the least key of S, NULL if S is empty.
LeastOf(c, S) == IF S = {} THEN c = NULL ELSE c \in S /\ \A k \in S : c <= k

Init == /\ map = [k \in Key |-> NULL]
        /\ req = NULL
        /\ resp = NULL
        /\ cursor = NULL

Call(r) == /\ req = NULL
           /\ req' = r
           /\ resp' = NULL
           /\ UNCHANGED <<map, cursor>>

\* Insert leaves an existing entry alone; Put overwrites it.
DoInsert == /\ req # NULL /\ req.op \in {"Insert", "Put"}
            /\ map' = IF req.op = "Insert" /\ req.key \in Present
                      THEN map
                      ELSE [map EXCEPT ![req.key] = req.val]
            /\ resp' = Answer(req.op, req.key \notin Present, NULL, NULL)
            /\ UNCHANGED cursor

\* A new entry or a new value needs memory; without it the map stays as it was.
DoThrow == /\ req # NULL
           /\ req.op = "Put" \/ (req.op = "Insert" /\ req.key \notin Present)
           /\ resp' = Answer("bad_alloc", FALSE, NULL, NULL)
           /\ UNCHANGED <<map, cursor>>

DoErase == /\ req # NULL /\ req.op = "Erase"
           /\ map' = [map EXCEPT ![req.key] = NULL]
           /\ resp' = Answer("Erase", req.key \in Present, NULL, NULL)
           /\ cursor' = IF cursor = req.key THEN BAD ELSE cursor

DoGet == /\ req # NULL /\ req.op = "Get"
         /\ resp' = Answer("Get", req.key \in Present, NULL, map[req.key])
         /\ UNCHANGED <<map, cursor>>

DoContains == /\ req # NULL /\ req.op = "Contains"
              /\ resp' = Answer("Contains", req.key \in Present, NULL, NULL)
              /\ UNCHANGED <<map, cursor>>

DoSeek == /\ req # NULL /\ req.op = "Seek"
          /\ cursor' \in Key \cup {NULL}
          /\ LeastOf(cursor', {k \in Present : req.key <= k})
          /\ resp' = Answer("Seek", cursor' # NULL, NULL, NULL)
          /\ UNCHANGED map

Return == req' = NULL /\ (DoInsert \/ DoThrow \/ DoErase \/ DoGet \/ DoContains \/ DoSeek)

Clear(o) == /\ req = NULL
            /\ map' = [k \in Key |-> NULL]
            /\ resp' = Answer(o, TRUE, NULL, NULL)
            /\ cursor' = IF cursor = NULL THEN NULL ELSE BAD
            /\ UNCHANGED req

Begin == /\ req = NULL
         /\ cursor' \in Key \cup {NULL}
         /\ LeastOf(cursor', Present)
         /\ UNCHANGED <<map, req, resp>>

IterNext == /\ req = NULL /\ cursor \in Key
            /\ cursor' \in Key \cup {NULL}
            /\ LeastOf(cursor', {k \in Present : cursor < k})
            /\ UNCHANGED <<map, req, resp>>

IterRead == /\ req = NULL /\ cursor \in Key
            /\ resp' = Answer("Iter", TRUE, cursor, map[cursor])
            /\ UNCHANGED <<map, req, cursor>>

Next == \/ \E r \in Request : Call(r)
        \/ Return
        \/ Clear("Clear") \/ Clear("Destroy")
        \/ Begin \/ IterNext \/ IterRead

Spec == Init /\ [][Next]_vars
=============================================================================
