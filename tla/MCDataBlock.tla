---------------------------- MODULE MCDataBlock -----------------------------
(* Keys and values for the runs of DataBlock: the empty key, which is a    *)
(* prefix of the others, and keys that differ in the first or last byte.   *)
EXTENDS DataBlock

KeyDef == {<<>>, <<0, 0>>, <<0, 9>>, <<9>>}
ValueDef == {<<>>, <<7>>}
=============================================================================
