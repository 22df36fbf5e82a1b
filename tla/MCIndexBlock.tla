---------------------------- MODULE MCIndexBlock ----------------------------
(* Dividers and handles for the run of IndexBlock: the empty key, a key    *)
(* and one that it is a prefix of, and a key above both.                   *)
EXTENDS IndexBlock

DividerDef == {<<>>, <<1>>, <<1, 0>>, <<3>>}
HandleDef == {<<0, 5>>, <<5, 1>>}
=============================================================================
