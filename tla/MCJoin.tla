------------------------------- MODULE MCJoin -------------------------------
(* Instances of Join for TLC.                                              *)
EXTENDS Join

\* Groups smaller than a round and groups as large as one; with the defaults for 0.
SmallOptions ==
  {[size |-> 2, parallelismFactor |-> 1, stopped |-> FALSE],
   [size |-> 0, parallelismFactor |-> 0, stopped |-> TRUE]}
=============================================================================
