----------------------------- MODULE Positions -----------------------------
(***************************************************************************)
(* The circle of positions of a hash ring, and the servers on it.          *)
(***************************************************************************)
EXTENDS Integers

CONSTANTS
  Server,    \* addresses
  HashSize,  \* the number of positions: 2^32 in the code
  None       \* no owner

ASSUME RingAssumption == HashSize \in Nat \ {0} /\ None \notin Server

Position == 0 .. HashSize - 1

\* How far position h is from k, clockwise.
Distance(k, h) == IF h >= k THEN h - k ELSE h - k + HashSize
=============================================================================
