----------------------------- MODULE MCHashRing -----------------------------
(* Instances of HashRing for TLC.                                          *)
EXTENDS HashRing

CONSTANTS s1, s2, s3, s4, s5

Hashing(a, b, c, d, e) ==
  [s \in Server |-> CASE s = s1 -> a [] s = s2 -> b [] s = s3 -> c [] s = s4 -> d [] OTHER -> e]

\* One replica point each; two each: interleaved, nested, and with points that coincide.
SmallHashings ==
  {Hashing(<<3>>, <<1>>, <<4>>, <<0>>, <<9>>),
   Hashing(<<0, 5>>, <<6, 1>>, <<2, 7>>, <<8, 3>>, <<4, 9>>),
   Hashing(<<0, 9>>, <<1, 8>>, <<7, 2>>, <<3, 6>>, <<5, 4>>),
   Hashing(<<0, 5>>, <<5, 1>>, <<2, 5>>, <<8, 8>>, <<1, 9>>)}
=============================================================================
