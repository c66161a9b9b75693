---------------------------- MODULE MCOfflineApp ----------------------------
(* Instances of OfflineApp for TLC.  The texts lie on both sides of each of    *)
(* base45's limits: a group of 65535 and of 65536, a tail of 255 and of 256, a *)
(* length that is 1 modulo 3, and a character outside the alphabet.            *)
EXTENDS OfflineApp

BoundaryCodes ==
  {<<>>, <<0>>, <<30, 5>>, <<31, 5>>, <<15, 16, 32, 30, 5>>, <<16, 16, 32>>,
   <<0, -1, 0>>}
==============================================================================
