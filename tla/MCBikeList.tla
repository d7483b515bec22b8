----------------------------- MODULE MCBikeList -----------------------------
(* Two bicycles, in the order 1, 2 of their documents.                       *)
EXTENDS BikeList

TwoBikes == {1, 2}
=============================================================================
