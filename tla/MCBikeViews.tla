---------------------------- MODULE MCBikeViews ----------------------------
(* Two bicycles, in the order 1, 2 of their documents.                       *)
EXTENDS BikeViews

TwoBikes == {1, 2}
=============================================================================
