------------------------------ MODULE MCAlarm ------------------------------
(* Two bicycles, in the order 1, 2 of their documents.                       *)
EXTENDS Alarm

TwoBikes == {1, 2}
============================================================================
