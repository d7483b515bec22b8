----------------------------- MODULE MCBleLink -----------------------------
(* Two locks and something else in reach, at two distances.                  *)
EXTENDS BleLink

TwoSignals == {-70, -50}
============================================================================
