---------------------------- MODULE MCFirmware ----------------------------
(* Small instances of Firmware for TLC.                                      *)
EXTENDS Firmware

\* Two places that differ in both coordinates, so that a point with the
\* latitude of one and the longitude of the other is neither.
TwoPlaces == {<<1, 2>>, <<2, 1>>}
Numbers   == 0..2
CR        == {13}

Bound(bytes, moves, misses, outages, reboots) ==
    [k \in Kinds |-> CASE k = "bytes"   -> bytes
                       [] k = "moves"   -> moves
                       [] k = "misses"  -> misses
                       [] k = "outages" -> outages
                       [] k = "reboots" -> reboots]

SafetyLimit  == Bound(2, 1, 1, 1, 1)
LiveLimit    == Bound(3, 2, 1, 0, 0)
TapLimit     == Bound(2, 0, 0, 0, 0)
RideLimit    == Bound(1, 1, 0, 0, 0)
===========================================================================
