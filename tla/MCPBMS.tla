------------------------------- MODULE MCPBMS -------------------------------
(* Two bicycles, in the order 1, 2 of their documents.                       *)
EXTENDS PBMS

TwoBikes == {1, 2}

Bound(taps, thefts, drops, cuts, edits) ==
    [k \in Kinds |-> CASE k = "taps"   -> taps
                       [] k = "thefts" -> thefts
                       [] k = "drops"  -> drops
                       [] k = "cuts"   -> cuts
                       [] k = "edits"  -> edits]

PBMSLimit == Bound(2, 2, 1, 1, 1)
=============================================================================
