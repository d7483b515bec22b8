------------------------------ MODULE BikeLock ------------------------------
(***************************************************************************)
(* What the lock of a bicycle promises, without servos, serial bytes, GPS   *)
(* readings or a network: a powered lock is engaged, released or on its way *)
(* between the two; it takes the mode "locked" only with the bolt in,       *)
(* "driving" only with the bolt out, raises a theft only for a locked       *)
(* bicycle whose bolt is in, and after each change of mode tells the        *)
(* bicycle's document once, or not at all, before the bolt moves again.     *)
(* Module Firmware implements it; module PBMS is composed of such locks.    *)
(***************************************************************************)

DRIVE  == 0      \* Value.h, enum bicycleState
LOCKED == 1
STEEL  == 2      \* the code's spelling of "stolen"

VARIABLES
    on,          \* the board has power
    mode,        \* DRIVE, LOCKED or STEEL
    bolt,        \* "in" (engaged), "out" (released), "loose" (moving or unknown)
    due,         \* the document is to be told of the mode
    told         \* the mode the document was told last

vars == <<on, mode, bolt, due, told>>

Init == on = FALSE /\ mode = DRIVE /\ bolt = "loose" /\ due = FALSE /\ told = DRIVE

\* The board starts: it pulls the bolt out, believes it is being ridden, and tells
\* nobody.
PowerOn == /\ ~on
           /\ on' = TRUE
           /\ mode' = DRIVE
           /\ bolt' = "out"
           /\ UNCHANGED <<due, told>>

\* Power is lost, possibly halfway through a movement or before the report.
PowerOff == /\ on
            /\ on' = FALSE
            /\ bolt' = "loose"
            /\ due' = FALSE
            /\ UNCHANGED <<mode, told>>

\* A command starts a movement; the mode is not touched until it is finished.
StartMoving == /\ on
               /\ bolt # "loose"
               /\ ~due
               /\ bolt' = "loose"
               /\ UNCHANGED <<on, mode, due, told>>

FinishLock == /\ on
              /\ bolt = "loose"
              /\ bolt' = "in"
              /\ mode' = LOCKED
              /\ due' = TRUE
              /\ UNCHANGED <<on, told>>

FinishUnlock == /\ on
                /\ bolt = "loose"
                /\ bolt' = "out"
                /\ mode' = DRIVE
                /\ due' = TRUE
                /\ UNCHANGED <<on, told>>

\* A theft is raised only while locked, and only while the bolt really is in.
RaiseTheft == /\ on
              /\ mode = LOCKED
              /\ bolt = "in"
              /\ ~due
              /\ mode' = STEEL
              /\ due' = TRUE
              /\ UNCHANGED <<on, bolt, told>>

\* One attempt to tell the document, which may be dropped.
Report == /\ on
          /\ due
          /\ due' = FALSE
          /\ told' \in {told, mode}
          /\ UNCHANGED <<on, mode, bolt>>

Next == \/ PowerOn \/ PowerOff \/ StartMoving \/ FinishLock \/ FinishUnlock
        \/ RaiseTheft \/ Report

Spec == Init /\ [][Next]_vars
=============================================================================
