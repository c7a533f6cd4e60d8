------------------------------- MODULE Devices -------------------------------
(***************************************************************************)
(* The devices a sketch relies on to keep what it told them, and the board *)
(* it runs on, side by side.                                               *)
(***************************************************************************)
EXTENDS DS3231, NOKIA_LCD, Board

\* What a device or a board tells the sketch, and what the sketch told it, is
\* not lost between the two: the alarms of the clock, the cursor and the
\* picture of the display, the place of the registers.
DevicesAsTold == AlarmsAreKept /\ DisplayFollows /\ BoardIsUnderstood
=============================================================================
