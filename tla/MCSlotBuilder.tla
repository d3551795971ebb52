--------------------------- MODULE MCSlotBuilder ---------------------------
(***************************************************************************)
(* SlotHorizon on boundary inputs.                                         *)
(***************************************************************************)
EXTENDS SlotHorizon

(* Half hours that fit, that nearly fit, and the ends of the day.          *)
BoundaryMinutes == {0, 1, 15, 29, 30, 31, 59, 60, 61, 90, 725,
                    1379, 1380, 1408, 1409, 1410, 1439}
SomeWeekdays    == {{7}, {6, 7}, {1, 3}, 1 .. 7}
=============================================================================
