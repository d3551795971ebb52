------------------------------- MODULE MCSeed -------------------------------
(***************************************************************************)
(* A small instance of Seed for TLC.                                       *)
(***************************************************************************)
EXTENDS Seed, TLC

CONSTANTS board, focus, w1, w2

MCRooms == <<board, focus>>
MCRuns  == {w1, w2}

(* One slot a day, the board room's at 9:00.                               *)
HalfHour(start) == [days |-> 1 .. 7, start |-> start, end |-> start + 30]
MCHours      == board :> HalfHour(540) @@ focus :> HalfHour(780)
MCOtherHours == HalfHour(550)

Symmetry == Permutations(Runs)
=============================================================================
