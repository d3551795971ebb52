--------------------------- MODULE MCBookingLists ---------------------------
(***************************************************************************)
(* Small instances of BookingLists for TLC.                                *)
(***************************************************************************)
EXTENDS BookingLists

CONSTANTS b1, b2, b3, b4

FourIds == {b1, b2, b3, b4}

(* An int of four bits stands for one of 64.  Page 7 is past the last, and  *)
(* its offset leaves the int with two or three to a page, to come back as   *)
(* -4 and as 2.                                                            *)
SmallPages == {-1, 0, 1, 2, 7}
(* The default, one and two to a page, and one too many.                   *)
SmallSizes == {0, 1, 2, 4}

Symmetry == Permutations(Ids)
=============================================================================
