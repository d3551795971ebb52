--------------------------- MODULE SlotReservation ---------------------------
(***************************************************************************)
(* What the booking service promises about slots, with no requests, no     *)
(* database and no conference service in sight: a booking takes a slot     *)
(* nobody holds, may give it up once, and never comes back.                *)
(***************************************************************************)
CONSTANTS
    BookingIds,     \* every booking that may ever be created
    Slots           \* every slot that may ever be reserved

Fresh    == "fresh"      \* the booking was not created (yet)
Released == "released"   \* the booking was cancelled

VARIABLE holds      \* holds[b]: the slot booking b holds, or a mark

Init == holds = [b \in BookingIds |-> Fresh]

(* A booking is born holding a slot that no other booking holds.           *)
Reserve(b, s) ==
    /\ holds[b] = Fresh
    /\ \A c \in BookingIds : holds[c] # s
    /\ holds' = [holds EXCEPT ![b] = s]

(* A booking gives its slot up, for good.                                  *)
Release(b) ==
    /\ holds[b] \in Slots
    /\ holds' = [holds EXCEPT ![b] = Released]

Next == \E b \in BookingIds : Release(b) \/ \E s \in Slots : Reserve(b, s)

Spec == Init /\ [][Next]_holds
=============================================================================
