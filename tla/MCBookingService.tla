-------------------------- MODULE MCBookingService --------------------------
(***************************************************************************)
(* Small instances of BookingService for TLC.                              *)
(***************************************************************************)
EXTENDS BookingService, TLC

CONSTANTS alice, bob, root, s1, s2, s3, r1, r2, office, client, maker

MCUsers    == {alice, bob, root}
MCAdmins   == {root}
MCSlots    == {s1, s2, s3}
MCRequests == {r1, r2}
MCClients  == {client}
OneRoom    == {office}

(* Day 0 is a Sunday.  The office may open from 0:00 to 1:00 every day or  *)
(* from 0:15 to 1:00 on Sundays: s1 and s2 are slots of the first hours,   *)
(* at midnight of two days, s3 one of the second, across s1.               *)
MCHours == {[days |-> {1, 7}, start |-> 0, end |-> 60],
            [days |-> {7}, start |-> 15, end |-> 60]}

HalfHour(t) == [room |-> office, startAt |-> t, endAt |-> t + 30, by |-> maker]

MCRowOf   == s1 :> HalfHour(0) @@ s2 :> HalfHour(1440) @@ s3 :> HalfHour(15)
MCStartAt == s1 :> 0 @@ s2 :> 1440 @@ s3 :> 15

(* The clock starts with s1, and moves past its start.                     *)
MCMoments == {1}

Symmetry == Permutations(Requests) \cup Permutations({alice, bob})
=============================================================================
