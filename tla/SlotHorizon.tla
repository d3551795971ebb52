---------------------------- MODULE SlotHorizon ----------------------------
(***************************************************************************)
(* Builder.Build as the worker calls it (internal/worker/slot_worker.go):  *)
(* every state is a schedule and the range of days that the worker         *)
(* generates for it, which moves on by a day.                              *)
(***************************************************************************)
EXTENDS SlotBuilder

CONSTANTS
    Minutes,    \* the start and end times of schedules
    WeekdaySets,\* their sets of weekdays
    Days,       \* the number of days generated
    LastDay     \* bound on the calendar

VARIABLES
    sch,        \* a schedule that passes the validation of Service.Create
    from        \* the first day generated

(* A schedule's times are of the form 15:04, its days numbers from 1 to 7. *)
ASSUME ConstantsAssumption ==
    /\ Minutes \subseteq 0 .. DayMinutes - 1
    /\ WeekdaySets \subseteq SUBSET (1 .. 7)
    /\ Days \in Nat /\ LastDay \in Nat

Init ==
    /\ sch \in {s \in [days : WeekdaySets, start : Minutes, end : Minutes] :
                   s.end - s.start >= SlotMinutes}
    /\ from = 0

NextDay ==
    /\ from < LastDay
    /\ from' = from + 1
    /\ UNCHANGED sch

Spec == Init /\ [][NextDay]_<<sch, from>>

Horizon == Build(sch, from, from + Days)

(* The loop of Build cuts a day into the slots that DaySlots defines.      *)
LoopMeetsDefinition ==
    Cut(from * DayMinutes + sch.start, from * DayMinutes + sch.end) = DaySlots(sch, from)

(* Build makes exactly the slots that a reader of the schedule expects:    *)
(* on its weekdays, from its start on in half hours, none past its end.    *)
BuildMeetsReference ==
    Horizon = {Slot(t) : t \in
        {t \in from * DayMinutes .. (from + Days) * DayMinutes - 1 :
            LET minute  == t % DayMinutes
                weekday == ((t \div DayMinutes + 6) % 7) + 1
            IN  /\ weekday \in sch.days
                /\ minute >= sch.start /\ minute + SlotMinutes <= sch.end
                /\ (minute - sch.start) % SlotMinutes = 0}}

(* A day later the days in common are cut the same way, so that inserting  *)
(* them again conflicts with the same rows, and only one day is new.       *)
HorizonMovesByADay ==
    [][/\ Horizon' \ Horizon
             = {s \in Horizon' : s.startAt >= (from + Days) * DayMinutes}
       /\ Horizon \ Horizon'
             = {s \in Horizon : s.startAt < (from + 1) * DayMinutes}]_<<sch, from>>
=============================================================================
