---------------------------- MODULE SlotBuilder ----------------------------
(***************************************************************************)
(* internal/slot/builder.go: the half-hour slots a weekly schedule cuts a  *)
(* range of days into.  Times are minutes; day 0 is a Sunday, and the      *)
(* whole program works in UTC, so every day has the same length.           *)
(***************************************************************************)
EXTENDS Integers

SlotMinutes == 30
DayMinutes  == 1440

(* time.Weekday with the code's correction: Sunday is 7, not 0.            *)
WeekdayFromZero(day) == day % 7                                  \* defect
Weekday(day) == IF day % 7 = 0 THEN 7 ELSE day % 7

Slot(t) == [startAt |-> t, endAt |-> t + SlotMinutes]

(* The inner loop, step by step: the slots of [t, end), a last one that    *)
(* would reach past the end left out.                                      *)
CutKeepingRest(start, end) ==                                    \* defect
    LET cut[t \in start .. end + SlotMinutes] ==
            IF t < end THEN {Slot(t)} \cup cut[t + SlotMinutes] ELSE {}
    IN  cut[start]

Cut(start, end) ==
    LET cut[t \in start .. end] ==
            IF t < end /\ t + SlotMinutes <= end
            THEN {Slot(t)} \cup cut[t + SlotMinutes] ELSE {}
    IN  cut[start]

(* What it amounts to: slot k of the day starts k half hours after the     *)
(* schedule does.                                                          *)
SlotsPerDay == DayMinutes \div SlotMinutes

DaySlots(sch, day) ==
    {Slot(day * DayMinutes + sch.start + k * SlotMinutes) :
        k \in {k \in 0 .. SlotsPerDay - 1 : sch.start + (k + 1) * SlotMinutes <= sch.end}}

(* Builder.Build over the days from .. to - 1.                             *)
BuildThroughTo(sch, from, to) ==                                 \* defect
    UNION {DaySlots(sch, day) : day \in {d \in from .. to : Weekday(d) \in sch.days}}

Build(sch, from, to) ==
    UNION {DaySlots(sch, day) : day \in {d \in from .. to - 1 : Weekday(d) \in sch.days}}

-----------------------------------------------------------------------------
Overlap(a, b) == a.startAt < b.endAt /\ b.startAt < a.endAt
=============================================================================
