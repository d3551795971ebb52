---------------------------- MODULE SlotCalendar ----------------------------
(***************************************************************************)
(* What schedules and slots promise to everybody else, with no call, no    *)
(* worker and no statement that could fail: rooms appear, a room gets one  *)
(* schedule, for good, and its slots are half hours of that schedule, one  *)
(* at a time and in any order.                                             *)
(***************************************************************************)
EXTENDS SlotBuilder

CONSTANTS
    Rooms,    \* the rooms that ever exist
    Hours,    \* the weekly hours [days, start, end] that are ever asked for
    Makers,   \* who cuts slots, each giving them ids of its own
    Days      \* the days that are ever cut into slots

VARIABLES
    rooms,    \* the rooms
    hours,    \* the schedule of each room, or Closed
    slots     \* the slots

vars == <<rooms, hours, slots>>

Closed == [days |-> {}]

(* Slot s of a room, as w makes it.                                        *)
SlotRow(room, s, w) == [room |-> room, startAt |-> s.startAt, endAt |-> s.endAt, by |-> w]

Init ==
    /\ rooms = {}
    /\ hours = [room \in Rooms |-> Closed]
    /\ slots = {}

OpenRoom(room) ==
    /\ room \notin rooms
    /\ rooms' = rooms \cup {room}
    /\ UNCHANGED <<hours, slots>>

SetHours(room, sch) ==
    /\ room \in rooms /\ hours[room] = Closed
    /\ sch.days # {} /\ sch.days \subseteq 1 .. 7
    /\ sch.start + SlotMinutes <= sch.end
    /\ hours' = [hours EXCEPT ![room] = sch]
    /\ UNCHANGED <<rooms, slots>>

CutSlot(room, day) ==
    /\ slots' # slots       \* implied below, and quick to decide
    /\ Weekday(day) \in hours[room].days
    /\ \E s \in DaySlots(hours[room], day) :
          /\ \A t \in slots : t.room = room => t.startAt # s.startAt
          /\ \E w \in Makers : slots' = slots \cup {SlotRow(room, s, w)}
    /\ UNCHANGED <<rooms, hours>>

Next ==
    \E room \in Rooms :
        \/ OpenRoom(room)
        \/ \E sch \in Hours : SetHours(room, sch)
        \/ \E day \in Days : CutSlot(room, day)

Spec == Init /\ [][Next]_vars
=============================================================================
