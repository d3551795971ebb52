--------------------------- MODULE BookingService ---------------------------
(***************************************************************************)
(* The service as its clients see it: Bookings on top of SlotCalendar,     *)
(* which SlotGeneration implements, with the calls that read both: GET     *)
(* /rooms/{roomID}/slots/list, GET /bookings/my and GET /rooms/list, and   *)
(* with POST /rooms/create.                                                *)
(*                                                                         *)
(* A client makes one of these calls after the other; a step of it is one  *)
(* statement.  Slot ids are UUIDs, and RowOf says which row each names.    *)
(***************************************************************************)
EXTENDS Bookings, FiniteSets

CONSTANTS
    Clients,    \* who makes the calls of this module
    Rooms,      \* the rooms that ever exist
    Hours,      \* the weekly hours that rooms are given
    RowOf,      \* the row of each slot id: [room, startAt, endAt, by]
    LastDay,    \* bound on the days that are cut into slots and asked for
    Moments     \* the times the clock stops at

ASSUME ServiceAssumption ==
    /\ \A s, t \in Slots : RowOf[s] = RowOf[t] => s = t
    /\ \A s \in Slots : RowOf[s].room \in Rooms /\ StartAt[s] = RowOf[s].startAt
    /\ Moments \subseteq 0 .. MaxTime

VARIABLES
    rooms,      \* table rooms
    hours,      \* the schedules of the rooms
    lateRooms,  \* rooms whose abandoned INSERT may still be executed
    call,       \* the call each client makes, or made last
    reply       \* the answer to it

calendarVars == <<rooms, hours>>
clientVars   == <<lateRooms, call, reply>>
serviceVars  == <<vars, calendarVars, clientVars>>

Calendar == INSTANCE SlotCalendar WITH
    Makers <- {RowOf[s].by : s \in Slots}, Days <- 0 .. LastDay,
    slots <- {RowOf[s] : s \in slots}

ASSUME HoursAssumption ==
    Hours \subseteq [days : SUBSET Int, start : 0 .. Calendar!DayMinutes - 1,
                     end : 0 .. Calendar!DayMinutes - 1]

Idle    == [step |-> "idle"]
NoReply == [code |-> "none"]

ServiceInit ==
    /\ Init
    /\ Calendar!Init
    /\ lateRooms = {}
    /\ call = [c \in Clients |-> Idle]
    /\ reply = [c \in Clients |-> NoReply]

-----------------------------------------------------------------------------
(* The control flow of a client's call.                                    *)

(* The requests that had been answered when the call was made: nobody in   *)
(* the code keeps them, but the client may have heard of them.             *)
Heard == {r \in Requests : pc[r] = "done"}

Asks(c, what) ==
    /\ call[c].step \in {"idle", "done"}
    /\ call' = [call EXCEPT ![c] = what]
    /\ reply' = [reply EXCEPT ![c] =
           IF what.step = "done" THEN [code |-> what.refused] ELSE NoReply]
    /\ UNCHANGED <<vars, calendarVars, lateRooms>>

Refused(code) == [step |-> "done", refused |-> code]

GoesOn(c, next) ==
    /\ call' = [call EXCEPT ![c].step = next]
    /\ UNCHANGED reply

Gets(c, answer) ==
    /\ call' = [call EXCEPT ![c].step = "done"]
    /\ reply' = [reply EXCEPT ![c] = answer]

OK(rows) == [code |-> "OK", rows |-> rows]

UnderWay == {c \in Clients : call[c].step \notin {"idle", "done"}}

(* The INSERTs that these clients wait for may have been sent, and may yet *)
(* be executed.                                                            *)
LeaveInserts(clients) ==
    \E sent \in SUBSET (Rooms \ (rooms \cup lateRooms)) :
        /\ Cardinality(sent) <= Cardinality({c \in clients : call[c].step = "insertRoom"})
        /\ lateRooms' = lateRooms \cup sent

(* A read fails or is cut off: unlike ListAll of the schedules, these      *)
(* lists look at rows.Err.                                                 *)
CallFails(c) ==
    /\ c \in UnderWay
    /\ Gets(c, [code |-> "Internal"])
    /\ LeaveInserts({c})
    /\ UNCHANGED <<vars, calendarVars>>

-----------------------------------------------------------------------------
(* GET /rooms/{roomID}/slots/list                                          *)

ListAvailable(c, room, day) ==
    Asks(c, [step |-> "getRoom", room |-> room, day |-> day, heard |-> Heard])

GetRoom(c) ==
    /\ call[c].step = "getRoom"
    /\ IF call[c].room \in rooms THEN GoesOn(c, "listSlots")
                                 ELSE Gets(c, [code |-> "RoomNotFound"])
    /\ UNCHANGED <<vars, calendarVars, lateRooms>>

StartsOn(s, day) ==
    StartAt[s] >= day * Calendar!DayMinutes /\ StartAt[s] < (day + 1) * Calendar!DayMinutes

(* LEFT JOIN bookings ... AND status = 'active', and IsBooked left out.    *)
FreeSlotsOfUnbooked(room, day) ==                                \* defect
    {s \in slots : /\ RowOf[s].room = room /\ StartsOn(s, day)
                   /\ \A b \in Requests : bookings[b] = NoBooking \/ bookings[b].slotId # s}

FreeSlotsToMidnight(room, day) ==                                \* defect
    {s \in slots : /\ RowOf[s].room = room /\ ActiveOn(s) = {}
                   /\ StartAt[s] >= day * Calendar!DayMinutes
                   /\ StartAt[s] <= (day + 1) * Calendar!DayMinutes}

FreeSlots(room, day) ==
    {s \in slots : RowOf[s].room = room /\ StartsOn(s, day) /\ ActiveOn(s) = {}}

ListSlots(c) ==
    /\ call[c].step = "listSlots"
    /\ Gets(c, OK(FreeSlots(call[c].room, call[c].day)))
    /\ UNCHANGED <<vars, calendarVars, lateRooms>>

-----------------------------------------------------------------------------
(* GET /bookings/my: the clock is read, then the table.                    *)

ListMy(c, u) ==
    Asks(c, IF u \in Admins THEN Refused("Forbidden")
            ELSE [step |-> "listMine", user |-> u, at |-> now, heard |-> Heard])

MineOnlyActive(u, from) ==                                       \* defect
    {[id |-> b, status |-> bookings[b].status] : b \in
        {b \in Requests : /\ bookings[b].status = "active" /\ bookings[b].userId = u
                          /\ StartAt[bookings[b].slotId] >= from}}

Mine(u, from) ==
    {[id |-> b, status |-> bookings[b].status] : b \in
        {b \in Requests : /\ bookings[b] # NoBooking /\ bookings[b].userId = u
                          /\ StartAt[bookings[b].slotId] >= from}}

ListByUserFuture(c) ==
    /\ call[c].step = "listMine"
    /\ Gets(c, OK(Mine(call[c].user, call[c].at)))
    /\ UNCHANGED <<vars, calendarVars, lateRooms>>

-----------------------------------------------------------------------------
(* GET /rooms/list, POST /rooms/create                                     *)

ListRooms(c) == Asks(c, [step |-> "listRooms"])

SelectRooms(c) ==
    /\ call[c].step = "listRooms"
    /\ Gets(c, OK(rooms))
    /\ UNCHANGED <<vars, calendarVars, lateRooms>>

(* valid: the name is not blank, a capacity is positive.                   *)
CreateRoom(c, u, valid) ==
    Asks(c, IF u \notin Admins THEN Refused("Forbidden")
            ELSE IF ~valid THEN Refused("InvalidRequest")
            ELSE [step |-> "insertRoom"])

(* The id is the database's: there is no second room to conflict with.     *)
InsertRoom(c) ==
    /\ call[c].step = "insertRoom"
    /\ UNCHANGED <<vars, lateRooms>>
    /\ \E room \in Rooms \ lateRooms :
          Calendar!OpenRoom(room) /\ Gets(c, [code |-> "Created", room |-> room])

LateRoom(room) ==
    /\ room \in lateRooms
    /\ lateRooms' = lateRooms \ {room}
    /\ UNCHANGED <<vars, call, reply>>
    /\ Calendar!OpenRoom(room) \/ UNCHANGED calendarVars

-----------------------------------------------------------------------------
(* The whole.                                                              *)

(* A crash ends the calls under way here too, and may come while no other  *)
(* request is in service.                                                  *)
ServiceCrash ==
    /\ \/ Crash
       \/ UnderWay # {} /\ (\A r \in Requests : pc[r] \notin AtService) /\ UNCHANGED vars
    /\ call' = [c \in Clients |-> IF c \in UnderWay THEN Idle ELSE call[c]]
    /\ LeaveInserts(UnderWay)
    /\ UNCHANGED <<calendarVars, reply>>

(* Tick, from one of the interesting moments to a later one.               *)
TimePasses ==
    /\ \E t \in Moments : t > now /\ now' = t
    /\ UNCHANGED <<slots, bookings, links, req, pc, result, inflight, crashes>>
    /\ UNCHANGED <<calendarVars, clientVars>>

SetHours(room, sch) ==
    /\ UNCHANGED <<vars, clientVars>>
    /\ Calendar!SetHours(room, sch)

CutSlot(s) ==
    /\ SlotAppears(s)
    /\ Calendar!CutSlot(RowOf[s].room, StartAt[s] \div Calendar!DayMinutes)
    /\ UNCHANGED clientVars

BookingStep ==
    /\ \E r \in Requests :
          \/ \E u \in Users, s \in Slots : CreateHandler(r, u, s, FALSE)
          \/ \E u \in Users, b \in Requests : CancelHandler(r, u, b)
          \/ Handle(r)
          \/ InsertAbandoned(r) \/ UpdateAbandoned(r)
          \/ ApplyLate(r) \/ DropLate(r)
    /\ UNCHANGED <<calendarVars, clientVars>>

ClientStep(c) ==
    \/ \E room \in Rooms, day \in 0 .. LastDay : ListAvailable(c, room, day)
    \/ \E u \in Users : ListMy(c, u) \/ \E valid \in BOOLEAN : CreateRoom(c, u, valid)
    \/ ListRooms(c)
    \/ GetRoom(c) \/ ListSlots(c) \/ ListByUserFuture(c) \/ SelectRooms(c) \/ InsertRoom(c)
    \/ CallFails(c)

ServiceNext ==
    \/ BookingStep
    \/ \E c \in Clients : ClientStep(c)
    \/ \E room \in Rooms : LateRoom(room) \/ \E sch \in Hours : SetHours(room, sch)
    \/ \E s \in Slots : CutSlot(s)
    \/ TimePasses
    \/ ServiceCrash

ServiceSpec == ServiceInit /\ [][ServiceNext]_serviceVars

-----------------------------------------------------------------------------
(* Properties.                                                             *)

(* Whoever holds a room holds it alone.  The index on bookings compares    *)
(* slots, the constraint on slots compares starts: only together with one  *)
(* schedule per room do they keep two active bookings from overlapping.    *)
RoomNeverDoubleBooked ==
    \A b, c \in Requests :
        /\ bookings[b].status = "active" /\ bookings[c].status = "active" /\ b # c
        /\ RowOf[bookings[b].slotId].room = RowOf[bookings[c].slotId].room
        => ~Calendar!Overlap(RowOf[bookings[b].slotId], RowOf[bookings[c].slotId])

CancelAsked(b) == \E r \in Requests : req[r].op = "cancel" /\ req[r].target = b

Offers(c)  == reply[c].code = "OK" /\ "day" \in DOMAIN call[c]
IsShown(c) == reply[c].code = "OK" /\ "user" \in DOMAIN call[c]

(* A list of slots agrees with all that was answered before it was asked   *)
(* for.  A slot booked with 201 is not on it unless somebody asks for the  *)
(* cancellation; a slot given up with 200 is on it unless booked again.    *)
ListRespectsAnswers ==
    \A c \in Clients : Offers(c) =>
        \A r \in call[c].heard :
            /\ result[r] = "Created" /\ req[r].slot \in reply[c].rows => CancelAsked(r)
            /\ result[r] = "Cancelled" =>
                LET s == bookings[req[r].target].slotId IN
                \/ s \in reply[c].rows
                \/ RowOf[s].room # call[c].room \/ ~StartsOn(s, call[c].day)
                \/ \E b \in Requests : /\ b # req[r].target
                                       /\ bookings[b] # NoBooking /\ bookings[b].slotId = s

(* What is offered was cut from the schedule of the room asked for, on the *)
(* day asked for; so a room without one has nothing (api.yaml:515).        *)
OffersFollowHours ==
    \A c \in Clients : Offers(c) =>
        \A s \in reply[c].rows :
            /\ RowOf[s].room = call[c].room
            /\ Calendar!Weekday(call[c].day) \in hours[call[c].room].days
            /\ Calendar!Slot(StartAt[s]) \in Calendar!DaySlots(hours[call[c].room], call[c].day)

(* A booking answered with 201 before, of a slot yet to start, is shown to *)
(* its user, also once cancelled; and nobody else's is.                    *)
MineAreShown ==
    \A c \in Clients : IsShown(c) =>
        /\ \A r \in call[c].heard :
              /\ result[r] = "Created" /\ req[r].user = call[c].user
              /\ StartAt[req[r].slot] >= call[c].at
              => \E row \in reply[c].rows :
                    row.id = r /\ (row.status = "active" \/ CancelAsked(r))
        /\ \A row \in reply[c].rows : bookings[row.id].userId = call[c].user
=============================================================================
